--------------------------- MODULE MemoryLemmas ------------------------------
(***************************************************************************)
(* The operations of Memory on one address space and on one array of       *)
(* mappings: what each keeps, and what it computes.                        *)
(***************************************************************************)
EXTENDS Memory, FiniteSetTheorems, WellFoundedInduction, TLAPS

-----------------------------------------------------------------------------
(* How the proofs reason about the loops of the code.  The model writes a   *)
(* loop as a recursive function of the number of turns; what holds before   *)
(* the first turn, and is kept by each, holds at the end.                   *)

\* A set of numbers that has 0 and goes on up to n has all of 0 .. n.
LEMMA Climb ==
  ASSUME NEW n \in Nat, NEW U, 0 \in U, \A k \in 1 .. n : k - 1 \in U => k \in U
  PROVE  0 .. n \subseteq U
<1> DEFINE B == (0 .. n) \ U
<1>1. PICK R : /\ IsWellFoundedOn(R, Nat)
               /\ \A x, y \in Nat : y < x => <<y, x>> \in R
  <2>1. \A x, y \in Nat : y < x => <<y, x>> \in OpToRel(<, Nat)
    BY Zenon DEF OpToRel
  <2> QED BY <2>1, NatLessThanWellFounded, Zenon
<1>2. SUFFICES ASSUME B # {} PROVE FALSE
  BY Zenon
<1>3. B \subseteq Nat
  OBVIOUS
<1> HIDE DEF B
<1>4. PICK x \in B : \A y \in B : ~ (<<y, x>> \in R)
  BY <1>1, <1>2, <1>3, WFMin, Zenon
<1>5. x # 0 /\ x \in 1 .. n
  BY DEF B
<1>6. x - 1 \in Nat /\ x - 1 < x
  BY <1>5
<1>7. x - 1 \notin B
  BY <1>1, <1>4, <1>6, <1>3, Zenon
<1> QED BY <1>4, <1>5, <1>7 DEF B

\* The smallest member of a set of numbers.
LEMMA MinIn ==
  ASSUME NEW S \in SUBSET Nat, S # {}
  PROVE  Min(S) \in S /\ \A y \in S : Min(S) <= y
<1>1. PICK R : /\ IsWellFoundedOn(R, Nat)
               /\ \A x, y \in Nat : y < x => <<y, x>> \in R
  <2>1. \A x, y \in Nat : y < x => <<y, x>> \in OpToRel(<, Nat)
    BY Zenon DEF OpToRel
  <2> QED BY <2>1, NatLessThanWellFounded, Zenon
<1>2. PICK x \in S : \A y \in S : ~ (<<y, x>> \in R)
  BY <1>1, WFMin, Zenon
<1>3. \A y \in S : x <= y
  <2> SUFFICES ASSUME NEW y \in S PROVE ~ (y < x)
    OBVIOUS
  <2> QED BY <1>1, <1>2, Zenon
<1> QED BY <1>3, Zenon DEF Min

\* The largest of some numbers up to n is one of them.
LEMMA MaxIn ==
  ASSUME NEW n \in Nat, NEW S \in SUBSET (0 .. n), S # {}
  PROVE  Max(S) \in S /\ \A y \in S : y <= Max(S)
<1> DEFINE R == {n - y : y \in S}
<1>1. R \in SUBSET Nat /\ R # {}
  <2>1. \A y \in S : y \in 0 .. n
    BY Zenon
  <2>2. \A y \in S : n - y \in Nat
    BY <2>1
  <2>3. PICK y : y \in S
    BY Zenon
  <2>4. n - y \in R
    BY <2>3, Zenon
  <2> QED BY <2>2, <2>4, Zenon
<1>2. Min(R) \in R /\ \A z \in R : Min(R) <= z
  BY <1>1, MinIn, Zenon
<1>3. PICK m \in S : Min(R) = n - m
  BY <1>2, Zenon
<1>4. \A y \in S : m >= y
  <2> SUFFICES ASSUME NEW y \in S PROVE m >= y
    BY Zenon
  <2>1. n - y \in R
    BY Zenon
  <2>2. n - m <= n - y
    BY <1>2, <1>3, <2>1, Zenon
  <2> QED BY <2>2
<1>5. Max(S) \in S /\ \A y \in S : Max(S) >= y
  BY <1>4, Zenon DEF Max
<1> QED BY <1>5, Zenon

\* Counting the members of a set of numbers up to n.
LEMMA Counting ==
  ASSUME NEW n \in Nat, NEW S \in SUBSET (0 .. n)
  PROVE  /\ Cardinality(S) \in Nat
         /\ Cardinality(S) = 0 <=> S = {}
         /\ \A U \in SUBSET S : Cardinality(U) <= Cardinality(S)
         /\ \A x : x \notin S => Cardinality(S \cup {x}) = Cardinality(S) + 1
         /\ \A x \in S : Cardinality(S \ {x}) = Cardinality(S) - 1
<1>1. IsFiniteSet(0 .. n)
  BY FS_Interval
<1>2. IsFiniteSet(S)
  BY <1>1, FS_Subset, Zenon
<1>3. Cardinality(S) \in Nat
  BY <1>2, FS_CardinalityType, Zenon
<1>4. Cardinality(S) = 0 <=> S = {}
  BY <1>2, FS_EmptySet, Zenon
<1>5. \A U \in SUBSET S : Cardinality(U) <= Cardinality(S)
  BY <1>2, FS_Subset, Zenon
<1>6. \A x : x \notin S => Cardinality(S \cup {x}) = Cardinality(S) + 1
  BY <1>2, FS_AddElement, Zenon
<1>7. \A x \in S : Cardinality(S \ {x}) = Cardinality(S) - 1
  BY <1>2, FS_RemoveElement, Zenon
<1> QED BY <1>3, <1>4, <1>5, <1>6, <1>7, Zenon

\* A function over 1 .. n is a sequence.
LEMMA FunSeq ==
  ASSUME NEW S, NEW n \in Nat, NEW f \in [1 .. n -> S]
  PROVE  f \in Seq(S) /\ Len(f) = n
<1>1. f = [i \in 1 .. n |-> f[i]]
  BY Zenon
<1> DEFINE g == [i \in 1 .. n |-> f[i]]
<1>2. Len(g) = n /\ g \in Seq(S)
  OBVIOUS
<1> QED BY <1>1, <1>2, Zenon

\* f has the states of a loop of n turns that starts from a, turn k of which
\* is the function g[k]; J[k] is what holds after turn k.
IsLoop(f, n, a, g) == f = [k \in 0 .. n |-> IF k = 0 THEN a ELSE g[k][f[k - 1]]]
Keeps(J, n, g) == \A k \in 1 .. n : \A x \in J[k - 1] : g[k][x] \in J[k]

\* A loop whose turns keep J has states, which are in J.
LEMMA LoopExists ==
  ASSUME NEW n \in Nat, NEW J, NEW g, NEW a, a \in J[0], Keeps(J, n, g)
  PROVE  \E f : IsLoop(f, n, a, g) /\ \A k \in 0 .. n : f[k] \in J[k]
<1> DEFINE Good(f, m) == IsLoop(f, m, a, g) /\ \A k \in 0 .. m : f[k] \in J[k]
           U == {m \in 0 .. n : \E f : Good(f, m)}
<1>1. 0 \in U
  <2> DEFINE f == [k \in 0 .. 0 |-> a]
  <2>1. f = [k \in 0 .. 0 |-> IF k = 0 THEN a ELSE g[k][f[k - 1]]]
    OBVIOUS
  <2>2. Good(f, 0)
    BY <2>1 DEF IsLoop
  <2> HIDE DEF Good, f
  <2> QED BY <2>2
<1>2. ASSUME NEW m \in 1 .. n, m - 1 \in U PROVE m \in U
  <2>1. PICK f : Good(f, m - 1)
    BY <1>2, Zenon
  <2> DEFINE h == [k \in 0 .. m |-> IF k = m THEN g[m][f[m - 1]] ELSE f[k]]
  <2>2. ASSUME NEW k \in 0 .. m PROVE h[k] = IF k = 0 THEN a ELSE g[k][h[k - 1]]
    <3>1. CASE k = m
      BY <3>1
    <3>2. CASE k # m
      <4>1. k \in 0 .. m - 1 BY <3>2
      <4>2. f[k] = IF k = 0 THEN a ELSE g[k][f[k - 1]]
        BY <2>1, <4>1, Zenon DEF IsLoop
      <4>3. k # 0 => h[k - 1] = f[k - 1]
        BY <4>1
      <4> QED BY <4>2, <4>1, <4>3
    <3> QED BY <3>1, <3>2, Zenon
  <2>3. IsLoop(h, m, a, g)
    <3> HIDE DEF h
    <3>1. h = [k \in 0 .. m |-> h[k]]
      BY Zenon DEF h
    <3> QED BY <3>1, <2>2, SMTT(30) DEF IsLoop
  <2>4. \A k \in 0 .. m : h[k] \in J[k]
    <3>1. \A k \in 0 .. m - 1 : h[k] \in J[k]
      BY <2>1
    <3>2. m \in 1 .. n /\ f[m - 1] \in J[m - 1]
      BY <2>1
    <3>3. h[m] = g[m][f[m - 1]]
      OBVIOUS
    <3>4. h[m] \in J[m]
      BY <3>2, <3>3, Zenon DEF Keeps
    <3> HIDE DEF h
    <3> QED BY <3>1, <3>4
  <2>5. Good(h, m)
    BY <2>3, <2>4, Zenon
  <2> HIDE DEF Good, h
  <2> QED BY <2>5
<1>3. n \in U
  <2> HIDE DEF U
  <2>1. 0 .. n \subseteq U
    BY <1>1, <1>2, Climb, Zenon
  <2> QED BY <2>1
<1> QED BY <1>3, Zenon

\* The states of a loop are in J.
LEMMA LoopKeeps ==
  ASSUME NEW n \in Nat, NEW J, NEW h, h[0] \in J[0],
         \A k \in 1 .. n : h[k - 1] \in J[k - 1] => h[k] \in J[k]
  PROVE  h[n] \in J[n]
<1> DEFINE U == {k \in 0 .. n : h[k] \in J[k]}
<1>1. 0 \in U
  OBVIOUS
<1>2. \A k \in 1 .. n : k - 1 \in U => k \in U
  OBVIOUS
<1>3. 0 .. n \subseteq U
  <2> HIDE DEF U
  <2> QED BY <1>1, <1>2, Climb, Zenon
<1> QED BY <1>3

-----------------------------------------------------------------------------
(* The loops of the code, one lemma for each.                               *)

\* The loop of AllocPages.
LEMMA AllocPagesLoop ==
  ASSUME NEW a, NEW from, NEW n \in Nat, NEW present, NEW J, a \in J[0],
         \A k \in 1 .. n : \A x \in J[k - 1] : AllocAt(x, from + k - 1, present) \in J[k]
  PROVE  AllocPages(a, from, n, present) \in J[n]
<1> DEFINE Turn(x, k) == AllocAt(x, from + k - 1, present)
           Eq(f) == f = [k \in 0 .. n |-> IF k = 0 THEN a ELSE Turn(f[k - 1], k)]
           g == [k \in 1 .. n |-> [x \in J[k - 1] |-> Turn(x, k)]]
           h == CHOOSE f : Eq(f)
<1>1. AllocPages(a, from, n, present) = h[n]
  BY Zenon DEF AllocPages
<1> HIDE DEF Turn
<1>2. \A k \in 1 .. n : \A x \in J[k - 1] : g[k][x] = Turn(x, k) /\ Turn(x, k) \in J[k]
  BY Zenon DEF Turn
<1> HIDE DEF g
<1>3. PICK f : IsLoop(f, n, a, g) /\ \A k \in 0 .. n : f[k] \in J[k]
  <2>1. Keeps(J, n, g)
    BY <1>2, Zenon DEF Keeps
  <2> QED BY <2>1, LoopExists, Zenon
<1>4. Eq(f)
  <2>1. f = [k \in 0 .. n |-> IF k = 0 THEN a ELSE g[k][f[k - 1]]]
    BY <1>3, Zenon DEF IsLoop
  <2>2. ASSUME NEW k \in 0 .. n, k # 0 PROVE g[k][f[k - 1]] = Turn(f[k - 1], k)
    <3>1. k \in 1 .. n /\ k - 1 \in 0 .. n
      BY <2>2
    <3> QED BY <1>2, <1>3, <3>1, Zenon
  <2> QED BY <2>1, <2>2, Zenon
<1>5. Eq(h)
  <2> HIDE DEF Eq
  <2> QED BY <1>4, Zenon
<1>6. \A k \in 0 .. n : h[k] = IF k = 0 THEN a ELSE Turn(h[k - 1], k)
  <2> HIDE DEF h
  <2> QED BY <1>5, Zenon
<1> HIDE DEF h, Eq
<1>7. h[0] \in J[0] /\ \A k \in 1 .. n : h[k - 1] \in J[k - 1] => h[k] \in J[k]
  <2>1. 0 \in 0 .. n /\ \A k \in 1 .. n : k \in 0 .. n /\ k # 0
    OBVIOUS
  <2> QED BY <1>2, <1>6, <2>1, Zenon
<1> QED BY <1>1, <1>7, LoopKeeps, Zenon

\* The loop of clone_page_table.
LEMMA ClonePagesLoop ==
  ASSUME NEW a, NEW i, NEW parent, NEW J, a \in J[0],
         \A k \in 1 .. NPAGES : \A x \in J[k - 1] :
           (IF TableOf(k - 1) # i THEN x ELSE ClonePage(x, k - 1, parent)) \in J[k]
  PROVE  ClonePages(a, i, parent) \in J[NPAGES]
<1> DEFINE Turn(x, k) == IF TableOf(k - 1) # i THEN x ELSE ClonePage(x, k - 1, parent)
           Eq(f) == f = [k \in 0 .. NPAGES |-> IF k = 0 THEN a ELSE Turn(f[k - 1], k)]
           g == [k \in 1 .. NPAGES |-> [x \in J[k - 1] |-> Turn(x, k)]]
           h == CHOOSE f : Eq(f)
<1>0. NPAGES \in Nat
  BY MemoryAssumption, Zenon
<1>1. ClonePages(a, i, parent) = h[NPAGES]
  BY DEF ClonePages
<1> HIDE DEF Turn
<1>2. \A k \in 1 .. NPAGES : \A x \in J[k - 1] : g[k][x] = Turn(x, k) /\ Turn(x, k) \in J[k]
  BY Zenon DEF Turn
<1> HIDE DEF g
<1>3. PICK f : IsLoop(f, NPAGES, a, g) /\ \A k \in 0 .. NPAGES : f[k] \in J[k]
  <2>1. Keeps(J, NPAGES, g)
    BY <1>2, Zenon DEF Keeps
  <2> QED BY <1>0, <2>1, LoopExists, Zenon
<1>4. Eq(f)
  BY <1>0, <1>2, <1>3 DEF IsLoop
<1>5. Eq(h)
  <2> HIDE DEF Eq
  <2> QED BY <1>4, Zenon
<1>6. \A k \in 0 .. NPAGES : h[k] = IF k = 0 THEN a ELSE Turn(h[k - 1], k)
  <2> HIDE DEF h
  <2> QED BY <1>5, Zenon
<1> HIDE DEF h, Eq
<1>7. h[0] \in J[0] /\ \A k \in 1 .. NPAGES : h[k - 1] \in J[k - 1] => h[k] \in J[k]
  BY <1>2, <1>6, <1>0
<1> QED BY <1>1, <1>7, <1>0, LoopKeeps, Zenon

\* The loop of mm_clone_pdir.
LEMMA CloneTablesLoop ==
  ASSUME NEW a, NEW parent, NTABLES \in Nat, NEW J, a \in J[0],
         \A k \in 1 .. NTABLES : \A x \in J[k - 1] : CloneTable(x, k - 1, parent) \in J[k]
  PROVE  CloneTables(a, parent) \in J[NTABLES]
<1> DEFINE Turn(x, k) == CloneTable(x, k - 1, parent)
           Eq(f) == f = [k \in 0 .. NTABLES |-> IF k = 0 THEN a ELSE Turn(f[k - 1], k)]
           g == [k \in 1 .. NTABLES |-> [x \in J[k - 1] |-> Turn(x, k)]]
           h == CHOOSE f : Eq(f)
<1>1. CloneTables(a, parent) = h[NTABLES]
  BY Zenon DEF CloneTables
<1> HIDE DEF Turn
<1>2. \A k \in 1 .. NTABLES : \A x \in J[k - 1] : g[k][x] = Turn(x, k) /\ Turn(x, k) \in J[k]
  BY Zenon DEF Turn
<1> HIDE DEF g
<1>3. PICK f : IsLoop(f, NTABLES, a, g) /\ \A k \in 0 .. NTABLES : f[k] \in J[k]
  <2>1. Keeps(J, NTABLES, g)
    BY <1>2, Zenon DEF Keeps
  <2> QED BY <2>1, LoopExists, Zenon
<1>4. Eq(f)
  BY <1>2, <1>3 DEF IsLoop
<1>5. Eq(h)
  <2> HIDE DEF Eq
  <2> QED BY <1>4, Zenon
<1>6. \A k \in 0 .. NTABLES : h[k] = IF k = 0 THEN a ELSE Turn(h[k - 1], k)
  <2> HIDE DEF h
  <2> QED BY <1>5, SMTT(30)
<1> HIDE DEF h, Eq
<1>7. h[0] \in J[0] /\ \A k \in 1 .. NTABLES : h[k - 1] \in J[k - 1] => h[k] \in J[k]
  BY <1>2, <1>6
<1> QED BY <1>1, <1>7, LoopKeeps, Zenon

\* The loop of vma_remove.
LEMMA VmaRemoveLoop ==
  ASSUME NEW vs, NEW from, NEW to, NEW n \in Nat, n = Len(vs), NEW J, vs \in J[0],
         \A k \in 1 .. n : \A x \in J[k - 1] :
           Look(x, n + 1 - k, from, to) \in J[k]
  PROVE  VmaRemove(vs, from, to) \in J[n]
<1> DEFINE Turn(x, k) == Look(x, n + 1 - k, from, to)
           Eq(f) == f = [k \in 0 .. n |-> IF k = 0 THEN vs ELSE Turn(f[k - 1], k)]
           g == [k \in 1 .. n |-> [x \in J[k - 1] |-> Turn(x, k)]]
           h == CHOOSE f : Eq(f)
<1>1. VmaRemove(vs, from, to) = h[n]
  BY Zenon DEF VmaRemove
<1> HIDE DEF Turn
<1>2. \A k \in 1 .. n : \A x \in J[k - 1] : g[k][x] = Turn(x, k) /\ Turn(x, k) \in J[k]
  BY Zenon DEF Turn
<1> HIDE DEF g
<1>3. PICK f : IsLoop(f, n, vs, g) /\ \A k \in 0 .. n : f[k] \in J[k]
  <2>1. Keeps(J, n, g)
    BY <1>2, Zenon DEF Keeps
  <2> QED BY <2>1, LoopExists, Zenon
<1>4. Eq(f)
  BY <1>2, <1>3, SMTT(30) DEF IsLoop
<1>5. Eq(h)
  <2> HIDE DEF Eq
  <2> QED BY <1>4, Zenon
<1>6. \A k \in 0 .. n : h[k] = IF k = 0 THEN vs ELSE Turn(h[k - 1], k)
  <2> HIDE DEF h
  <2> QED BY <1>5, SMTT(30)
<1> HIDE DEF h, Eq
<1>7. h[0] \in J[0] /\ \A k \in 1 .. n : h[k - 1] \in J[k - 1] => h[k] \in J[k]
  BY <1>2, <1>6
<1> QED BY <1>1, <1>7, LoopKeeps, Zenon

\* The loop that reads a file into frames.
LEMMA AllocNLoop ==
  ASSUME NEW u, NEW n \in Nat, NEW J, u \in J[0],
         \A k \in 1 .. n : \A x \in J[k - 1] :
           (IF Free(x) = {} THEN x ELSE x \cup {FrameAlloc(x)}) \in J[k]
  PROVE  AllocN(u, n) \in J[n]
<1> DEFINE Turn(x, k) == IF Free(x) = {} THEN x ELSE x \cup {FrameAlloc(x)}
           Eq(f) == f = [k \in 0 .. n |-> IF k = 0 THEN u ELSE Turn(f[k - 1], k)]
           g == [k \in 1 .. n |-> [x \in J[k - 1] |-> Turn(x, k)]]
           h == CHOOSE f : Eq(f)
<1>1. AllocN(u, n) = h[n]
  BY DEF AllocN
<1> HIDE DEF Turn
<1>2. \A k \in 1 .. n : \A x \in J[k - 1] : g[k][x] = Turn(x, k) /\ Turn(x, k) \in J[k]
  BY Zenon DEF Turn
<1> HIDE DEF g
<1>3. PICK f : IsLoop(f, n, u, g) /\ \A k \in 0 .. n : f[k] \in J[k]
  <2>1. Keeps(J, n, g)
    BY <1>2, Zenon DEF Keeps
  <2> QED BY <2>1, LoopExists, Zenon
<1>4. Eq(f)
  BY <1>2, <1>3 DEF IsLoop
<1>5. Eq(h)
  <2> HIDE DEF Eq
  <2> QED BY <1>4, Zenon
<1>6. \A k \in 0 .. n : h[k] = IF k = 0 THEN u ELSE Turn(h[k - 1], k)
  <2> HIDE DEF h
  <2> QED BY <1>5, Zenon
<1> HIDE DEF h, Eq
<1>7. h[0] \in J[0] /\ \A k \in 1 .. n : h[k - 1] \in J[k - 1] => h[k] \in J[k]
  BY <1>2, <1>6
<1> QED BY <1>1, <1>7, LoopKeeps, Zenon

\* The loop of elf_load.
LEMMA ElfLoadLoop ==
  ASSUME NEW a, NEW segs, NEW n \in Nat, n = Len(segs), NEW J, a \in J[0],
         \A k \in 1 .. n : \A x \in J[k - 1] :
           AllocRange(x, segs[k].from, segs[k].to, TRUE) \in J[k]
  PROVE  ElfLoad(a, segs) \in J[n]
<1> DEFINE Turn(x, k) == AllocRange(x, segs[k].from, segs[k].to, TRUE)
           Eq(f) == f = [k \in 0 .. n |-> IF k = 0 THEN a ELSE Turn(f[k - 1], k)]
           g == [k \in 1 .. n |-> [x \in J[k - 1] |-> Turn(x, k)]]
           h == CHOOSE f : Eq(f)
<1>1. ElfLoad(a, segs) = h[n]
  BY DEF ElfLoad
<1> HIDE DEF Turn
<1>2. \A k \in 1 .. n : \A x \in J[k - 1] : g[k][x] = Turn(x, k) /\ Turn(x, k) \in J[k]
  BY Zenon DEF Turn
<1> HIDE DEF g
<1>3. PICK f : IsLoop(f, n, a, g) /\ \A k \in 0 .. n : f[k] \in J[k]
  <2>1. Keeps(J, n, g)
    BY <1>2 DEF Keeps
  <2> QED BY <2>1, LoopExists, Zenon
<1>4. Eq(f)
  <2>1. f = [k \in 0 .. n |-> IF k = 0 THEN a ELSE g[k][f[k - 1]]]
    BY <1>3 DEF IsLoop
  <2>2. ASSUME NEW k \in 0 .. n, k # 0 PROVE g[k][f[k - 1]] = Turn(f[k - 1], k)
    <3>1. k \in 1 .. n /\ k - 1 \in 0 .. n
      BY <2>2
    <3> QED BY <1>2, <1>3, <3>1
  <2> QED BY <2>1, <2>2, Zenon
<1>5. Eq(h)
  <2> HIDE DEF Eq
  <2> QED BY <1>4
<1>6. \A k \in 0 .. n : h[k] = IF k = 0 THEN a ELSE Turn(h[k - 1], k)
  <2> HIDE DEF h
  <2> QED BY <1>5, Zenon
<1> HIDE DEF h, Eq
<1>7. h[0] \in J[0] /\ \A k \in 1 .. n : h[k - 1] \in J[k - 1] => h[k] \in J[k]
  BY <1>2, <1>6
<1> QED BY <1>1, <1>7, LoopKeeps

-----------------------------------------------------------------------------
(* Address spaces and computations.                                         *)

Entry == 0 .. NFRAMES - 1
Space == [pdir : Entry, pt : [Table -> Entry], pte : [Page -> Entry]]
Computation == [used : SUBSET Frame, s : Space, ok : BOOLEAN,
                done : SUBSET Page, hidden : SUBSET Frame]

\* Two entries of an address space never name the same frame, and a page
\* that is present lies in a page table that is.
Separate(s) ==
  /\ \A i \in Table : s.pt[i] # 0 =>
       s.pt[i] # s.pdir /\ \A j \in Table : s.pt[j] = s.pt[i] => i = j
  /\ \A p \in Page : s.pte[p] # 0 =>
       /\ s.pte[p] # s.pdir /\ s.pt[TableOf(p)] # 0
       /\ \A i \in Table : s.pte[p] # s.pt[i]
       /\ \A q \in Page : s.pte[q] = s.pte[p] => p = q

\* An address space that maps nothing yet.
Empty(s) == (\A j \in Table : s.pt[j] = 0) /\ (\A p \in Page : s.pte[p] = 0)

\* The frames marked used are those of others, O, and what the computation
\* has: its address space and the frames it hides.
Exact(a, O) ==
  /\ a.s.pdir # 0 /\ Separate(a.s)
  /\ a.used = O \cup Owned(a.s) \cup a.hidden
  /\ O \cap Owned(a.s) = {} /\ O \cap a.hidden = {} /\ Owned(a.s) \cap a.hidden = {}

\* The numbers that the constants give.
LEMMA Sizes ==
  /\ NFRAMES \in Nat \ {0} /\ NPAGES \in Nat /\ MMAP_BASE \in 1 .. NPAGES - STACK_SIZE
  /\ STACK_SIZE \in Nat \ {0} /\ NTABLES \in Nat \ {0}
  /\ \A p \in Page : TableOf(p) \in Table
  /\ Frame \in SUBSET Nat /\ 0 \notin Frame /\ Frame \in SUBSET Entry
  /\ \A f \in Entry : f # 0 => f \in Frame
<1>1. /\ NFRAMES \in Nat \ {0} /\ NPAGES \in Nat \ {0} /\ PTSIZE \in Nat \ {0}
      /\ STACK_SIZE \in Nat \ {0} /\ MMAP_BASE \in 1 .. NPAGES - STACK_SIZE
  BY MemoryAssumption
<1>2. (NPAGES - 1) \div PTSIZE \in Nat
  BY <1>1
<1>3. ASSUME NEW p \in Page PROVE TableOf(p) \in Table
  <2>1. p \in Nat /\ p <= NPAGES - 1
    BY <1>1 DEF Page
  <2> DEFINE q == p \div PTSIZE
             Q == (NPAGES - 1) \div PTSIZE
  <2>2. q \in Nat /\ PTSIZE * q <= p
    BY <1>1, <2>1
  <2>3. Q \in Nat /\ NPAGES - 1 < PTSIZE * (Q + 1)
    BY <1>1
  <2> HIDE DEF q, Q
  <2>4. q <= Q
    BY <1>1, <2>1, <2>2, <2>3
  <2> QED BY <1>1, <2>2, <2>3, <2>4 DEF q, Q, TableOf, Table, NTABLES
<1> QED BY <1>1, <1>2, <1>3 DEF Frame, NTABLES, Entry

\* mm_frame_alloc hands out a frame that is not in use, or none.
LEMMA FrameAllocFree ==
  ASSUME NEW u
  PROVE  /\ FrameAlloc(u) \in Entry
         /\ FrameAlloc(u) # 0 => FrameAlloc(u) \in Frame /\ FrameAlloc(u) \notin u
         /\ FrameAlloc(u) # 0 <=> Free(u) # {}
<1>1. CASE Free(u) = {}
  BY <1>1, Sizes DEF FrameAlloc, Entry
<1>2. CASE Free(u) # {}
  <2>1. Free(u) \in SUBSET Frame /\ Free(u) \in SUBSET Nat
    BY Sizes, Zenon DEF Free
  <2>2. FrameAlloc(u) \in Free(u)
    BY <1>2, <2>1, MinIn DEF FrameAlloc
  <2> QED BY <1>2, <2>1, <2>2, Sizes, Zenon DEF Free
<1> QED BY <1>1, <1>2, Zenon

\* The frames of an address space.
LEMMA OwnedFrames ==
  ASSUME NEW s \in Space, s.pdir # 0, NEW f
  PROVE  f \in Owned(s) <=>
           f # 0 /\ \/ f = s.pdir
                    \/ \E i \in Table : s.pt[i] = f
                    \/ \E p \in Page : s.pte[p] = f
BY Sizes DEF Owned, Space, Entry

\* mm_alloc_at keeps the bitmap exact: the page and the page table get frames
\* that nobody has, and no other page changes.
LEMMA AllocAtExact ==
  ASSUME NEW O, NEW a \in Computation, Exact(a, O), NEW p \in Page,
         NEW present \in BOOLEAN
  PROVE  /\ AllocAt(a, p, present) \in Computation
         /\ Exact(AllocAt(a, p, present), O)
         /\ ~AllocAt(a, p, present).ok =>
              /\ AllocAt(a, p, present).s = a.s
              /\ AllocAt(a, p, present).done = a.done
              /\ AllocAt(a, p, present).hidden = a.hidden
         /\ AllocAt(a, p, present).ok =>
              /\ a.ok /\ a.s.pte[p] = 0
              /\ AllocAt(a, p, present).s.pdir = a.s.pdir
              /\ AllocAt(a, p, present).done = a.done \cup {p}
              /\ present => /\ AllocAt(a, p, present).hidden = a.hidden
                            /\ AllocAt(a, p, present).s.pte[p] # 0
              /\ ~present => AllocAt(a, p, present).s.pte[p] = 0
              /\ \A q \in Page \ {p} :
                   AllocAt(a, p, present).s.pte[q] = a.s.pte[q]
<1> DEFINE b  == AllocAt(a, p, present)
           f  == FrameAlloc(a.used)
           u1 == a.used \cup {f}
           i  == TableOf(p)
           pt == IF a.s.pt[i] # 0 THEN a.s.pt[i] ELSE FrameAlloc(u1)
           fails == ~a.ok \/ f = 0 \/ pt = 0 \/ a.s.pte[p] > 0
<1>1. /\ a.used \in SUBSET Frame /\ a.s \in Space /\ a.ok \in BOOLEAN
      /\ a.done \in SUBSET Page /\ a.hidden \in SUBSET Frame
      /\ a.s.pdir \in Entry /\ a.s.pt \in [Table -> Entry] /\ a.s.pte \in [Page -> Entry]
      /\ i \in Table
  BY Sizes, Zenon DEF Computation, Space
<1>2. CASE fails
  <2>1. b = [a EXCEPT !.ok = FALSE]
    BY <1>2, Zenon DEF AllocAt
  <2>2. /\ b \in Computation /\ b.used = a.used /\ b.s = a.s /\ b.hidden = a.hidden
        /\ b.done = a.done /\ ~b.ok
    BY <2>1, Zenon DEF Computation
  <2> QED BY <2>1, <2>2, Zenon DEF Exact
<1>3. CASE ~fails
  <2> DEFINE np == [a.s.pt EXCEPT ![i] = pt]
             ne == [a.s.pte EXCEPT ![p] = IF present THEN f ELSE 0]
  <2>1. b = [a EXCEPT !.used = u1 \cup {pt}, !.done = @ \cup {p},
                    !.s = [@ EXCEPT !.pt[i] = pt, !.pte[p] = IF present THEN f ELSE 0],
                    !.hidden = IF present THEN @ ELSE @ \cup {f}]
    BY <1>3, Zenon DEF AllocAt
  <2>2. /\ b.used = a.used \cup {f, pt} /\ b.done = a.done \cup {p}
        /\ b.hidden = IF present THEN a.hidden ELSE a.hidden \cup {f}
        /\ b.ok = a.ok /\ b.s.pdir = a.s.pdir /\ b.s.pt = np /\ b.s.pte = ne
    <3>1. b.s = [a.s EXCEPT !.pt[i] = pt, !.pte[p] = IF present THEN f ELSE 0]
      BY <2>1, Zenon DEF Computation
    <3>2. b.s.pdir = a.s.pdir /\ b.s.pt = np /\ b.s.pte = ne
      BY <3>1, Zenon DEF Space, Computation
    <3>3. /\ b.used = a.used \cup {f, pt} /\ b.done = a.done \cup {p}
          /\ b.hidden = IF present THEN a.hidden ELSE a.hidden \cup {f}
          /\ b.ok = a.ok
      BY <2>1, Zenon DEF Computation
    <3> QED BY <3>2, <3>3, Zenon
  <2>3. /\ f \in Frame /\ f \notin a.used /\ f # 0
        /\ pt \in Entry /\ pt # 0 /\ pt # f
        /\ a.s.pt[i] = 0 => pt \notin a.used
        /\ a.s.pt[i] # 0 => pt = a.s.pt[i]
        /\ a.s.pte[p] = 0 /\ a.ok
    <3>1. f \in Frame /\ f \notin a.used /\ f # 0 /\ a.ok
      BY <1>3, FrameAllocFree, Zenon
    <3>2. a.s.pte[p] = 0
      BY <1>1, <1>3, Sizes DEF Entry
    <3>3. CASE a.s.pt[i] = 0
      BY <1>3, <3>1, <3>2, <3>3, FrameAllocFree, Zenon
    <3>4. CASE a.s.pt[i] # 0
      <4>1. a.s.pt[i] \in a.used
        BY <1>1, <3>4, OwnedFrames, Zenon DEF Exact
      <4> QED BY <1>1, <3>1, <3>2, <3>4, <4>1
    <3> QED BY <3>3, <3>4, Zenon
  <2>4. /\ np \in [Table -> Entry] /\ ne \in [Page -> Entry]
        /\ \A j \in Table : np[j] = IF j = i THEN pt ELSE a.s.pt[j]
        /\ \A q \in Page : ne[q] = IF q = p THEN IF present THEN f ELSE 0 ELSE a.s.pte[q]
    BY <1>1, <2>3, Sizes, Zenon
  <2>5. b \in Computation /\ b.s \in Space
    <3>1. b.s \in Space
      <4>1. b.s = [a.s EXCEPT !.pt[i] = pt, !.pte[p] = IF present THEN f ELSE 0]
        BY <2>1 DEF Computation
      <4>2. b.s = [pdir |-> a.s.pdir, pt |-> np, pte |-> ne]
        <5> HIDE DEF f, u1, i, pt, b
        <5> QED BY <1>1, <4>1, Zenon DEF Space
      <4> HIDE DEF np, ne
      <4> QED BY <1>1, <2>4, <4>2 DEF Space
    <3>2. pt \in Frame
      BY <2>3, Sizes, Zenon
    <3>3. /\ b.used \in SUBSET Frame /\ b.done \in SUBSET Page
          /\ b.hidden \in SUBSET Frame /\ b.ok \in BOOLEAN
      BY <1>1, <2>2, <2>3, <3>2
    <3> HIDE DEF f, u1, i, pt, fails
    <3> QED BY <2>1, <3>1, <3>3, Zenon DEF Computation
  <2> HIDE DEF b, f, u1, i, pt, fails, np, ne
  <2>6. /\ present => Owned(b.s) = Owned(a.s) \cup {pt, f}
        /\ ~present => Owned(b.s) = Owned(a.s) \cup {pt}
    <3>1. \A x : x \in Owned(a.s) <=> x # 0 /\ \/ x = a.s.pdir
                                               \/ \E j \in Table : a.s.pt[j] = x
                                               \/ \E q \in Page : a.s.pte[q] = x
      BY <1>1, OwnedFrames, Zenon DEF Exact
    <3>2. \A x : x \in Owned(b.s) <=> x # 0 /\ \/ x = a.s.pdir
                                               \/ \E j \in Table : np[j] = x
                                               \/ \E q \in Page : ne[q] = x
      BY <2>2, <2>5, OwnedFrames DEF Exact
    <3>3. \A x : x # 0 => ((\E j \in Table : np[j] = x) <=>
                           (x = pt \/ (\E j \in Table : a.s.pt[j] = x)))
      BY <1>1, <2>3, <2>4, Zenon
    <3>4. CASE present
      <4>1. \A x : x # 0 => ((\E q \in Page : ne[q] = x) <=>
                             (x = f \/ (\E q \in Page : a.s.pte[q] = x)))
        BY <1>1, <2>3, <2>4, <3>4, Zenon
      <4> QED BY <2>3, <3>1, <3>2, <3>3, <3>4, <4>1, SMTT(30)
    <3>5. CASE ~present
      <4>1. \A x : x # 0 => ((\E q \in Page : ne[q] = x) <=>
                             (\E q \in Page : a.s.pte[q] = x))
        BY <1>1, <2>3, <2>4, <3>5, Zenon
      <4> QED BY <2>3, <3>1, <3>2, <3>3, <3>5, <4>1, SMTT(30)
    <3> QED BY <3>4, <3>5, Zenon
  <2>7. /\ pt \notin Owned(a.s) \/ pt = a.s.pt[i]
        /\ f \notin Owned(a.s) /\ f \notin O /\ f \notin a.hidden
        /\ pt \notin O /\ pt \notin a.hidden
    <3>1. a.s.pt[i] # 0 => a.s.pt[i] \in Owned(a.s)
      BY <1>1, OwnedFrames, Zenon DEF Exact
    <3> QED BY <2>3, <3>1, Zenon DEF Exact
  <2>8. Separate(b.s)
    <3>1. /\ \A j \in Table : a.s.pt[j] # 0 => a.s.pt[j] \in Owned(a.s)
          /\ \A q \in Page : a.s.pte[q] # 0 => a.s.pte[q] \in Owned(a.s)
          /\ a.s.pdir \in Owned(a.s)
      BY <1>1, OwnedFrames, Zenon DEF Exact
    <3>2. ASSUME NEW j \in Table, np[j] # 0
          PROVE  np[j] # a.s.pdir /\ \A k \in Table : np[k] = np[j] => k = j
      BY <1>1, <2>3, <2>4, <2>7, <3>1, <3>2 DEF Exact, Separate
    <3>3. ASSUME NEW q \in Page, ne[q] # 0
          PROVE  /\ ne[q] # a.s.pdir /\ np[TableOf(q)] # 0
                 /\ \A k \in Table : ne[q] # np[k]
                 /\ \A r \in Page : ne[r] = ne[q] => q = r
      <4>1. TableOf(q) \in Table /\ TableOf(p) = i
        BY Sizes, Zenon DEF i
      <4>2. CASE q = p
        BY <1>1, <2>3, <2>4, <2>7, <3>1, <3>3, <4>1, <4>2 DEF Exact, Separate
      <4>3. CASE q # p
        BY <1>1, <2>3, <2>4, <2>7, <3>1, <3>3, <4>1, <4>3 DEF Exact, Separate
      <4> QED BY <4>2, <4>3, Zenon
    <3> QED BY <2>2, <3>2, <3>3, Zenon DEF Separate
  <2>9. Exact(b, O)
    <3>1. b.s.pdir # 0
      BY <2>2, Zenon DEF Exact
    <3>2. b.used = O \cup Owned(b.s) \cup b.hidden
      BY <2>2, <2>6, Zenon DEF Exact
    <3>3. /\ O \cap Owned(b.s) = {} /\ O \cap b.hidden = {}
          /\ Owned(b.s) \cap b.hidden = {}
      BY <2>2, <2>3, <2>6, <2>7 DEF Exact
    <3> QED BY <2>8, <3>1, <3>2, <3>3, Zenon DEF Exact
  <2> QED BY <2>2, <2>3, <2>4, <2>5, <2>9 DEF b
<1> QED BY <1>2, <1>3, Zenon

\* What a loop over the pages from .. to - 1 may have changed.
Grown(a, b, from, to, present) ==
  /\ b.ok => a.ok
  /\ b.s.pdir = a.s.pdir
  /\ present => b.hidden = a.hidden
  /\ \A p \in Page : b.s.pte[p] # a.s.pte[p] =>
       p \in from .. to - 1 /\ a.s.pte[p] = 0 /\ p \in b.done
  /\ \A p \in b.done \ a.done : p \in from .. to - 1 /\ a.s.pte[p] = 0
  /\ b.ok /\ present => \A p \in from .. to - 1 : b.s.pte[p] # 0

\* A range of pages that is added keeps the bitmap exact, whether memory runs
\* out half way or not; a page that was there stays, and when none was
\* missing all are there.
LEMMA AllocRangeExact ==
  ASSUME NEW O, NEW a \in Computation, Exact(a, O), NEW from \in Nat, NEW to \in Nat,
         to <= NPAGES, NEW present \in BOOLEAN
  PROVE  /\ AllocRange(a, from, to, present) \in Computation
         /\ Exact(AllocRange(a, from, to, present), O)
         /\ Grown(a, AllocRange(a, from, to, present), from, to, present)
<1>1. CASE ~(to > from)
  BY <1>1 DEF AllocRange, Grown
<1>2. CASE to > from
  <2> DEFINE n == to - from
             J == [k \in 0 .. n |-> {x \in Computation :
                     Exact(x, O) /\ Grown(a, x, from, from + k, present)}]
  <2>1. n \in Nat /\ from + n = to
    BY <1>2
  <2>2. a \in J[0]
    <3>1. Grown(a, a, from, from + 0, present)
      BY DEF Grown
    <3> QED BY <2>1, <3>1
  <2>3. ASSUME NEW k \in 1 .. n, NEW x \in J[k - 1]
        PROVE  AllocAt(x, from + k - 1, present) \in J[k]
    <3> DEFINE p == from + k - 1
               y == AllocAt(x, p, present)
    <3>1. p \in Page /\ k - 1 \in 0 .. n /\ k \in 0 .. n /\ k \in Nat
      BY <2>1, Sizes DEF Page
    <3>2. /\ x \in Computation /\ Exact(x, O)
          /\ Grown(a, x, from, from + (k - 1), present)
      BY <2>3, <3>1, Zenon
    <3>3. from + (k - 1) - 1 = p - 1 /\ from + k - 1 = p
      BY <3>1
    <3>4. y \in Computation /\ Exact(y, O)
      BY <3>1, <3>2, AllocAtExact, Zenon
    <3>5. Grown(a, y, from, from + k, present)
      <4>1. CASE ~y.ok
        <5>1. y.s = x.s /\ y.done = x.done /\ y.hidden = x.hidden
          BY <3>1, <3>2, <4>1, AllocAtExact
        <5> HIDE DEF y
        <5> QED BY <3>1, <3>2, <4>1, <5>1, SMT DEF Grown
      <4>2. CASE y.ok
        <5>1. /\ x.ok /\ x.s.pte[p] = 0
              /\ y.s.pdir = x.s.pdir
              /\ y.done = x.done \cup {p}
              /\ present => y.hidden = x.hidden /\ y.s.pte[p] # 0
              /\ ~present => y.s.pte[p] = 0
              /\ \A q \in Page \ {p} : y.s.pte[q] = x.s.pte[q]
          BY <3>1, <3>2, <4>2, AllocAtExact
        <5> HIDE DEF y
        <5>2. a.s.pte[p] = 0
          BY <3>1, <3>2, <5>1, Zenon DEF Grown
        <5>3. \A q : q \in from .. from + k - 1 <=> q \in from .. p - 1 \/ q = p
          BY <3>1
        <5>4. \A q : q \in from .. from + (k - 1) - 1 <=> q \in from .. p - 1
          BY <3>3, Zenon
        <5>5. a.ok /\ y.s.pdir = a.s.pdir /\ (present => y.hidden = a.hidden)
          BY <3>2, <5>1, Zenon DEF Grown
        <5>6. ASSUME NEW q \in Page, y.s.pte[q] # a.s.pte[q]
              PROVE  q \in from .. from + k - 1 /\ a.s.pte[q] = 0 /\ q \in y.done
          BY <3>2, <5>1, <5>2, <5>3, <5>4, <5>6, Zenon DEF Grown
        <5>7. ASSUME NEW q \in y.done \ a.done
              PROVE  q \in from .. from + k - 1 /\ a.s.pte[q] = 0
          BY <3>2, <5>1, <5>2, <5>3, <5>4, Zenon DEF Grown
        <5>8. ASSUME present, NEW q \in from .. from + k - 1
              PROVE  y.s.pte[q] # 0
          <6>1. q \in Page
            BY <2>1, <3>1, Sizes DEF Page
          <6> QED BY <3>2, <5>1, <5>3, <5>4, <5>8, <6>1, Zenon DEF Grown
        <5> HIDE DEF p
        <5> QED BY <5>5, <5>6, <5>7, <5>8, SMTT(30) DEF Grown
      <4> QED BY <4>1, <4>2, Zenon
    <3> HIDE DEF y
    <3> QED BY <3>1, <3>3, <3>4, <3>5, Zenon DEF y
  <2> HIDE DEF J
  <2>4. AllocPages(a, from, n, present) \in J[n]
    BY <2>1, <2>2, <2>3, AllocPagesLoop, Zenon
  <2> QED BY <1>2, <2>1, <2>4 DEF J, AllocRange
<1> QED BY <1>1, <1>2, Zenon

\* mm_unmap_at gives back the frames of the pages that were present, and no
\* other.
LEMMA UnmapAllExact ==
  ASSUME NEW O, NEW a \in Computation, Exact(a, O), NEW ps \in SUBSET Page
  PROVE  /\ UnmapAll(a, ps) \in Computation
         /\ Exact(UnmapAll(a, ps), O)
         /\ UnmapAll(a, ps).s.pdir = a.s.pdir
         /\ UnmapAll(a, ps).hidden = a.hidden
         /\ \A p \in Page :
              UnmapAll(a, ps).s.pte[p] = IF p \in ps THEN 0 ELSE a.s.pte[p]
<1> DEFINE b == UnmapAll(a, ps)
           gone == {p \in ps : a.s.pte[p] > 0}
           back == {a.s.pte[p] : p \in gone}
           ne == [p \in Page |-> IF p \in gone THEN 0 ELSE a.s.pte[p]]
<1>1. /\ a.used \in SUBSET Frame /\ a.s \in Space /\ a.ok \in BOOLEAN
      /\ a.done \in SUBSET Page /\ a.hidden \in SUBSET Frame
      /\ a.s.pdir \in Entry /\ a.s.pt \in [Table -> Entry] /\ a.s.pte \in [Page -> Entry]
  BY Zenon DEF Computation, Space
<1>2. b = [a EXCEPT !.used = a.used \ back, !.s.pte = ne]
  BY <1>1 DEF UnmapAll, FrameFree
<1>3. /\ ne \in [Page -> Entry]
      /\ \A p \in Page : ne[p] = IF p \in ps THEN 0 ELSE a.s.pte[p]
  BY <1>1, Sizes DEF Entry
<1>4. /\ b.used = a.used \ back /\ b.ok = a.ok /\ b.done = a.done
      /\ b.hidden = a.hidden
      /\ b.s = [a.s EXCEPT !.pte = ne]
  <2> HIDE DEF back, ne
  <2> QED BY <1>2, Zenon DEF Computation
<1>5. b.s.pdir = a.s.pdir /\ b.s.pt = a.s.pt /\ b.s.pte = ne /\ b.s \in Space
  <2> HIDE DEF b, ne
  <2> QED BY <1>1, <1>3, <1>4, Zenon DEF Space
<1>6. b \in Computation
  <2> HIDE DEF back, ne
  <2> QED BY <1>1, <1>2, <1>4, <1>5, Zenon DEF Computation
<1>7. \A x : x \in back <=> x # 0 /\ \E p \in ps : a.s.pte[p] = x
  BY <1>1 DEF Entry
<1> HIDE DEF b, gone, back, ne
<1>8. Separate(b.s)
  BY <1>3, <1>5, Sizes, Zenon DEF Exact, Separate
<1>9. Owned(b.s) = Owned(a.s) \ back
  <2>1. \A x : x \in Owned(a.s) <=> x # 0 /\ \/ x = a.s.pdir
                                             \/ \E j \in Table : a.s.pt[j] = x
                                             \/ \E q \in Page : a.s.pte[q] = x
    BY <1>1, OwnedFrames, Zenon DEF Exact
  <2>2. \A x : x \in Owned(b.s) <=> x # 0 /\ \/ x = a.s.pdir
                                             \/ \E j \in Table : a.s.pt[j] = x
                                             \/ \E q \in Page : ne[q] = x
    BY <1>5, OwnedFrames DEF Exact
  <2>3. ASSUME NEW x \in back PROVE x # a.s.pdir /\ \A j \in Table : a.s.pt[j] # x
    BY <1>7, Zenon DEF Exact, Separate
  <2>4. ASSUME NEW x \in back, NEW q \in Page PROVE ne[q] # x
    BY <1>3, <1>7 DEF Exact, Separate
  <2>5. ASSUME NEW x, x # 0, x \notin back, NEW q \in Page, a.s.pte[q] = x PROVE ne[q] = x
    BY <1>3, <1>7, <2>5, Zenon
  <2>6. ASSUME NEW x, x # 0, NEW q \in Page, ne[q] = x PROVE a.s.pte[q] = x
    BY <1>3, <2>6, Zenon
  <2> QED BY <2>1, <2>2, <2>3, <2>4, <2>5, <2>6
<1>10. Exact(b, O)
  <2>1. back \subseteq Owned(a.s)
    BY <1>1, <1>7, OwnedFrames, Zenon DEF Exact
  <2> QED BY <1>4, <1>5, <1>8, <1>9, <2>1, Zenon DEF Exact
<1> QED BY <1>3, <1>4, <1>5, <1>6, <1>10, Zenon DEF b

\* A frame that nobody has in an entry that was empty: of a page table, or of
\* the directory.
LEMMA PutExact ==
  ASSUME NEW O, NEW a \in Computation, Exact(a, O), NEW b \in Computation,
         NEW f \in Frame, f \notin a.used,
         b.used = a.used \cup {f}, b.hidden = a.hidden, b.s.pdir = a.s.pdir,
         \/ /\ b.s.pt = a.s.pt
            /\ \E p \in Page : /\ a.s.pte[p] = 0 /\ b.s.pte[p] = f /\ a.s.pt[TableOf(p)] # 0
                               /\ \A q \in Page \ {p} : b.s.pte[q] = a.s.pte[q]
         \/ /\ b.s.pte = a.s.pte
            /\ \E i \in Table : /\ a.s.pt[i] = 0 /\ b.s.pt[i] = f
                                /\ \A j \in Table \ {i} : b.s.pt[j] = a.s.pt[j]
  PROVE  Exact(b, O)
<1>1. a.s \in Space /\ b.s \in Space /\ f # 0 /\ a.s.pdir # 0 /\ b.s.pdir # 0
  BY Sizes, Zenon DEF Computation, Exact
<1>2. \A x : x \in Owned(a.s) <=> x # 0 /\ \/ x = a.s.pdir
                                           \/ \E j \in Table : a.s.pt[j] = x
                                           \/ \E q \in Page : a.s.pte[q] = x
  BY <1>1, OwnedFrames, Zenon
<1>3. \A x : x \in Owned(b.s) <=> x # 0 /\ \/ x = b.s.pdir
                                           \/ \E j \in Table : b.s.pt[j] = x
                                           \/ \E q \in Page : b.s.pte[q] = x
  BY <1>1, OwnedFrames, Zenon
<1>4. f \notin O /\ f \notin Owned(a.s) /\ f \notin a.hidden
  BY Zenon DEF Exact
<1>5. Owned(b.s) = Owned(a.s) \cup {f} /\ Separate(b.s)
  <2>1. CASE /\ b.s.pt = a.s.pt
             /\ \E p \in Page : /\ a.s.pte[p] = 0 /\ b.s.pte[p] = f /\ a.s.pt[TableOf(p)] # 0
                                /\ \A q \in Page \ {p} : b.s.pte[q] = a.s.pte[q]
    <3>1. Owned(b.s) = Owned(a.s) \cup {f}
      BY <1>1, <1>2, <1>3, <2>1
    <3>2. Separate(b.s)
      BY <1>1, <1>2, <1>4, <2>1, Sizes DEF Exact, Separate
    <3> QED BY <3>1, <3>2, Zenon
  <2>2. CASE /\ b.s.pte = a.s.pte
             /\ \E i \in Table : /\ a.s.pt[i] = 0 /\ b.s.pt[i] = f
                                 /\ \A j \in Table \ {i} : b.s.pt[j] = a.s.pt[j]
    <3>1. Owned(b.s) = Owned(a.s) \cup {f}
      BY <1>1, <1>2, <1>3, <2>2
    <3>2. Separate(b.s)
      BY <1>1, <1>2, <1>4, <2>2, Sizes DEF Exact, Separate
    <3> QED BY <3>1, <3>2, Zenon
  <2> QED BY <2>1, <2>2, Zenon
<1>6. b.used = O \cup Owned(b.s) \cup b.hidden
  BY <1>5 DEF Exact
<1>7. O \cap Owned(b.s) = {} /\ O \cap b.hidden = {} /\ Owned(b.s) \cap b.hidden = {}
  BY <1>4, <1>5 DEF Exact
<1> QED BY <1>1, <1>5, <1>6, <1>7, Zenon DEF Exact

\* One page of clone_page_table.
LEMMA ClonePageExact ==
  ASSUME NEW O, NEW a \in Computation, Exact(a, O), NEW p \in Page, NEW parent \in Space,
         a.s.pte[p] = 0, a.s.pt[TableOf(p)] # 0
  PROVE  /\ ClonePage(a, p, parent) \in Computation
         /\ Exact(ClonePage(a, p, parent), O)
         /\ ClonePage(a, p, parent).hidden = a.hidden
         /\ ClonePage(a, p, parent).s.pdir = a.s.pdir
         /\ ClonePage(a, p, parent).s.pt = a.s.pt
         /\ \A q \in Page \ {p} : ClonePage(a, p, parent).s.pte[q] = a.s.pte[q]
         /\ ClonePage(a, p, parent).ok =>
              a.ok /\ (parent.pte[p] # 0 => ClonePage(a, p, parent).s.pte[p] # 0)
         /\ ClonePage(a, p, parent).s.pte[p] # 0 => parent.pte[p] # 0
<1> DEFINE b == ClonePage(a, p, parent)
           f == FrameAlloc(a.used)
<1>1. /\ a.used \in SUBSET Frame /\ a.s \in Space /\ a.ok \in BOOLEAN
      /\ a.done \in SUBSET Page /\ a.hidden \in SUBSET Frame
      /\ a.s.pdir \in Entry /\ a.s.pt \in [Table -> Entry] /\ a.s.pte \in [Page -> Entry]
  BY Zenon DEF Computation, Space
<1>2. CASE ~a.ok \/ parent.pte[p] = 0
  BY <1>2, Zenon DEF ClonePage
<1>3. CASE ~(~a.ok \/ parent.pte[p] = 0) /\ f = 0
  <2>1. b = [a EXCEPT !.ok = FALSE]
    BY <1>3, Zenon DEF ClonePage
  <2>2. /\ b \in Computation /\ b.used = a.used /\ b.s = a.s /\ b.hidden = a.hidden
        /\ ~b.ok
    BY <2>1, Zenon DEF Computation
  <2> QED BY <2>2, Zenon DEF Exact
<1>4. CASE ~(~a.ok \/ parent.pte[p] = 0) /\ f # 0
  <2>1. b = [a EXCEPT !.used = a.used \cup {f}, !.s.pte[p] = f]
    BY <1>4, Zenon DEF ClonePage
  <2>2. f \in Frame /\ f \notin a.used /\ f \in Entry
    BY <1>4, FrameAllocFree, Zenon
  <2> HIDE DEF f, b
  <2>3. /\ b.used = a.used \cup {f} /\ b.ok = a.ok /\ b.done = a.done
        /\ b.hidden = a.hidden /\ b.s = [a.s EXCEPT !.pte[p] = f]
    BY <2>1, Zenon DEF Computation
  <2>4. /\ b.s.pdir = a.s.pdir /\ b.s.pt = a.s.pt /\ b.s.pte = [a.s.pte EXCEPT ![p] = f]
        /\ b.s \in Space
    BY <1>1, <2>2, <2>3 DEF Space
  <2>5. b \in Computation
    BY <1>1, <2>1, <2>2, <2>3, <2>4, Zenon DEF Computation
  <2>6. b.s.pte[p] = f /\ \A q \in Page \ {p} : b.s.pte[q] = a.s.pte[q]
    BY <1>1, <2>4, Zenon
  <2>7. Exact(b, O)
    BY <2>2, <2>3, <2>4, <2>5, <2>6, PutExact, Zenon
  <2> QED BY <1>4, <2>3, <2>4, <2>5, <2>6, <2>7, Zenon DEF b
<1> QED BY <1>2, <1>3, <1>4, Zenon

\* What clone_page_table has done to table i before page k.
PagesCopied(a, x, parent, i, k) ==
  /\ x.ok => a.ok
  /\ x.hidden = a.hidden /\ x.s.pdir = a.s.pdir /\ x.s.pt = a.s.pt
  /\ \A q \in Page : TableOf(q) # i => x.s.pte[q] = a.s.pte[q]
  /\ \A q \in Page : TableOf(q) = i =>
       /\ q >= k => x.s.pte[q] = 0
       /\ x.s.pte[q] # 0 => parent.pte[q] # 0
       /\ x.ok /\ q < k /\ parent.pte[q] # 0 => x.s.pte[q] # 0

\* The inner loop of mm_clone_pdir copies the pages of one table, and takes
\* only frames that nobody had.
LEMMA ClonePagesExact ==
  ASSUME NEW O, NEW a \in Computation, Exact(a, O), NEW i \in Table, NEW parent \in Space,
         a.s.pt[i] # 0, \A q \in Page : TableOf(q) = i => a.s.pte[q] = 0
  PROVE  /\ ClonePages(a, i, parent) \in Computation
         /\ Exact(ClonePages(a, i, parent), O)
         /\ PagesCopied(a, ClonePages(a, i, parent), parent, i, NPAGES)
<1> DEFINE J == [k \in 0 .. NPAGES |-> {x \in Computation :
                   Exact(x, O) /\ PagesCopied(a, x, parent, i, k)}]
<1>1. a \in J[0]
  <2>1. PagesCopied(a, a, parent, i, 0)
    BY DEF PagesCopied, Page
  <2>2. 0 \in 0 .. NPAGES
    BY Sizes
  <2> QED BY <2>1, <2>2, Zenon
<1>2. ASSUME NEW k \in 1 .. NPAGES, NEW x \in J[k - 1]
      PROVE  (IF TableOf(k - 1) # i THEN x ELSE ClonePage(x, k - 1, parent)) \in J[k]
  <2>1. k - 1 \in Page /\ k - 1 \in 0 .. NPAGES /\ k \in 0 .. NPAGES
    BY Sizes DEF Page
  <2>2. x \in Computation /\ Exact(x, O) /\ PagesCopied(a, x, parent, i, k - 1)
    BY <1>2, <2>1, Zenon
  <2>3. \A q \in Page : (q >= k - 1 <=> q >= k \/ q = k - 1)
                        /\ (q < k <=> q < k - 1 \/ q = k - 1)
                        /\ ~(k - 1 < k - 1) /\ ~(k - 1 >= k)
    BY <2>1, Sizes DEF Page
  <2>4. CASE TableOf(k - 1) # i
    <3>1. PagesCopied(a, x, parent, i, k)
      BY <2>2, <2>3, <2>4, Zenon DEF PagesCopied
    <3> QED BY <2>1, <2>2, <2>4, <3>1, Zenon
  <2>5. CASE TableOf(k - 1) = i
    <3> DEFINE y == ClonePage(x, k - 1, parent)
    <3>1. x.s.pte[k - 1] = 0 /\ x.s.pt[i] # 0
      BY <2>1, <2>2, <2>3, <2>5 DEF PagesCopied
    <3>2. /\ y \in Computation /\ Exact(y, O)
          /\ y.hidden = x.hidden /\ y.s.pdir = x.s.pdir /\ y.s.pt = x.s.pt
          /\ \A q \in Page \ {k - 1} : y.s.pte[q] = x.s.pte[q]
          /\ y.ok => x.ok /\ (parent.pte[k - 1] # 0 => y.s.pte[k - 1] # 0)
          /\ y.s.pte[k - 1] # 0 => parent.pte[k - 1] # 0
      BY <2>1, <2>2, <2>5, <3>1, ClonePageExact
    <3> HIDE DEF y
    <3>3. PagesCopied(a, y, parent, i, k)
      <4>1. /\ y.ok => a.ok
            /\ y.hidden = a.hidden /\ y.s.pdir = a.s.pdir /\ y.s.pt = a.s.pt
        BY <2>2, <3>2, Zenon DEF PagesCopied
      <4>2. ASSUME NEW q \in Page, TableOf(q) # i PROVE y.s.pte[q] = a.s.pte[q]
        BY <2>2, <2>5, <3>2, <4>2, Zenon DEF PagesCopied
      <4>3. ASSUME NEW q \in Page, TableOf(q) = i
            PROVE  /\ q >= k => y.s.pte[q] = 0
                   /\ y.s.pte[q] # 0 => parent.pte[q] # 0
                   /\ y.ok /\ q < k /\ parent.pte[q] # 0 => y.s.pte[q] # 0
        <5>1. CASE q = k - 1
          BY <2>3, <3>2, <5>1, Zenon
        <5>2. CASE q # k - 1
          BY <2>2, <2>3, <3>2, <4>3, <5>2, SMTT(30) DEF PagesCopied
        <5> QED BY <5>1, <5>2, Zenon
      <4> QED BY <4>1, <4>2, <4>3, Zenon DEF PagesCopied
    <3> QED BY <2>1, <2>5, <3>2, <3>3 DEF y
  <2> QED BY <2>4, <2>5, Zenon
<1> HIDE DEF J
<1>3. ClonePages(a, i, parent) \in J[NPAGES]
  BY <1>1, <1>2, ClonePagesLoop, Zenon
<1> QED BY <1>3, Sizes DEF J

\* One turn of mm_clone_pdir, for a table that the copy has not got yet.
LEMMA CloneTableExact ==
  ASSUME NEW O, NEW a \in Computation, Exact(a, O), NEW i \in Table, NEW parent \in Space,
         a.s.pt[i] = 0
  PROVE  LET y == CloneTable(a, i, parent) IN
         /\ y \in Computation /\ Exact(y, O)
         /\ y.ok => a.ok
         /\ y.hidden = a.hidden /\ y.s.pdir = a.s.pdir
         /\ \A j \in Table \ {i} : y.s.pt[j] = a.s.pt[j]
         /\ \A q \in Page : TableOf(q) # i => y.s.pte[q] = a.s.pte[q]
         /\ \A q \in Page : TableOf(q) = i =>
              /\ y.s.pte[q] # 0 => parent.pte[q] # 0
              /\ y.ok /\ parent.pt[i] # 0 /\ parent.pte[q] # 0 => y.s.pte[q] # 0
<1> DEFINE y == CloneTable(a, i, parent)
           f == FrameAlloc(a.used)
<1>1. /\ a.used \in SUBSET Frame /\ a.s \in Space /\ a.ok \in BOOLEAN
      /\ a.done \in SUBSET Page /\ a.hidden \in SUBSET Frame
      /\ a.s.pdir \in Entry /\ a.s.pt \in [Table -> Entry] /\ a.s.pte \in [Page -> Entry]
  BY Zenon DEF Computation, Space
<1>2. \A q \in Page : TableOf(q) = i => a.s.pte[q] = 0
  BY Zenon DEF Exact, Separate
<1>3. CASE ~a.ok \/ parent.pt[i] = 0
  <2>1. y = a
    BY <1>3, Zenon DEF CloneTable
  <2> HIDE DEF y
  <2> QED BY <1>2, <1>3, <2>1, Zenon DEF y
<1>4. CASE ~(~a.ok \/ parent.pt[i] = 0) /\ f = 0
  <2>1. y = [a EXCEPT !.ok = FALSE]
    BY <1>4, Zenon DEF CloneTable
  <2>2. /\ y \in Computation /\ y.used = a.used /\ y.s = a.s /\ y.hidden = a.hidden
        /\ ~y.ok
    BY <2>1, Zenon DEF Computation
  <2>3. Exact(y, O)
    BY <2>2 DEF Exact
  <2> HIDE DEF y
  <2> QED BY <1>2, <2>2, <2>3, Zenon DEF y
<1>5. CASE ~(~a.ok \/ parent.pt[i] = 0) /\ f # 0
  <2> DEFINE b == [a EXCEPT !.used = a.used \cup {f}, !.s.pt[i] = f]
  <2>1. y = ClonePages(b, i, parent)
    BY <1>5, Zenon DEF CloneTable
  <2>2. f \in Frame /\ f \notin a.used /\ f \in Entry /\ f # 0
    BY <1>5, FrameAllocFree
  <2> HIDE DEF f, y
  <2>3. /\ b.used = a.used \cup {f} /\ b.ok = a.ok /\ b.done = a.done
        /\ b.hidden = a.hidden /\ b.s = [a.s EXCEPT !.pt[i] = f]
    BY Zenon DEF Computation
  <2>4. /\ b.s.pdir = a.s.pdir /\ b.s.pte = a.s.pte /\ b.s.pt = [a.s.pt EXCEPT ![i] = f]
        /\ b.s \in Space
    <3> HIDE DEF b
    <3> QED BY <1>1, <2>2, <2>3 DEF Space
  <2>5. b \in Computation
    BY <1>1, <2>2, <2>3, <2>4, Zenon DEF Computation
  <2> HIDE DEF b
  <2>6. b.s.pt[i] = f /\ \A j \in Table \ {i} : b.s.pt[j] = a.s.pt[j]
    BY <1>1, <2>4, Zenon
  <2>7. Exact(b, O)
    BY <2>2, <2>3, <2>4, <2>5, <2>6, PutExact, Zenon
  <2>8. /\ y \in Computation /\ Exact(y, O)
        /\ PagesCopied(b, y, parent, i, NPAGES)
    BY <1>2, <2>1, <2>2, <2>4, <2>5, <2>6, <2>7, ClonePagesExact, Zenon
  <2>9. \A q \in Page : q < NPAGES
    BY Sizes DEF Page
  <2>10. /\ y.ok => a.ok
         /\ y.hidden = a.hidden /\ y.s.pdir = a.s.pdir
         /\ \A j \in Table \ {i} : y.s.pt[j] = a.s.pt[j]
    BY <2>3, <2>4, <2>6, <2>8, Zenon DEF PagesCopied
  <2>11. ASSUME NEW q \in Page
         PROVE  /\ TableOf(q) # i => y.s.pte[q] = a.s.pte[q]
                /\ TableOf(q) = i =>
                     /\ y.s.pte[q] # 0 => parent.pte[q] # 0
                     /\ y.ok /\ parent.pt[i] # 0 /\ parent.pte[q] # 0 => y.s.pte[q] # 0
    BY <2>4, <2>8, <2>9, Zenon DEF PagesCopied
  <2> QED BY <2>8, <2>10, <2>11, Zenon DEF y
<1> QED BY <1>3, <1>4, <1>5

\* What mm_clone_pdir has done before table k.
TablesCopied(x, parent, k) ==
  /\ x.hidden = {}
  /\ \A j \in Table : j >= k => x.s.pt[j] = 0
  /\ \A q \in Page :
       /\ x.s.pte[q] # 0 => parent.pte[q] # 0
       /\ x.ok /\ TableOf(q) < k /\ parent.pte[q] # 0 => x.s.pte[q] # 0

\* The outer loop of mm_clone_pdir copies every table, or stops when there is
\* no frame.
LEMMA CloneTablesExact ==
  ASSUME NEW O, NEW a \in Computation, Exact(a, O), NEW parent \in Space,
         Separate(parent), a.hidden = {}, Empty(a.s)
  PROVE  /\ CloneTables(a, parent) \in Computation
         /\ Exact(CloneTables(a, parent), O)
         /\ TablesCopied(CloneTables(a, parent), parent, NTABLES)
<1> DEFINE J == [k \in 0 .. NTABLES |-> {x \in Computation :
                   Exact(x, O) /\ TablesCopied(x, parent, k)}]
<1>1. a \in J[0]
  <2>1. TablesCopied(a, parent, 0)
    BY Sizes DEF TablesCopied, Table, Empty
  <2>2. 0 \in 0 .. NTABLES
    BY Sizes
  <2> QED BY <2>1, <2>2, Zenon
<1>2. ASSUME NEW k \in 1 .. NTABLES, NEW x \in J[k - 1]
      PROVE  CloneTable(x, k - 1, parent) \in J[k]
  <2> DEFINE y == CloneTable(x, k - 1, parent)
  <2>1. k - 1 \in Table /\ k - 1 \in 0 .. NTABLES /\ k \in 0 .. NTABLES
    BY Sizes DEF Table
  <2>2. x \in Computation /\ Exact(x, O) /\ TablesCopied(x, parent, k - 1)
    BY <1>2, <2>1, Zenon
  <2>3. \A j \in Table : (j >= k - 1 <=> j >= k \/ j = k - 1)
                         /\ (j < k <=> j < k - 1 \/ j = k - 1) /\ ~(k - 1 >= k)
    BY <2>1, Sizes DEF Table
  <2>4. /\ y \in Computation /\ Exact(y, O)
        /\ y.ok => x.ok
        /\ y.hidden = x.hidden /\ y.s.pdir = x.s.pdir
        /\ \A j \in Table \ {k - 1} : y.s.pt[j] = x.s.pt[j]
        /\ \A q \in Page : TableOf(q) # k - 1 => y.s.pte[q] = x.s.pte[q]
        /\ \A q \in Page : TableOf(q) = k - 1 =>
             /\ y.s.pte[q] # 0 => parent.pte[q] # 0
             /\ y.ok /\ parent.pt[k - 1] # 0 /\ parent.pte[q] # 0 => y.s.pte[q] # 0
    <3>1. x.s.pt[k - 1] = 0
      BY <2>1, <2>2, <2>3, Zenon DEF TablesCopied
    <3>2. PICK i : i = k - 1
      BY Zenon
    <3>3. i \in Table /\ x.s.pt[i] = 0
      BY <2>1, <3>1, <3>2, Zenon
    <3>4. x \in Computation /\ Exact(x, O)
      BY <2>2, Zenon
    <3>5. y = CloneTable(x, i, parent)
      BY <3>2, Zenon
    <3> DEFINE Copied(z, t) ==
          /\ z \in Computation /\ Exact(z, O)
          /\ z.ok => x.ok
          /\ z.hidden = x.hidden /\ z.s.pdir = x.s.pdir
          /\ \A j \in Table \ {t} : z.s.pt[j] = x.s.pt[j]
          /\ \A q \in Page : TableOf(q) # t => z.s.pte[q] = x.s.pte[q]
          /\ \A q \in Page : TableOf(q) = t =>
               /\ z.s.pte[q] # 0 => parent.pte[q] # 0
               /\ z.ok /\ parent.pt[t] # 0 /\ parent.pte[q] # 0 => z.s.pte[q] # 0
    <3> HIDE DEF J, y
    <3>6. Copied(CloneTable(x, i, parent), i)
      BY <3>3, <3>4, CloneTableExact, ZenonT(60)
    <3>7. Copied(y, k - 1)
      <4> HIDE DEF Copied
      <4> QED BY <3>2, <3>5, <3>6, Zenon
    <3> QED BY <3>7, Zenon
  <2> HIDE DEF y
  <2>5. TablesCopied(y, parent, k)
    <3>1. y.hidden = {} /\ \A j \in Table : j >= k => y.s.pt[j] = 0
      BY <2>2, <2>3, <2>4, SMTT(30) DEF TablesCopied
    <3>2. ASSUME NEW q \in Page
          PROVE  /\ y.s.pte[q] # 0 => parent.pte[q] # 0
                 /\ y.ok /\ TableOf(q) < k /\ parent.pte[q] # 0 => y.s.pte[q] # 0
      <4>1. TableOf(q) \in Table
        BY Sizes, Zenon
      <4>2. CASE TableOf(q) = k - 1
        BY <2>4, <4>2, Zenon DEF Separate
      <4>3. CASE TableOf(q) # k - 1
        BY <2>2, <2>3, <2>4, <4>1, <4>3, SMTT(30) DEF TablesCopied
      <4> QED BY <4>2, <4>3, Zenon
    <3> QED BY <3>1, <3>2, Zenon DEF TablesCopied
  <2> QED BY <2>1, <2>4, <2>5, Zenon DEF y
<1> HIDE DEF J
<1>3. NTABLES \in Nat
  BY Sizes, Zenon
<1>4. CloneTables(a, parent) \in J[NTABLES]
  BY <1>1, <1>2, <1>3, CloneTablesLoop, Zenon
<1> QED BY <1>3, <1>4 DEF J

\* A new directory in a frame that was free.
LEMMA NewSpace ==
  ASSUME NEW u \in SUBSET Frame, NEW d \in Frame, d \notin u,
         NEW a, a = On(u \cup {d}, NewPdir(d))
  PROVE  /\ a \in Computation /\ Exact(a, u) /\ a.ok
         /\ a.hidden = {} /\ a.done = {} /\ a.s.pdir = d
         /\ Empty(a.s)
<1> DEFINE s == NewPdir(d)
<1>1. /\ s = [pdir |-> d, pt |-> [i \in Table |-> 0], pte |-> [p \in Page |-> 0]]
      /\ d # 0 /\ d \in Entry /\ 0 \in Entry
  BY Sizes DEF NewPdir, NoSpace, Entry
<1>2. s \in Space /\ s.pdir = d
      /\ (\A j \in Table : s.pt[j] = 0) /\ (\A p \in Page : s.pte[p] = 0)
  BY <1>1 DEF Space
<1> HIDE DEF s
<1>3. /\ a \in Computation /\ a.ok /\ a.used = u \cup {d} /\ a.s = s
      /\ a.hidden = {} /\ a.done = {}
  <2>1. a = On(u \cup {d}, s)
    BY Zenon DEF s
  <2> QED BY <1>2, <2>1 DEF On, Computation
<1>4. Owned(s) = {d}
  BY <1>1, <1>2, OwnedFrames, Zenon
<1>5. Exact(a, u)
  <2>1. Separate(s)
    BY <1>2, Zenon DEF Separate
  <2> QED BY <1>1, <1>2, <1>3, <1>4, <2>1, SMTT(30) DEF Exact
<1> QED BY <1>2, <1>3, <1>5, ZenonT(40) DEF Empty

\* fork either copies every page that is present, in frames that nobody had,
\* or leaves the bitmap as it was.
LEMMA ClonePdirExact ==
  ASSUME NEW u \in SUBSET Frame, NEW parent \in Space, Separate(parent)
  PROVE  LET y == ClonePdir(u, parent) IN
         /\ y.ok \in BOOLEAN
         /\ y.ok => /\ y \in Computation /\ Exact(y, u) /\ y.hidden = {}
                    /\ \A q \in Page : y.s.pte[q] # 0 <=> parent.pte[q] # 0
         /\ ~y.ok => y.used = u /\ y.s = NoSpace
<1> DEFINE y == ClonePdir(u, parent)
           d == FrameAlloc(u)
           a0 == On(u \cup {d}, NewPdir(d))
           a == CloneTables(a0, parent)
<1>1. CASE d = 0
  <2>1. y = [On(u, NoSpace) EXCEPT !.ok = FALSE]
    BY <1>1, Zenon DEF ClonePdir
  <2> QED BY <2>1, Zenon DEF On
<1>2. CASE d # 0
  <2>1. d \in Frame /\ d \notin u
    BY <1>2, FrameAllocFree, Zenon
  <2> HIDE DEF d
  <2>2. /\ a0 \in Computation /\ Exact(a0, u) /\ a0.hidden = {}
        /\ Empty(a0.s)
    <3>1. a0 = On(u \cup {d}, NewPdir(d))
      BY Zenon
    <3> HIDE DEF a0
    <3>2. a0 \in Computation /\ Exact(a0, u)
      BY <2>1, <3>1, NewSpace, Zenon
    <3>3. a0.hidden = {}
      BY <2>1, <3>1, NewSpace, Zenon
    <3>4. Empty(a0.s)
      BY <2>1, <3>1, NewSpace, Zenon
    <3> QED BY <3>2, <3>3, <3>4, Zenon
  <2> HIDE DEF a0
  <2>3. a \in Computation /\ Exact(a, u) /\ TablesCopied(a, parent, NTABLES)
    BY <2>2, CloneTablesExact, Zenon
  <2> HIDE DEF a
  <2>4. CASE a.ok
    <3>1. y = a
      BY <1>2, <2>4, Zenon DEF ClonePdir, a, a0, d
    <3>2. \A q \in Page : TableOf(q) < NTABLES
      BY Sizes DEF Table
    <3> HIDE DEF y
    <3> QED BY <2>3, <2>4, <3>1, <3>2, Zenon DEF TablesCopied, y, Computation
  <2>5. CASE ~a.ok
    <3>1. y = [a EXCEPT !.used = CloneUndone(a.used, a.s), !.s = NoSpace]
      BY <1>2, <2>5, Zenon DEF ClonePdir, a, a0, d
    <3>2. y.ok = a.ok /\ y.used = CloneUndone(a.used, a.s) /\ y.s = NoSpace
      BY <2>3, <3>1, Zenon DEF Computation
    <3>3. CloneUndone(a.used, a.s) = u
      <4>1. a.s \in Space /\ a.s.pdir # 0 /\ 0 \notin a.used
        BY <2>3, Sizes, Zenon DEF Computation, Exact
      <4>2. a.used = u \cup Owned(a.s) /\ u \cap Owned(a.s) = {}
        BY <2>3, Zenon DEF Exact, TablesCopied
      <4>3. \A x \in a.used : x \in Owned(a.s) <=>
                               \/ x = a.s.pdir
                               \/ \E i \in Table : a.s.pt[i] = x
                               \/ \E p \in Page : a.s.pte[p] = x
        BY <4>1, OwnedFrames, Zenon
      <4>4. \A p \in Page : a.s.pte[p] > 0 <=> a.s.pte[p] # 0
        BY <4>1, Sizes DEF Space, Entry
      <4>5. \A x : x \in CloneUndone(a.used, a.s) <=>
                     /\ x \in a.used /\ x # a.s.pdir
                     /\ \A i \in Table : a.s.pt[i] # x
                     /\ \A p \in Page : a.s.pte[p] > 0 => a.s.pte[p] # x
        BY Zenon DEF CloneUndone, FrameFree
      <4>6. \A x : x \in CloneUndone(a.used, a.s) <=> x \in a.used /\ x \notin Owned(a.s)
        BY <4>1, <4>3, <4>4, <4>5, Zenon
      <4> QED BY <4>2, <4>6, Zenon
    <3> HIDE DEF y
    <3>4. y.ok \in BOOLEAN
      BY <2>3, <3>2, Zenon DEF Computation
    <3> QED BY <2>5, <3>2, <3>3, <3>4, Zenon DEF y
  <2> QED BY <2>4, <2>5, Zenon
<1> QED BY <1>1, <1>2, Zenon

\* What sys_mmap2 makes of the pages c that it got, and how the result b
\* differs from the space a before the call.
MmapEnds(c, fits, b) == b = IF c.ok /\ fits THEN c ELSE MmapFailed(c)
MmapMoved(a, b, c, from, to, fits) ==
  /\ \A p \in Page : a.s.pte[p] # 0 => b.s.pte[p] = a.s.pte[p]
  /\ \A p \in Page : b.s.pte[p] # a.s.pte[p] => c.ok /\ fits /\ p \in from .. to - 1

\* A page of a mapping that fails half way is as it was before the call.
LEMMA MmapPages ==
  ASSUME NEW O, NEW a, a \in Computation, Exact(a, O), a.done = {},
         NEW va, NEW to, va \in Nat, to \in Nat, va <= to, to <= NPAGES,
         NEW prot, prot \in BOOLEAN, NEW fits, fits \in BOOLEAN,
         NEW c, c = AllocRange(a, va, to, prot), NEW b, MmapEnds(c, fits, b)
  PROVE  b \in Computation /\ Exact(b, O) /\ MmapMoved(a, b, c, va, to, fits)
<1>0. b = IF c.ok /\ fits THEN c ELSE MmapFailed(c)
  BY Zenon DEF MmapEnds
<1> SUFFICES /\ b \in Computation /\ Exact(b, O)
             /\ \A p \in Page : a.s.pte[p] # 0 => b.s.pte[p] = a.s.pte[p]
             /\ \A p \in Page : b.s.pte[p] # a.s.pte[p] =>
                  c.ok /\ fits /\ p \in va .. to - 1
  BY Zenon DEF MmapMoved
<1>1. c \in Computation /\ Exact(c, O) /\ Grown(a, c, va, to, prot)
  BY AllocRangeExact, Zenon
<1>2. \A p \in Page : c.s.pte[p] # a.s.pte[p] =>
        p \in va .. to - 1 /\ a.s.pte[p] = 0 /\ p \in c.done
  BY <1>1, Zenon DEF Grown
<1>3. CASE c.ok /\ fits
  BY <1>0, <1>1, <1>2, <1>3
<1>4. CASE ~(c.ok /\ fits)
  <2>1. b = UnmapAll(c, c.done) /\ c.done \in SUBSET Page
    BY <1>0, <1>1, <1>4, Zenon DEF MmapFailed, Computation
  <2>2. /\ b \in Computation /\ Exact(b, O)
        /\ \A p \in Page : b.s.pte[p] = IF p \in c.done THEN 0 ELSE c.s.pte[p]
    BY <1>1, <2>1, UnmapAllExact
  <2>3. \A p \in c.done : a.s.pte[p] = 0
    BY <1>1, Zenon DEF Grown
  <2>4. \A p \in Page : b.s.pte[p] = a.s.pte[p]
    BY <1>2, <2>2, <2>3, Zenon
  <2> QED BY <2>2, <2>4, Zenon
<1> QED BY <1>3, <1>4, Zenon

\* The pages that sys_mprotect makes absent are those that sys_munmap would
\* give back, but their frames stay in use.
LEMMA HideExact ==
  ASSUME NEW O, NEW a \in Computation, Exact(a, O), a.hidden = {}, NEW ps \in SUBSET Page,
         NEW b, b = HideAll(a, ps)
  PROVE  /\ b \in Computation /\ Exact(b, O)
         /\ \A p \in Page : b.s.pte[p] = IF p \in ps THEN 0 ELSE a.s.pte[p]
<1> DEFINE c == UnmapAll(a, ps)
           gone == {p \in ps : a.s.pte[p] > 0}
           back == {a.s.pte[p] : p \in gone}
           ne == [p \in Page |-> IF p \in gone THEN 0 ELSE a.s.pte[p]]
<1>1. /\ a.used \in SUBSET Frame /\ a.s \in Space /\ a.ok \in BOOLEAN
      /\ a.done \in SUBSET Page /\ a.s.pdir # 0
      /\ a.s.pdir \in Entry /\ a.s.pt \in [Table -> Entry] /\ a.s.pte \in [Page -> Entry]
  BY Zenon DEF Computation, Space, Exact
<1>2. /\ c = [a EXCEPT !.used = a.used \ back, !.s.pte = ne]
      /\ b = [a EXCEPT !.hidden = back, !.s.pte = ne]
  BY <1>1 DEF UnmapAll, FrameFree, HideAll
<1>3. /\ c \in Computation /\ Exact(c, O)
      /\ \A p \in Page : c.s.pte[p] = IF p \in ps THEN 0 ELSE a.s.pte[p]
  BY UnmapAllExact
<1>4. \A x \in back : x \in Owned(a.s) /\ x \in Frame
  <2> SUFFICES ASSUME NEW x \in back PROVE x \in Owned(a.s) /\ x \in Frame
    BY Zenon
  <2>1. PICK p \in Page : a.s.pte[p] = x /\ x # 0 /\ x \in Entry
    BY <1>1 DEF Entry
  <2> QED BY <1>1, <2>1, OwnedFrames, Sizes, Zenon
<1> HIDE DEF c, gone, back, ne
<1>5. /\ c.used = a.used \ back /\ c.s = [a.s EXCEPT !.pte = ne] /\ c.hidden = {}
      /\ b.used = a.used /\ b.s = [a.s EXCEPT !.pte = ne] /\ b.hidden = back
      /\ b.ok = a.ok /\ b.done = a.done
  BY <1>2, Zenon DEF Computation
<1>6. b \in Computation
  <2>1. c.s \in Space /\ b.s = c.s
    BY <1>3, <1>5, Zenon DEF Computation
  <2>2. back \in SUBSET Frame
    BY <1>4, Zenon
  <2> QED BY <1>1, <1>2, <1>5, <2>1, <2>2, Zenon DEF Computation
<1>7. Exact(b, O)
  <2>1. b.s = c.s /\ c.s.pdir # 0 /\ Separate(c.s)
        /\ a.used \ back = O \cup Owned(c.s) /\ O \cap Owned(c.s) = {}
    BY <1>3, <1>5 DEF Exact
  <2>2. a.used = O \cup Owned(a.s) /\ O \cap Owned(a.s) = {}
    BY Zenon DEF Exact
  <2>3. back \subseteq Owned(a.s)
    BY <1>4, Zenon
  <2> HIDE DEF Owned
  <2>4. /\ a.used = O \cup Owned(b.s) \cup back /\ O \cap back = {}
        /\ O \cap Owned(b.s) = {} /\ Owned(b.s) \cap back = {}
    BY <2>1, <2>2, <2>3, Zenon
  <2> QED BY <1>5, <2>1, <2>4, Zenon DEF Exact
<1>8. b.s = c.s
  BY <1>5, Zenon
<1> QED BY <1>3, <1>6, <1>7, <1>8, Zenon

\* A task without memory.
LEMMA NoSpaceEmpty ==
  /\ NoSpace \in Space /\ NoSpace.pdir = 0 /\ Owned(NoSpace) = {} /\ Separate(NoSpace)
  /\ \A p \in Page : NoSpace.pte[p] = 0
<1>1. /\ NoSpace = [pdir |-> 0, pt |-> [i \in Table |-> 0], pte |-> [p \in Page |-> 0]]
      /\ 0 \in Entry
  BY Sizes DEF NoSpace, Entry
<1>2. /\ NoSpace \in Space /\ NoSpace.pdir = 0
      /\ (\A i \in Table : NoSpace.pt[i] = 0) /\ (\A p \in Page : NoSpace.pte[p] = 0)
  BY <1>1, Zenon DEF Space
<1> QED BY <1>2, Zenon DEF Owned, Separate

-----------------------------------------------------------------------------
(* exec.                                                                    *)

\* Taking n frames, as the buffer for an ELF file does, gives none back.
LEMMA AllocNGrows ==
  ASSUME NEW u \in SUBSET Frame, NEW n \in Nat
  PROVE  AllocN(u, n) \in SUBSET Frame /\ u \subseteq AllocN(u, n)
<1> DEFINE J == [k \in 0 .. n |-> {x \in SUBSET Frame : u \subseteq x}]
<1>1. u \in J[0]
  OBVIOUS
<1>2. ASSUME NEW k \in 1 .. n, NEW x \in J[k - 1]
      PROVE  (IF Free(x) = {} THEN x ELSE x \cup {FrameAlloc(x)}) \in J[k]
  <2>1. x \in SUBSET Frame /\ u \subseteq x /\ k \in 0 .. n
    BY <1>2
  <2>2. Free(x) # {} => FrameAlloc(x) \in Frame
    BY FrameAllocFree, Zenon
  <2> QED BY <2>1, <2>2, Zenon
<1> HIDE DEF J
<1>3. AllocN(u, n) \in J[n]
  BY <1>1, <1>2, AllocNLoop, Zenon
<1> QED BY <1>3 DEF J

\* The stack is the end of the address space, above the area of mmap.
LEMMA Places ==
  /\ Min(Stack) = NPAGES - STACK_SIZE
  /\ Area = MMAP_BASE .. NPAGES - STACK_SIZE - 1
  /\ Area \in SUBSET Page
<1>1. Stack \in SUBSET Nat /\ Stack # {}
  BY Sizes DEF Stack
<1>2. Min(Stack) \in Stack /\ \A y \in Stack : Min(Stack) <= y
  BY <1>1, MinIn, Zenon
<1>3. NPAGES - STACK_SIZE \in Stack
  BY Sizes DEF Stack
<1>4. Min(Stack) = NPAGES - STACK_SIZE
  BY <1>2, <1>3, Sizes DEF Stack
<1> QED BY <1>4, Sizes DEF Area, Page

\* The segments of a program end at its first break at the latest, which is
\* an address below the area of mmap.
LEMMA ElfTop ==
  ASSUME NEW e \in ElfFiles
  PROVE  /\ ElfBrkStart(e.segs) \in 0 .. MMAP_BASE
         /\ Len(e.segs) \in Nat
         /\ \A k \in 1 .. Len(e.segs) :
              /\ e.segs[k].from \in Nat /\ e.segs[k].to \in Nat
              /\ e.segs[k].to <= ElfBrkStart(e.segs)
<1> DEFINE segs == e.segs
           S == {0} \cup {segs[i].to : i \in DOMAIN segs}
           T == [from : 0 .. MMAP_BASE, to : 0 .. MMAP_BASE]
<1>1. segs \in Seq(T) /\ MMAP_BASE \in Nat
  <2>1. e.segs \in Seq([from : 0 .. MMAP_BASE, to : 0 .. MMAP_BASE])
    BY MemoryAssumption, Zenon
  <2> QED BY <2>1, Sizes
<1>2. \A x \in T : x.to \in 0 .. MMAP_BASE /\ x.from \in 0 .. MMAP_BASE
  BY Zenon
<1> HIDE DEF segs, T
<1>3. Len(segs) \in Nat /\ DOMAIN segs = 1 .. Len(segs) /\ \A i \in DOMAIN segs : segs[i] \in T
  BY <1>1
<1>4. S \in SUBSET (0 .. MMAP_BASE) /\ S # {}
  BY <1>1, <1>2, <1>3
<1>5. ElfBrkStart(segs) = Max(S)
  BY Zenon DEF ElfBrkStart
<1>6. \A i \in DOMAIN segs : segs[i].to \in S
  BY Zenon
<1> HIDE DEF S
<1>7. ElfBrkStart(segs) \in 0 .. MMAP_BASE /\ \A y \in S : y <= ElfBrkStart(segs)
  BY <1>1, <1>4, <1>5, MaxIn, Zenon
<1>8. \A k \in DOMAIN segs : /\ segs[k].from \in Nat /\ segs[k].to \in Nat
                             /\ segs[k].to <= ElfBrkStart(segs)
  BY <1>1, <1>2, <1>3, <1>6, <1>7
<1> QED BY <1>3, <1>7, <1>8, Zenon DEF segs

\* The heap of a new program is empty and begins below the mmap area.
LEMMA ElfBrk ==
  ASSUME NEW e \in ElfFiles
  PROVE  /\ BrkAt(ElfBrkStart(e.segs)) \in [start : 0 .. MMAP_BASE, break : 0 .. MMAP_BASE]
         /\ BrkAt(ElfBrkStart(e.segs)).start = ElfBrkStart(e.segs)
         /\ BrkAt(ElfBrkStart(e.segs)).break = ElfBrkStart(e.segs)
BY ElfTop DEF BrkAt

\* The pages between the first break and the stack of a program.
Unmapped(segs) == ElfBrkStart(segs) .. NPAGES - STACK_SIZE - 1

\* The mmap area lies between the heap and the stack of every program.
LEMMA UnmappedArea ==
  ASSUME NEW e \in ElfFiles
  PROVE  Area \subseteq Unmapped(e.segs) /\ Unmapped(e.segs) \subseteq Page
BY ElfTop, Places, Sizes, SMTT(30) DEF Unmapped, Page

\* What elf_load may have changed: pages below the first break.
SegsLoaded(a, x, top) ==
  /\ x.s.pdir = a.s.pdir /\ x.hidden = a.hidden
  /\ \A p \in Page : p >= top => x.s.pte[p] = a.s.pte[p]

\* elf_load takes only frames that nobody had and maps nothing behind the
\* first break.
LEMMA ElfLoadExact ==
  ASSUME NEW O, NEW a \in Computation, Exact(a, O), NEW e \in ElfFiles
  PROVE  /\ ElfLoad(a, e.segs) \in Computation
         /\ Exact(ElfLoad(a, e.segs), O)
         /\ SegsLoaded(a, ElfLoad(a, e.segs), ElfBrkStart(e.segs))
<1> DEFINE segs == e.segs
           n == Len(segs)
           top == ElfBrkStart(segs)
           J == [k \in 0 .. n |-> {x \in Computation : Exact(x, O) /\ SegsLoaded(a, x, top)}]
<1>1. /\ n \in Nat /\ top \in Nat /\ top <= NPAGES
      /\ \A k \in 1 .. n : /\ segs[k].from \in Nat /\ segs[k].to \in Nat
                           /\ segs[k].to <= top
  <2>1. top \in 0 .. MMAP_BASE
    BY ElfTop, Zenon
  <2> QED BY <2>1, ElfTop, Sizes
<1> HIDE DEF segs, n, top
<1>3. a \in J[0]
  BY <1>1 DEF SegsLoaded
<1>4. ASSUME NEW k \in 1 .. n, NEW x \in J[k - 1]
      PROVE  AllocRange(x, segs[k].from, segs[k].to, TRUE) \in J[k]
  <2> DEFINE from == segs[k].from
             to == segs[k].to
             y == AllocRange(x, from, to, TRUE)
  <2>1. /\ from \in Nat /\ to \in Nat /\ to <= top /\ to <= NPAGES
        /\ k - 1 \in 0 .. n /\ k \in 0 .. n
    BY <1>1, Sizes
  <2>2. x \in Computation /\ Exact(x, O) /\ SegsLoaded(a, x, top)
    BY <1>4, <2>1, Zenon
  <2> HIDE DEF from, to
  <2>3. y \in Computation /\ Exact(y, O) /\ Grown(x, y, from, to, TRUE)
    BY <2>1, <2>2, AllocRangeExact, Zenon
  <2> HIDE DEF y
  <2>4. \A p \in Page : p >= top => p \notin from .. to - 1
    BY <1>1, <2>1, Sizes DEF Page
  <2>5. SegsLoaded(a, y, top)
    BY <2>2, <2>3, <2>4, Zenon DEF SegsLoaded, Grown
  <2> QED BY <2>1, <2>3, <2>5, Zenon DEF y, from, to
<1> HIDE DEF J
<1>5. ElfLoad(a, segs) \in J[n]
  <2>1. n = Len(segs)
    BY Zenon DEF n
  <2> QED BY <1>1, <1>3, <1>4, <2>1, ElfLoadLoop, Zenon
<1> QED BY <1>1, <1>5 DEF J, segs, top

\* A new address space: nothing is mapped between the first break and the
\* stack.
LEMMA LoadedExact ==
  ASSUME NEW u \in SUBSET Frame, NEW e \in ElfFiles
  PROVE  LET a == Loaded(u, e) IN
         /\ a.ok => a.s.pdir # 0
         /\ a.s.pdir # 0 =>
              /\ a \in Computation /\ Exact(a, u) /\ a.hidden = {}
              /\ \A p \in Unmapped(e.segs) : a.s.pte[p] = 0
<1> DEFINE a == Loaded(u, e)
           d == FrameAlloc(u)
           a0 == On(u \cup {d}, NewPdir(d))
           b == ElfLoad(a0, e.segs)
<1>1. CASE d = 0
  <2>1. a = [On(u, NoSpace) EXCEPT !.ok = FALSE]
    BY <1>1, Zenon DEF Loaded
  <2> QED BY <2>1 DEF On, NoSpace
<1>2. CASE d # 0
  <2>1. d \in Frame /\ d \notin u
    BY <1>2, FrameAllocFree, Zenon
  <2>2. a = AllocRange(b, NPAGES - STACK_SIZE, NPAGES, TRUE)
    BY <1>2, Places, Zenon DEF Loaded
  <2> HIDE DEF d
  <2>3. a0 \in Computation /\ Exact(a0, u) /\ a0.hidden = {} /\ Empty(a0.s)
    <3>1. a0 = On(u \cup {d}, NewPdir(d))
      BY Zenon
    <3> HIDE DEF a0
    <3> QED BY <2>1, <3>1, NewSpace, Zenon
  <2> HIDE DEF a0, a
  <2>4. b \in Computation /\ Exact(b, u) /\ SegsLoaded(a0, b, ElfBrkStart(e.segs))
    BY <2>3, ElfLoadExact, Zenon
  <2> HIDE DEF b
  <2> DEFINE from == NPAGES - STACK_SIZE
  <2>5. from \in Nat /\ NPAGES \in Nat /\ NPAGES <= NPAGES
    BY Sizes
  <2>6. a \in Computation /\ Exact(a, u) /\ Grown(b, a, from, NPAGES, TRUE)
    <3> HIDE DEF from
    <3>1. a = AllocRange(b, from, NPAGES, TRUE)
      BY <2>2 DEF from
    <3> QED BY <2>4, <2>5, <3>1, AllocRangeExact, Zenon
  <2>7. a.s.pdir # 0 /\ a.hidden = {}
    BY <2>3, <2>4, <2>6 DEF Exact, Grown, SegsLoaded
  <2>8. ASSUME NEW p \in Unmapped(e.segs) PROVE a.s.pte[p] = 0
    <3>1. p \in Page /\ p >= ElfBrkStart(e.segs) /\ p \notin from .. NPAGES - 1
      BY UnmappedArea, ElfTop, Sizes, SMTT(30) DEF Unmapped
    <3> HIDE DEF from
    <3> QED BY <2>3, <2>4, <2>6, <3>1, Zenon DEF Grown, SegsLoaded, Empty
  <2> QED BY <2>6, <2>7, <2>8 DEF a
<1> QED BY <1>1, <1>2, Zenon

\* exec on a bitmap u, as long as it gives back its own buffer: it marks the
\* frames of the new address space and those it drops, and no other.
LEMMA ExecExact ==
  ASSUME NEW u \in SUBSET Frame, NEW e \in ElfFiles
  PROVE  LET x == Exec(u, e) IN
         /\ x.ok \in BOOLEAN /\ x.stray \in BOOLEAN
         /\ x.used \in SUBSET Frame /\ x.lost \in SUBSET Frame /\ x.s \in Space
         /\ ~x.ok => x.s = NoSpace
         /\ x.ok => /\ x.s.pdir # 0 /\ Separate(x.s) /\ x.lost = {}
                    /\ \A p \in Unmapped(e.segs) : x.s.pte[p] = 0
         /\ ~x.stray => /\ x.used = u \cup Owned(x.s) \cup x.lost
                        /\ u \cap Owned(x.s) = {} /\ u \cap x.lost = {}
<1> DEFINE x == Exec(u, e)
           u1 == AllocN(u, e.pages)
           buf == u1 \ u
           back == IF buf = {} THEN {} ELSE Min(buf) .. Min(buf) + e.pages - 1
           a == Loaded(u1, e)
           d == a.s.pdir
           strs == FrameAlloc(a.used)
           ends(ok, v, s, l) == [ok |-> ok, used |-> v \ back, s |-> s,
                                 lost |-> l, stray |-> back # buf]
           early == Cardinality(buf) < e.pages \/ ~e.valid \/ d = 0
<1>1. x = IF early THEN ends(FALSE, u1, NoSpace, {})
          ELSE IF ~a.ok THEN ends(FALSE, a.used \ {d}, NoSpace, Owned(a.s) \ {d})
          ELSE IF strs = 0 THEN ends(FALSE, a.used, NoSpace, Owned(a.s))
          ELSE ends(TRUE, a.used, a.s, {})
  BY DEF Exec, FrameFree
<1>2. u1 \in SUBSET Frame /\ u \subseteq u1
  BY MemoryAssumption, AllocNGrows, SMTT(30)
<1>3. /\ d # 0 => /\ a \in Computation /\ Exact(a, u1) /\ a.hidden = {}
                  /\ \A p \in Unmapped(e.segs) : a.s.pte[p] = 0
  <2> HIDE DEF u1
  <2> QED BY <1>2, LoadedExact, Zenon
<1>4. NoSpace \in Space /\ NoSpace.pdir = 0 /\ Owned(NoSpace) = {}
  BY Sizes DEF NoSpace, Space, Entry, Owned
<1> HIDE DEF x, a, strs
<1>5. CASE early
  <2>1. x = ends(FALSE, u1, NoSpace, {})
    BY <1>1, <1>5
  <2>2. buf = u1 \ u
    BY Zenon
  <2> HIDE DEF u1, back, early, buf
  <2>3. /\ x.ok = FALSE /\ x.used = u1 \ back /\ x.s = NoSpace /\ x.lost = {}
        /\ x.stray = (back # buf)
    BY <2>1, Zenon
  <2>4. x.stray \in BOOLEAN /\ (~x.stray => back = buf)
    BY <2>3, Zenon
  <2>5. ~x.stray => /\ x.used = u \cup Owned(x.s) \cup x.lost
                    /\ u \cap Owned(x.s) = {} /\ u \cap x.lost = {}
    BY <1>2, <1>4, <2>2, <2>3, <2>4, Zenon
  <2>6. x.used \in SUBSET Frame /\ x.lost \in SUBSET Frame /\ x.s \in Space
    BY <1>2, <1>4, <2>2, <2>3, Zenon
  <2> QED BY <1>4, <2>3, <2>4, <2>5, <2>6, Zenon DEF x
<1>6. CASE ~early
  <2>1. d # 0
    BY <1>6, Zenon
  <2>2. /\ a \in Computation /\ Exact(a, u1) /\ a.hidden = {}
        /\ \A p \in Unmapped(e.segs) : a.s.pte[p] = 0
    BY <1>3, <2>1, Zenon
  <2>3. /\ a.s \in Space /\ a.used \in SUBSET Frame /\ Separate(a.s)
        /\ a.used = u1 \cup Owned(a.s) /\ u1 \cap Owned(a.s) = {}
        /\ d \in Owned(a.s)
    <3>1. a.s \in Space /\ a.used \in SUBSET Frame
      BY <2>2 DEF Computation
    <3> QED BY <2>1, <2>2, <3>1, OwnedFrames DEF Exact
  <2> HIDE DEF u1, back, d, early
  <2>4. buf = u1 \ u
    BY Zenon
  <2> HIDE DEF buf
  <2>5. CASE ~a.ok
    <3>1. x = ends(FALSE, a.used \ {d}, NoSpace, Owned(a.s) \ {d})
      BY <1>1, <1>6, <2>5
    <3>2. /\ x.ok = FALSE /\ x.used = (a.used \ {d}) \ back /\ x.s = NoSpace /\ x.lost = Owned(a.s) \ {d}
          /\ x.stray = (back # buf)
      BY <3>1, Zenon
    <3>3. x.stray \in BOOLEAN /\ (~x.stray => back = buf)
      BY <3>2, Zenon
    <3>4. ~x.stray => /\ x.used = u \cup Owned(x.s) \cup x.lost
                      /\ u \cap Owned(x.s) = {} /\ u \cap x.lost = {}
      BY <1>2, <1>4, <2>3, <2>4, <3>2, <3>3, Zenon
    <3>5. x.used \in SUBSET Frame /\ x.lost \in SUBSET Frame /\ x.s \in Space
      BY <1>2, <1>4, <2>3, <2>4, <3>2, Zenon
    <3> QED BY <1>4, <3>2, <3>3, <3>4, <3>5, Zenon DEF x
  <2>6. CASE a.ok /\ strs = 0
    <3>1. x = ends(FALSE, a.used, NoSpace, Owned(a.s))
      BY <1>1, <1>6, <2>6, Zenon
    <3>2. /\ x.ok = FALSE /\ x.used = a.used \ back /\ x.s = NoSpace /\ x.lost = Owned(a.s)
          /\ x.stray = (back # buf)
      BY <3>1
    <3>3. x.stray \in BOOLEAN /\ (~x.stray => back = buf)
      BY <3>2, Zenon
    <3>4. ~x.stray => /\ x.used = u \cup Owned(x.s) \cup x.lost
                      /\ u \cap Owned(x.s) = {} /\ u \cap x.lost = {}
      BY <1>2, <1>4, <2>3, <2>4, <3>2, <3>3, Zenon
    <3>5. x.used \in SUBSET Frame /\ x.lost \in SUBSET Frame /\ x.s \in Space
      BY <1>2, <1>4, <2>3, <2>4, <3>2, Zenon
    <3> QED BY <1>4, <3>2, <3>3, <3>4, <3>5, Zenon DEF x
  <2>7. CASE a.ok /\ strs # 0
    <3>1. x = ends(TRUE, a.used, a.s, {})
      BY <1>1, <1>6, <2>7
    <3>2. /\ x.ok = TRUE /\ x.used = a.used \ back /\ x.s = a.s /\ x.lost = {}
          /\ x.stray = (back # buf)
      BY <3>1, Zenon
    <3>3. x.stray \in BOOLEAN /\ (~x.stray => back = buf)
      BY <3>2, Zenon
    <3>4. ~x.stray => /\ x.used = u \cup Owned(x.s) \cup x.lost
                      /\ u \cap Owned(x.s) = {} /\ u \cap x.lost = {}
      BY <1>2, <2>3, <2>4, <3>2, <3>3, Zenon
    <3>5. x.used \in SUBSET Frame /\ x.lost \in SUBSET Frame /\ x.s \in Space
      BY <1>2, <2>3, <2>4, <3>2, Zenon
    <3> QED BY <2>1, <2>2, <2>3, <3>2, <3>3, <3>4, <3>5, Zenon DEF x, d
  <2> QED BY <2>5, <2>6, <2>7
<1> QED BY <1>5, <1>6

-----------------------------------------------------------------------------
(* The array of mappings.                                                   *)

Vma == {v \in [start : MMAP_BASE .. NPAGES, end : MMAP_BASE .. NPAGES] : v.start < v.end}
Apart(vs) == \A i, j \in DOMAIN vs : i # j => ~Overlaps(vs[i], vs[j].start, vs[j].end)

\* The bounds of an area.
LEMMA VmaNumbers ==
  ASSUME NEW v \in Vma
  PROVE  /\ v.start \in Nat /\ v.end \in Nat /\ v.start < v.end
         /\ MMAP_BASE <= v.start /\ v.end <= NPAGES
BY Sizes DEF Vma

\* What vma_remove has done to the array vs after k turns.
Removed(vs, w, n, k, from, to) ==
  /\ Len(w) <= n /\ n - k <= Len(w) /\ Apart(w)
  /\ \A i \in 1 .. n - k : w[i] = vs[i]
  /\ \A i \in 1 .. Len(w) : i > n - k => ~Overlaps(w[i], from, to)
  /\ \A i \in 1 .. Len(w) : \E j \in 1 .. n : w[i] = vs[j]
  /\ \A j \in 1 .. n : ~Overlaps(vs[j], from, to) => \E i \in 1 .. Len(w) : w[i] = vs[j]

\* The entry that moves into the hole has been looked at: one turn.
LEMMA LookRemoves ==
  ASSUME NEW vs \in Seq(Vma), NEW n \in Nat, n = Len(vs), NEW from, NEW to, NEW k \in 1 .. n,
         NEW w \in Seq(Vma), Removed(vs, w, n, k - 1, from, to)
  PROVE  /\ Look(w, n + 1 - k, from, to) \in Seq(Vma)
         /\ Removed(vs, Look(w, n + 1 - k, from, to), n, k, from, to)
<1> DEFINE i == n + 1 - k
           z == Look(w, i, from, to)
           l == Len(w)
<1>1. /\ i \in 1 .. l /\ l \in Nat /\ l <= n /\ w \in [1 .. l -> Vma] /\ DOMAIN w = 1 .. l
      /\ n - (k - 1) = i /\ n - k = i - 1
  BY DEF Removed
<1>2. CASE ~Overlaps(w[i], from, to)
  <2>1. z = w
    BY <1>2, Zenon DEF Look
  <2> HIDE DEF z, l, i
  <2>2. \A m \in 1 .. l : m > i - 1 => m > i \/ m = i
    BY <1>1
  <2>3. Removed(vs, w, n, k, from, to)
    BY <1>1, <1>2, <2>2, SMTT(30) DEF Removed, l
  <2> QED BY <2>1, <2>3, Zenon DEF z, i
<1>3. CASE Overlaps(w[i], from, to)
  <2>1. z = [m \in 1 .. l - 1 |-> IF m = i THEN w[l] ELSE w[m]]
    BY <1>3, Zenon DEF Look, Drop
  <2> HIDE DEF z, l, i
  <2>2. /\ z \in [1 .. l - 1 -> Vma] /\ l - 1 \in Nat
        /\ \A m \in 1 .. l - 1 : z[m] = IF m = i THEN w[l] ELSE w[m]
    BY <1>1, <2>1
  <2>3. z \in Seq(Vma) /\ Len(z) = l - 1 /\ DOMAIN z = 1 .. l - 1
    BY <2>2, FunSeq, SMTT(30)
  <2>4. Len(z) <= n /\ n - k <= Len(z)
    BY <1>1, <2>3
  <2>5. Apart(z)
    <3> SUFFICES ASSUME NEW p \in 1 .. l - 1, NEW q \in 1 .. l - 1, p # q
                 PROVE  ~Overlaps(z[p], z[q].start, z[q].end)
      BY <2>3, Zenon DEF Apart
    <3> DEFINE s(m) == IF m = i THEN l ELSE m
    <3>1. z[p] = w[s(p)] /\ z[q] = w[s(q)] /\ s(p) # s(q) /\ s(p) \in 1 .. l /\ s(q) \in 1 .. l
      BY <1>1, <2>2
    <3> HIDE DEF s
    <3> QED BY <1>1, <3>1, SMTT(30) DEF Removed, Apart
  <2>6. \A m \in 1 .. n - k : z[m] = vs[m]
    BY <1>1, <2>2, SMT DEF Removed
  <2>7. ASSUME NEW m \in 1 .. l - 1, m > n - k PROVE ~Overlaps(z[m], from, to)
    <3>1. CASE m = i
      <4>1. l \in 1 .. l /\ l > i /\ z[m] = w[l]
        BY <1>1, <2>2, <3>1
      <4> QED BY <1>1, <4>1, SMTT(30) DEF Removed, l
    <3>2. CASE m # i
      <4>1. m \in 1 .. l /\ m > i /\ z[m] = w[m]
        BY <1>1, <2>2, <2>7, <3>2, SMTT(30)
      <4> QED BY <1>1, <4>1, Zenon DEF Removed, l
    <3> QED BY <3>1, <3>2, Zenon
  <2>8. ASSUME NEW m \in 1 .. l - 1 PROVE \E j \in 1 .. n : z[m] = vs[j]
    <3>1. \E r \in 1 .. l : z[m] = w[r]
      BY <1>1, <2>2, SMTT(30)
    <3> QED BY <3>1, SMTT(30) DEF Removed, l
  <2>9. ASSUME NEW j \in 1 .. n, ~Overlaps(vs[j], from, to)
        PROVE  \E m \in 1 .. l - 1 : z[m] = vs[j]
    <3>1. PICK r \in 1 .. l : w[r] = vs[j]
      BY <2>9, Zenon DEF Removed, l
    <3>2. r # i
      BY <1>3, <2>9, <3>1, Zenon
    <3>3. CASE r = l
      <4>1. i \in 1 .. l - 1 /\ z[i] = w[l]
        BY <1>1, <2>2, <3>2, <3>3
      <4> QED BY <3>1, <3>3, <4>1, Zenon
    <3>4. CASE r # l
      <4>1. r \in 1 .. l - 1 /\ z[r] = w[r]
        BY <1>1, <2>2, <3>2, <3>4
      <4> QED BY <3>1, <4>1, Zenon
    <3> QED BY <3>3, <3>4, Zenon
  <2>10. Removed(vs, z, n, k, from, to)
    BY <2>3, <2>4, <2>5, <2>6, <2>7, <2>8, <2>9, SMTT(30) DEF Removed
  <2> QED BY <2>3, <2>10, Zenon DEF z, i
<1> QED BY <1>2, <1>3, Zenon

\* vma_remove removes the mappings that overlap the range, and no other.
LEMMA VmaRemoveRight ==
  ASSUME NEW vs \in Seq(Vma), Apart(vs), NEW from, NEW to
  PROVE  /\ VmaRemove(vs, from, to) \in Seq(Vma)
         /\ Len(VmaRemove(vs, from, to)) <= Len(vs)
         /\ Apart(VmaRemove(vs, from, to))
         /\ Range(VmaRemove(vs, from, to)) = {v \in Range(vs) : ~Overlaps(v, from, to)}
<1> DEFINE n == Len(vs)
           J == [k \in 0 .. n |-> {w \in Seq(Vma) : Removed(vs, w, n, k, from, to)}]
           y == VmaRemove(vs, from, to)
<1>1. n \in Nat /\ n = Len(vs) /\ vs \in [1 .. n -> Vma] /\ DOMAIN vs = 1 .. n
  OBVIOUS
<1> HIDE DEF n
<1>2. vs \in J[0]
  <2>1. Removed(vs, vs, n, 0, from, to)
    BY <1>1 DEF Removed
  <2> QED BY <1>1, <2>1
<1>3. ASSUME NEW k \in 1 .. n, NEW w \in J[k - 1]
      PROVE  Look(w, n + 1 - k, from, to) \in J[k]
  <2>1. w \in Seq(Vma) /\ Removed(vs, w, n, k - 1, from, to) /\ k \in 0 .. n
    BY <1>1, <1>3
  <2> QED BY <1>1, <2>1, LookRemoves, Zenon
<1> HIDE DEF J
<1>4. y \in J[n]
  BY <1>1, <1>2, <1>3, VmaRemoveLoop, Zenon
<1>5. y \in Seq(Vma) /\ Removed(vs, y, n, n, from, to)
  BY <1>1, <1>4 DEF J
<1> HIDE DEF y
<1>6. DOMAIN y = 1 .. Len(y) /\ \A i \in 1 .. Len(y) : i > n - n
  BY <1>1, <1>5
<1>7. \A v : v \in Range(y) <=> v \in Range(vs) /\ ~Overlaps(v, from, to)
  BY <1>1, <1>5, <1>6, SMTT(30) DEF Range, Removed
<1> QED BY <1>1, <1>5, <1>7, Zenon DEF Removed, y

\* vma_find_gap finds the lowest address from c on where n pages fit.
Room(vs, n, c) == {x \in c .. NPAGES - n : Hits(vs, x, x + n) = {}}
Lowest(vs, n, c) == IF Room(vs, n, c) = {} THEN -1 ELSE Min(Room(vs, n, c))

\* One turn of its loop.
GapStep(f, vs, n, c) ==
  IF c + n > NPAGES THEN -1
  ELSE LET hits == Hits(vs, c, c + n)
       IN IF hits = {} THEN c ELSE f[vs[Min(hits)].end]

\* One turn of vma_find_gap: it gives up, stops at a gap, or goes on behind
\* the first area in its way, and passes no gap by.
LEMMA GapSteps ==
  ASSUME NEW vs \in Seq(Vma), NEW n \in Nat \ {0}, NEW c \in MMAP_BASE .. NPAGES
  PROVE  \/ c + n > NPAGES /\ Lowest(vs, n, c) = -1
         \/ c + n <= NPAGES /\ Hits(vs, c, c + n) = {} /\ Lowest(vs, n, c) = c
         \/ /\ c + n <= NPAGES /\ Hits(vs, c, c + n) # {}
            /\ vs[Min(Hits(vs, c, c + n))].end \in c + 1 .. NPAGES
            /\ Lowest(vs, n, c) = Lowest(vs, n, vs[Min(Hits(vs, c, c + n))].end)
<1> DEFINE hits == Hits(vs, c, c + n)
<1>0. c \in Nat /\ NPAGES \in Nat
  BY Sizes
<1>1. CASE c + n > NPAGES
  <2>1. Room(vs, n, c) = {}
    BY <1>0, <1>1 DEF Room
  <2> QED BY <1>1, <2>1, Zenon DEF Lowest
<1>2. CASE c + n <= NPAGES /\ hits = {}
  <2>1. c \in Room(vs, n, c) /\ Room(vs, n, c) \in SUBSET Nat
        /\ \A x \in Room(vs, n, c) : c <= x
    BY <1>0, <1>2 DEF Room
  <2>2. Min(Room(vs, n, c)) \in Room(vs, n, c) /\ Min(Room(vs, n, c)) <= c
    BY <2>1, MinIn, Zenon
  <2>3. Min(Room(vs, n, c)) = c
    BY <1>0, <2>1, <2>2
  <2> QED BY <1>2, <2>1, <2>3, Zenon DEF Lowest
<1>3. CASE c + n <= NPAGES /\ hits # {}
  <2>1. hits \in SUBSET Nat
    BY DEF Hits
  <2>2. Min(hits) \in hits
    BY <1>3, <2>1, MinIn, Zenon
  <2> DEFINE v == vs[Min(hits)]
  <2>3. v \in Vma /\ Overlaps(v, c, c + n) /\ Min(hits) \in DOMAIN vs
    BY <2>2 DEF Hits
  <2>4. /\ v.start \in Nat /\ v.end \in Nat /\ v.end <= NPAGES
        /\ c < v.end /\ c + n > v.start
    BY <2>3, VmaNumbers, Zenon DEF Overlaps
  <2>5. v.end \in c + 1 .. NPAGES
    BY <1>0, <2>4, SMTT(30)
  <2>6. ASSUME NEW x \in Nat, c <= x, x < v.end PROVE Hits(vs, x, x + n) # {}
    <3>1. Overlaps(v, x, x + n)
      BY <1>0, <2>4, <2>6, SMTT(30) DEF Overlaps
    <3> QED BY <2>3, <3>1, Zenon DEF Hits
  <2> HIDE DEF v, hits
  <2>7. Room(vs, n, c) = Room(vs, n, v.end)
    <3>1. \A x : x \in Room(vs, n, c) <=> x \in c .. NPAGES - n /\ Hits(vs, x, x + n) = {}
      BY Zenon DEF Room
    <3>2. \A x : x \in Room(vs, n, v.end) <=>
                   x \in v.end .. NPAGES - n /\ Hits(vs, x, x + n) = {}
      BY Zenon DEF Room
    <3>3. ASSUME NEW x \in c .. NPAGES - n, Hits(vs, x, x + n) = {}
          PROVE  x \in v.end .. NPAGES - n
      BY <1>0, <2>4, <2>6, <3>3, SMTT(30)
    <3>4. ASSUME NEW x \in v.end .. NPAGES - n PROVE x \in c .. NPAGES - n
      BY <1>0, <2>4, <3>4
    <3> QED BY <3>1, <3>2, <3>3, <3>4, Zenon
  <2>8. Lowest(vs, n, c) = Lowest(vs, n, v.end)
    BY <2>7 DEF Lowest
  <2> QED BY <1>3, <2>5, <2>8, Zenon DEF v, hits
<1>4. c + n > NPAGES \/ c + n <= NPAGES
  BY <1>0
<1> QED BY <1>1, <1>2, <1>3, <1>4, Zenon

\* vma_find_gap finds the lowest gap, whatever the order of the array.
LEMMA FindGapLowest ==
  ASSUME NEW vs \in Seq(Vma), NEW n \in Nat \ {0}
  PROVE  FindGap(vs, n) = Lowest(vs, n, MMAP_BASE)
<1> DEFINE D == MMAP_BASE .. NPAGES
           Eq(f) == f = [c \in D |-> GapStep(f, vs, n, c)]
           F == [c \in D |-> Lowest(vs, n, c)]
           g == CHOOSE f : Eq(f)
<1>1. FindGap(vs, n) = g[MMAP_BASE]
  BY Zenon DEF FindGap, GapStep
<1>2. Eq(F)
  <2>1. ASSUME NEW c \in D PROVE F[c] = GapStep(F, vs, n, c)
    <3> DEFINE hits == Hits(vs, c, c + n)
               next == vs[Min(hits)].end
    <3>1. \/ c + n > NPAGES /\ Lowest(vs, n, c) = -1
          \/ c + n <= NPAGES /\ hits = {} /\ Lowest(vs, n, c) = c
          \/ /\ c + n <= NPAGES /\ hits # {}
             /\ next \in c + 1 .. NPAGES /\ Lowest(vs, n, c) = Lowest(vs, n, next)
      BY GapSteps, Zenon
    <3>2. F[c] = Lowest(vs, n, c)
      BY Zenon
    <3>3. GapStep(F, vs, n, c) =
            IF c + n > NPAGES THEN -1 ELSE IF hits = {} THEN c ELSE F[next]
      BY Zenon DEF GapStep
    <3>4. c \in Nat /\ n \in Nat /\ NPAGES \in Nat /\ MMAP_BASE \in Nat /\ c >= MMAP_BASE
      BY Sizes
    <3>5. c + n <= NPAGES => ~(c + n > NPAGES)
      BY <3>4
    <3>6. next \in c + 1 .. NPAGES => next \in D
      BY <3>4, SMTT(30)
    <3>7. next \in D => F[next] = Lowest(vs, n, next)
      BY Zenon
    <3> HIDE DEF next, hits, F, D
    <3> QED BY <3>1, <3>2, <3>3, <3>5, <3>6, <3>7, Zenon
  <2> HIDE DEF D
  <2>2. [c \in D |-> F[c]] = [c \in D |-> GapStep(F, vs, n, c)]
    BY <2>1, Zenon
  <2> QED BY <2>2, Zenon
<1>3. Eq(g)
  <2> HIDE DEF Eq, F
  <2> QED BY <1>2, Zenon
<1>4. \A c \in D : g[c] = GapStep(g, vs, n, c)
  <2> HIDE DEF g, D
  <2> QED BY <1>3, Zenon
<1> HIDE DEF g, F, Eq
<1> DEFINE T == {m \in 0 .. NPAGES : \A c \in D : NPAGES - c <= m => g[c] = Lowest(vs, n, c)}
<1>5. 0 \in T
  <2>1. ASSUME NEW c \in D, NPAGES - c <= 0 PROVE g[c] = Lowest(vs, n, c)
    <3>1. c + n > NPAGES
      BY <2>1, Sizes
    <3> QED BY <1>4, <3>1, GapSteps, Sizes DEF GapStep
  <2> QED BY <2>1, Sizes
<1>6. ASSUME NEW m \in 1 .. NPAGES, m - 1 \in T PROVE m \in T
  <2>1. ASSUME NEW c \in D, NPAGES - c <= m PROVE g[c] = Lowest(vs, n, c)
    <3>1. g[c] = GapStep(g, vs, n, c)
      BY <1>4, Zenon
    <3>2. CASE c + n > NPAGES \/ Hits(vs, c, c + n) = {}
      BY <3>1, <3>2, GapSteps, Sizes DEF GapStep
    <3>3. CASE ~(c + n > NPAGES \/ Hits(vs, c, c + n) = {})
      <4> DEFINE d == vs[Min(Hits(vs, c, c + n))].end
      <4>1. g[c] = g[d]
        BY <3>1, <3>3, Zenon DEF GapStep
      <4>2. d \in c + 1 .. NPAGES /\ Lowest(vs, n, c) = Lowest(vs, n, d)
        BY <3>3, GapSteps, Sizes, Zenon
      <4> HIDE DEF d
      <4>3. d \in D /\ NPAGES - d <= m - 1
        BY <2>1, <4>2, Sizes
      <4>4. g[d] = Lowest(vs, n, d)
        BY <1>6, <4>3, Zenon
      <4> QED BY <4>1, <4>2, <4>4, Zenon
    <3> QED BY <3>2, <3>3, Zenon
  <2> QED BY <2>1, Sizes
<1>7. 0 .. NPAGES \subseteq T
  <2>1. NPAGES \in Nat
    BY Sizes, Zenon
  <2> HIDE DEF T
  <2> QED BY <1>5, <1>6, <2>1, Climb, SMTT(30)
<1>8. NPAGES \in T
  <2> HIDE DEF T
  <2> QED BY <1>7, Sizes
<1>9. MMAP_BASE \in D /\ NPAGES - MMAP_BASE <= NPAGES
  BY Sizes
<1> QED BY <1>1, <1>8, <1>9, Zenon

\* So the gap is free, and lies in the address space.
LEMMA GapFree ==
  ASSUME NEW vs \in Seq(Vma), NEW n \in Nat \ {0}, FindGap(vs, n) # -1
  PROVE  /\ FindGap(vs, n) \in Nat /\ MMAP_BASE <= FindGap(vs, n)
         /\ FindGap(vs, n) + n <= NPAGES
         /\ Hits(vs, FindGap(vs, n), FindGap(vs, n) + n) = {}
<1> DEFINE R == Room(vs, n, MMAP_BASE)
<1>1. R # {} /\ FindGap(vs, n) = Min(R)
  BY FindGapLowest, Zenon DEF Lowest
<1>2. R \in SUBSET Nat
  BY Sizes DEF Room
<1>3. Min(R) \in R
  BY <1>1, <1>2, MinIn, Zenon
<1>4. /\ Min(R) \in MMAP_BASE .. NPAGES - n
      /\ Hits(vs, Min(R), Min(R) + n) = {}
  BY <1>3, Zenon DEF Room
<1> HIDE DEF R
<1>5. Min(R) \in Nat /\ MMAP_BASE <= Min(R) /\ Min(R) + n <= NPAGES
  BY <1>4, Sizes
<1> QED BY <1>1, <1>4, <1>5, Zenon

\* vma_add of a mapping where there was none.
LEMMA VmaAdded ==
  ASSUME NEW vs \in Seq(Vma), Apart(vs), NEW v \in Vma, Hits(vs, v.start, v.end) = {}
  PROVE  /\ Append(vs, v) \in Seq(Vma) /\ Len(Append(vs, v)) = Len(vs) + 1
         /\ Apart(Append(vs, v))
         /\ \A p \in Nat : Hits(vs, p, p + 1) # {} => Hits(Append(vs, v), p, p + 1) # {}
         /\ \A p \in Nat : v.start <= p /\ p < v.end => Hits(Append(vs, v), p, p + 1) # {}
<1> DEFINE ws == Append(vs, v)
           n == Len(vs)
<1>1. n \in Nat /\ DOMAIN vs = 1 .. n /\ vs \in [1 .. n -> Vma]
  OBVIOUS
<1>2. /\ ws \in Seq(Vma) /\ Len(ws) = n + 1 /\ DOMAIN ws = 1 .. n + 1
      /\ \A i \in 1 .. n : ws[i] = vs[i]
      /\ ws[n + 1] = v
  OBVIOUS
<1> HIDE DEF ws, n
<1>3. Apart(ws)
  <2> SUFFICES ASSUME NEW i \in 1 .. n + 1, NEW j \in 1 .. n + 1, i # j
               PROVE  ~Overlaps(ws[i], ws[j].start, ws[j].end)
    BY <1>2, Zenon DEF Apart
  <2>1. \A k \in 1 .. n : ~Overlaps(vs[k], v.start, v.end)
    BY <1>1, Zenon DEF Hits
  <2>2. CASE i # n + 1 /\ j # n + 1
    <3>1. i \in 1 .. n /\ j \in 1 .. n
      BY <1>1, <2>2
    <3>2. ~Overlaps(vs[i], vs[j].start, vs[j].end)
      BY <1>1, <3>1, Zenon DEF Apart
    <3> QED BY <1>2, <3>1, <3>2, Zenon
  <2>3. CASE j = n + 1
    BY <1>1, <1>2, <2>1, <2>3
  <2>4. CASE i = n + 1
    <3>1. j \in 1 .. n /\ ws[j] = vs[j] /\ ws[i] = v /\ vs[j] \in Vma
      BY <1>1, <1>2, <2>4
    <3>2. ~Overlaps(vs[j], v.start, v.end)
      BY <2>1, <3>1, Zenon
    <3>3. /\ v.start \in Nat /\ v.end \in Nat /\ vs[j].start \in Nat /\ vs[j].end \in Nat
      BY <3>1, VmaNumbers, Zenon
    <3> QED BY <3>1, <3>2, <3>3, Zenon DEF Overlaps
  <2> QED BY <2>2, <2>3, <2>4, Zenon
<1>4. ASSUME NEW p \in Nat, Hits(vs, p, p + 1) # {} PROVE Hits(ws, p, p + 1) # {}
  <2>1. PICK i \in 1 .. n : Overlaps(vs[i], p, p + 1)
    BY <1>1, <1>4, Zenon DEF Hits
  <2>2. i \in 1 .. n + 1 /\ Overlaps(ws[i], p, p + 1)
    BY <1>1, <1>2, <2>1
  <2> QED BY <1>2, <2>2 DEF Hits
<1>5. ASSUME NEW p \in Nat, v.start <= p, p < v.end PROVE Hits(ws, p, p + 1) # {}
  <2>1. v.start \in Nat /\ v.end \in Nat
    BY VmaNumbers, Zenon
  <2>2. n + 1 \in 1 .. n + 1 /\ Overlaps(ws[n + 1], p, p + 1)
    BY <1>1, <1>2, <1>5, <2>1 DEF Overlaps
  <2> QED BY <1>2, <2>2, Zenon DEF Hits
<1> QED BY <1>2, <1>3, <1>4, <1>5, Zenon DEF ws, n

\* vma_remove of mappings that lie in the range leaves a page outside it in
\* the mapping it was in.
LEMMA VmaKept ==
  ASSUME NEW vs \in Seq(Vma), Apart(vs), NEW from, NEW to,
         \A i \in Hits(vs, from, to) : from <= vs[i].start /\ vs[i].end <= to,
         NEW p, p \in Nat, from \in Nat, to \in Nat, ~(from <= p /\ p < to),
         Hits(vs, p, p + 1) # {}
  PROVE  Hits(VmaRemove(vs, from, to), p, p + 1) # {}
<1> DEFINE ws == VmaRemove(vs, from, to)
<1>1. ws \in Seq(Vma) /\ Range(ws) = {v \in Range(vs) : ~Overlaps(v, from, to)}
  BY VmaRemoveRight, Zenon
<1> HIDE DEF ws
<1>2. PICK i \in DOMAIN vs : Overlaps(vs[i], p, p + 1)
  BY DEF Hits
<1>3. vs[i].start \in Nat /\ vs[i].end \in Nat
  BY VmaNumbers
<1>4. ~Overlaps(vs[i], from, to)
  <2> SUFFICES ASSUME Overlaps(vs[i], from, to) PROVE FALSE
    BY Zenon
  <2>1. from <= vs[i].start /\ vs[i].end <= to
    BY Zenon DEF Hits
  <2> QED BY <1>2, <1>3, <2>1, SMTT(30) DEF Overlaps
<1>5. vs[i] \in Range(ws)
  BY <1>1, <1>4, Zenon DEF Range
<1>6. PICK j \in DOMAIN ws : ws[j] = vs[i]
  BY <1>5, Zenon DEF Range
<1>7. Hits(ws, p, p + 1) # {}
  BY <1>2, <1>6, Zenon DEF Hits
<1> QED BY <1>7, Zenon DEF ws

-----------------------------------------------------------------------------
(* A brk succeeds when there are frames for it.                             *)

\* Taking a frame that is free leaves one less.
LEMMA OneLess ==
  ASSUME NEW u \in SUBSET Frame
  PROVE  /\ Cardinality(Free(u)) \in Nat
         /\ Cardinality(Free(u)) > 0 => FrameAlloc(u) \in Free(u)
         /\ \A f \in Free(u) : Cardinality(Free(u \cup {f})) = Cardinality(Free(u)) - 1
<1>1. NFRAMES \in Nat
  BY Sizes, Zenon
<1>2. Free(u) \in SUBSET (0 .. NFRAMES)
  BY <1>1 DEF Free, Frame
<1>3. Cardinality(Free(u)) \in Nat
  BY <1>1, <1>2, Counting, Zenon
<1>4. Cardinality(Free(u)) > 0 => FrameAlloc(u) \in Free(u)
  <2>1. Cardinality(Free(u)) > 0 => Free(u) # {}
    <3>1. Cardinality(Free(u)) = 0 <=> Free(u) = {}
      BY <1>1, <1>2, Counting, Zenon
    <3> QED BY <3>1
  <2>2. Free(u) # {} => FrameAlloc(u) \in Frame /\ FrameAlloc(u) \notin u
    BY FrameAllocFree, Zenon
  <2> QED BY <2>1, <2>2, Zenon DEF Free
<1>5. ASSUME NEW f \in Free(u)
      PROVE  Cardinality(Free(u \cup {f})) = Cardinality(Free(u)) - 1
  <2>1. Free(u \cup {f}) = Free(u) \ {f}
    BY Zenon DEF Free
  <2>2. Cardinality(Free(u) \ {f}) = Cardinality(Free(u)) - 1
    BY <1>1, <1>2, Counting, Zenon
  <2> QED BY <2>1, <2>2, SMTT(30)
<1> QED BY <1>3, <1>4, <1>5, Zenon

\* The frames that mm_alloc_at takes for page p.
Takes(s, p) == IF s.pt[TableOf(p)] = 0 THEN 2 ELSE 1

\* mm_alloc_at succeeds when there is a frame for the page and, if need be,
\* one for its table, and takes just these.
LEMMA AllocAtSucceeds ==
  ASSUME NEW O, NEW a \in Computation, Exact(a, O), a.ok, NEW p \in Page, a.s.pte[p] = 0,
         Cardinality(Free(a.used)) >= Takes(a.s, p),
         NEW b, b = AllocAt(a, p, TRUE)
  PROVE  /\ b.ok
         /\ Cardinality(Free(b.used)) = Cardinality(Free(a.used)) - Takes(a.s, p)
         /\ \A j \in Table : j # TableOf(p) => b.s.pt[j] = a.s.pt[j]
         /\ b.s.pt[TableOf(p)] # 0
<1> DEFINE f  == FrameAlloc(a.used)
           u1 == a.used \cup {f}
           i  == TableOf(p)
           pt == IF a.s.pt[i] # 0 THEN a.s.pt[i] ELSE FrameAlloc(u1)
           c  == Cardinality(Free(a.used))
<1>1. /\ a.used \in SUBSET Frame /\ a.s \in Space
      /\ a.s.pdir \in Entry /\ a.s.pt \in [Table -> Entry] /\ a.s.pte \in [Page -> Entry]
      /\ i \in Table
  BY Sizes DEF Computation, Space
<1>2. c \in Nat /\ c >= 1 /\ (a.s.pt[i] = 0 => c >= 2)
  BY <1>1, OneLess, SMTT(30) DEF Takes
<1>3. f \in Free(a.used) /\ f \in Frame /\ f # 0
  BY <1>1, <1>2, OneLess, Sizes DEF Free
<1>4. u1 \in SUBSET Frame /\ Cardinality(Free(u1)) = c - 1
  BY <1>1, <1>3, OneLess
<1>5. a.s.pt[i] = 0 => FrameAlloc(u1) \in Free(u1) /\ FrameAlloc(u1) \in Frame
  <2> HIDE DEF u1, c
  <2>1. a.s.pt[i] = 0 => Cardinality(Free(u1)) > 0
    BY <1>2, <1>4
  <2> QED BY <1>4, <2>1, OneLess DEF Free
<1>6. pt # 0 /\ pt \in Entry
  BY <1>1, <1>5, Sizes
<1>7. b = [a EXCEPT !.used = u1 \cup {pt}, !.done = @ \cup {p},
                    !.s = [@ EXCEPT !.pt[i] = pt, !.pte[p] = IF TRUE THEN f ELSE 0],
                    !.hidden = IF TRUE THEN @ ELSE @ \cup {f}]
  <2>1. ~(~a.ok \/ f = 0 \/ pt = 0 \/ a.s.pte[p] > 0)
    BY <1>3, <1>6
  <2> QED BY <2>1 DEF AllocAt
<1> HIDE DEF f, pt, i
<1>8. b.ok /\ b.used = u1 \cup {pt} /\ b.s = [a.s EXCEPT !.pt[i] = pt, !.pte[p] = f]
  <2> HIDE DEF u1
  <2> QED BY <1>7, Zenon DEF Computation
<1>9. b.s.pt = [a.s.pt EXCEPT ![i] = pt]
  BY <1>1, <1>8, Zenon DEF Space
<1>10. b.s.pt[i] # 0 /\ \A j \in Table : j # i => b.s.pt[j] = a.s.pt[j]
  BY <1>1, <1>6, <1>9, Zenon
<1>11. Cardinality(Free(b.used)) = c - Takes(a.s, p)
  <2>1. CASE a.s.pt[i] = 0
    <3>1. pt \in Free(u1) /\ Takes(a.s, p) = 2
      BY <1>5, <2>1 DEF pt, Takes, i
    <3>2. Cardinality(Free(u1 \cup {pt})) = Cardinality(Free(u1)) - 1
      BY <1>4, <3>1, OneLess
    <3>3. Cardinality(Free(b.used)) = Cardinality(Free(u1)) - 1
      BY <1>8, <3>2, Zenon
    <3>4. c \in Nat /\ Cardinality(Free(u1)) = c - 1
      BY <1>2, <1>4
    <3> DEFINE x == Cardinality(Free(u1))
               y == Cardinality(Free(b.used))
    <3>5. x = c - 1 /\ y = x - 1 /\ c \in Nat
      BY <3>3, <3>4, Zenon
    <3> HIDE DEF u1, c, x, y
    <3>6. y = c - 2
      BY <3>5
    <3> QED BY <3>1, <3>6, Zenon DEF y
  <2>2. CASE a.s.pt[i] # 0
    <3>1. pt = a.s.pt[i] /\ Takes(a.s, p) = 1
      BY <2>2 DEF pt, Takes, i
    <3>2. pt \in a.used
      BY <1>1, <2>2, <3>1, OwnedFrames DEF Exact
    <3>3. u1 \cup {pt} = u1
      BY <3>2
    <3> HIDE DEF u1, c
    <3> QED BY <1>2, <1>4, <1>8, <3>1, <3>3, Zenon
  <2> QED BY <2>1, <2>2, Zenon
<1> QED BY <1>8, <1>10, <1>11, Zenon DEF i, c

\* There are frames for the pages from .. to - 1, none of which is mapped.
Enough(a, from, to) ==
  /\ a.ok
  /\ \A p \in from .. to - 1 : a.s.pte[p] = 0
  /\ Cardinality(Free(a.used)) >= (to - from) + Cardinality(Missing(a.s, from, to))

\* The tables that are missing after the first page has been added.
LEMMA MissingLess ==
  ASSUME NEW s, NEW r, NEW p \in Nat, NEW to \in Nat, p < to, to <= NPAGES,
         \A j \in Table : j # TableOf(p) => r.pt[j] = s.pt[j],
         r.pt[TableOf(p)] # 0
  PROVE  /\ Cardinality(Missing(s, p, to)) \in Nat
         /\ Cardinality(Missing(r, p + 1, to)) \in Nat
         /\ Cardinality(Missing(r, p + 1, to)) + Takes(s, p)
              <= Cardinality(Missing(s, p, to)) + 1
<1> DEFINE M == Missing(s, p, to)
           N == Missing(r, p + 1, to)
           i == TableOf(p)
<1>1. NTABLES \in Nat
  BY Sizes, Zenon
<1>2. M \subseteq Table /\ N \subseteq Table
  BY Zenon DEF Missing
<1>3. M \in SUBSET (0 .. NTABLES) /\ N \in SUBSET (0 .. NTABLES)
  BY <1>1, <1>2 DEF Table
<1>4. Cardinality(M) \in Nat /\ Cardinality(N) \in Nat
  BY <1>1, <1>3, Counting, Zenon
<1>5. i \in Table /\ i = TableOf(p)
  BY Sizes DEF Page
<1>6. p \in p .. to - 1 /\ \A q \in p + 1 .. to - 1 : q \in p .. to - 1
  OBVIOUS
<1> HIDE DEF i
<1>7. N \subseteq M \ {i}
  BY <1>5, <1>6, Zenon DEF Missing
<1>8. s.pt[i] = 0 => i \in M
  BY <1>5, <1>6, Zenon DEF Missing
<1> HIDE DEF M, N
<1>9. Cardinality(M \ {i}) = IF i \in M THEN Cardinality(M) - 1 ELSE Cardinality(M)
  <2>1. CASE i \in M
    BY <1>1, <1>3, <2>1, Counting, Zenon
  <2>2. CASE i \notin M
    <3>1. M \ {i} = M
      BY <2>2, Zenon
    <3> QED BY <3>1, <2>2, Zenon
  <2> QED BY <2>1, <2>2, Zenon
<1>10. Cardinality(N) <= Cardinality(M \ {i})
  <2>1. M \ {i} \in SUBSET (0 .. NTABLES) /\ N \in SUBSET (M \ {i})
    BY <1>3, <1>7, Zenon
  <2> QED BY <1>1, <2>1, Counting, Zenon
<1>11. Cardinality(N) + Takes(s, p) <= Cardinality(M) + 1
  BY <1>4, <1>5, <1>8, <1>9, <1>10 DEF Takes
<1> QED BY <1>4, <1>11, Zenon DEF M, N

\* One turn of the loop.
LEMMA EnoughStep ==
  ASSUME NEW O, NEW x \in Computation, Exact(x, O), NEW p \in Nat, NEW to \in Nat,
         p < to, to <= NPAGES, Enough(x, p, to),
         NEW y, y = AllocAt(x, p, TRUE)
  PROVE  y \in Computation /\ Exact(y, O) /\ Enough(y, p + 1, to)
<1>1. p \in Page
  BY Sizes DEF Page
<1>2. /\ x.ok /\ x.s.pte[p] = 0 /\ p \in p .. to - 1
      /\ Cardinality(Free(x.used)) >= (to - p) + Cardinality(Missing(x.s, p, to))
  BY DEF Enough
<1>3. Cardinality(Free(x.used)) \in Nat
  BY OneLess DEF Computation
<1>4. Cardinality(Missing(x.s, p, to)) >= Takes(x.s, p) - 1
      /\ Cardinality(Missing(x.s, p, to)) \in Nat
  <2>1. NTABLES \in Nat /\ Missing(x.s, p, to) \in SUBSET (0 .. NTABLES)
    BY Sizes DEF Missing, Table
  <2>2. Cardinality(Missing(x.s, p, to)) \in Nat
    BY <2>1, Counting, Zenon
  <2>3. x.s.pt[TableOf(p)] = 0 => TableOf(p) \in Missing(x.s, p, to)
    BY <1>1, <1>2, Sizes DEF Missing
  <2>4. x.s.pt[TableOf(p)] = 0 => Cardinality(Missing(x.s, p, to)) # 0
    BY <2>1, <2>3, Counting, Zenon
  <2> QED BY <2>2, <2>4 DEF Takes
<1>5. Cardinality(Free(x.used)) >= Takes(x.s, p)
  BY <1>2, <1>3, <1>4, SMTT(30) DEF Takes
<1>6. /\ y.ok
      /\ Cardinality(Free(y.used)) = Cardinality(Free(x.used)) - Takes(x.s, p)
      /\ \A j \in Table : j # TableOf(p) => y.s.pt[j] = x.s.pt[j]
      /\ y.s.pt[TableOf(p)] # 0
  BY <1>1, <1>2, <1>5, AllocAtSucceeds, ZenonT(40)
<1>7. /\ y \in Computation /\ Exact(y, O)
      /\ \A q \in Page \ {p} : y.s.pte[q] = x.s.pte[q]
  <2>1. /\ AllocAt(x, p, TRUE) \in Computation /\ Exact(AllocAt(x, p, TRUE), O)
        /\ AllocAt(x, p, TRUE).ok =>
             \A q \in Page \ {p} : AllocAt(x, p, TRUE).s.pte[q] = x.s.pte[q]
    BY <1>1, AllocAtExact, ZenonT(40)
  <2> QED BY <1>6, <2>1, Zenon
<1>8. /\ Cardinality(Missing(y.s, p + 1, to)) \in Nat
      /\ Cardinality(Missing(y.s, p + 1, to)) + Takes(x.s, p)
           <= Cardinality(Missing(x.s, p, to)) + 1
  BY <1>6, MissingLess, Zenon
<1>9. Cardinality(Free(y.used)) >= (to - (p + 1)) + Cardinality(Missing(y.s, p + 1, to))
  <2> DEFINE fx == Cardinality(Free(x.used))
             fy == Cardinality(Free(y.used))
             mx == Cardinality(Missing(x.s, p, to))
             my == Cardinality(Missing(y.s, p + 1, to))
             tk == Takes(x.s, p)
  <2>1. /\ fx \in Nat /\ mx \in Nat /\ my \in Nat /\ tk \in Nat
        /\ fx >= (to - p) + mx /\ fy = fx - tk /\ my + tk <= mx + 1
    BY <1>2, <1>3, <1>4, <1>6, <1>8 DEF Takes
  <2> HIDE DEF fx, fy, mx, my, tk
  <2>2. fy >= (to - (p + 1)) + my
    BY <2>1
  <2> QED BY <2>2, Zenon DEF fy, my
<1>10. \A q \in p + 1 .. to - 1 : y.s.pte[q] = 0
  <2> SUFFICES ASSUME NEW q \in p + 1 .. to - 1 PROVE y.s.pte[q] = 0
    BY Zenon
  <2>1. q \in p .. to - 1 /\ q \in Page \ {p}
    BY Sizes DEF Page
  <2> QED BY <1>7, <2>1, Zenon DEF Enough
<1> QED BY <1>6, <1>7, <1>9, <1>10, Zenon DEF Enough

\* With frames for its pages and their page tables, the loop succeeds.
LEMMA AllocRangeSucceeds ==
  ASSUME NEW O, NEW a \in Computation, Exact(a, O), NEW from \in Nat, NEW n \in Nat \ {0},
         from + n <= NPAGES, Enough(a, from, from + n)
  PROVE  AllocRange(a, from, from + n, TRUE).ok
<1> DEFINE to == from + n
           J == [k \in 0 .. n |-> {x \in Computation :
                   Exact(x, O) /\ Enough(x, from + k, to)}]
<1>1. to \in Nat /\ to > from /\ to - from = n /\ to <= NPAGES /\ n \in 0 .. n
  OBVIOUS
<1>2. a \in J[0]
  <2>1. from + 0 = from
    OBVIOUS
  <2> QED BY <2>1
<1>3. ASSUME NEW k \in 1 .. n, NEW x \in J[k - 1]
      PROVE  AllocAt(x, from + k - 1, TRUE) \in J[k]
  <2> DEFINE p == from + k - 1
             y == AllocAt(x, p, TRUE)
  <2>1. /\ p \in Nat /\ p < to /\ p + 1 = from + k /\ from + (k - 1) = p
        /\ k - 1 \in 0 .. n /\ k \in 0 .. n
    BY <1>1
  <2>2. x \in Computation /\ Exact(x, O) /\ Enough(x, p, to)
    BY <1>3, <2>1, Zenon
  <2>3. y = AllocAt(x, p, TRUE)
    BY Zenon
  <2> HIDE DEF to, p, y
  <2>4. y \in Computation /\ Exact(y, O) /\ Enough(y, p + 1, to)
    BY <1>1, <2>1, <2>2, <2>3, EnoughStep, Zenon
  <2> QED BY <2>1, <2>4, Zenon DEF y, p
<1> HIDE DEF J
<1>4. AllocPages(a, from, n, TRUE) \in J[n]
  BY <1>2, <1>3, AllocPagesLoop, Zenon
<1>5. AllocPages(a, from, n, TRUE).ok
  BY <1>1, <1>4, Zenon DEF J, Enough
<1>6. AllocRange(a, from, to, TRUE) = AllocPages(a, from, n, TRUE)
  BY <1>1, Zenon DEF AllocRange
<1> QED BY <1>5, <1>6, Zenon
=============================================================================
