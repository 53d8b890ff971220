----------------------------- MODULE NamesProofs ----------------------------
(***************************************************************************)
(* Proofs about Names, for pools, directories and mount tables of any      *)
(* size, and any paths.                                                    *)
(***************************************************************************)
EXTENDS Names, FiniteSetTheorems, WellFoundedInduction, TLAPS

-----------------------------------------------------------------------------
(* How the proofs reason about the loops of the code.  The model writes a   *)
(* loop as a recursive function of the number of turns; what holds before   *)
(* the first turn, and is kept by each, holds at the end.                   *)

\* A set of numbers that has 0 and goes on up to n has all of 0 .. n.
LEMMA Climb ==
  ASSUME NEW n \in Nat, NEW U, 0 \in U, \A k \in 1 .. n : k - 1 \in U => k \in U
  PROVE  0 .. n \subseteq U
<1> DEFINE B == (0 .. n) \ U
<1>1. PICK R : /\ IsWellFoundedOn(R, Nat)
               /\ \A x, y \in Nat : y < x => <<y, x>> \in R
  <2>1. \A x, y \in Nat : y < x => <<y, x>> \in OpToRel(<, Nat)
    BY Zenon DEF OpToRel
  <2> QED BY <2>1, NatLessThanWellFounded, Zenon
<1>2. SUFFICES ASSUME B # {} PROVE FALSE
  BY Zenon
<1>3. B \subseteq Nat
  OBVIOUS
<1> HIDE DEF B
<1>4. PICK x \in B : \A y \in B : ~ (<<y, x>> \in R)
  BY <1>1, <1>2, <1>3, WFMin, Zenon
<1>5. x # 0 /\ x \in 1 .. n
  BY DEF B
<1>6. x - 1 \in Nat /\ x - 1 < x
  BY <1>5
<1>7. x - 1 \notin B
  BY <1>1, <1>4, <1>6, <1>3, Zenon
<1> QED BY <1>4, <1>5, <1>7 DEF B

\* The smallest member of a set of numbers.
LEMMA MinIn ==
  ASSUME NEW S \in SUBSET Nat, S # {}
  PROVE  Min(S) \in S /\ \A y \in S : Min(S) <= y
<1>1. PICK R : /\ IsWellFoundedOn(R, Nat)
               /\ \A x, y \in Nat : y < x => <<y, x>> \in R
  <2>1. \A x, y \in Nat : y < x => <<y, x>> \in OpToRel(<, Nat)
    BY Zenon DEF OpToRel
  <2> QED BY <2>1, NatLessThanWellFounded, Zenon
<1>2. PICK x \in S : \A y \in S : ~ (<<y, x>> \in R)
  BY <1>1, WFMin, Zenon
<1>3. \A y \in S : x <= y
  <2> SUFFICES ASSUME NEW y \in S PROVE ~ (y < x)
    OBVIOUS
  <2> QED BY <1>1, <1>2, Zenon
<1> QED BY <1>3, Zenon DEF Min

\* The largest of some numbers up to n is one of them.
LEMMA MaxIn ==
  ASSUME NEW n \in Nat, NEW S \in SUBSET (0 .. n), S # {}
  PROVE  Max(S) \in S /\ \A y \in S : y <= Max(S)
<1> DEFINE R == {n - y : y \in S}
<1>1. R \in SUBSET Nat /\ R # {}
  <2>1. \A y \in S : y \in 0 .. n
    BY Zenon
  <2>2. \A y \in S : n - y \in Nat
    BY <2>1
  <2>3. PICK y : y \in S
    BY Zenon
  <2>4. n - y \in R
    BY <2>3, Zenon
  <2> QED BY <2>2, <2>4, Zenon
<1>2. Min(R) \in R /\ \A z \in R : Min(R) <= z
  BY <1>1, MinIn, Zenon
<1>3. PICK m \in S : Min(R) = n - m
  BY <1>2, Zenon
<1>4. \A y \in S : m >= y
  <2> SUFFICES ASSUME NEW y \in S PROVE m >= y
    BY Zenon
  <2>1. n - y \in R
    BY Zenon
  <2>2. n - m <= n - y
    BY <1>2, <1>3, <2>1, Zenon
  <2> QED BY <2>2
<1>5. Max(S) \in S /\ \A y \in S : Max(S) >= y
  BY <1>4, Zenon DEF Max
<1> QED BY <1>5, Zenon

\* Counting the members of a set of numbers up to n.
LEMMA Counting ==
  ASSUME NEW n \in Nat, NEW S \in SUBSET (0 .. n)
  PROVE  /\ Cardinality(S) \in Nat
         /\ Cardinality(S) = 0 <=> S = {}
         /\ \A U \in SUBSET S : Cardinality(U) <= Cardinality(S)
         /\ \A x : x \notin S => Cardinality(S \cup {x}) = Cardinality(S) + 1
         /\ \A x \in S : Cardinality(S \ {x}) = Cardinality(S) - 1
<1>1. IsFiniteSet(0 .. n)
  BY FS_Interval
<1>2. IsFiniteSet(S)
  BY <1>1, FS_Subset, Zenon
<1>3. Cardinality(S) \in Nat
  BY <1>2, FS_CardinalityType, Zenon
<1>4. Cardinality(S) = 0 <=> S = {}
  BY <1>2, FS_EmptySet, Zenon
<1>5. \A U \in SUBSET S : Cardinality(U) <= Cardinality(S)
  BY <1>2, FS_Subset, Zenon
<1>6. \A x : x \notin S => Cardinality(S \cup {x}) = Cardinality(S) + 1
  BY <1>2, FS_AddElement, Zenon
<1>7. \A x \in S : Cardinality(S \ {x}) = Cardinality(S) - 1
  BY <1>2, FS_RemoveElement, Zenon
<1> QED BY <1>3, <1>4, <1>5, <1>6, <1>7, Zenon

\* A function over 1 .. n is a sequence.
LEMMA FunSeq ==
  ASSUME NEW S, NEW n \in Nat, NEW f \in [1 .. n -> S]
  PROVE  f \in Seq(S) /\ Len(f) = n
<1>1. f = [i \in 1 .. n |-> f[i]]
  BY Zenon
<1> DEFINE g == [i \in 1 .. n |-> f[i]]
<1>2. Len(g) = n /\ g \in Seq(S)
  OBVIOUS
<1> QED BY <1>1, <1>2, Zenon

\* f has the states of a loop of n turns that starts from a, turn k of which
\* is the function g[k]; J[k] is what holds after turn k.
IsLoop(f, n, a, g) == f = [k \in 0 .. n |-> IF k = 0 THEN a ELSE g[k][f[k - 1]]]
Keeps(J, n, g) == \A k \in 1 .. n : \A x \in J[k - 1] : g[k][x] \in J[k]

\* A loop whose turns keep J has states, which are in J.
LEMMA LoopExists ==
  ASSUME NEW n \in Nat, NEW J, NEW g, NEW a, a \in J[0], Keeps(J, n, g)
  PROVE  \E f : IsLoop(f, n, a, g) /\ \A k \in 0 .. n : f[k] \in J[k]
<1> DEFINE Good(f, m) == IsLoop(f, m, a, g) /\ \A k \in 0 .. m : f[k] \in J[k]
           U == {m \in 0 .. n : \E f : Good(f, m)}
<1>1. 0 \in U
  <2> DEFINE f == [k \in 0 .. 0 |-> a]
  <2>1. f = [k \in 0 .. 0 |-> IF k = 0 THEN a ELSE g[k][f[k - 1]]]
    OBVIOUS
  <2>2. Good(f, 0)
    BY <2>1 DEF IsLoop
  <2> HIDE DEF Good, f
  <2> QED BY <2>2
<1>2. ASSUME NEW m \in 1 .. n, m - 1 \in U PROVE m \in U
  <2>1. PICK f : Good(f, m - 1)
    BY <1>2, Zenon
  <2> DEFINE h == [k \in 0 .. m |-> IF k = m THEN g[m][f[m - 1]] ELSE f[k]]
  <2>2. ASSUME NEW k \in 0 .. m PROVE h[k] = IF k = 0 THEN a ELSE g[k][h[k - 1]]
    <3>1. CASE k = m
      BY <3>1
    <3>2. CASE k # m
      <4>1. k \in 0 .. m - 1 BY <3>2
      <4>2. f[k] = IF k = 0 THEN a ELSE g[k][f[k - 1]]
        BY <2>1, <4>1, Zenon DEF IsLoop
      <4>3. k # 0 => h[k - 1] = f[k - 1]
        BY <4>1
      <4> QED BY <4>2, <4>1, <4>3
    <3> QED BY <3>1, <3>2, Zenon
  <2>3. IsLoop(h, m, a, g)
    <3> HIDE DEF h
    <3>1. h = [k \in 0 .. m |-> h[k]]
      BY Zenon DEF h
    <3> QED BY <3>1, <2>2, SMTT(30) DEF IsLoop
  <2>4. \A k \in 0 .. m : h[k] \in J[k]
    <3>1. \A k \in 0 .. m - 1 : h[k] \in J[k]
      BY <2>1
    <3>2. m \in 1 .. n /\ f[m - 1] \in J[m - 1]
      BY <2>1
    <3>3. h[m] = g[m][f[m - 1]]
      OBVIOUS
    <3>4. h[m] \in J[m]
      BY <3>2, <3>3, Zenon DEF Keeps
    <3> HIDE DEF h
    <3> QED BY <3>1, <3>4
  <2>5. Good(h, m)
    BY <2>3, <2>4, Zenon
  <2> HIDE DEF Good, h
  <2> QED BY <2>5
<1>3. n \in U
  <2> HIDE DEF U
  <2>1. 0 .. n \subseteq U
    BY <1>1, <1>2, Climb, Zenon
  <2> QED BY <2>1
<1> QED BY <1>3, Zenon

\* The states of a loop are in J.
LEMMA LoopKeeps ==
  ASSUME NEW n \in Nat, NEW J, NEW h, h[0] \in J[0],
         \A k \in 1 .. n : h[k - 1] \in J[k - 1] => h[k] \in J[k]
  PROVE  h[n] \in J[n]
<1> DEFINE U == {k \in 0 .. n : h[k] \in J[k]}
<1>1. 0 \in U
  OBVIOUS
<1>2. \A k \in 1 .. n : k - 1 \in U => k \in U
  OBVIOUS
<1>3. 0 .. n \subseteq U
  <2> HIDE DEF U
  <2> QED BY <1>1, <1>2, Climb, Zenon
<1> QED BY <1>3

\* The first m members of a sequence.
LEMMA Prefix ==
  ASSUME NEW S, NEW s \in Seq(S), NEW m \in 0 .. Len(s)
  PROVE  /\ SubSeq(s, 1, m) \in Seq(S) /\ Len(SubSeq(s, 1, m)) = m
         /\ \A k \in 1 .. m : SubSeq(s, 1, m)[k] = s[k]
<1>1. Len(s) \in Nat /\ m \in Nat /\ m <= Len(s)
  OBVIOUS
<1>2. Len(SubSeq(s, 1, m)) = m
  BY <1>1
<1>3. \A k \in 1 .. m : SubSeq(s, 1, m)[k] = s[k]
  BY <1>1
<1>4. SubSeq(s, 1, m) \in Seq(S)
  BY <1>1
<1> QED BY <1>2, <1>3, <1>4, Zenon

-----------------------------------------------------------------------------
(* The loops of the code, one lemma for each.                               *)

\* The loop of populate_dir.
LEMMA PopulateDirLoop ==
  ASSUME NEW t, NEW s, NEW J, Len(Devices) \in Nat, t \in J[0],
         \A k \in 1 .. Len(Devices) : \A x \in J[k - 1] : Populate(x, s, Devices[k]) \in J[k]
  PROVE  PopulateDir(t, s) \in J[Len(Devices)]
<1> DEFINE n == Len(Devices)
           Turn(x, k) == Populate(x, s, Devices[k])
           Eq(f) == f = [k \in 0 .. n |-> IF k = 0 THEN t ELSE Turn(f[k - 1], k)]
           g == [k \in 1 .. n |-> [x \in J[k - 1] |-> Turn(x, k)]]
           h == CHOOSE f : Eq(f)
<1>0. n \in Nat
  BY Zenon
<1>1. PopulateDir(t, s) = h[n]
  BY Zenon DEF PopulateDir
<1> HIDE DEF Turn
<1>2. \A k \in 1 .. n : \A x \in J[k - 1] : g[k][x] = Turn(x, k) /\ Turn(x, k) \in J[k]
  BY Zenon DEF Turn
<1> HIDE DEF g, n
<1>3. PICK f : IsLoop(f, n, t, g) /\ \A k \in 0 .. n : f[k] \in J[k]
  <2>1. Keeps(J, n, g)
    BY <1>2, Zenon DEF Keeps
  <2> QED BY <1>0, <2>1, LoopExists, Zenon
<1>4. Eq(f)
  BY <1>0, <1>2, <1>3 DEF IsLoop
<1>5. Eq(h)
  <2> HIDE DEF Eq
  <2> QED BY <1>4, Zenon
<1>6. \A k \in 0 .. n : h[k] = IF k = 0 THEN t ELSE Turn(h[k - 1], k)
  <2> HIDE DEF h
  <2> QED BY <1>5, Zenon
<1> HIDE DEF h, Eq
<1>7. n \in Nat /\ h[0] \in J[0] /\ \A k \in 1 .. n : h[k - 1] \in J[k - 1] => h[k] \in J[k]
  BY <1>0, <1>2, <1>6
<1>8. h[n] \in J[n]
  BY <1>7, LoopKeeps, Zenon
<1> QED BY <1>1, <1>8, Zenon DEF n

\* What both loops of path resolution come to, name by name: the inode and the
\* links followed, without a place in the text.
Step(at, name, follow) ==
  LET c == Mounted(at.ino)
      n == Lookup(T, c, name)
  IN IF at.ino = 0 THEN at
     ELSE IF n = 0 \/ node[n].type # "link" \/ ~follow THEN [ino |-> n, links |-> at.links]
     ELSE [ino |-> FollowedFrom(at), links |-> at.links + 1]

TraceStart == [ino |-> RootIno, links |-> 0]
TraceLoop(p) ==
  CHOOSE f : f = [k \in 0 .. Len(p) |->
                    IF k = 0 THEN TraceStart ELSE Step(f[k - 1], p[k], TRUE)]
Trace(p) == TraceLoop(p)[Len(p)]

\* The names of a path, one after the other.
LEMMA TraceLoops ==
  ASSUME NEW p, NEW J, Len(p) \in Nat, TraceStart \in J[0],
         \A k \in 1 .. Len(p) : \A x \in J[k - 1] : Step(x, p[k], TRUE) \in J[k]
  PROVE  /\ Trace(p) = TraceLoop(p)[Len(p)] /\ Trace(p) \in J[Len(p)]
         /\ TraceLoop(p)[0] = TraceStart
         /\ \A k \in 1 .. Len(p) : TraceLoop(p)[k] = Step(TraceLoop(p)[k - 1], p[k], TRUE)
<1> DEFINE n == Len(p)
           Turn(x, k) == Step(x, p[k], TRUE)
           Eq(f) == f = [k \in 0 .. n |-> IF k = 0 THEN TraceStart ELSE Turn(f[k - 1], k)]
           g == [k \in 1 .. n |-> [x \in J[k - 1] |-> Turn(x, k)]]
           h == CHOOSE f : Eq(f)
<1>0. n \in Nat
  OBVIOUS
<1>1. Trace(p) = h[n] /\ TraceLoop(p) = h
  BY DEF Trace, TraceLoop
<1> HIDE DEF Turn
<1>2. \A k \in 1 .. n : \A x \in J[k - 1] : g[k][x] = Turn(x, k) /\ Turn(x, k) \in J[k]
  BY Zenon DEF Turn
<1> HIDE DEF g, n
<1>3. PICK f : IsLoop(f, n, TraceStart, g) /\ \A k \in 0 .. n : f[k] \in J[k]
  <2>1. Keeps(J, n, g)
    BY <1>2 DEF Keeps
  <2> QED BY <1>0, <2>1, LoopExists, Zenon
<1>4. Eq(f)
  BY <1>0, <1>2, <1>3 DEF IsLoop
<1>5. Eq(h)
  <2> HIDE DEF Eq
  <2> QED BY <1>4
<1>6. \A k \in 0 .. n : h[k] = IF k = 0 THEN TraceStart ELSE Turn(h[k - 1], k)
  <2> HIDE DEF h
  <2> QED BY <1>5, Zenon
<1> HIDE DEF h, Eq
<1>7. n \in Nat /\ h[0] \in J[0] /\ \A k \in 1 .. n : h[k - 1] \in J[k - 1] => h[k] \in J[k]
  BY <1>0, <1>2, <1>6
<1>8. h[n] \in J[n]
  BY <1>7, LoopKeeps
<1>9. h[0] = TraceStart
  BY <1>0, <1>6
<1>10. ASSUME NEW k \in 1 .. n PROVE h[k] = Turn(h[k - 1], k)
  <2>1. k \in 0 .. n /\ k # 0
    BY <1>0
  <2> QED BY <1>6, <2>1
<1> HIDE DEF TraceLoop
<1> QED BY <1>1, <1>8, <1>9, <1>10, Zenon DEF n, Turn

\* The loop of vfs_resolve_path.
LEMMA WalkLoops ==
  ASSUME NEW s, NEW J, Len(s) \in Nat, Start \in J[0],
         \A k \in 1 .. Len(s) : \A x \in J[k - 1] :
           (IF AtEnd(s, x) THEN x ELSE Follow(s, x)) \in J[k]
  PROVE  Walk(s) \in J[Len(s)]
<1> DEFINE n == Len(s)
           Turn(x, k) == IF AtEnd(s, x) THEN x ELSE Follow(s, x)
           Eq(f) == f = [k \in 0 .. n |-> IF k = 0 THEN Start ELSE Turn(f[k - 1], k)]
           g == [k \in 1 .. n |-> [x \in J[k - 1] |-> Turn(x, k)]]
           h == CHOOSE f : Eq(f)
<1>0. n \in Nat
  BY Zenon
<1>1. Walk(s) = h[n]
  BY Zenon DEF Walk
<1> HIDE DEF Turn
<1>2. \A k \in 1 .. n : \A x \in J[k - 1] : g[k][x] = Turn(x, k) /\ Turn(x, k) \in J[k]
  BY Zenon DEF Turn
<1> HIDE DEF g, n
<1>3. PICK f : IsLoop(f, n, Start, g) /\ \A k \in 0 .. n : f[k] \in J[k]
  <2>1. Keeps(J, n, g)
    BY <1>2, Zenon DEF Keeps
  <2> QED BY <1>0, <2>1, LoopExists, Zenon
<1>4. Eq(f)
  BY <1>0, <1>2, <1>3 DEF IsLoop
<1>5. Eq(h)
  <2> HIDE DEF Eq
  <2> QED BY <1>4, Zenon
<1>6. \A k \in 0 .. n : h[k] = IF k = 0 THEN Start ELSE Turn(h[k - 1], k)
  <2> HIDE DEF h
  <2> QED BY <1>5, Zenon
<1> HIDE DEF h, Eq
<1>7. n \in Nat /\ h[0] \in J[0] /\ \A k \in 1 .. n : h[k - 1] \in J[k - 1] => h[k] \in J[k]
  BY <1>0, <1>2, <1>6
<1>8. h[n] \in J[n]
  BY <1>7, LoopKeeps, Zenon
<1> QED BY <1>1, <1>8, Zenon DEF n

\* The loop of vfs_resolve_path_no_follow.
LEMMA NoFollowLoops ==
  ASSUME NEW s, NEW J, Len(s) \in Nat, Start \in J[0],
         \A k \in 1 .. Len(s) : \A x \in J[k - 1] :
           (IF AtEnd(s, x) THEN x ELSE NoFollow(s, x)) \in J[k]
  PROVE  WalkNoFollow(s) \in J[Len(s)]
<1> DEFINE n == Len(s)
           Turn(x, k) == IF AtEnd(s, x) THEN x ELSE NoFollow(s, x)
           Eq(f) == f = [k \in 0 .. n |-> IF k = 0 THEN Start ELSE Turn(f[k - 1], k)]
           g == [k \in 1 .. n |-> [x \in J[k - 1] |-> Turn(x, k)]]
           h == CHOOSE f : Eq(f)
<1>0. n \in Nat
  OBVIOUS
<1>1. WalkNoFollow(s) = h[n]
  BY Zenon DEF WalkNoFollow
<1> HIDE DEF Turn
<1>2. \A k \in 1 .. n : \A x \in J[k - 1] : g[k][x] = Turn(x, k) /\ Turn(x, k) \in J[k]
  BY Zenon DEF Turn
<1> HIDE DEF g, n
<1>3. PICK f : IsLoop(f, n, Start, g) /\ \A k \in 0 .. n : f[k] \in J[k]
  <2>1. Keeps(J, n, g)
    BY <1>2, Zenon DEF Keeps
  <2> QED BY <1>0, <2>1, LoopExists, Zenon
<1>4. Eq(f)
  BY <1>0, <1>2, <1>3 DEF IsLoop
<1>5. Eq(h)
  <2> HIDE DEF Eq
  <2> QED BY <1>4, Zenon
<1>6. \A k \in 0 .. n : h[k] = IF k = 0 THEN Start ELSE Turn(h[k - 1], k)
  <2> HIDE DEF h
  <2> QED BY <1>5, Zenon
<1> HIDE DEF h, Eq
<1>7. n \in Nat /\ h[0] \in J[0] /\ \A k \in 1 .. n : h[k - 1] \in J[k - 1] => h[k] \in J[k]
  BY <1>0, <1>2, <1>6
<1>8. h[n] \in J[n]
  BY <1>7, LoopKeeps, Zenon
<1> QED BY <1>1, <1>8, Zenon DEF n

\* The loop of normalize_path.
LEMMA NormalizeLoop ==
  ASSUME NEW from, NEW p, NEW J, Len(p) \in Nat, [path |-> from, slash |-> FALSE] \in J[0],
         \A k \in 1 .. Len(p) : \A x \in J[k - 1] : Normal(x, p[k]) \in J[k]
  PROVE  Normalize(from, p) \in J[Len(p)]
<1> DEFINE n == Len(p)
           o == [path |-> from, slash |-> FALSE]
           Turn(x, k) == Normal(x, p[k])
           Eq(f) == f = [k \in 0 .. n |-> IF k = 0 THEN o ELSE Turn(f[k - 1], k)]
           g == [k \in 1 .. n |-> [x \in J[k - 1] |-> Turn(x, k)]]
           h == CHOOSE f : Eq(f)
<1>0. n \in Nat
  BY Zenon
<1>1. Normalize(from, p) = h[n] /\ o \in J[0]
  BY Zenon DEF Normalize
<1> HIDE DEF Turn
<1>2. \A k \in 1 .. n : \A x \in J[k - 1] : g[k][x] = Turn(x, k) /\ Turn(x, k) \in J[k]
  BY Zenon DEF Turn
<1> HIDE DEF g, n, o
<1>3. PICK f : IsLoop(f, n, o, g) /\ \A k \in 0 .. n : f[k] \in J[k]
  <2>1. Keeps(J, n, g)
    BY <1>2, Zenon DEF Keeps
  <2> QED BY <1>0, <1>1, <2>1, LoopExists, Zenon
<1>4. Eq(f)
  <2>1. f = [k \in 0 .. n |-> IF k = 0 THEN o ELSE g[k][f[k - 1]]]
    BY <1>3, Zenon DEF IsLoop
  <2>2. ASSUME NEW k \in 0 .. n, k # 0 PROVE g[k][f[k - 1]] = Turn(f[k - 1], k)
    <3>1. k \in 1 .. n /\ k - 1 \in 0 .. n
      BY <1>0, <2>2
    <3> QED BY <1>2, <1>3, <3>1, Zenon
  <2> QED BY <2>1, <2>2, Zenon
<1>5. Eq(h)
  <2> HIDE DEF Eq
  <2> QED BY <1>4, Zenon
<1>6. \A k \in 0 .. n : h[k] = IF k = 0 THEN o ELSE Turn(h[k - 1], k)
  <2> HIDE DEF h
  <2> QED BY <1>5, Zenon
<1> HIDE DEF h, Eq
<1>7. n \in Nat /\ h[0] \in J[0] /\ \A k \in 1 .. n : h[k - 1] \in J[k - 1] => h[k] \in J[k]
  <2>1. 0 \in 0 .. n /\ h[0] = o
    BY <1>0, <1>6
  <2>2. ASSUME NEW k \in 1 .. n, h[k - 1] \in J[k - 1] PROVE h[k] \in J[k]
    <3>1. k \in 0 .. n /\ k # 0
      BY <1>0
    <3>2. h[k] = Turn(h[k - 1], k)
      BY <1>6, <3>1, Zenon
    <3>3. Turn(h[k - 1], k) \in J[k]
      <4> HIDE DEF Turn
      <4> QED BY <1>2, <2>2, Zenon
    <3> QED BY <3>2, <3>3, Zenon
  <2> QED BY <1>0, <1>1, <2>1, <2>2, Zenon
<1>8. h[n] \in J[n]
  BY <1>7, LoopKeeps, Zenon
<1> QED BY <1>1, <1>8, Zenon DEF n

-----------------------------------------------------------------------------
(* The pools: inodes and stores of entries.                                 *)

Types == {"free", "dir", "dev", "null", "file", "link"}
Nodes == [type : Types, store : 0 .. 4 + MAX_DIRS, target : Targets \cup {<<>>}]
Entries == [name : STRING, ino : Ino]
Tables == [node : [Ino -> Nodes], dirs : [Store -> Seq(Entries)]]

\* Every entry leads to an inode in use, and no directory has more of them
\* than there is room for.
EntriesOK(t) ==
  \A s \in Store :
    /\ Len(t.dirs[s]) <= MAX_ENTRIES
    /\ \A k \in 1 .. Len(t.dirs[s]) : t.node[t.dirs[s][k].ino].type # "free"

\* Every directory has a store of the n that are handed out, and none but the
\* roots of mounts share one.
StoresOK(t, n) ==
  /\ \A i \in Ino : t.node[i].type = "dir" => t.node[i].store \in 1 .. 4 + n
  /\ \A i, j \in Ino :
       /\ i # j /\ t.node[i].type = "dir" /\ t.node[j].type = "dir"
       /\ t.node[i].store = t.node[j].store
       => t.node[i].store = DevMount

Sound(t, n) == t \in Tables /\ EntriesOK(t) /\ StoresOK(t, n)

\* No inode in use changes.
Grows(t, u) == \A i \in Ino : t.node[i].type # "free" => u.node[i] = t.node[i]

\* The numbers that the constants give.
LEMMA Sizes ==
  /\ NINODES \in Nat /\ NINODES >= 3 /\ MAX_ENTRIES \in Nat /\ MAX_DIRS \in Nat
  /\ MAX_MOUNTS \in Nat /\ MAX_SYMLINKS \in Nat /\ MAX_FOLLOW \in Nat
  /\ Devices \in Seq(STRING) /\ Len(Devices) \in Nat /\ Len(Devices) <= MAX_ENTRIES
  /\ {1, 2, 3} \subseteq Ino /\ {1, 2, 3, 4} \subseteq Store
BY NamesAssumption, SMTT(30) DEF Ino, Store

\* A first-fit search of the inode pool finds an inode that nobody has.
LEMMA AllocInodeFree ==
  ASSUME NEW t
  PROVE  \/ AllocInode(t) = 0
         \/ AllocInode(t) \in Ino /\ t.node[AllocInode(t)].type = "free"
<1>1. FreeInos(t) \in SUBSET Nat
  BY DEF FreeInos, Ino
<1>2. CASE FreeInos(t) # {}
  <2>1. AllocInode(t) = Min(FreeInos(t)) /\ Min(FreeInos(t)) \in FreeInos(t)
    BY <1>1, <1>2, MinIn, Zenon DEF AllocInode
  <2> QED BY <2>1, Zenon DEF FreeInos
<1> QED BY <1>2, Zenon DEF AllocInode

\* An inode that gets into use gets no store that a directory has.
LEMMA SetNodeSound ==
  ASSUME NEW t, NEW n \in 0 .. MAX_DIRS, Sound(t, n), NEW i \in Ino, t.node[i].type = "free",
         NEW nd \in Nodes, nd.type # "free",
         nd.type = "dir" => /\ nd.store \in 1 .. 4 + n
                            /\ \/ nd.store = DevMount
                               \/ \A j \in Ino : t.node[j].type = "dir" => t.node[j].store # nd.store
  PROVE  /\ Sound(SetNode(t, i, nd), n) /\ Grows(t, SetNode(t, i, nd))
         /\ SetNode(t, i, nd).node[i] = nd /\ SetNode(t, i, nd).dirs = t.dirs
         /\ \A j \in Ino : j # i => SetNode(t, i, nd).node[j] = t.node[j]
<1> DEFINE u == SetNode(t, i, nd)
<1>1. u \in Tables /\ u.dirs = t.dirs /\ u.node = [t.node EXCEPT ![i] = nd]
  BY Zenon DEF SetNode, Sound, Tables
<1>2. \A j \in Ino : u.node[j] = IF j = i THEN nd ELSE t.node[j]
  BY <1>1, Zenon DEF Sound, Tables
<1> HIDE DEF u
<1>3. EntriesOK(u)
  <2>1. ASSUME NEW s \in Store, NEW k \in 1 .. Len(t.dirs[s])
        PROVE  t.dirs[s][k].ino \in Ino
    <3>1. t.dirs[s] \in Seq(Entries)
      BY Zenon DEF Sound, Tables
    <3>2. t.dirs[s][k] \in Entries
      BY <3>1
    <3> QED BY <3>2, Zenon DEF Entries
  <2> QED BY <1>1, <1>2, <2>1, SMTT(30) DEF EntriesOK, Sound
<1>4. StoresOK(u, n)
  BY <1>2, ZenonT(60) DEF StoresOK, Sound
<1>5. Grows(t, u)
  BY <1>2, Zenon DEF Grows
<1> QED BY <1>1, <1>2, <1>3, <1>4, <1>5, Zenon DEF Sound, u

\* A directory is replaced by entries that lead to inodes in use.
LEMMA SetDirSound ==
  ASSUME NEW t, NEW n \in 0 .. MAX_DIRS, Sound(t, n), NEW s \in Store, NEW es \in Seq(Entries),
         Len(es) <= MAX_ENTRIES, \A k \in 1 .. Len(es) : t.node[es[k].ino].type # "free"
  PROVE  /\ Sound(SetDir(t, s, es), n) /\ SetDir(t, s, es).node = t.node
         /\ \A r \in Store : SetDir(t, s, es).dirs[r] = IF r = s THEN es ELSE t.dirs[r]
<1> DEFINE u == SetDir(t, s, es)
<1>1. u \in Tables /\ u.node = t.node /\ u.dirs = [t.dirs EXCEPT ![s] = es]
  BY Zenon DEF SetDir, Sound, Tables
<1>2. \A r \in Store : u.dirs[r] = IF r = s THEN es ELSE t.dirs[r]
  BY <1>1, Zenon DEF Sound, Tables
<1> HIDE DEF u
<1>3. EntriesOK(u)
  BY <1>1, <1>2, SMTT(30) DEF EntriesOK, Sound
<1>4. StoresOK(u, n)
  BY <1>1, ZenonT(60) DEF StoresOK, Sound
<1> QED BY <1>1, <1>2, <1>3, <1>4, Zenon DEF Sound, u

\* A directory is emptied.
LEMMA EmptiedSound ==
  ASSUME NEW t, NEW n \in 0 .. MAX_DIRS, Sound(t, n), NEW s \in Store
  PROVE  Sound(SetDir(t, s, <<>>), n) /\ SetDir(t, s, <<>>).node = t.node
<1> DEFINE es == <<>>
<1>1. es \in Seq(Entries) /\ Len(es) <= MAX_ENTRIES /\ 1 .. Len(es) = {}
  BY Sizes
<1> HIDE DEF es
<1>2. Sound(SetDir(t, s, es), n) /\ SetDir(t, s, es).node = t.node
  BY <1>1, SetDirSound
<1> QED BY <1>2, Zenon DEF es

\* devtmpfs_add_entry, of an inode in use.
LEMMA AddEntrySound ==
  ASSUME NEW t, NEW n \in 0 .. MAX_DIRS, Sound(t, n), NEW s \in Store, NEW name \in STRING,
         NEW i \in Ino, t.node[i].type # "free"
  PROVE  /\ Sound(AddEntry(t, s, name, i), n) /\ AddEntry(t, s, name, i).node = t.node
         /\ \A r \in Store : AddEntry(t, s, name, i).dirs[r] =
              IF r = s /\ RoomIn(t, s) THEN Append(t.dirs[s], Entry(name, i)) ELSE t.dirs[r]
<1> DEFINE es == Append(t.dirs[s], Entry(name, i))
<1>1. CASE ~RoomIn(t, s)
  BY <1>1, Zenon DEF AddEntry
<1>2. CASE RoomIn(t, s)
  <2>1. t.dirs[s] \in Seq(Entries) /\ Entry(name, i) \in Entries
    BY Zenon DEF Sound, Tables, Entry, Entries
  <2>2. es \in Seq(Entries) /\ Len(es) = Len(t.dirs[s]) + 1 /\ Len(t.dirs[s]) \in Nat
    BY <2>1
  <2>3. Len(es) <= MAX_ENTRIES
    BY <1>2, <2>2, Sizes DEF RoomIn
  <2>4. ASSUME NEW k \in 1 .. Len(es) PROVE t.node[es[k].ino].type # "free"
    <3>1. CASE k = Len(es)
      BY <2>1, <2>2, <3>1 DEF Entry
    <3>2. CASE k # Len(es)
      <4>1. k \in 1 .. Len(t.dirs[s]) /\ es[k] = t.dirs[s][k]
        BY <2>1, <2>2, <3>2
      <4> QED BY <4>1, Zenon DEF Sound, EntriesOK
    <3> QED BY <3>1, <3>2, Zenon
  <2>5. AddEntry(t, s, name, i) = SetDir(t, s, es)
    BY <1>2, Zenon DEF AddEntry
  <2> HIDE DEF es
  <2>6. Sound(SetDir(t, s, es), n) /\ SetDir(t, s, es).node = t.node
        /\ \A r \in Store : SetDir(t, s, es).dirs[r] = IF r = s THEN es ELSE t.dirs[r]
    BY <2>2, <2>3, <2>4, SetDirSound, SMTT(30)
  <2> QED BY <1>2, <2>5, <2>6, Zenon DEF es
<1> QED BY <1>1, <1>2, Zenon

\* One device of populate_dir.
LEMMA PopulateSound ==
  ASSUME NEW t, NEW n \in 0 .. MAX_DIRS, Sound(t, n), NEW s \in Store, NEW name \in STRING
  PROVE  Sound(Populate(t, s, name), n) /\ Grows(t, Populate(t, s, name))
<1> DEFINE i  == AllocInode(t)
           nd == Node("dev", 0, <<>>)
           u  == SetNode(t, i, nd)
<1>1. CASE i = 0
  BY <1>1 DEF Populate, Grows
<1>2. CASE i # 0
  <2>1. i \in Ino /\ t.node[i].type = "free"
    BY <1>2, AllocInodeFree, Zenon
  <2>2. nd \in Nodes /\ nd.type = "dev"
    BY Sizes DEF Node, Nodes, Types
  <2>3. Populate(t, s, name) = AddEntry(u, s, name, i)
    BY <1>2 DEF Populate
  <2> HIDE DEF i, nd
  <2>4. Sound(u, n) /\ Grows(t, u) /\ u.node[i] = nd
    BY <2>1, <2>2, SetNodeSound
  <2> HIDE DEF u
  <2>5. Sound(AddEntry(u, s, name, i), n) /\ AddEntry(u, s, name, i).node = u.node
    BY <2>1, <2>2, <2>4, AddEntrySound, ZenonT(60)
  <2> QED BY <2>3, <2>4, <2>5, Zenon DEF Grows
<1> QED BY <1>1, <1>2, Zenon

\* populate_dir: whatever runs out, the pools stay sound.
LEMMA PopulateDirSound ==
  ASSUME NEW t, NEW n \in 0 .. MAX_DIRS, Sound(t, n), NEW s \in Store
  PROVE  Sound(PopulateDir(t, s), n) /\ Grows(t, PopulateDir(t, s))
<1> DEFINE Ok == {u \in Tables : Sound(u, n) /\ Grows(t, u)}
           J == [k \in 0 .. Len(Devices) |-> Ok]
<1>1. Len(Devices) \in Nat /\ t \in J[0]
  BY Sizes DEF Sound, Grows
<1>2. ASSUME NEW k \in 1 .. Len(Devices), NEW x \in J[k - 1]
      PROVE  Populate(x, s, Devices[k]) \in J[k]
  <2>1. x \in Ok /\ J[k] = Ok
    BY <1>2, <1>1
  <2>2. Devices[k] \in STRING
    BY Sizes
  <2> DEFINE y == Populate(x, s, Devices[k])
  <2>3. Sound(y, n) /\ Grows(x, y)
    BY <2>1, <2>2, PopulateSound
  <2> HIDE DEF y
  <2>4. y \in Tables /\ Grows(t, y)
    BY <2>1, <2>3, Zenon DEF Grows, Sound
  <2> QED BY <2>1, <2>3, <2>4, Zenon DEF y
<1> HIDE DEF J
<1>3. PopulateDir(t, s) \in J[Len(Devices)]
  BY <1>1, <1>2, PopulateDirLoop, Zenon
<1>4. J[Len(Devices)] = Ok
  BY <1>1 DEF J
<1> QED BY <1>3, <1>4, Zenon

\* Lookup finds the first entry of a name, or none when there is none.
LEMMA LookupInFinds ==
  ASSUME NEW es \in Seq(Entries), NEW name
  PROVE  \/ LookupIn(es, name) = 0 /\ \A k \in 1 .. Len(es) : es[k].name # name
         \/ \E i \in 1 .. Len(es) :
              /\ es[i].name = name /\ LookupIn(es, name) = es[i].ino /\ es[i].ino \in Ino
              /\ i = Min({k \in DOMAIN es : es[k].name = name})
              /\ \A k \in 1 .. Len(es) : es[k].name = name => i <= k
<1> DEFINE hits == {k \in DOMAIN es : es[k].name = name}
<1>1. hits \in SUBSET Nat /\ DOMAIN es = 1 .. Len(es)
  OBVIOUS
<1>2. CASE hits = {}
  BY <1>1, <1>2, Zenon DEF LookupIn
<1>3. CASE hits # {}
  <2> DEFINE i == Min(hits)
  <2>1. i \in hits /\ \A y \in hits : i <= y
    <3> HIDE DEF hits
    <3> QED BY <1>1, <1>3, MinIn, Zenon
  <2>2. LookupIn(es, name) = es[i].ino
    BY <1>3, Zenon DEF LookupIn
  <2> HIDE DEF i
  <2>3. i \in 1 .. Len(es) /\ es[i].name = name
        /\ \A k \in 1 .. Len(es) : es[k].name = name => i <= k
    BY <1>1, <2>1, Zenon
  <2>4. es[i] \in Entries
    BY <2>3
  <2>5. es[i].ino \in Ino
    BY <2>4, Zenon DEF Entries
  <2> QED BY <2>2, <2>3, <2>5, Zenon DEF i
<1> QED BY <1>2, <1>3, Zenon

\* Lookup finds a name exactly when it is there.
LEMMA LookupInHit ==
  ASSUME NEW es \in Seq(Entries), NEW name
  PROVE  LookupIn(es, name) # 0 <=> \E k \in 1 .. Len(es) : es[k].name = name
<1>1. 0 \notin Ino
  BY DEF Ino
<1>2. CASE LookupIn(es, name) = 0 /\ \A k \in 1 .. Len(es) : es[k].name # name
  BY <1>2, Zenon
<1>3. ASSUME NEW i \in 1 .. Len(es), es[i].name = name, LookupIn(es, name) = es[i].ino,
             es[i].ino \in Ino
      PROVE  LookupIn(es, name) # 0 /\ \E k \in 1 .. Len(es) : es[k].name = name
  BY <1>1, <1>3, Zenon
<1> QED BY <1>2, <1>3, LookupInFinds, Zenon

\* What lookup finds is the inode of an entry with the name.
LEMMA LookupInEntry ==
  ASSUME NEW es \in Seq(Entries), NEW name, LookupIn(es, name) # 0
  PROVE  \E k \in 1 .. Len(es) : es[k].name = name /\ LookupIn(es, name) = es[k].ino
BY LookupInFinds, ZenonT(40)

\* A table without entry i: the others are still there, one place less.
LEMMA WithoutOne ==
  ASSUME NEW S, NEW es \in Seq(S), NEW i \in 1 .. Len(es)
  PROVE  /\ Without(es, i) \in Seq(S) /\ Len(Without(es, i)) = Len(es) - 1
         /\ \A k \in 1 .. Len(es) - 1 : Without(es, i)[k] = IF k = i THEN es[Len(es)] ELSE es[k]
<1>1. Len(es) \in Nat /\ Len(es) - 1 \in Nat
  OBVIOUS
<1> DEFINE m == Len(es) - 1
           w == [k \in 1 .. m |-> IF k = i THEN es[Len(es)] ELSE es[k]]
<1>2. w \in [1 .. m -> S] /\ w = Without(es, i) /\ m \in Nat
  BY <1>1 DEF Without
<1>3. \A k \in 1 .. m : w[k] = IF k = i THEN es[Len(es)] ELSE es[k]
  BY Zenon
<1> HIDE DEF w, m
<1>4. w \in Seq(S) /\ Len(w) = m
  BY <1>2, FunSeq, Zenon
<1> QED BY <1>2, <1>3, <1>4, Zenon DEF m

-----------------------------------------------------------------------------
(* The invariant, and path resolution in a state that satisfies it.         *)

InUse(ino) == node[ino].type \notin {"free", "link"}

PoolInv ==
  /\ Sound(T, ndirs) /\ ndirs \in 0 .. MAX_DIRS /\ nlinks \in 0 .. MAX_SYMLINKS
  /\ node[RootIno].type = "dir"

\* Every mount has a root of its own, which is a directory of the kind that
\* all mounts share, and is on something that resolution arrives at; no two
\* are on the same, except on such a root.
MountInv ==
  /\ mounts \in Seq([point : Ino, root : Ino]) /\ Len(mounts) <= MAX_MOUNTS
  /\ \A k \in 1 .. Len(mounts) :
       /\ node[mounts[k].root].type = "dir" /\ node[mounts[k].root].store = DevMount
       /\ InUse(mounts[k].point)
  /\ \A j, k \in 1 .. Len(mounts) : mounts[j].root = mounts[k].root => j = k
  /\ \A j, k \in 1 .. Len(mounts) :
       mounts[j].point = mounts[k].point => j = k \/ node[mounts[j].point].store = DevMount

\* The steps of S behind step i, and those up to it.
Above(S, i) == {k \in S : k > i}
UpTo(S, i) == {k \in S : k <= i}

\* Of the steps that were not taken back, each has behind it as many others
\* as the walk is deeper now than it was there.
Balanced(steps) ==
  \A i \in Stay(steps) :
    Cardinality(Ins(steps, i, Len(steps)))
      = Cardinality(Outs(steps, i, Len(steps))) + Cardinality(Above(Stay(steps), i))

\* A walk that leads to path.
Walked(tr, path) ==
  tr \in Seq(STRING) /\ path \in Seq(STRING) /\ LeadsTo(tr, path) /\ Balanced(tr)

WalkInv == Walked(trail, cwd.path)

IInv == work \in Workloads /\ PoolInv /\ MountInv /\ WalkInv

\* What a mount entry has.
LEMMA MountTypes ==
  ASSUME MountInv, NEW k \in 1 .. Len(mounts)
  PROVE  mounts[k].point \in Ino /\ mounts[k].root \in Ino
<1> DEFINE R == [point : Ino, root : Ino]
<1>1. mounts \in Seq(R)
  BY Zenon DEF MountInv
<1>2. mounts[k] \in R
  <2> HIDE DEF R
  <2> QED BY <1>1
<1> QED BY <1>2, Zenon

\* vfs_resolve_mount: what is not covered stays, what is covered becomes the
\* root of a mount on it.
LEMMA MountedIs ==
  ASSUME PoolInv, MountInv, NEW ino \in Ino
  PROVE  \/ Mounted(ino) = ino /\ \A k \in 1 .. Len(mounts) : mounts[k].point # ino
         \/ \E k \in 1 .. Len(mounts) : mounts[k].point = ino /\ Mounted(ino) = mounts[k].root
<1> DEFINE hits == {i \in DOMAIN mounts : mounts[i].point = ino}
<1>1. hits \in SUBSET Nat /\ DOMAIN mounts = 1 .. Len(mounts)
  BY DEF MountInv
<1>2. CASE hits = {}
  BY <1>1, <1>2, Zenon DEF Mounted
<1>3. CASE hits # {}
  <2>1. Min(hits) \in hits
    <3> HIDE DEF hits
    <3> QED BY <1>1, <1>3, MinIn, Zenon
  <2>2. Mounted(ino) = mounts[Min(hits)].root
    BY <1>3, Zenon DEF Mounted
  <2> QED BY <1>1, <2>1, <2>2, Zenon
<1> QED BY <1>2, <1>3, Zenon

\* A mount brings resolution from an inode in use to one in use.
LEMMA MountedInUse ==
  ASSUME PoolInv, MountInv, NEW ino \in Ino, InUse(ino)
  PROVE  Mounted(ino) \in Ino /\ InUse(Mounted(ino))
<1>1. CASE Mounted(ino) = ino
  BY <1>1, Zenon
<1>2. ASSUME NEW k \in 1 .. Len(mounts), Mounted(ino) = mounts[k].root
      PROVE  Mounted(ino) \in Ino /\ InUse(Mounted(ino))
  <2>1. node[mounts[k].root].type = "dir"
    BY Zenon DEF MountInv
  <2> QED BY <1>2, <2>1, MountTypes, Zenon DEF InUse
<1> QED BY <1>1, <1>2, MountedIs, Zenon

\* A name leads to an inode in use.
LEMMA LookupIs ==
  ASSUME PoolInv, NEW dir \in Ino, NEW name
  PROVE  \/ Lookup(T, dir, name) = 0
         \/ /\ Lookup(T, dir, name) \in Ino
            /\ node[Lookup(T, dir, name)].type # "free"
            /\ node[dir].type = "dir" /\ node[dir].store \in Store
            /\ Lookup(T, dir, name) = LookupIn(dirs[node[dir].store], name)
<1> DEFINE s == node[dir].store
<1>1. CASE node[dir].type # "dir"
  BY <1>1, Zenon DEF Lookup, T
<1>2. CASE node[dir].type = "dir"
  <2>1. s \in 1 .. 4 + ndirs
    BY <1>2, Zenon DEF PoolInv, Sound, StoresOK, T
  <2>2. s \in Store
    BY <2>1, Sizes, SMTT(30) DEF PoolInv, Store
  <2>3. dirs[s] \in Seq(Entries)
    BY <2>2, Zenon DEF PoolInv, Sound, Tables, T
  <2>4. \A k \in 1 .. Len(dirs[s]) : node[dirs[s][k].ino].type # "free"
    BY <2>2, Zenon DEF PoolInv, Sound, EntriesOK, T
  <2>5. Lookup(T, dir, name) = LookupIn(dirs[s], name)
    BY <1>2, Zenon DEF Lookup, T
  <2> DEFINE es == dirs[s]
  <2>6. \/ LookupIn(es, name) = 0
        \/ \E i \in 1 .. Len(es) : LookupIn(es, name) = es[i].ino /\ es[i].ino \in Ino
    <3> HIDE DEF es
    <3> QED BY <2>3, LookupInFinds, Zenon DEF es
  <2> QED BY <1>2, <2>2, <2>4, <2>5, <2>6, SMTT(30)
<1> QED BY <1>1, <1>2, Zenon

\* Where resolution may stand: nowhere, or on an inode in use.
Places == {at \in [ino : 0 .. NINODES, links : Nat] : at.ino # 0 => InUse(at.ino)}

\* What it takes to be such a place.
LEMMA PlaceIn ==
  ASSUME NEW i \in 0 .. NINODES, NEW l \in Nat, i # 0 => InUse(i)
  PROVE  [ino |-> i, links |-> l] \in Places
BY Zenon DEF Places

\* One name.
LEMMA StepIn ==
  ASSUME PoolInv, MountInv, NEW at \in Places, NEW name
  PROVE  Step(at, name, TRUE) \in Places
<1> DEFINE c == Mounted(at.ino)
           n == Lookup(T, c, name)
<1>1. at.ino \in 0 .. NINODES /\ at.links \in Nat /\ (at.ino # 0 => InUse(at.ino))
      /\ at = [ino |-> at.ino, links |-> at.links]
  BY Zenon DEF Places
<1>2. CASE at.ino = 0
  BY <1>2, Zenon DEF Step
<1>3. CASE at.ino # 0
  <2>1. at.ino \in Ino
    BY <1>1, <1>3, Sizes, SMTT(30) DEF Ino
  <2>2. c \in Ino
    BY <1>1, <1>3, <2>1, MountedInUse, Zenon
  <2> HIDE DEF c
  <2>3. n = 0 \/ (n \in Ino /\ node[n].type # "free")
    BY <2>2, LookupIs, Zenon
  <2> HIDE DEF n
  <2>4. n \in 0 .. NINODES /\ RootIno \in 0 .. NINODES /\ InUse(RootIno)
    BY <2>3, Sizes DEF Ino, InUse, PoolInv, RootIno
  <2>5. CASE n = 0 \/ node[n].type # "link"
    <3>1. Step(at, name, TRUE) = [ino |-> n, links |-> at.links]
      BY <1>1, <1>3, <2>5, Zenon DEF Step, n, c
    <3>2. n # 0 => InUse(n)
      BY <2>3, <2>5, Zenon DEF InUse
    <3> QED BY <1>1, <2>4, <3>1, <3>2, PlaceIn, Zenon
  <2>6. CASE ~(n = 0 \/ node[n].type # "link")
    <3>1. Step(at, name, TRUE) = [ino   |-> IF at.links > MAX_FOLLOW THEN 0 ELSE RootIno,
                                  links |-> at.links + 1]
      BY <1>3, <2>6, Zenon DEF Step, FollowedFrom, n, c
    <3>2. [ino |-> 0, links |-> at.links + 1] \in Places
      BY <1>1, Sizes, PlaceIn, SMTT(30)
    <3>3. [ino |-> RootIno, links |-> at.links + 1] \in Places
      BY <1>1, <2>4, PlaceIn
    <3> QED BY <3>1, <3>2, <3>3, Zenon
  <2> QED BY <2>5, <2>6, Zenon
<1> QED BY <1>2, <1>3, Zenon

\* The names of a path lead nowhere or to an inode in use.
LEMMA TraceIn ==
  ASSUME PoolInv, MountInv, NEW p, Len(p) \in Nat
  PROVE  /\ Trace(p) \in Places /\ Trace(p) = TraceLoop(p)[Len(p)]
         /\ TraceLoop(p)[0] = TraceStart
         /\ \A k \in 1 .. Len(p) : TraceLoop(p)[k] = Step(TraceLoop(p)[k - 1], p[k], TRUE)
<1> DEFINE J == [k \in 0 .. Len(p) |-> Places]
<1>1. TraceStart \in J[0] /\ J[Len(p)] = Places
  <2>1. TraceStart \in Places
    BY Sizes DEF TraceStart, Places, InUse, PoolInv, RootIno
  <2> QED BY <2>1
<1>2. \A k \in 1 .. Len(p) : \A x \in J[k - 1] : Step(x, p[k], TRUE) \in J[k]
  BY StepIn
<1> HIDE DEF J
<1> QED BY <1>1, <1>2, TraceLoops, Zenon

-----------------------------------------------------------------------------
(* The two loops read the names of a path one after the other, and each     *)
(* comes to what the names come to.                                         *)

\* The paths of the system calls: no name has a slash in it.
PlainPaths == {p \in Seq(STRING) : \A k \in 1 .. Len(p) : p[k] # "/"}

\* The text of a path: its names are at the odd places, with slashes between.
LEMMA TextIs ==
  ASSUME NEW p \in PlainPaths, NEW slash \in BOOLEAN
  PROVE  /\ Len(p) \in Nat
         /\ Len(Text(p, slash)) = IF Len(p) = 0 THEN 0
                                  ELSE IF slash THEN 2 * Len(p) ELSE 2 * Len(p) - 1
         /\ \A k \in 1 .. Len(p) : /\ Text(p, slash)[2 * k - 1] = p[k]
                                   /\ Text(p, slash)[2 * k - 1] # "/"
                                   /\ 2 * k <= Len(Text(p, slash)) =>
                                        Text(p, slash)[2 * k] = "/"
<1> DEFINE n == Len(p)
           m == IF n = 0 THEN 0 ELSE IF slash THEN 2 * n ELSE 2 * n - 1
           s == [k \in 1 .. m |-> IF k % 2 = 0 THEN "/" ELSE p[(k + 1) \div 2]]
<1>1. n \in Nat /\ (p = <<>> <=> n = 0) /\ \A k \in 1 .. n : p[k] # "/"
  BY DEF PlainPaths
<1> HIDE DEF n
<1>2. m \in Nat /\ 1 .. (IF slash \/ p = <<>> THEN 2 * n ELSE 2 * n - 1) = 1 .. m
  <2>1. CASE n = 0
    BY <1>1, <2>1
  <2>2. CASE n # 0
    BY <1>1, <2>2
  <2> QED BY <2>1, <2>2, Zenon
<1>3. Text(p, slash) = s
  BY <1>2, Zenon DEF Text, n
<1>4. Len(s) = m
  <2>1. m \in Nat
    BY <1>2, Zenon
  <2> HIDE DEF m
  <2> QED BY <2>1
<1>5. ASSUME NEW k \in 1 .. n PROVE s[2 * k - 1] = p[k] /\ (2 * k <= m => s[2 * k] = "/")
  <2>1. 2 * k - 1 \in 1 .. m /\ (2 * k <= m => 2 * k \in 1 .. m)
    BY <1>1
  <2>2. /\ (2 * k - 1) % 2 = 1 /\ (2 * k) % 2 = 0 /\ ((2 * k - 1) + 1) \div 2 = k
    BY <1>1
  <2> HIDE DEF m
  <2> QED BY <2>1, <2>2
<1> HIDE DEF s, m
<1> QED BY <1>1, <1>3, <1>4, <1>5, Zenon DEF m, n

\* A place q in the text, when the names before it led to c.
Placed(q, c) == [pos |-> q, ino |-> c.ino, links |-> c.links]

\* Where both loops stand when name k of the path p has been read.
Behind(p, slash, k) == IF k < Len(p) \/ slash THEN 2 * k + 1 ELSE 2 * k

\* Name k of a path, in either loop.
LEMMA NameTurns ==
  ASSUME NEW p \in PlainPaths, NEW slash \in BOOLEAN, NEW k \in 1 .. Len(p),
         NEW c, c.ino # 0, NEW x, x = Placed(2 * k - 1, c)
  PROVE  /\ ~AtEnd(Text(p, slash), x)
         /\ Follow(Text(p, slash), x) = Placed(Behind(p, slash, k), Step(c, p[k], TRUE))
         /\ NoFollow(Text(p, slash), x) =
              Placed(Behind(p, slash, k), Step(c, p[k], k < Len(p) \/ slash))
<1> DEFINE s == Text(p, slash)
           n == Len(p)
           P == Behind(p, slash, k)
           name == p[k]
           j == Lookup(T, Mounted(c.ino), name)
           more == k < n \/ slash
<1>1. /\ n \in Nat /\ k \in Nat /\ k >= 1 /\ k <= n
      /\ Len(s) = IF slash THEN 2 * n ELSE 2 * n - 1
      /\ s[2 * k - 1] = name
      /\ 2 * k <= Len(s) => s[2 * k] = "/"
      /\ k < n => s[2 * k + 1] # "/"
  <2>1. n \in Nat /\ k \in Nat /\ k >= 1 /\ k <= n /\ n # 0
    BY TextIs
  <2>2. k < n => k + 1 \in 1 .. n /\ 2 * (k + 1) - 1 = 2 * k + 1
    BY <2>1
  <2>3. \A m \in 1 .. n : s[2 * m - 1] = p[m] /\ s[2 * m - 1] # "/"
                          /\ (2 * m <= Len(s) => s[2 * m] = "/")
    BY TextIs, Zenon
  <2>4. Len(s) = IF slash THEN 2 * n ELSE 2 * n - 1
    BY <2>1, TextIs, Zenon
  <2> HIDE DEF s, n
  <2>5. k < n => s[2 * k + 1] # "/"
    BY <2>2, <2>3, Zenon
  <2> QED BY <2>1, <2>3, <2>4, <2>5, Zenon DEF n
<1>2. x.pos = 2 * k - 1 /\ x.ino = c.ino /\ x.links = c.links
  BY Zenon DEF Placed
<1> HIDE DEF s, n
<1>3. x.pos + 1 = 2 * k /\ x.pos <= Len(s) /\ Len(s) \in Nat
  BY <1>1, <1>2
<1>4. ~AtEnd(s, x)
  BY <1>2, <1>3 DEF AtEnd
<1>5. P = (IF more THEN 2 * k + 1 ELSE 2 * k) /\ (more \in BOOLEAN)
  BY Zenon DEF Behind, n
<1> HIDE DEF P, more, name
<1>6. /\ SlashAt(s, 2 * k) <=> more
      /\ ~SlashAt(s, 2 * k + 1)
  BY <1>1 DEF SlashAt, more
<1>7. Skip(s, 2 * k) = P /\ Skip(s, P) = P /\ (more => (2 * k) + 1 = P)
  BY <1>1, <1>5, <1>6, Zenon DEF Skip
<1>8. Found(s, x) = j /\ FollowedFrom(x) = FollowedFrom(c)
  BY <1>1, <1>2, Zenon DEF Found, FollowedFrom
<1> HIDE DEF j
<1> DEFINE Go == [ino |-> FollowedFrom(c), links |-> c.links + 1]
           Here == [ino |-> j, links |-> c.links]
<1>9. \A b \in BOOLEAN : Step(c, name, b) = IF IsLink(j) /\ b THEN Go ELSE Here
  BY Zenon DEF Step, IsLink, j
<1>10. /\ Placed(P, Go) = [pos |-> P, ino |-> FollowedFrom(c), links |-> c.links + 1]
       /\ Placed(P, Here) = [pos |-> P, ino |-> j, links |-> c.links]
  BY Zenon DEF Placed
<1> HIDE DEF Go, Here
<1>11. Follow(s, x) = Placed(P, Step(c, name, TRUE))
  <2>1. Follow(s, x) = IF IsLink(j) THEN Placed(P, Go) ELSE Placed(P, Here)
    BY <1>2, <1>3, <1>7, <1>8, <1>10, Zenon DEF Follow
  <2> QED BY <1>9, <2>1, Zenon
<1>12. NoFollow(s, x) = Placed(P, Step(c, name, more))
  <2>1. CASE more
    <3>1. NoFollow(s, x) = IF IsLink(j) THEN Placed(P, Go) ELSE Placed(P, Here)
      BY <1>2, <1>3, <1>6, <1>7, <1>8, <1>10, <2>1, Zenon DEF NoFollow
    <3> QED BY <1>5, <1>9, <2>1, <3>1, Zenon
  <2>2. CASE ~more
    <3>1. NoFollow(s, x) = Placed(P, Here)
      BY <1>2, <1>3, <1>5, <1>6, <1>8, <1>10, <2>2, Zenon DEF NoFollow
    <3> QED BY <1>5, <1>9, <2>2, <3>1, Zenon
  <2> QED BY <2>1, <2>2, Zenon
<1> QED BY <1>4, <1>11, <1>12, Zenon DEF s, n, P, more, name

\* Where a loop may stand, in one of the places Q of the text unless it failed,
\* when the names that it has read led to c.
At(c, Q) == {Placed(q, c) : q \in IF c.ino = 0 THEN Nat ELSE Q}

\* What the last name of a path leads to, with its link followed or not.
LastOf(p, follow) ==
  IF Len(p) = 0 THEN TraceStart
  ELSE Step(TraceLoop(p)[Len(p) - 1], p[Len(p)], follow)

\* Where a loop stands after k turns: behind name k, or at the end.
Stands(p, slash, follow) ==
  [k \in 0 .. Len(Text(p, slash)) |->
     IF k < Len(p) THEN At(TraceLoop(p)[k], {2 * k + 1})
     ELSE At(LastOf(p, follow), {q \in Nat : q > Len(Text(p, slash))})]

\* A turn from x to y reads name k if it is still to be read.
Reads(p, slash, follow, k, x, y) ==
  \A c : k <= Len(p) /\ c.ino # 0 /\ x = Placed(2 * k - 1, c) =>
          y = Placed(Behind(p, slash, k), Step(c, p[k], k < Len(p) \/ follow))

\* A turn of either loop, given what it makes of a name.
LEMMA TurnStands ==
  ASSUME PoolInv, MountInv, NEW p \in PlainPaths, NEW slash \in BOOLEAN, NEW follow \in BOOLEAN,
         NEW k \in 1 .. Len(Text(p, slash)), NEW x \in Stands(p, slash, follow)[k - 1], NEW y,
         AtEnd(Text(p, slash), x) => y = x, Reads(p, slash, follow, k, x, y)
  PROVE  y \in Stands(p, slash, follow)[k]
<1> DEFINE s == Text(p, slash)
           n == Len(p)
           C == TraceLoop(p)
           J == Stands(p, slash, follow)
           End == {q \in Nat : q > Len(s)}
           last == LastOf(p, follow)
<1>1. /\ n \in Nat /\ Len(s) \in Nat /\ k \in Nat /\ k >= 1 /\ k <= Len(s)
      /\ k - 1 \in 0 .. Len(s) /\ k \in 0 .. Len(s)
  BY TextIs
<1>2. \A m \in 0 .. Len(s) : J[m] = IF m < n THEN At(C[m], {2 * m + 1}) ELSE At(last, End)
  BY Zenon DEF Stands
<1>3. \A m \in 1 .. n : C[m] = Step(C[m - 1], p[m], TRUE)
  BY <1>1, TraceIn, Zenon
<1> HIDE DEF s, J, C, last
<1>4. CASE k - 1 < n
  <2> DEFINE c == C[k - 1]
             d == Step(c, p[k], k < n \/ follow)
             Q == IF k < n THEN {2 * k + 1} ELSE End
  <2>1. k \in 1 .. n /\ k <= n /\ 2 * (k - 1) + 1 = 2 * k - 1
    BY <1>1, <1>4
  <2>2. J[k] = At(d, Q)
    <3>1. CASE k < n
      <4>1. k < n \/ follow <=> TRUE
        BY <3>1, Zenon
      <4>2. C[k] = d
        BY <1>3, <2>1, <4>1, Zenon
      <4> HIDE DEF d, c
      <4> QED BY <1>1, <1>2, <3>1, <4>2, Zenon
    <3>2. CASE ~(k < n)
      <4>1. k = n /\ n # 0
        BY <1>1, <2>1, <3>2
      <4>2. last = d
        BY <3>2, <4>1, Zenon DEF last, LastOf, C, n
      <4> HIDE DEF d, c
      <4> QED BY <1>1, <1>2, <3>2, <4>2, Zenon
    <3> QED BY <3>1, <3>2, Zenon
  <2>3. PICK q \in (IF c.ino = 0 THEN Nat ELSE {2 * k - 1}) : x = Placed(q, c)
    <3>1. x \in At(c, {2 * k - 1})
      BY <1>1, <1>2, <1>4, <2>1, Zenon DEF J
    <3> HIDE DEF c
    <3> QED BY <3>1, Zenon DEF At
  <2> HIDE DEF c
  <2>4. CASE c.ino = 0
    <3>1. AtEnd(s, x)
      BY <2>3, <2>4, Zenon DEF AtEnd, Placed
    <3>2. y = x /\ d = c
      BY <2>4, <3>1, Zenon DEF s, Step
    <3>3. y = Placed(q, d) /\ q \in Nat /\ d.ino = 0
      BY <2>3, <2>4, <3>2, Zenon
    <3> HIDE DEF d, Q
    <3> QED BY <2>2, <3>3, Zenon DEF At, J
  <2>5. CASE c.ino # 0
    <3>1. x = Placed(2 * k - 1, c)
      BY <2>3, <2>5, Zenon
    <3>2. y = Placed(Behind(p, slash, k), d)
      BY <2>1, <2>5, <3>1, Zenon DEF Reads, n
    <3>3. Behind(p, slash, k) \in Nat /\ Behind(p, slash, k) \in Q
      <4>1. Len(s) = IF slash THEN 2 * n ELSE 2 * n - 1
        BY <1>1, <2>1, TextIs DEF s
      <4> QED BY <1>1, <2>1, <4>1 DEF Behind, n
    <3> HIDE DEF d, Q
    <3> QED BY <2>2, <3>2, <3>3, Zenon DEF At, J
  <2> QED BY <2>4, <2>5, Zenon
<1>5. CASE ~(k - 1 < n)
  <2>1. ~(k < n)
    BY <1>1, <1>5
  <2>2. J[k - 1] = At(last, End) /\ J[k] = At(last, End)
    BY <1>1, <1>2, <1>5, <2>1, Zenon
  <2>3. PICK q \in (IF last.ino = 0 THEN Nat ELSE End) : x = Placed(q, last)
    BY <2>2, Zenon DEF At, J
  <2>4. AtEnd(s, x)
    BY <2>3, Zenon DEF AtEnd, Placed
  <2> QED BY <2>2, <2>4, Zenon DEF s, J
<1> QED BY <1>4, <1>5, Zenon

\* Both loops start before the first name.
LEMMA StartStands ==
  ASSUME PoolInv, MountInv, NEW p \in PlainPaths, NEW slash \in BOOLEAN, NEW follow
  PROVE  Start \in Stands(p, slash, follow)[0]
<1> DEFINE s == Text(p, slash)
<1>1. /\ Len(p) \in Nat /\ Len(s) \in Nat /\ 0 \in 0 .. Len(s)
      /\ Len(p) = 0 => Len(s) = 0
  BY TextIs
<1>2. TraceLoop(p)[0] = TraceStart
  BY <1>1, TraceIn, Zenon
<1>3. Start = Placed(1, TraceStart) /\ TraceStart.ino # 0
  BY DEF Start, TraceStart, RootIno, Placed
<1>4. CASE Len(p) = 0
  <2>1. 1 \in {q \in Nat : q > Len(s)}
    BY <1>1, <1>4
  <2>2. Stands(p, slash, follow)[0] = At(TraceStart, {q \in Nat : q > Len(s)})
    BY <1>1, <1>4 DEF Stands, LastOf
  <2> HIDE DEF s
  <2> QED BY <1>3, <2>1, <2>2, Zenon DEF At
<1>5. CASE Len(p) # 0
  <2>1. 0 < Len(p) /\ 2 * 0 + 1 = 1
    BY <1>1, <1>5
  <2>2. Stands(p, slash, follow)[0] = At(TraceStart, {1})
    BY <1>1, <1>2, <2>1, Zenon DEF Stands
  <2> QED BY <1>3, <2>2, Zenon DEF At
<1> QED BY <1>4, <1>5, Zenon

\* All the names of a path are those before the last, and the last.
LEMMA TraceEnds ==
  ASSUME PoolInv, MountInv, NEW p, Len(p) \in Nat
  PROVE  LastOf(p, TRUE) = Trace(p)
<1>1. /\ Trace(p) = TraceLoop(p)[Len(p)] /\ TraceLoop(p)[0] = TraceStart
      /\ \A k \in 1 .. Len(p) : TraceLoop(p)[k] = Step(TraceLoop(p)[k - 1], p[k], TRUE)
  BY TraceIn, Zenon
<1>2. CASE Len(p) = 0
  BY <1>1, <1>2, Zenon DEF LastOf
<1>3. CASE Len(p) # 0
  <2>1. Len(p) \in 1 .. Len(p)
    BY <1>3
  <2> QED BY <1>1, <1>3, <2>1, Zenon DEF LastOf
<1> QED BY <1>2, <1>3, Zenon

\* A loop that stands at the end arrives where the last name leads.
LEMMA StandsArrive ==
  ASSUME NEW p \in PlainPaths, NEW slash \in BOOLEAN, NEW follow,
         NEW x \in Stands(p, slash, follow)[Len(Text(p, slash))]
  PROVE  Arrives(x) = Arrives(LastOf(p, follow))
<1> DEFINE m == Len(Text(p, slash))
           last == LastOf(p, follow)
<1>1. m \in 0 .. m /\ ~(m < Len(p))
  BY TextIs
<1>2. x \in At(last, {q \in Nat : q > m})
  BY <1>1, Zenon DEF Stands
<1> HIDE DEF last
<1>3. PICK q : x = Placed(q, last)
  BY <1>2, Zenon DEF At
<1>4. x.ino = last.ino
  BY <1>3, Zenon DEF Placed
<1> QED BY <1>4, Zenon DEF Arrives, last

\* vfs_resolve_path comes to the end of the names.
LEMMA WalkTraces ==
  ASSUME PoolInv, MountInv, NEW p \in PlainPaths, NEW slash \in BOOLEAN
  PROVE  ResolveText(Text(p, slash)) = Arrives(Trace(p))
<1> DEFINE s == Text(p, slash)
           J == Stands(p, slash, TRUE)
<1>1. Len(s) \in Nat /\ Len(p) \in Nat
  BY TextIs
<1>2. Start \in J[0]
  BY <1>1, StartStands, Zenon
<1>3. ASSUME NEW k \in 1 .. Len(s), NEW x \in J[k - 1]
      PROVE  (IF AtEnd(s, x) THEN x ELSE Follow(s, x)) \in J[k]
  <2> DEFINE y == IF AtEnd(s, x) THEN x ELSE Follow(s, x)
  <2>1. AtEnd(s, x) => y = x
    BY Zenon
  <2>2. Reads(p, slash, TRUE, k, x, y)
    <3> SUFFICES ASSUME NEW c, k <= Len(p), c.ino # 0, x = Placed(2 * k - 1, c)
                 PROVE  y = Placed(Behind(p, slash, k), Step(c, p[k], k < Len(p) \/ TRUE))
      BY Zenon DEF Reads
    <3>1. k \in 1 .. Len(p)
      BY <1>1
    <3>2. ~AtEnd(s, x) /\ Follow(s, x) = Placed(Behind(p, slash, k), Step(c, p[k], TRUE))
      BY <3>1, NameTurns, ZenonT(60)
    <3> QED BY <3>2, Zenon
  <2> HIDE DEF y, s, J
  <2> QED BY <2>1, <2>2, TurnStands, Zenon DEF y, s, J
<1>4. Walk(s) \in J[Len(s)]
  <2> HIDE DEF s, J
  <2> QED BY <1>1, <1>2, <1>3, WalkLoops, Zenon
<1>5. LastOf(p, TRUE) = Trace(p)
  BY <1>1, TraceEnds, Zenon
<1> QED BY <1>4, <1>5, StandsArrive, ZenonT(60) DEF ResolveText

\* vfs_resolve_path_no_follow follows the link at the end if there is a slash.
LEMMA NoFollowTraces ==
  ASSUME PoolInv, MountInv, NEW p \in PlainPaths, NEW slash \in BOOLEAN
  PROVE  ResolveNoFollow(Text(p, slash)) = Arrives(LastOf(p, slash))
<1> DEFINE s == Text(p, slash)
           J == Stands(p, slash, slash)
<1>1. Len(s) \in Nat /\ Len(p) \in Nat
  BY TextIs
<1>2. Start \in J[0]
  BY <1>1, StartStands, Zenon
<1>3. ASSUME NEW k \in 1 .. Len(s), NEW x \in J[k - 1]
      PROVE  (IF AtEnd(s, x) THEN x ELSE NoFollow(s, x)) \in J[k]
  <2> DEFINE y == IF AtEnd(s, x) THEN x ELSE NoFollow(s, x)
  <2>1. AtEnd(s, x) => y = x
    BY Zenon
  <2>2. Reads(p, slash, slash, k, x, y)
    <3> SUFFICES ASSUME NEW c, k <= Len(p), c.ino # 0, x = Placed(2 * k - 1, c)
                 PROVE  y = Placed(Behind(p, slash, k), Step(c, p[k], k < Len(p) \/ slash))
      BY Zenon DEF Reads
    <3>1. k \in 1 .. Len(p)
      BY <1>1
    <3>2. ~AtEnd(s, x) /\ NoFollow(s, x) = Placed(Behind(p, slash, k), Step(c, p[k], k < Len(p) \/ slash))
      BY <3>1, NameTurns, ZenonT(60)
    <3> QED BY <3>2, Zenon
  <2> HIDE DEF y, s, J
  <2> QED BY <2>1, <2>2, TurnStands, Zenon DEF y, s, J
<1>4. WalkNoFollow(s) \in J[Len(s)]
  <2> HIDE DEF s, J
  <2> QED BY <1>1, <1>2, <1>3, NoFollowLoops, Zenon
<1> QED BY <1>4, StandsArrive, ZenonT(60) DEF ResolveNoFollow

\* Resolution ends nowhere, on a root that all mounts share, or on an inode
\* that no mount covers; never on a link.
LEMMA ResolveIs ==
  ASSUME PoolInv, MountInv, NEW p \in PlainPaths
  PROVE  \/ Resolve(p) = 0
         \/ /\ Resolve(p) \in Ino /\ InUse(Resolve(p))
            /\ \/ node[Resolve(p)].store = DevMount
               \/ \A k \in 1 .. Len(mounts) : mounts[k].point # Resolve(p)
<1> DEFINE i == Trace(p).ino
<1>1. i \in 0 .. NINODES /\ (i # 0 => InUse(i))
  <2>1. Len(p) \in Nat
    BY DEF PlainPaths
  <2> QED BY <2>1, TraceIn, Zenon DEF Places
<1>2. Resolve(p) = IF i = 0 THEN 0 ELSE Mounted(i)
  BY WalkTraces, Zenon DEF Resolve, Arrives
<1> HIDE DEF i
<1>3. CASE i = 0
  BY <1>2, <1>3, Zenon
<1>4. CASE i # 0
  <2>1. i \in Ino
    BY <1>1, <1>4, Sizes DEF Ino
  <2>2. Mounted(i) \in Ino /\ InUse(Mounted(i))
    BY <1>1, <1>4, <2>1, MountedInUse, Zenon
  <2>3. \/ node[Mounted(i)].store = DevMount
        \/ \A k \in 1 .. Len(mounts) : mounts[k].point # Mounted(i)
    BY <2>1, MountedIs, SMTT(30) DEF MountInv
  <2> QED BY <1>2, <1>4, <2>2, <2>3, Zenon
<1> QED BY <1>3, <1>4, Zenon

\* The paths of the workload have a parent and a name.
LEMMA PathParts ==
  ASSUME work \in Workloads, NEW p \in Paths
  PROVE  /\ p \in PlainPaths /\ DirPart(p) \in PlainPaths /\ Len(p) \in Nat \ {0}
         /\ NamePart(p) \in STRING
         /\ Len(DirPart(p)) = Len(p) - 1
         /\ \A k \in 1 .. Len(p) - 1 : DirPart(p)[k] = p[k]
<1>1. p \in Seq(STRING) \ {<<>>} /\ \A k \in DOMAIN p : p[k] # "/"
  BY NamesAssumption, SMTT(30) DEF Paths
<1>2. Len(p) \in Nat \ {0}
  BY <1>1
<1> DEFINE m == Len(p) - 1
           q == SubSeq(p, 1, m)
<1>3. m \in 0 .. Len(p) /\ NamePart(p) \in STRING
  BY <1>1, <1>2 DEF NamePart
<1> HIDE DEF m
<1>4. q \in Seq(STRING) /\ Len(q) = m /\ \A k \in 1 .. m : q[k] = p[k]
  BY <1>1, <1>3, Prefix, Zenon
<1>5. p \in PlainPaths
  <2>1. DOMAIN p = 1 .. Len(p)
    BY <1>1
  <2> QED BY <1>1, <2>1, Zenon DEF PlainPaths
<1>6. q \in PlainPaths
  <2>1. \A k \in 1 .. m : k \in 1 .. Len(p)
    BY <1>2, <1>3
  <2>2. \A k \in 1 .. m : q[k] # "/"
    BY <1>4, <1>5, <2>1, Zenon DEF PlainPaths
  <2> HIDE DEF q
  <2> QED BY <1>4, <2>2, Zenon DEF PlainPaths
<1> QED BY <1>2, <1>3, <1>4, <1>5, <1>6, Zenon DEF DirPart, m

\* A parent that is a directory has a store.
LEMMA ParentHasStore ==
  ASSUME IInv, NEW p \in Paths, ParentIsDir(p)
  PROVE  Parent(p) \in Ino /\ node[Parent(p)].type = "dir" /\ StoreOf(p) \in Store
         /\ StoreOf(p) \in 1 .. 4 + ndirs
         /\ dirs[StoreOf(p)] \in Seq(Entries) /\ Len(dirs[StoreOf(p)]) <= MAX_ENTRIES
         /\ \A k \in 1 .. Len(dirs[StoreOf(p)]) : node[dirs[StoreOf(p)][k].ino].type # "free"
<1>1. DirPart(p) \in PlainPaths
  BY PathParts, Zenon DEF IInv
<1>2. Parent(p) \in Ino /\ node[Parent(p)].type = "dir"
  BY <1>1, ResolveIs, Zenon DEF IInv, Parent, ParentIsDir
<1>3. StoreOf(p) \in 1 .. 4 + ndirs
  BY <1>2, Zenon DEF StoreOf, IInv, PoolInv, Sound, StoresOK, T
<1>4. StoreOf(p) \in Store
  BY <1>3, Sizes DEF IInv, PoolInv, Store
<1> QED BY <1>2, <1>3, <1>4, Zenon DEF IInv, PoolInv, Sound, Tables, EntriesOK, T

-----------------------------------------------------------------------------
(* Every system call keeps the invariant.                                   *)

\* A step that changes the pools and no inode in use keeps the invariant.
LEMMA BecomesInv ==
  ASSUME IInv, work' = work, NEW t, Sound(t, ndirs'), Grows(T, t), Becomes(t),
         ndirs' \in 0 .. MAX_DIRS, nlinks' \in 0 .. MAX_SYMLINKS, SameDir
  PROVE  /\ work' \in Workloads /\ PoolInv' /\ WalkInv'
         /\ mounts' = mounts => IInv'
<1>1. node' = t.node /\ dirs' = t.dirs /\ t \in Tables /\ cwd' = cwd /\ trail' = trail
  BY Zenon DEF Becomes, Sound, SameDir
<1>2. t = [node |-> node', dirs |-> dirs']
  BY <1>1, Zenon DEF Tables
<1>3. \A i \in Ino : node[i].type # "free" => node'[i] = node[i]
  BY <1>1, Zenon DEF Grows, T
<1>4. node[RootIno].type = "dir" /\ RootIno \in Ino
  BY Sizes, Zenon DEF IInv, PoolInv, RootIno
<1>5. PoolInv'
  BY <1>2, <1>3, <1>4, Zenon DEF PoolInv, T
<1>6. work' \in Workloads /\ WalkInv'
  BY <1>1, Zenon DEF IInv, WalkInv
<1>7. ASSUME mounts' = mounts PROVE MountInv'
  <2>1. \A k \in 1 .. Len(mounts) :
          /\ mounts[k].point \in Ino /\ mounts[k].root \in Ino
          /\ node[mounts[k].point].type # "free" /\ node[mounts[k].root].type # "free"
    BY MountTypes, Zenon DEF IInv, MountInv, InUse
  <2>2. \A k \in 1 .. Len(mounts) :
          /\ node'[mounts[k].point] = node[mounts[k].point]
          /\ node'[mounts[k].root] = node[mounts[k].root]
    BY <1>3, <2>1, Zenon
  <2> QED BY <1>7, <2>2, SMTT(30) DEF IInv, MountInv, InUse
<1> QED BY <1>5, <1>6, <1>7, Zenon DEF IInv

\* A new inode, entered in a directory.
LEMMA EnteredSound ==
  ASSUME IInv, NEW n \in 0 .. MAX_DIRS, Sound(T, n), NEW p \in Paths, ParentIsDir(p),
         NEW i, i = AllocInode(T), i # 0, NEW nd \in Nodes, nd.type # "free",
         nd.type = "dir" => /\ nd.store \in 1 .. 4 + n
                            /\ \A j \in Ino : node[j].type = "dir" => node[j].store # nd.store
  PROVE  Sound(Entered(p, i, nd), n) /\ Grows(T, Entered(p, i, nd))
<1> DEFINE u == SetNode(T, i, nd)
<1>1. i \in Ino /\ T.node[i].type = "free" /\ T.node = node
  BY AllocInodeFree, Zenon DEF T
<1>2. Sound(u, n) /\ Grows(T, u) /\ u.node[i] = nd
  BY <1>1, SetNodeSound
<1>3. StoreOf(p) \in Store /\ NamePart(p) \in STRING
  BY ParentHasStore, PathParts, Zenon DEF IInv
<1>4. Entered(p, i, nd) = AddEntry(u, StoreOf(p), NamePart(p), i)
  BY Zenon DEF Entered
<1> HIDE DEF u
<1>5. Sound(AddEntry(u, StoreOf(p), NamePart(p), i), n)
      /\ AddEntry(u, StoreOf(p), NamePart(p), i).node = u.node
  <2>1. Sound(u, n) /\ i \in Ino
    BY <1>1, <1>2, Zenon
  <2>2. u.node[i].type # "free"
    BY <1>2, Zenon
  <2> QED BY <1>3, <2>1, <2>2, AddEntrySound, ZenonT(40)
<1> QED BY <1>2, <1>4, <1>5, Zenon DEF Grows

\* sys_open with O_CREAT keeps the invariant: an inode that cannot be entered
\* is taken back.
LEMMA CreateFileKeeps ==
  ASSUME IInv, work' = work, NEW p \in Paths, CreateFile(p)
  PROVE  IInv'
<1> DEFINE i == AllocInode(T)
           nd == Node("file", 0, <<>>)
<1>1. /\ ParentIsDir(p) /\ i # 0 /\ ndirs' = ndirs /\ nlinks' = nlinks /\ mounts' = mounts
      /\ SameDir /\ (Becomes(Entered(p, i, nd)) \/ (node' = node /\ dirs' = dirs))
  BY Zenon DEF CreateFile
<1>2. nd \in Nodes /\ nd.type = "file"
  BY Sizes DEF Node, Nodes, Types
<1>3. Sound(T, ndirs) /\ ndirs \in 0 .. MAX_DIRS /\ nlinks \in 0 .. MAX_SYMLINKS
  BY Zenon DEF IInv, PoolInv
<1> HIDE DEF i, nd
<1>4. CASE Becomes(Entered(p, i, nd))
  <2> DEFINE t == Entered(p, i, nd)
  <2>1. Sound(t, ndirs) /\ Grows(T, t)
    BY <1>1, <1>2, <1>3, EnteredSound, Zenon DEF i
  <2> HIDE DEF t
  <2> QED BY <1>1, <1>3, <1>4, <2>1, BecomesInv, Zenon DEF t
<1>5. CASE node' = node /\ dirs' = dirs
  <2>1. Becomes(T) /\ Grows(T, T)
    BY <1>5, Zenon DEF Becomes, T, Grows
  <2> QED BY <1>1, <1>3, <2>1, BecomesInv, Zenon
<1> QED BY <1>1, <1>4, <1>5, Zenon

\* A store more makes no difference to those that are in use.
LEMMA SoundMore ==
  ASSUME NEW t, NEW n \in 0 .. MAX_DIRS, n + 1 <= MAX_DIRS, Sound(t, n)
  PROVE  Sound(t, n + 1) /\ \A i \in Ino : t.node[i].type = "dir" => t.node[i].store # NewStore(n + 1)
<1>1. 1 .. 4 + n \subseteq 1 .. 4 + (n + 1) /\ NewStore(n + 1) \notin 1 .. 4 + n
  BY Sizes DEF NewStore
<1>2. StoresOK(t, n)
  BY Zenon DEF Sound
<1>3. StoresOK(t, n + 1)
  BY <1>1, <1>2, Zenon DEF StoresOK
<1> QED BY <1>1, <1>2, <1>3, Zenon DEF Sound, StoresOK

\* devtmpfs_mkdir keeps the invariant: the new directory has a store that no
\* other has.
LEMMA MkdirKeeps ==
  ASSUME IInv, work' = work, NEW p \in Paths, Mkdir(p)
  PROVE  IInv'
<1> DEFINE i  == AllocInode(T)
           n  == ndirs + 1
           s  == NewStore(n)
           nd == Dir(s)
           u  == Entered(p, i, nd)
           t  == SetDir(u, s, <<>>)
<1>1. /\ ParentIsDir(p) /\ ndirs < MAX_DIRS /\ ndirs' = n /\ nlinks' = nlinks /\ mounts' = mounts
      /\ SameDir /\ IF i = 0 THEN node' = node /\ dirs' = dirs ELSE Becomes(t)
  BY Zenon DEF Mkdir
<1>2. Sound(T, ndirs) /\ ndirs \in 0 .. MAX_DIRS /\ nlinks \in 0 .. MAX_SYMLINKS
  BY Zenon DEF IInv, PoolInv
<1>3. n \in 0 .. MAX_DIRS /\ s \in 1 .. 4 + n /\ s \in Store
  BY <1>1, <1>2, Sizes DEF NewStore, Store
<1>4. Sound(T, n) /\ \A j \in Ino : node[j].type = "dir" => node[j].store # s
  BY <1>1, <1>2, <1>3, SoundMore DEF T
<1>5. nd \in Nodes /\ nd.type = "dir" /\ nd.store = s
  BY <1>3, Sizes DEF Dir, Node, Nodes, Types, Store
<1> HIDE DEF i, n, s, nd
<1>6. CASE i = 0
  <2>1. Becomes(T) /\ Grows(T, T)
    BY <1>1, <1>6, Zenon DEF Becomes, T, Grows
  <2> QED BY <1>1, <1>2, <1>3, <1>4, <2>1, BecomesInv, Zenon
<1>7. CASE i # 0
  <2>1. Sound(u, n) /\ Grows(T, u)
    BY <1>1, <1>3, <1>4, <1>5, <1>7, EnteredSound, Zenon DEF i
  <2> HIDE DEF u
  <2>3. Sound(t, n) /\ t.node = u.node
    BY <1>3, <2>1, EmptiedSound, Zenon
  <2> HIDE DEF t
  <2>4. Grows(T, t)
    BY <2>1, <2>3, Zenon DEF Grows
  <2> QED BY <1>1, <1>2, <1>3, <1>7, <2>3, <2>4, BecomesInv, Zenon
<1> QED BY <1>6, <1>7, Zenon

\* devtmpfs_mknod keeps the invariant.
LEMMA MknodKeeps ==
  ASSUME IInv, work' = work, NEW p \in Paths, Mknod(p)
  PROVE  IInv'
<1> DEFINE i  == AllocInode(T)
           nd == Node("null", 0, <<>>)
           t  == Entered(p, i, nd)
<1>1. /\ ParentIsDir(p) /\ i # 0 /\ ndirs' = ndirs /\ nlinks' = nlinks /\ mounts' = mounts
      /\ SameDir /\ Becomes(t)
  BY Zenon DEF Mknod
<1>2. nd \in Nodes /\ nd.type = "null"
  BY Sizes DEF Node, Nodes, Types
<1>3. Sound(T, ndirs) /\ ndirs \in 0 .. MAX_DIRS /\ nlinks \in 0 .. MAX_SYMLINKS
  BY DEF IInv, PoolInv
<1> HIDE DEF i, nd
<1>4. Sound(t, ndirs) /\ Grows(T, t)
  BY <1>1, <1>2, <1>3, EnteredSound, Zenon DEF i
<1> HIDE DEF t
<1> QED BY <1>1, <1>3, <1>4, BecomesInv, Zenon

\* devtmpfs_symlink keeps the invariant, also when there is no room for the
\* name.
LEMMA SymlinkKeeps ==
  ASSUME IInv, work' = work, NEW p \in Paths, NEW target \in Targets, Symlink(p, target)
  PROVE  IInv'
<1> DEFINE i  == AllocInode(T)
           nd == Node("link", 0, target)
           t  == Entered(p, i, nd)
<1>1. /\ ParentIsDir(p) /\ i # 0 /\ ndirs' = ndirs /\ nlinks < MAX_SYMLINKS
      /\ nlinks' = nlinks + 1 /\ mounts' = mounts /\ SameDir /\ Becomes(t)
  BY Zenon DEF Symlink
<1>2. nd \in Nodes /\ nd.type = "link"
  BY Sizes DEF Node, Nodes, Types
<1>3. Sound(T, ndirs) /\ ndirs \in 0 .. MAX_DIRS /\ nlinks \in 0 .. MAX_SYMLINKS
  BY Zenon DEF IInv, PoolInv
<1>4. nlinks + 1 \in 0 .. MAX_SYMLINKS
  BY <1>1, <1>3, Sizes
<1> HIDE DEF i, nd
<1>5. Sound(t, ndirs) /\ Grows(T, t)
  BY <1>1, <1>2, <1>3, EnteredSound, Zenon DEF i
<1> HIDE DEF t
<1> QED BY <1>1, <1>3, <1>4, <1>5, BecomesInv, Zenon

\* devtmpfs_remove_entry, of a name that is there.
LEMMA RemoveFromIs ==
  ASSUME NEW es \in Seq(Entries), NEW name, LookupIn(es, name) # 0
  PROVE  \E i \in 1 .. Len(es) :
           /\ es[i].name = name /\ LookupIn(es, name) = es[i].ino
           /\ \A k \in 1 .. Len(es) : es[k].name = name => i <= k
           /\ RemoveFrom(es, name) \in Seq(Entries)
           /\ Len(RemoveFrom(es, name)) = Len(es) - 1
           /\ \A k \in 1 .. Len(es) - 1 :
                RemoveFrom(es, name)[k] = IF k = i THEN es[Len(es)] ELSE es[k]
<1> DEFINE hits == {k \in DOMAIN es : es[k].name = name}
<1>1. PICK i \in 1 .. Len(es) :
        /\ es[i].name = name /\ LookupIn(es, name) = es[i].ino /\ i = Min(hits)
        /\ \A k \in 1 .. Len(es) : es[k].name = name => i <= k
  BY LookupInFinds, ZenonT(60)
<1>2. RemoveFrom(es, name) = Without(es, i)
  BY <1>1, Zenon DEF RemoveFrom
<1>3. /\ Without(es, i) \in Seq(Entries) /\ Len(Without(es, i)) = Len(es) - 1
      /\ \A k \in 1 .. Len(es) - 1 : Without(es, i)[k] = IF k = i THEN es[Len(es)] ELSE es[k]
  BY WithoutOne, Zenon
<1> HIDE DEF hits
<1> QED BY <1>1, <1>2, <1>3, SMTT(30)

\* Removing a name from the directory of p.
LEMMA RemovedSound ==
  ASSUME IInv, NEW p \in Paths, ParentIsDir(p), NEW t, Sound(t, ndirs), t.node = node,
         LookupIn(t.dirs[StoreOf(p)], NamePart(p)) # 0
  PROVE  Sound(Removed(t, p), ndirs) /\ Grows(T, Removed(t, p))
<1> DEFINE s == StoreOf(p)
           es == t.dirs[s]
           ws == RemoveFrom(es, NamePart(p))
<1>1. s \in Store /\ ndirs \in 0 .. MAX_DIRS
  BY ParentHasStore, Zenon DEF IInv, PoolInv
<1>2. es \in Seq(Entries) /\ Len(es) <= MAX_ENTRIES /\ LookupIn(es, NamePart(p)) # 0
      /\ \A k \in 1 .. Len(es) : t.node[es[k].ino].type # "free"
  BY <1>1, Zenon DEF Sound, Tables, EntriesOK
<1>3. Removed(t, p) = SetDir(t, s, ws)
  BY Zenon DEF Removed
<1> HIDE DEF s, es
<1>4. PICK i \in 1 .. Len(es) :
        /\ ws \in Seq(Entries) /\ Len(ws) = Len(es) - 1
        /\ \A k \in 1 .. Len(es) - 1 : ws[k] = IF k = i THEN es[Len(es)] ELSE es[k]
  BY <1>2, RemoveFromIs, SMTT(30)
<1> HIDE DEF ws
<1>5. Len(ws) <= MAX_ENTRIES /\ \A k \in 1 .. Len(ws) : t.node[ws[k].ino].type # "free"
  <2>1. Len(es) \in Nat /\ Len(es) \in 1 .. Len(es)
    BY <1>2, <1>4
  <2>2. Len(ws) <= MAX_ENTRIES
    BY <1>2, <1>4, <2>1, Sizes
  <2>3. ASSUME NEW k \in 1 .. Len(ws) PROVE t.node[ws[k].ino].type # "free"
    <3>1. k \in 1 .. Len(es) - 1 /\ k \in 1 .. Len(es)
      BY <1>4, <2>1
    <3>2. ws[k] = es[Len(es)] \/ ws[k] = es[k]
      BY <1>4, <3>1, Zenon
    <3> QED BY <1>2, <2>1, <3>1, <3>2, Zenon
  <2> QED BY <2>2, <2>3, Zenon
<1>6. Sound(SetDir(t, s, ws), ndirs) /\ SetDir(t, s, ws).node = t.node
  BY <1>1, <1>4, <1>5, SetDirSound, SMTT(30)
<1> QED BY <1>3, <1>6, Zenon DEF Grows, T

\* devtmpfs_unlink and devtmpfs_rmdir keep the invariant: the entries left
\* over are entries that were there.
LEMMA UnlinkKeeps ==
  ASSUME IInv, work' = work, NEW p \in Paths, Unlink(p) \/ Rmdir(p)
  PROVE  IInv'
<1>1. /\ ParentIsDir(p) /\ Lookup(T, Parent(p), NamePart(p)) # 0
      /\ ndirs' = ndirs /\ nlinks' = nlinks /\ mounts' = mounts /\ SameDir
      /\ Becomes(Removed(T, p))
  BY Zenon DEF Unlink, Rmdir
<1>2. Sound(T, ndirs) /\ ndirs \in 0 .. MAX_DIRS /\ nlinks \in 0 .. MAX_SYMLINKS
      /\ T.node = node /\ T.dirs = dirs
  BY Zenon DEF IInv, PoolInv, T
<1>3. Parent(p) \in Ino
  BY <1>1, ParentHasStore, Zenon
<1>4. LookupIn(T.dirs[StoreOf(p)], NamePart(p)) # 0
  BY <1>1, <1>2, <1>3, LookupIs, Zenon DEF StoreOf, IInv
<1> DEFINE t == Removed(T, p)
<1>5. Sound(t, ndirs) /\ Grows(T, t)
  BY <1>1, <1>2, <1>4, RemovedSound, Zenon
<1> HIDE DEF t
<1> QED BY <1>1, <1>2, <1>5, BecomesInv, Zenon DEF t

\* vfs_rename keeps the invariant, within a directory and between two.
LEMMA RenameKeeps ==
  ASSUME IInv, work' = work, NEW p \in Paths, NEW q \in Paths, Rename(p, q)
  PROVE  IInv'
<1> DEFINE i == Lookup(T, Parent(p), NamePart(p))
           u == AddEntry(T, StoreOf(q), NamePart(q), i)
           t == Removed(u, p)
           s == StoreOf(p)
           name == NamePart(p)
<1>1. /\ ParentIsDir(p) /\ ParentIsDir(q) /\ i # 0
      /\ ndirs' = ndirs /\ nlinks' = nlinks /\ mounts' = mounts /\ SameDir
      /\ Becomes(t)
  BY Zenon DEF Rename
<1>2. Sound(T, ndirs) /\ ndirs \in 0 .. MAX_DIRS /\ nlinks \in 0 .. MAX_SYMLINKS
      /\ T.node = node /\ T.dirs = dirs
  BY Zenon DEF IInv, PoolInv, T
<1>3. Parent(p) \in Ino /\ s \in Store /\ StoreOf(q) \in Store /\ NamePart(q) \in STRING
  BY <1>1, ParentHasStore, PathParts, Zenon DEF IInv
<1>4. i \in Ino /\ node[i].type # "free" /\ i = LookupIn(dirs[s], name)
  BY <1>1, <1>3, LookupIs, Zenon DEF StoreOf, IInv
<1> HIDE DEF i
<1>5. /\ Sound(u, ndirs) /\ u.node = T.node
      /\ \A r \in Store : \/ u.dirs[r] = dirs[r]
                          \/ u.dirs[r] = Append(dirs[r], Entry(NamePart(q), i))
  <2> DEFINE s1 == StoreOf(q)
             n1 == NamePart(q)
  <2>1. PICK t1 : t1 = T
    BY Zenon
  <2>2. /\ Sound(t1, ndirs) /\ t1.node[i].type # "free" /\ u = AddEntry(t1, s1, n1, i)
        /\ t1.node = T.node /\ t1.dirs = dirs /\ ndirs \in 0 .. MAX_DIRS
    BY <1>2, <1>4, <2>1, Zenon
  <2>3. s1 \in Store /\ n1 \in STRING /\ i \in Ino
    BY <1>3, <1>4, Zenon
  <2> HIDE DEF u, s1, n1
  <2>4. /\ Sound(AddEntry(t1, s1, n1, i), ndirs) /\ AddEntry(t1, s1, n1, i).node = t1.node
        /\ \A r \in Store : AddEntry(t1, s1, n1, i).dirs[r] =
             IF r = s1 /\ RoomIn(t1, s1) THEN Append(t1.dirs[s1], Entry(n1, i)) ELSE t1.dirs[r]
    BY <2>2, <2>3, AddEntrySound, ZenonT(60)
  <2> QED BY <2>2, <2>4, Zenon DEF n1
<1> HIDE DEF u
<1>6. LookupIn(u.dirs[s], name) # 0
  <2> DEFINE es == dirs[s]
             fs == u.dirs[s]
             e == Entry(NamePart(q), i)
  <2>1. es \in Seq(Entries) /\ fs \in Seq(Entries) /\ LookupIn(es, name) # 0
    BY <1>1, <1>2, <1>3, <1>4, <1>5, Zenon DEF Sound, Tables
  <2>2. fs = es \/ fs = Append(es, e)
    BY <1>3, <1>5, Zenon
  <2> HIDE DEF es, fs, e, name
  <2>3. PICK k \in 1 .. Len(es) : es[k].name = name
    BY <2>1, LookupInHit, Zenon
  <2>4. k \in 1 .. Len(fs) /\ fs[k].name = name
    BY <2>1, <2>2, <2>3, SMTT(30)
  <2>5. LookupIn(fs, name) # 0
    BY <2>1, <2>4, LookupInHit, Zenon
  <2> QED BY <2>5, Zenon DEF fs, name
<1>7. Sound(t, ndirs) /\ Grows(T, t)
  BY <1>1, <1>2, <1>5, <1>6, RemovedSound, Zenon DEF s, name
<1> HIDE DEF t
<1> QED BY <1>1, <1>2, <1>7, BecomesInv, Zenon

\* A mount more: its root is new, and nothing but a shared root has two.
LEMMA MountMore ==
  ASSUME IInv, NEW i \in Ino, node[i].type = "free", NEW p \in PlainPaths, Resolve(p) # 0,
         \A j \in Ino : node[j].type # "free" => node'[j] = node[j],
         node'[i].type = "dir", node'[i].store = DevMount,
         mounts' = TableWith(Resolve(p), i)
  PROVE  MountInv'
<1> DEFINE c == Resolve(p)
           m == [point |-> c, root |-> i]
           R == [point : Ino, root : Ino]
<1>1. /\ c \in Ino /\ InUse(c)
      /\ \/ node[c].store = DevMount
         \/ \A k \in 1 .. Len(mounts) : mounts[k].point # c
  BY ResolveIs, Zenon DEF IInv
<1>2. MountInv
  BY Zenon DEF IInv
<1>3. \A k \in 1 .. Len(mounts) :
        /\ mounts[k].point \in Ino /\ mounts[k].root \in Ino /\ mounts[k].root # i
        /\ node'[mounts[k].point] = node[mounts[k].point]
        /\ node'[mounts[k].root] = node[mounts[k].root]
  BY <1>2, MountTypes, Zenon DEF MountInv, InUse
<1>4. node'[c] = node[c] /\ m \in R /\ m.point = c /\ m.root = i
  BY <1>1, Zenon DEF InUse
<1>5. mounts \in Seq(R) /\ Len(mounts) \in Nat /\ Len(mounts) <= MAX_MOUNTS
  BY <1>2 DEF MountInv
<1> HIDE DEF R
<1>6. CASE Len(mounts) >= MAX_MOUNTS
  <2>1. mounts' = mounts
    BY <1>6, Zenon DEF TableWith
  <2> QED BY <1>2, <1>3, <2>1, SMTT(30) DEF MountInv, InUse
<1>7. CASE ~(Len(mounts) >= MAX_MOUNTS)
  <2>1. mounts' = Append(mounts, m)
    BY <1>7, Zenon DEF TableWith
  <2> HIDE DEF m, c
  <2>2. /\ mounts' \in Seq(R) /\ Len(mounts') = Len(mounts) + 1 /\ Len(mounts') <= MAX_MOUNTS
        /\ \A k \in 1 .. Len(mounts') : mounts'[k] = IF k = Len(mounts) + 1 THEN m ELSE mounts[k]
    BY <1>4, <1>5, <1>7, <2>1, Sizes, SMTT(30)
  <2> DEFINE n == Len(mounts)
  <2>3. \A k \in 1 .. n + 1 : k = n + 1 \/ k \in 1 .. n
    BY <1>5
  <2>4. \A k \in 1 .. Len(mounts') : /\ node'[mounts'[k].root].type = "dir"
                                     /\ node'[mounts'[k].root].store = DevMount
                                     /\ node'[mounts'[k].point].type \notin {"free", "link"}
    BY <1>1, <1>2, <1>3, <1>4, <2>2, <2>3, SMTT(30) DEF MountInv, InUse
  <2>5. \A j, k \in 1 .. Len(mounts') : mounts'[j].root = mounts'[k].root => j = k
    BY <1>2, <1>3, <1>4, <2>2, <2>3, SMTT(30) DEF MountInv
  <2>6. \A j, k \in 1 .. Len(mounts') :
          mounts'[j].point = mounts'[k].point => j = k \/ node'[mounts'[j].point].store = DevMount
    BY <1>1, <1>2, <1>3, <1>4, <2>2, <2>3, SMTT(30) DEF MountInv
  <2> QED BY <2>2, <2>4, <2>5, <2>6, Zenon DEF MountInv, InUse, R
<1> QED BY <1>6, <1>7, Zenon

\* sys_mount keeps the invariant, also when the table is full and the new
\* root is of no use.
LEMMA MountKeeps ==
  ASSUME IInv, work' = work, NEW p \in Paths \cup {<<>>}, Mount(p)
  PROVE  IInv'
<1> DEFINE i  == AllocInode(T)
           nd == Dir(DevMount)
           u  == SetNode(T, i, nd)
           v  == SetDir(u, DevMount, <<>>)
           t  == PopulateDir(v, DevMount)
<1>1. /\ Resolve(p) # 0 /\ i # 0 /\ Becomes(t) /\ mounts' = TableWith(Resolve(p), i)
      /\ ndirs' = ndirs /\ nlinks' = nlinks /\ SameDir
  BY Zenon DEF Mount, CreateMount
<1>2. Sound(T, ndirs) /\ ndirs \in 0 .. MAX_DIRS /\ nlinks \in 0 .. MAX_SYMLINKS
      /\ T.node = node
  BY Zenon DEF IInv, PoolInv, T
<1>3. i \in Ino /\ T.node[i].type = "free"
  BY <1>1, AllocInodeFree, Zenon
<1>4. DevMount \in Store /\ DevMount \in 1 .. 4 + ndirs
  BY <1>2, Sizes DEF DevMount
<1>5. nd \in Nodes /\ nd.type = "dir" /\ nd.store = DevMount
  BY Sizes DEF Dir, DevMount, Node, Nodes, Types
<1> HIDE DEF i, nd
<1>6. Sound(u, ndirs) /\ Grows(T, u) /\ u.node[i] = nd
  BY <1>2, <1>3, <1>4, <1>5, SetNodeSound
<1> HIDE DEF u
<1>7. Sound(v, ndirs) /\ v.node = u.node
  BY <1>2, <1>4, <1>6, EmptiedSound, Zenon
<1> HIDE DEF v
<1>8. Sound(t, ndirs) /\ Grows(v, t)
  BY <1>2, <1>4, <1>7, PopulateDirSound, Zenon
<1> HIDE DEF t
<1>9. Grows(T, t) /\ t.node[i] = nd
  BY <1>3, <1>5, <1>6, <1>7, <1>8, Zenon DEF Grows
<1>10. work' \in Workloads /\ PoolInv' /\ WalkInv'
  BY <1>1, <1>2, <1>8, <1>9, BecomesInv, Zenon
<1>11. MountInv'
  <2>1. node'[i] = nd /\ node[i].type = "free"
        /\ \A j \in Ino : node[j].type # "free" => node'[j] = node[j]
    BY <1>1, <1>2, <1>3, <1>9, Zenon DEF Becomes, Grows
  <2>2. p \in PlainPaths
    <3>1. <<>> \in PlainPaths
      BY DEF PlainPaths
    <3> QED BY <3>1, PathParts, Zenon DEF IInv
  <2> QED BY <1>1, <1>3, <1>5, <2>1, <2>2, MountMore, Zenon
<1> QED BY <1>10, <1>11, Zenon DEF IInv

\* The mounts that stay after an unmount were all there before, each once.
LEMMA UnmountIs ==
  ASSUME IInv, NEW p, Unmount(p)
  PROVE  \E i \in 1 .. Len(mounts) :
           /\ mounts[i].root = Resolve(p)
           /\ mounts' \in Seq([point : Ino, root : Ino]) /\ Len(mounts') = Len(mounts) - 1
           /\ \A k \in 1 .. Len(mounts') :
                mounts'[k] = IF k = i THEN mounts[Len(mounts)] ELSE mounts[k]
           /\ UNCHANGED <<node, dirs, ndirs, nlinks, cwd, trail>>
<1> DEFINE R == [point : Ino, root : Ino]
           hits == {i \in DOMAIN mounts : mounts[i].root = Resolve(p)}
           i == Min(hits)
<1>1. hits # {} /\ mounts' = Without(mounts, i)
      /\ UNCHANGED <<node, dirs, ndirs, nlinks, cwd, trail>>
  BY Zenon DEF Unmount, TableWithout, SameDir
<1>2. mounts \in Seq(R) /\ Len(mounts) \in Nat
  BY DEF IInv, MountInv
<1>3. hits \in SUBSET Nat /\ hits \subseteq 1 .. Len(mounts)
  BY <1>2
<1>4. i \in hits
  <2> HIDE DEF hits
  <2> QED BY <1>1, <1>3, MinIn, Zenon
<1>5. i \in 1 .. Len(mounts) /\ mounts[i].root = Resolve(p)
  BY <1>3, <1>4, Zenon
<1> HIDE DEF R, hits, i
<1>6. /\ Without(mounts, i) \in Seq(R) /\ Len(Without(mounts, i)) = Len(mounts) - 1
      /\ \A k \in 1 .. Len(mounts) - 1 :
           Without(mounts, i)[k] = IF k = i THEN mounts[Len(mounts)] ELSE mounts[k]
  BY <1>2, <1>5, WithoutOne, Zenon
<1> QED BY <1>1, <1>5, <1>6, Zenon DEF R

\* sys_unmount keeps the invariant.
LEMMA UnmountKeeps ==
  ASSUME IInv, work' = work, NEW p, Unmount(p)
  PROVE  IInv'
<1>1. PICK i \in 1 .. Len(mounts) :
        /\ mounts' \in Seq([point : Ino, root : Ino]) /\ Len(mounts') = Len(mounts) - 1
        /\ \A k \in 1 .. Len(mounts') :
             mounts'[k] = IF k = i THEN mounts[Len(mounts)] ELSE mounts[k]
        /\ UNCHANGED <<node, dirs, ndirs, nlinks, cwd, trail>>
  BY UnmountIs, Zenon
<1> DEFINE n == Len(mounts)
<1>2. MountInv /\ n \in Nat /\ n <= MAX_MOUNTS /\ n \in 1 .. n
  <2>1. MountInv
    BY Zenon DEF IInv
  <2>2. n \in Nat /\ n <= MAX_MOUNTS
    BY <2>1 DEF MountInv
  <2>3. i \in 1 .. n
    BY <1>1, Zenon
  <2> HIDE DEF n
  <2>4. n \in 1 .. n
    BY <2>2, <2>3
  <2> QED BY <2>1, <2>2, <2>4, Zenon
<1>3. \A k \in 1 .. Len(mounts') : k \in 1 .. n /\ k # n
  BY <1>1, <1>2
<1>4. PoolInv' /\ WalkInv' /\ work' \in Workloads
  BY <1>1, Zenon DEF IInv, PoolInv, WalkInv, T
<1>5. Len(mounts') <= MAX_MOUNTS
  BY <1>1, <1>2, Sizes
<1>6. \A k \in 1 .. Len(mounts') : /\ node[mounts'[k].root].type = "dir"
                                   /\ node[mounts'[k].root].store = DevMount
                                   /\ node[mounts'[k].point].type \notin {"free", "link"}
  <2> SUFFICES ASSUME NEW k \in 1 .. Len(mounts')
               PROVE  /\ node[mounts'[k].root].type = "dir"
                      /\ node[mounts'[k].root].store = DevMount
                      /\ node[mounts'[k].point].type \notin {"free", "link"}
    BY Zenon
  <2> DEFINE a == IF k = i THEN n ELSE k
  <2>1. a \in 1 .. n
    BY <1>2, <1>3, Zenon
  <2>2. mounts'[k] = mounts[a]
    BY <1>1, Zenon
  <2> HIDE DEF a, n
  <2>3. n = Len(mounts)
    BY Zenon DEF n
  <2> QED BY <1>2, <2>1, <2>2, <2>3, Zenon DEF MountInv, InUse
<1>7. \A j, k \in 1 .. Len(mounts') : mounts'[j].root = mounts'[k].root => j = k
  BY <1>1, <1>2, <1>3, Zenon DEF MountInv
<1>8. \A j, k \in 1 .. Len(mounts') :
        mounts'[j].point = mounts'[k].point => j = k \/ node[mounts'[j].point].store = DevMount
  <2> SUFFICES ASSUME NEW j \in 1 .. Len(mounts'), NEW k \in 1 .. Len(mounts'),
                      mounts'[j].point = mounts'[k].point
               PROVE  j = k \/ node[mounts'[j].point].store = DevMount
    BY Zenon
  <2> DEFINE a == IF j = i THEN n ELSE j
             b == IF k = i THEN n ELSE k
  <2>1. a \in 1 .. n /\ b \in 1 .. n /\ (a = b => j = k)
    BY <1>2, <1>3, Zenon
  <2>2. mounts'[j] = mounts[a] /\ mounts'[k] = mounts[b]
    BY <1>1, SMTT(30)
  <2> HIDE DEF a, b
  <2> QED BY <1>2, <2>1, <2>2, SMTT(30) DEF MountInv
<1>9. MountInv'
  BY <1>1, <1>5, <1>6, <1>7, <1>8, Zenon DEF MountInv, InUse
<1> QED BY <1>4, <1>9, Zenon DEF IInv

-----------------------------------------------------------------------------
(* The current directory.                                                   *)

\* The steps in and out are counted by numbers.
LEMMA Counted ==
  ASSUME NEW steps, NEW i \in Nat, NEW j \in Nat
  PROVE  /\ Ins(steps, i, j) \in SUBSET (0 .. j) /\ Outs(steps, i, j) \in SUBSET (0 .. j)
         /\ Cardinality(Ins(steps, i, j)) \in Nat /\ Cardinality(Outs(steps, i, j)) \in Nat
<1>1. Ins(steps, i, j) \in SUBSET (0 .. j) /\ Outs(steps, i, j) \in SUBSET (0 .. j)
  BY DEF Ins, Outs
<1> QED BY <1>1, Counting, Zenon

\* The elements of a sequence with one more.
LEMMA Appended ==
  ASSUME NEW S, NEW s \in Seq(S), NEW c \in S
  PROVE  /\ Append(s, c) \in Seq(S) /\ Len(Append(s, c)) = Len(s) + 1
         /\ \A k \in 1 .. Len(s) : Append(s, c)[k] = s[k]
         /\ Append(s, c)[Len(s) + 1] = c
<1>1. Append(s, c) \in Seq(S) /\ Len(Append(s, c)) = Len(s) + 1
  OBVIOUS
<1>2. \A k \in 1 .. Len(s) : Append(s, c)[k] = s[k]
  OBVIOUS
<1>3. Append(s, c)[Len(s) + 1] = c
  OBVIOUS
<1> QED BY <1>1, <1>2, <1>3, Zenon

\* What one more step c does to the steps in and out behind step i.
LEMMA InsMore ==
  ASSUME NEW tr \in Seq(STRING), NEW c \in STRING, NEW i \in 0 .. Len(tr)
  PROVE  /\ \A j \in 0 .. Len(tr) : /\ Ins(Append(tr, c), i, j) = Ins(tr, i, j)
                                    /\ Outs(Append(tr, c), i, j) = Outs(tr, i, j)
         /\ Cardinality(Ins(Append(tr, c), i, Len(tr) + 1))
              = IF c \in {".", ".."} THEN Cardinality(Ins(tr, i, Len(tr)))
                ELSE Cardinality(Ins(tr, i, Len(tr))) + 1
         /\ Cardinality(Outs(Append(tr, c), i, Len(tr) + 1))
              = IF c = ".." THEN Cardinality(Outs(tr, i, Len(tr))) + 1
                ELSE Cardinality(Outs(tr, i, Len(tr)))
<1> DEFINE u == Append(tr, c)
           n == Len(tr)
           I == Ins(tr, i, n)
           O == Outs(tr, i, n)
<1>0. n \in Nat /\ i \in Nat /\ i <= n
  OBVIOUS
<1>1. (\A k \in 1 .. n : u[k] = tr[k]) /\ u[n + 1] = c
  <2>1. \A k \in 1 .. n : u[k] = tr[k]
    BY Appended
  <2>2. u[n + 1] = c
    <3>1. \A S : tr \in Seq(S) /\ c \in S => Append(tr, c)[Len(tr) + 1] = c
      BY Appended, ZenonT(60)
    <3>2. tr \in Seq(STRING) /\ c \in STRING
      BY Zenon
    <3> QED BY <3>1, <3>2, Zenon
  <2> QED BY <2>1, <2>2, Zenon
<1> HIDE DEF u, n
<1>2. \A j \in 0 .. n : \A k \in i + 1 .. j : k \in 1 .. n
  BY <1>0
<1>3. \A j \in 0 .. n : Ins(u, i, j) = Ins(tr, i, j) /\ Outs(u, i, j) = Outs(tr, i, j)
  BY <1>1, <1>2, SMTT(30) DEF Ins, Outs
<1>4. \A k : k \in i + 1 .. n + 1 <=> (k \in i + 1 .. n \/ k = n + 1)
  BY <1>0
<1>5. /\ Ins(u, i, n + 1) = IF c \in {".", ".."} THEN I ELSE I \cup {n + 1}
      /\ Outs(u, i, n + 1) = IF c = ".." THEN O \cup {n + 1} ELSE O
  <2>1. \A k \in i + 1 .. n : u[k] = tr[k]
    BY <1>0, <1>1
  <2>2. Ins(u, i, n + 1) = IF c \in {".", ".."} THEN I ELSE I \cup {n + 1}
    BY <1>1, <1>4, <2>1, Zenon DEF Ins
  <2>3. Outs(u, i, n + 1) = IF c = ".." THEN O \cup {n + 1} ELSE O
    BY <1>1, <1>4, <2>1, Zenon DEF Outs
  <2> QED BY <2>2, <2>3, Zenon
<1>6. I \in SUBSET (0 .. n) /\ O \in SUBSET (0 .. n)
  BY <1>0, Counted, Zenon
<1> HIDE DEF I, O
<1>7. n + 1 \notin I /\ n + 1 \notin O
  BY <1>0, <1>6
<1>8. /\ Cardinality(I \cup {n + 1}) = Cardinality(I) + 1
      /\ Cardinality(O \cup {n + 1}) = Cardinality(O) + 1
  BY <1>0, <1>6, <1>7, Counting, Zenon
<1>9. /\ Cardinality(Ins(u, i, n + 1)) = IF c \in {".", ".."} THEN Cardinality(I) ELSE Cardinality(I) + 1
      /\ Cardinality(Outs(u, i, n + 1)) = IF c = ".." THEN Cardinality(O) + 1 ELSE Cardinality(O)
  BY <1>5, <1>8, Zenon
<1> QED BY <1>3, <1>9, Zenon DEF u, n, I, O

\* Which steps are not taken back, after one more.
LEMMA StayMore ==
  ASSUME NEW tr \in Seq(STRING), NEW c \in STRING, Balanced(tr)
  PROVE  /\ Stay(tr) \in SUBSET (1 .. Len(tr))
         /\ c = "." => Stay(Append(tr, c)) = Stay(tr)
         /\ c = ".." => Stay(Append(tr, c)) = {i \in Stay(tr) : Above(Stay(tr), i) # {}}
         /\ c \notin {".", ".."} => Stay(Append(tr, c)) = Stay(tr) \cup {Len(tr) + 1}
<1> DEFINE u == Append(tr, c)
           n == Len(tr)
           S == Stay(tr)
           in(i) == Cardinality(Ins(tr, i, n))
           out(i) == Cardinality(Outs(tr, i, n))
<1>0. n \in Nat /\ Len(u) = n + 1
  OBVIOUS
<1>1. S \in SUBSET (1 .. n)
  BY <1>0 DEF Stay, Ins
<1>2. \A i \in 0 .. n : in(i) \in Nat /\ out(i) \in Nat
  <2>1. \A i \in 0 .. n : i \in Nat
    BY <1>0
  <2> QED BY <1>0, <2>1, Counted, Zenon
<1>3. ASSUME NEW i \in 1 .. n
      PROVE  i \in Stay(u) <=> i \in S /\ Cardinality(Outs(u, i, n + 1)) <= Cardinality(Ins(u, i, n + 1))
  <2>1. \A j \in 0 .. n : Ins(u, i, j) = Ins(tr, i, j) /\ Outs(u, i, j) = Outs(tr, i, j)
    BY InsMore
  <2>2. i \in Ins(u, 0, n + 1) <=> i \in Ins(tr, 0, n)
    <3>1. u[i] = tr[i] /\ i \in 0 + 1 .. n /\ i \in 0 + 1 .. n + 1
      BY <1>0
    <3> QED BY <3>1, Zenon DEF Ins
  <2> HIDE DEF u, n
  <2>3. (\A j \in i + 1 .. n + 1 : Cardinality(Outs(u, i, j)) <= Cardinality(Ins(u, i, j)))
          <=> /\ \A j \in i + 1 .. n : Cardinality(Outs(tr, i, j)) <= Cardinality(Ins(tr, i, j))
              /\ Cardinality(Outs(u, i, n + 1)) <= Cardinality(Ins(u, i, n + 1))
    <3>1. \A j : j \in i + 1 .. n + 1 <=> (j \in i + 1 .. n \/ j = n + 1)
      BY <1>0
    <3>2. \A j \in i + 1 .. n : j \in 0 .. n
      BY <1>0
    <3> QED BY <3>1, <3>2, <2>1
  <2>4. i \in Stay(u) <=> /\ i \in Ins(u, 0, n + 1)
                          /\ \A j \in i + 1 .. n + 1 : Cardinality(Outs(u, i, j)) <= Cardinality(Ins(u, i, j))
    BY <1>0 DEF Stay
  <2>5. i \in S <=> /\ i \in Ins(tr, 0, n)
                    /\ \A j \in i + 1 .. n : Cardinality(Outs(tr, i, j)) <= Cardinality(Ins(tr, i, j))
    BY DEF Stay, n
  <2> QED BY <2>2, <2>3, <2>4, <2>5
<1>4. Stay(u) \subseteq 1 .. n + 1
  BY <1>0 DEF Stay, Ins
<1>5. n + 1 \in Stay(u) <=> c \notin {".", ".."}
  <2>1. n + 1 \in 0 + 1 .. n + 1 /\ (n + 1) + 1 .. n + 1 = {}
    BY <1>0
  <2>2. u[n + 1] = c
    BY Appended, Zenon
  <2>3. n + 1 \in Ins(u, 0, n + 1) <=> c \notin {".", ".."}
    BY <2>1, <2>2, Zenon DEF Ins
  <2> QED BY <1>0, <2>1, <2>3, Zenon DEF Stay
<1>6. \A i \in S : in(i) = out(i) + Cardinality(Above(S, i)) /\ Cardinality(Above(S, i)) \in Nat
                   /\ (Cardinality(Above(S, i)) = 0 <=> Above(S, i) = {})
  <2>1. \A i \in S : in(i) = out(i) + Cardinality(Above(S, i))
    BY DEF Balanced
  <2>2. \A i \in S : Above(S, i) \in SUBSET (0 .. n)
    BY <1>0, <1>1 DEF Above
  <2> QED BY <1>0, <2>1, <2>2, Counting, Zenon
<1>7. ASSUME NEW i \in S
      PROVE  i \in Stay(u) <=> (c = ".." => Above(S, i) # {})
  <2>1. i \in 1 .. n /\ i \in 0 .. n
    BY <1>0, <1>1
  <2>2. /\ Cardinality(Ins(u, i, n + 1)) = IF c \in {".", ".."} THEN in(i) ELSE in(i) + 1
        /\ Cardinality(Outs(u, i, n + 1)) = IF c = ".." THEN out(i) + 1 ELSE out(i)
    BY <2>1, InsMore, Zenon
  <2>3. i \in Stay(u) <=> Cardinality(Outs(u, i, n + 1)) <= Cardinality(Ins(u, i, n + 1))
    BY <1>3, <2>1, Zenon
  <2>4. /\ in(i) \in Nat /\ out(i) \in Nat /\ in(i) = out(i) + Cardinality(Above(S, i))
        /\ Cardinality(Above(S, i)) \in Nat /\ (Cardinality(Above(S, i)) = 0 <=> Above(S, i) = {})
    BY <1>2, <1>6, <2>1
  <2> HIDE DEF u, n, S, in, out
  <2> QED BY <2>2, <2>3, <2>4
<1>8. \A i : i \in Stay(u) <=> \/ i \in S /\ (c = ".." => Above(S, i) # {})
                               \/ i = n + 1 /\ c \notin {".", ".."}
  <2>1. \A i \in 1 .. n + 1 : i \in 1 .. n \/ i = n + 1
    BY <1>0
  <2>2. n + 1 \notin S
    BY <1>0, <1>1
  <2> HIDE DEF u, n, S
  <2> QED BY <1>1, <1>3, <1>4, <1>5, <1>7, <2>1, <2>2, Zenon
<1> HIDE DEF u, S, n
<1> QED BY <1>1, <1>8, Zenon DEF u, S, n



\* The steps up to step i, and those behind it, are counted by numbers.
LEMMA Ranks ==
  ASSUME NEW tr, NEW path, Walked(tr, path)
  PROVE  /\ Len(tr) \in Nat /\ Stay(tr) \in SUBSET (1 .. Len(tr))
         /\ \A i : Above(Stay(tr), i) \in SUBSET (0 .. Len(tr))
         /\ \A i : UpTo(Stay(tr), i) \in SUBSET (0 .. Len(tr))
         /\ \A i \in Stay(tr) : /\ Cardinality(UpTo(Stay(tr), i)) \in 1 .. Len(path)
                                /\ path[Cardinality(UpTo(Stay(tr), i))] = tr[i]
         /\ Len(path) = Cardinality(Stay(tr)) /\ Len(path) \in Nat
<1> DEFINE S == Stay(tr)
           n == Len(tr)
<1>1. n \in Nat /\ S \in SUBSET (1 .. n)
  BY DEF Walked, Stay, Ins
<1>2. \A k \in S : k \in 0 .. n
  BY <1>1
<1>3. S \in SUBSET (0 .. n)
  BY <1>2, Zenon
<1>4. \A i : Above(S, i) \in SUBSET (0 .. n) /\ UpTo(S, i) \in SUBSET S /\ UpTo(S, i) \in SUBSET (0 .. n)
  BY <1>2, Zenon DEF Above, UpTo
<1>5. Len(path) = Cardinality(S) /\ \A i \in S : path[Cardinality(UpTo(S, i))] = tr[i]
  BY Zenon DEF Walked, LeadsTo, UpTo
<1>6. Len(path) \in Nat
  BY DEF Walked
<1>7. ASSUME NEW i \in S
      PROVE  Cardinality(UpTo(S, i)) \in 1 .. Len(path)
  <2>1. i \in UpTo(S, i)
    BY <1>1 DEF UpTo
  <2>2. UpTo(S, i) # {}
    BY <2>1, Zenon
  <2>3. Cardinality(UpTo(S, i)) \in Nat /\ Cardinality(UpTo(S, i)) # 0
    BY <1>1, <1>4, <2>2, Counting, Zenon
  <2>4. Cardinality(UpTo(S, i)) <= Cardinality(S)
    BY <1>1, <1>3, <1>4, Counting, Zenon
  <2> QED BY <1>5, <1>6, <2>3, <2>4
<1> QED BY <1>1, <1>4, <1>5, <1>6, <1>7, Zenon

\* A step to the same directory leads nowhere else.
LEMMA WalkStays ==
  ASSUME NEW tr, NEW path, Walked(tr, path), NEW c \in STRING, c = "."
  PROVE  Walked(Append(tr, c), path)
<1> DEFINE u == Append(tr, c)
           n == Len(tr)
           S == Stay(tr)
<1>1. tr \in Seq(STRING) /\ path \in Seq(STRING) /\ Balanced(tr)
  BY Zenon DEF Walked
<1>2. u \in Seq(STRING) /\ Len(u) = n + 1 /\ \A k \in 1 .. n : u[k] = tr[k]
  BY <1>1, Appended
<1>3. Stay(u) = S /\ S \in SUBSET (1 .. n)
  BY <1>1, StayMore, Zenon
<1>4. \A i \in S : i \in 1 .. n /\ i \in 0 .. n
  BY <1>3, Ranks
<1>5. ASSUME NEW i \in S
      PROVE  Cardinality(Ins(u, i, n + 1)) = Cardinality(Ins(tr, i, n))
             /\ Cardinality(Outs(u, i, n + 1)) = Cardinality(Outs(tr, i, n))
  BY <1>1, <1>4, InsMore, Zenon
<1>6. Balanced(u)
  <2>1. \A i \in S : Cardinality(Ins(tr, i, n)) = Cardinality(Outs(tr, i, n)) + Cardinality(Above(S, i))
    BY <1>1, Zenon DEF Balanced
  <2> HIDE DEF u, n, S
  <2> QED BY <1>2, <1>3, <1>5, <2>1, Zenon DEF Balanced
<1>7. LeadsTo(u, path)
  <2>1. Len(path) = Cardinality(S) /\ \A i \in S : path[Cardinality(UpTo(S, i))] = tr[i]
    BY Ranks, Zenon
  <2> HIDE DEF u, n, S
  <2> QED BY <1>2, <1>3, <1>4, <2>1, Zenon DEF LeadsTo, UpTo
<1> QED BY <1>1, <1>2, <1>6, <1>7, Zenon DEF Walked

\* A step to a name leads from the path to the path with that name.
LEMMA WalkInto ==
  ASSUME NEW tr, NEW path, Walked(tr, path), NEW c \in STRING, c \notin {".", ".."}
  PROVE  Walked(Append(tr, c), Append(path, c))
<1> DEFINE u == Append(tr, c)
           n == Len(tr)
           S == Stay(tr)
           U == S \cup {n + 1}
           q == Append(path, c)
           m == Len(path)
<1>1. tr \in Seq(STRING) /\ path \in Seq(STRING) /\ Balanced(tr)
  BY Zenon DEF Walked
<1>2. /\ u \in Seq(STRING) /\ Len(u) = n + 1
      /\ \A k \in 1 .. n : u[k] = tr[k]
      /\ u[n + 1] = c
  BY <1>1, Appended
<1>3. /\ q \in Seq(STRING) /\ Len(q) = m + 1
      /\ \A k \in 1 .. m : q[k] = path[k]
      /\ q[m + 1] = c
  BY <1>1, Appended, ZenonT(60)
<1>4. Stay(u) = U
  BY <1>1, StayMore, Zenon
<1>5. /\ n \in Nat /\ m \in Nat /\ m = Cardinality(S) /\ S \in SUBSET (1 .. n)
      /\ \A i : Above(S, i) \in SUBSET (0 .. n)
      /\ \A i \in S : Cardinality(UpTo(S, i)) \in 1 .. m /\ path[Cardinality(UpTo(S, i))] = tr[i]
  BY Ranks, Zenon
<1>6. ASSUME NEW i \in S
      PROVE  /\ Cardinality(Ins(u, i, n + 1)) = Cardinality(Ins(tr, i, n)) + 1
             /\ Cardinality(Outs(u, i, n + 1)) = Cardinality(Outs(tr, i, n))
  <2>1. i \in 0 .. n
    BY <1>5
  <2> QED BY <1>1, <2>1, InsMore, ZenonT(60)
<1>7. \A i \in S : /\ Cardinality(Ins(tr, i, n)) = Cardinality(Outs(tr, i, n)) + Cardinality(Above(S, i))
                   /\ Cardinality(Outs(tr, i, n)) \in Nat
  <2>1. \A i \in S : Cardinality(Ins(tr, i, n)) = Cardinality(Outs(tr, i, n)) + Cardinality(Above(S, i))
    BY <1>1, Zenon DEF Balanced
  <2>2. \A i \in S : i \in Nat
    BY <1>5
  <2> QED BY <1>5, <2>1, <2>2, Counted, Zenon
<1>8. \A i \in S : i \in 1 .. n /\ i < n + 1 /\ i <= n + 1
  BY <1>5
<1>9. S \in SUBSET (0 .. n) /\ n + 1 \notin S
  BY <1>5, <1>8
<1> HIDE DEF u, n, S, q, m
<1>10. /\ \A i \in S : Above(U, i) = Above(S, i) \cup {n + 1} /\ UpTo(U, i) = UpTo(S, i)
       /\ Above(U, n + 1) = {} /\ UpTo(U, n + 1) = U
  <2>1. ~(n + 1 > n + 1) /\ n + 1 <= n + 1 /\ \A i \in S : n + 1 > i /\ ~(n + 1 <= i) /\ ~(i > n + 1)
    BY <1>5, <1>8
  <2> QED BY <1>8, <2>1, Zenon DEF Above, UpTo
<1>11. ASSUME NEW i \in S
       PROVE  Cardinality(Above(S, i) \cup {n + 1}) = Cardinality(Above(S, i)) + 1
              /\ Cardinality(Above(S, i)) \in Nat
  <2>1. n + 1 \notin Above(S, i)
    BY <1>9, Zenon DEF Above
  <2> QED BY <1>5, <2>1, Counting, SMTT(30)
<1>12. Cardinality(U) = m + 1
  BY <1>5, <1>9, Counting, Zenon
<1> HIDE DEF U
<1>13. Balanced(u)
  <2>1. Cardinality({}) = 0
    BY <1>5, Counting, Zenon
  <2>2. Ins(u, n + 1, n + 1) = {} /\ Outs(u, n + 1, n + 1) = {}
    <3>1. (n + 1) + 1 .. n + 1 = {}
      BY <1>5
    <3> QED BY <3>1, Zenon DEF Ins, Outs
  <2>3. Cardinality(Ins(u, n + 1, n + 1))
          = Cardinality(Outs(u, n + 1, n + 1)) + Cardinality(Above(U, n + 1))
    BY <1>10, <2>1, <2>2
  <2>4. ASSUME NEW i \in S
        PROVE  Cardinality(Ins(u, i, n + 1)) = Cardinality(Outs(u, i, n + 1)) + Cardinality(Above(U, i))
    BY <1>6, <1>7, <1>10, <1>11
  <2> QED BY <1>2, <1>4, <2>3, <2>4, Zenon DEF Balanced, U
<1>14. LeadsTo(u, q)
  <2>1. \A i \in S : q[Cardinality(UpTo(U, i))] = u[i]
    BY <1>2, <1>3, <1>5, <1>8, <1>10, SMTT(30)
  <2>2. q[Cardinality(UpTo(U, n + 1))] = u[n + 1]
    BY <1>2, <1>3, <1>10, <1>12, Zenon
  <2> QED BY <1>3, <1>4, <1>12, <2>1, <2>2, Zenon DEF LeadsTo, UpTo, U
<1> QED BY <1>2, <1>3, <1>13, <1>14, Zenon DEF Walked, u, q

\* A step back leads to the path without its last name, if it has one.
LEMMA WalkOut ==
  ASSUME NEW tr, NEW path, Walked(tr, path), NEW c \in STRING, c = ".."
  PROVE  Walked(Append(tr, c), IF path = <<>> THEN <<>> ELSE DirPart(path))
<1> DEFINE u == Append(tr, c)
           n == Len(tr)
           S == Stay(tr)
           m == Len(path)
<1>1. tr \in Seq(STRING) /\ path \in Seq(STRING) /\ Balanced(tr)
  BY Zenon DEF Walked
<1>2. /\ u \in Seq(STRING) /\ Len(u) = n + 1
      /\ \A k \in 1 .. n : u[k] = tr[k]
  BY <1>1, Appended
<1>3. Stay(u) = {i \in S : Above(S, i) # {}}
  BY <1>1, StayMore, Zenon
<1>4. /\ n \in Nat /\ m \in Nat /\ m = Cardinality(S) /\ S \in SUBSET (1 .. n)
      /\ \A i : Above(S, i) \in SUBSET (0 .. n)
      /\ \A i \in S : Cardinality(UpTo(S, i)) \in 1 .. m /\ path[Cardinality(UpTo(S, i))] = tr[i]
  BY Ranks, Zenon
<1>5. S \in SUBSET (0 .. n) /\ \A i \in S : i \in 1 .. n /\ i \in 0 .. n /\ i \in Nat
  BY <1>4
<1>6. ASSUME NEW i \in S
      PROVE  /\ Cardinality(Ins(u, i, n + 1)) = Cardinality(Ins(tr, i, n))
             /\ Cardinality(Outs(u, i, n + 1)) = Cardinality(Outs(tr, i, n)) + 1
  BY <1>1, <1>5, InsMore, Zenon
<1>7. \A i \in S : /\ Cardinality(Ins(tr, i, n)) = Cardinality(Outs(tr, i, n)) + Cardinality(Above(S, i))
                   /\ Cardinality(Outs(tr, i, n)) \in Nat
  <2>1. \A i \in S : Cardinality(Ins(tr, i, n)) = Cardinality(Outs(tr, i, n)) + Cardinality(Above(S, i))
    BY <1>1, Zenon DEF Balanced
  <2> QED BY <1>4, <1>5, <2>1, Counted, Zenon
<1>8. path = <<>> <=> m = 0
  BY <1>1
<1>9. S = {} <=> m = 0
  BY <1>4, <1>5, Counting, Zenon
<1>10. CASE S = {}
  <2>1. Stay(u) = {} /\ path = <<>> /\ Cardinality({}) = 0 /\ Len(<<>>) = 0
    BY <1>3, <1>4, <1>8, <1>9, <1>10, Zenon
  <2>2. Balanced(u) /\ LeadsTo(u, <<>>)
    BY <2>1, Zenon DEF Balanced, LeadsTo
  <2> QED BY <1>1, <1>2, <2>1, <2>2, Zenon DEF Walked
<1>11. CASE S # {}
  <2> DEFINE last == Max(S)
             U == S \ {last}
             q == DirPart(path)
  <2>1. last \in S /\ \A i \in S : i <= last
    BY <1>4, <1>5, <1>11, MaxIn, Zenon
  <2>2. m - 1 \in 0 .. Len(path)
    BY <1>4, <1>9, <1>11
  <2>3. q \in Seq(STRING) /\ Len(q) = m - 1 /\ \A k \in 1 .. m - 1 : q[k] = path[k]
    BY <1>1, <2>2, Prefix, Zenon DEF DirPart
  <2> HIDE DEF u, n, S, m, last, q
  <2>4. Stay(u) = U
    <3>1. Above(S, last) = {}
      <4>1. \A i \in S : ~(i > last)
        BY <1>5, <2>1
      <4> QED BY <4>1, Zenon DEF Above
    <3>2. \A i \in S : i # last => last \in Above(S, i)
      BY <1>5, <2>1 DEF Above
    <3> QED BY <1>3, <3>1, <3>2, Zenon
  <2>5. Cardinality(U) = m - 1
    BY <1>4, <1>5, <2>1, Counting, Zenon
  <2>6. ASSUME NEW i \in U
        PROVE  /\ i \in S /\ UpTo(U, i) = UpTo(S, i) /\ Above(U, i) = Above(S, i) \ {last}
               /\ last \in Above(S, i) /\ Cardinality(UpTo(U, i)) <= m - 1
    <3>1. i \in S /\ i # last /\ last > i /\ ~(last <= i)
      BY <1>5, <2>1
    <3>2. UpTo(U, i) = UpTo(S, i) /\ Above(U, i) = Above(S, i) \ {last} /\ last \in Above(S, i)
      BY <2>1, <3>1, Zenon DEF UpTo, Above
    <3>3. U \in SUBSET (0 .. n) /\ UpTo(U, i) \in SUBSET U
      BY <1>5, Zenon DEF UpTo
    <3> HIDE DEF U
    <3>4. Cardinality(UpTo(U, i)) <= Cardinality(U)
      BY <1>4, <3>3, Counting, Zenon
    <3> QED BY <2>5, <3>1, <3>2, <3>4, Zenon
  <2>7. ASSUME NEW i \in U
        PROVE  /\ Cardinality(Above(U, i)) = Cardinality(Above(S, i)) - 1
               /\ Cardinality(Above(S, i)) \in Nat
    <3>1. Above(U, i) = Above(S, i) \ {last} /\ last \in Above(S, i)
      BY <2>6, Zenon
    <3>2. Above(S, i) \in SUBSET (0 .. n) /\ n \in Nat
      BY <1>4, Zenon
    <3>3. /\ Cardinality(Above(S, i) \ {last}) = Cardinality(Above(S, i)) - 1
          /\ Cardinality(Above(S, i)) \in Nat
      BY <3>1, <3>2, Counting, Zenon
    <3> QED BY <3>1, <3>3, SMTT(30)
  <2> HIDE DEF U
  <2>8. Balanced(u)
    <3>1. ASSUME NEW i \in U
          PROVE  Cardinality(Ins(u, i, n + 1)) = Cardinality(Outs(u, i, n + 1)) + Cardinality(Above(U, i))
      BY <1>6, <1>7, <2>6, <2>7
    <3> QED BY <1>2, <2>4, <3>1, Zenon DEF Balanced
  <2>9. LeadsTo(u, q)
    <3>1. ASSUME NEW i \in U
          PROVE  q[Cardinality(UpTo(U, i))] = u[i]
      <4>1. Cardinality(UpTo(U, i)) \in 1 .. m - 1
        <5>1. i \in S /\ UpTo(U, i) = UpTo(S, i) /\ Cardinality(UpTo(U, i)) <= m - 1
          BY <2>6, Zenon
        <5>2. Cardinality(UpTo(S, i)) \in 1 .. m /\ m \in Nat
          BY <1>4, <5>1, Zenon
        <5> QED BY <5>1, <5>2
      <4> QED BY <1>2, <1>4, <1>5, <2>3, <2>6, <4>1, Zenon
    <3> QED BY <2>3, <2>4, <2>5, <3>1, Zenon DEF LeadsTo, UpTo
  <2>10. path # <<>>
    BY <1>8, <1>9, <1>11, Zenon
  <2> QED BY <1>2, <2>3, <2>8, <2>9, <2>10, Zenon DEF Walked, u, q
<1> QED BY <1>10, <1>11, Zenon

\* normalize_path follows the walk: after the components p the path is the
\* one they lead to.
LEMMA NormalizeWalks ==
  ASSUME NEW tr, NEW from, Walked(tr, from), NEW p \in Seq(STRING)
  PROVE  Walked(tr \o p, Normalize(from, p).path)
<1> DEFINE W(k) == tr \o SubSeq(p, 1, k)
           J == [k \in 0 .. Len(p) |->
                   {o \in [path : Seq(STRING), slash : BOOLEAN] : Walked(W(k), o.path)}]
           R == [path : Seq(STRING), slash : BOOLEAN]
<1>0. Len(p) \in Nat /\ tr \in Seq(STRING) /\ from \in Seq(STRING)
  BY DEF Walked
<1>1. W(0) = tr /\ W(Len(p)) = tr \o p
  BY <1>0, SMTT(30)
<1>2. [path |-> from, slash |-> FALSE] \in J[0]
  <2> DEFINE o == [path |-> from, slash |-> FALSE]
  <2>1. o \in R /\ o.path = from
    BY <1>0, Zenon
  <2> HIDE DEF o, W
  <2>2. 0 \in 0 .. Len(p) /\ Walked(W(0), o.path)
    BY <1>0, <1>1, <2>1
  <2>3. o \in J[0]
    BY <2>1, <2>2, Zenon
  <2> QED BY <2>3, Zenon DEF o
<1>3. ASSUME NEW k \in 1 .. Len(p)
      PROVE  W(k) = Append(W(k - 1), p[k]) /\ W(k - 1) \in Seq(STRING)
  BY <1>0, SMTT(30)
<1>4. ASSUME NEW k \in 1 .. Len(p), NEW o \in J[k - 1]
      PROVE  Normal(o, p[k]) \in J[k]
  <2>1. k \in 0 .. Len(p) /\ k - 1 \in 0 .. Len(p) /\ p[k] \in STRING
    BY <1>0
  <2>2. o \in R /\ Walked(W(k - 1), o.path)
    BY <2>1, Zenon
  <2>3. o.path \in Seq(STRING)
    BY <2>2, Zenon
  <2> DEFINE y == Normal(o, p[k])
  <2>4. y \in R /\ Walked(Append(W(k - 1), p[k]), y.path)
    <3> HIDE DEF W, J
    <3>1. CASE p[k] = "."
      BY <2>1, <2>2, <3>1, WalkStays, Zenon DEF Normal
    <3>2. CASE p[k] = ".."
      <4>1. y = [path |-> IF o.path = <<>> THEN <<>> ELSE DirPart(o.path), slash |-> Len(o.path) > 1]
        BY <3>2, Zenon DEF Normal
      <4> DEFINE q == IF o.path = <<>> THEN <<>> ELSE DirPart(o.path)
      <4>2. Walked(Append(W(k - 1), p[k]), q)
        BY <2>1, <2>2, <3>2, WalkOut, Zenon
      <4>3. q \in Seq(STRING)
        BY <4>2, Zenon DEF Walked
      <4> HIDE DEF q, y
      <4>4. y = [path |-> q, slash |-> Len(o.path) > 1]
        BY <4>1, Zenon DEF q
      <4> QED BY <4>2, <4>3, <4>4
    <3>3. CASE p[k] \notin {".", ".."}
      <4>1. y = [path |-> Append(o.path, p[k]), slash |-> FALSE]
        BY <3>3, Zenon DEF Normal
      <4>2. Walked(Append(W(k - 1), p[k]), Append(o.path, p[k]))
        BY <2>1, <2>2, <3>3, WalkInto, Zenon
      <4>3. Append(o.path, p[k]) \in Seq(STRING)
        BY <2>1, <2>3
      <4> QED BY <4>1, <4>2, <4>3
    <3> QED BY <3>1, <3>2, <3>3, Zenon
  <2> HIDE DEF y
  <2>5. Walked(W(k), y.path)
    BY <1>3, <2>4, Zenon
  <2> HIDE DEF W
  <2>6. y \in J[k]
    BY <2>1, <2>4, <2>5, Zenon
  <2> QED BY <2>6, Zenon DEF y
<1> HIDE DEF J
<1>5. Normalize(from, p) \in J[Len(p)]
  BY <1>0, <1>2, <1>4, NormalizeLoop, SMTT(30)
<1>6. Walked(W(Len(p)), Normalize(from, p).path)
  BY <1>0, <1>5 DEF J
<1> QED BY <1>1, <1>6, Zenon

\* chdir: the current directory is where the walk leads to.
LEMMA ChdirKeeps ==
  ASSUME IInv, work' = work, NEW p \in Moves, Chdir(p)
  PROVE  IInv'
<1>1. /\ cwd' = Normalize(cwd.path, p) /\ trail' = trail \o p
      /\ node' = node /\ dirs' = dirs /\ ndirs' = ndirs /\ nlinks' = nlinks /\ mounts' = mounts
  BY Zenon DEF Chdir
<1>2. p \in Seq(STRING)
  BY NamesAssumption, Zenon
<1>3. Walked(trail \o p, Normalize(cwd.path, p).path)
  BY <1>2, NormalizeWalks, Zenon DEF IInv, WalkInv
<1>4. WalkInv'
  BY <1>1, <1>3, Zenon DEF WalkInv
<1>5. PoolInv' /\ MountInv'
  BY <1>1, SMTT(30) DEF IInv, PoolInv, MountInv, InUse, T
<1> QED BY <1>4, <1>5, Zenon DEF IInv

-----------------------------------------------------------------------------
(* The invariant.                                                           *)

\* The first three directories, before the devices get their names.
LEMMA FirstDirs ==
  ASSUME NEW t, t = [node |-> [i \in Ino |-> IF i <= 3 THEN Dir(i) ELSE Unused],
                     dirs |-> [s \in Store |-> IF s = RootStore
                                               THEN <<Entry("dev", 2), Entry("mnt", 3)>>
                                               ELSE <<>>]]
  PROVE  Sound(t, 0) /\ t.node[RootIno].type = "dir"
<1> DEFINE es == <<Entry("dev", 2), Entry("mnt", 3)>>
<1>1. Dir(1) \in Nodes /\ Dir(2) \in Nodes /\ Dir(3) \in Nodes /\ Unused \in Nodes
  BY Sizes DEF Dir, Node, Unused, Nodes, Types
<1>2. \A i \in Ino : i <= 3 => i \in {1, 2, 3}
  BY DEF Ino
<1>3. \A i \in Ino : t.node[i] = IF i <= 3 THEN Dir(i) ELSE Unused
  BY Zenon
<1>4. \A i \in Ino : t.node[i] \in Nodes
  BY <1>1, <1>2, <1>3, Zenon
<1>5. Entry("dev", 2) \in Entries /\ Entry("mnt", 3) \in Entries
  BY Sizes, StringAssumption, Zenon DEF Entry, Entries
<1>6. es \in Seq(Entries) /\ Len(es) = 2 /\ es[1].ino = 2 /\ es[2].ino = 3
  BY <1>5 DEF Entry
<1>7. MAX_ENTRIES >= 2 /\ 1 .. 2 = {1, 2} /\ MAX_ENTRIES \in Nat
  BY NamesAssumption
<1> HIDE DEF es
<1>8. t.dirs \in [Store -> Seq(Entries)] /\ \A s \in Store : t.dirs[s] = IF s = RootStore THEN es ELSE <<>>
  BY <1>6 DEF es
<1>9. t \in Tables
  <2>1. t.node \in [Ino -> Nodes]
    BY <1>4, Zenon
  <2> QED BY <1>8, <2>1, Zenon DEF Tables
<1>10. EntriesOK(t)
  <2>1. {1, 2, 3} \subseteq Ino
    BY Sizes, Zenon
  <2>2. t.node[2].type = "dir" /\ t.node[3].type = "dir"
    BY <1>3, <2>1 DEF Dir, Node
  <2>3. ASSUME NEW s \in Store
        PROVE  /\ Len(t.dirs[s]) <= MAX_ENTRIES
               /\ \A k \in 1 .. Len(t.dirs[s]) : t.node[t.dirs[s][k].ino].type # "free"
    <3>1. CASE s = RootStore
      <4>1. t.dirs[s] = es
        BY <1>8, <3>1, Zenon
      <4>2. \A k \in 1 .. Len(es) : k = 1 \/ k = 2
        BY <1>6
      <4>3. \A k \in 1 .. Len(es) : t.node[es[k].ino].type # "free"
        BY <1>6, <2>2, <4>2, Zenon
      <4>4. Len(es) <= MAX_ENTRIES
        BY <1>6, <1>7, Zenon
      <4> QED BY <4>1, <4>3, <4>4, SMTT(30)
    <3>2. CASE s # RootStore
      <4>1. t.dirs[s] = <<>> /\ Len(<<>>) = 0 /\ 1 .. 0 = {}
        BY <1>8, <3>2
      <4> QED BY <1>7, <4>1
    <3> QED BY <3>1, <3>2, Zenon
  <2> QED BY <2>3, Zenon DEF EntriesOK
<1>11. StoresOK(t, 0)
  <2>1. ASSUME NEW i \in Ino, t.node[i].type = "dir"
        PROVE  t.node[i].store = i /\ i \in 1 .. 4 + 0
    <3>1. Unused.type = "free" /\ Dir(i).store = i
      BY Zenon DEF Unused, Dir, Node
    <3>2. i <= 3 /\ t.node[i].store = i
      BY <1>3, <2>1, <3>1, Zenon
    <3> QED BY <1>2, <3>2
  <2> QED BY <2>1 DEF StoresOK
<1>12. t.node[RootIno].type = "dir"
  BY <1>3, Sizes DEF RootIno, Dir, Node
<1> QED BY <1>9, <1>10, <1>11, <1>12, Zenon DEF Sound

\* The kernel starts in a state of the invariant.
LEMMA InitInv == Init => IInv
<1> SUFFICES ASSUME Init PROVE IInv
  BY Zenon
<1>1. PICK t : t = [node |-> [i \in Ino |-> IF i <= 3 THEN Dir(i) ELSE Unused],
                    dirs |-> [s \in Store |-> IF s = RootStore
                                              THEN <<Entry("dev", 2), Entry("mnt", 3)>>
                                              ELSE <<>>]]
  BY Zenon
<1>2. Sound(t, 0) /\ t.node[RootIno].type = "dir" /\ RootIno \in Ino
  BY <1>1, FirstDirs, Sizes, Zenon DEF RootIno
<1>3. Boot = PopulateDir(t, DevStore)
  BY <1>1, Zenon DEF Boot
<1>4. 0 \in 0 .. MAX_DIRS /\ 0 \in 0 .. MAX_SYMLINKS /\ DevStore \in Store
  BY Sizes DEF DevStore
<1>5. Sound(Boot, 0) /\ Grows(t, Boot)
  BY <1>2, <1>3, <1>4, PopulateDirSound, Zenon
<1>6. node = Boot.node /\ dirs = Boot.dirs /\ Boot \in Tables
  BY <1>5, Zenon DEF Init, Sound
<1>7. T = Boot
  <2> HIDE DEF Boot
  <2>1. Boot = [node |-> Boot.node, dirs |-> Boot.dirs]
    BY <1>6, Zenon DEF Tables
  <2> QED BY <1>6, <2>1, Zenon DEF T
<1>8. PoolInv
  <2>1. node[RootIno] = t.node[RootIno]
    BY <1>2, <1>5, <1>6, Zenon DEF Grows
  <2> QED BY <1>2, <1>4, <1>5, <1>7, <2>1, Zenon DEF PoolInv, Init
<1>9. MountInv
  <2>1. mounts = <<>> /\ Len(mounts) = 0 /\ 1 .. 0 = {}
    BY DEF Init
  <2>2. mounts \in Seq([point : Ino, root : Ino])
    BY <2>1
  <2> QED BY <2>1, <2>2, Sizes DEF MountInv
<1>10. WalkInv
  <2>1. trail = <<>> /\ cwd.path = <<>>
    BY Zenon DEF Init
  <2>2. Stay(<<>>) = {} /\ Cardinality({}) = 0
    <3>1. Len(<<>>) = 0 /\ 0 + 1 .. 0 = {}
      OBVIOUS
    <3>2. Cardinality({}) = 0
      BY Counting, Zenon
    <3> QED BY <3>1, <3>2, Zenon DEF Stay, Ins
  <2>3. LeadsTo(<<>>, <<>>) /\ Balanced(<<>>)
    BY <2>2, SMTT(30) DEF LeadsTo, Balanced
  <2> QED BY <2>1, <2>3 DEF WalkInv, Walked
<1> QED BY <1>8, <1>9, <1>10, Zenon DEF IInv, Init

\* Every system call keeps the invariant.
LEMMA NextInv == IInv /\ [Next]_vars => IInv'
<1> SUFFICES ASSUME IInv, [Next]_vars PROVE IInv'
  BY Zenon
<1>1. CASE UNCHANGED vars
  BY <1>1, Zenon DEF IInv, PoolInv, MountInv, WalkInv, InUse, T, vars
<1>2. CASE Next
  <2>1. work' = work
    BY <1>2, Zenon DEF Next
  <2>2. ASSUME NEW p \in Paths, CreateFile(p) PROVE IInv'
    BY <2>1, <2>2, CreateFileKeeps, Zenon
  <2>3. ASSUME NEW p \in Paths, Mkdir(p) PROVE IInv'
    BY <2>1, <2>3, MkdirKeeps, Zenon
  <2>4. ASSUME NEW p \in Paths, Mknod(p) PROVE IInv'
    BY <2>1, <2>4, MknodKeeps, Zenon
  <2>5. ASSUME NEW p \in Paths, NEW target \in Targets, Symlink(p, target) PROVE IInv'
    BY <2>1, <2>5, SymlinkKeeps, Zenon
  <2>6. ASSUME NEW p \in Paths, Unlink(p) \/ Rmdir(p) PROVE IInv'
    BY <2>1, <2>6, UnlinkKeeps, Zenon
  <2>7. ASSUME NEW p \in Paths, NEW q \in Paths, Rename(p, q) PROVE IInv'
    BY <2>1, <2>7, RenameKeeps, Zenon
  <2>8. ASSUME NEW p \in Paths \cup {<<>>}, Mount(p) PROVE IInv'
    BY <2>1, <2>8, MountKeeps, Zenon
  <2>9. ASSUME NEW p \in Paths \cup {<<>>}, Unmount(p) PROVE IInv'
    BY <2>1, <2>9, UnmountKeeps, Zenon
  <2>10. ASSUME NEW p \in Moves, Chdir(p) PROVE IInv'
    BY <2>1, <2>10, ChdirKeeps, Zenon
  <2> QED BY <1>2, <2>2, <2>3, <2>4, <2>5, <2>6, <2>7, <2>8, <2>9, <2>10, Zenon DEF Next, Calls
<1> QED BY <1>1, <1>2, Zenon

\* IInv holds in every state.
THEOREM NamesInductive == Spec => []IInv
BY InitInv, NextInv, PTL DEF Spec

\* What vfs_resolve_mount finds for ino in the table ms.
MountedAt(ms, ino) ==
  LET hits == {i \in DOMAIN ms : ms[i].point = ino}
  IN IF hits = {} THEN ino ELSE ms[Min(hits)].root

\* A mount that is alone on its directory is the one that is found, and a
\* directory without a mount is found itself.
LEMMA MountedFound ==
  ASSUME NEW S, NEW ms \in Seq(S), NEW ino
  PROVE  /\ \A k \in 1 .. Len(ms) :
              ms[k].point = ino /\ (\A j \in 1 .. Len(ms) : ms[j].point = ino => j = k)
              => MountedAt(ms, ino) = ms[k].root
         /\ (\A j \in 1 .. Len(ms) : ms[j].point # ino) => MountedAt(ms, ino) = ino
<1> DEFINE hits == {i \in DOMAIN ms : ms[i].point = ino}
<1>1. DOMAIN ms = 1 .. Len(ms)
  OBVIOUS
<1>2. ASSUME NEW k \in 1 .. Len(ms), ms[k].point = ino,
             \A j \in 1 .. Len(ms) : ms[j].point = ino => j = k
      PROVE  MountedAt(ms, ino) = ms[k].root
  <2>1. hits = {k} /\ k \in Nat
    BY <1>1, <1>2
  <2>2. hits \in SUBSET Nat /\ hits # {}
    BY <2>1, Zenon
  <2> HIDE DEF hits
  <2>3. Min(hits) \in hits
    BY <2>2, MinIn, Zenon
  <2>4. Min(hits) = k
    BY <2>1, <2>3, Zenon
  <2> QED BY <2>2, <2>4, Zenon DEF MountedAt, hits
<1>3. ASSUME \A j \in 1 .. Len(ms) : ms[j].point # ino
      PROVE  MountedAt(ms, ino) = ino
  BY <1>1, <1>3, Zenon DEF MountedAt
<1> QED BY <1>2, <1>3, Zenon

\* What resolution rests on follows from the invariant.
LEMMA NamesHold == IInv => NamesInv
<1> SUFFICES ASSUME IInv PROVE NamesInv
  BY Zenon
<1>1. /\ node \in [Ino -> Nodes] /\ dirs \in [Store -> Seq(Entries)]
      /\ EntriesOK(T) /\ StoresOK(T, ndirs) /\ MountInv
  BY Zenon DEF IInv, PoolInv, Sound, Tables, T
<1>2. TypeOK
  <2>1. \A i \in Ino : node[i].type \in Types
    BY <1>1, Zenon DEF Nodes
  <2>2. \A s \in Store : Len(dirs[s]) <= MAX_ENTRIES
    BY <1>1, Zenon DEF EntriesOK, T
  <2> QED BY <2>1, <2>2, Zenon DEF TypeOK, Types, IInv, PoolInv, MountInv
<1>3. ASSUME NEW m \in Range(mounts)
      PROVE  \E k \in 1 .. Len(mounts) : m = mounts[k]
  <2>1. DOMAIN mounts = 1 .. Len(mounts)
    BY <1>1 DEF MountInv
  <2> QED BY <2>1, Zenon DEF Range
<1>4. NoDanglingNames
  <2>1. ASSUME NEW i \in Named PROVE node[i].type # "free"
    <3>1. PICK s \in Store : \E e \in Range(dirs[s]) : i = e.ino
      BY Zenon DEF Named
    <3>2. dirs[s] \in Seq(Entries)
      BY <1>1, Zenon
    <3>3. DOMAIN dirs[s] = 1 .. Len(dirs[s])
      BY <3>2
    <3>4. PICK k \in 1 .. Len(dirs[s]) : i = dirs[s][k].ino
      BY <3>1, <3>3, Zenon DEF Range
    <3> QED BY <1>1, <3>4, Zenon DEF EntriesOK, T
  <2>2. ASSUME NEW m \in Range(mounts)
        PROVE  node[m.root].type # "free" /\ node[m.point].type # "free"
    BY <1>1, <1>3, ZenonT(60) DEF MountInv, InUse
  <2> QED BY <2>1, <2>2, Zenon DEF NoDanglingNames
<1>5. DirsSeparate
  BY <1>1, Zenon DEF DirsSeparate, StoresOK, T
<1>6. MountsInEffect
  <2> SUFFICES ASSUME NEW m \in Plain PROVE Mounted(m.point) = m.root
    BY Zenon DEF MountsInEffect
  <2>1. m \in Range(mounts) /\ node[m.point].store # DevMount
    BY Zenon DEF Plain
  <2>2. PICK k \in 1 .. Len(mounts) : m = mounts[k]
    BY <1>3, <2>1, Zenon
  <2>3. \A j \in 1 .. Len(mounts) : mounts[j].point = m.point => j = k
    BY <1>1, <2>1, <2>2, SMTT(30) DEF MountInv
  <2>4. mounts \in Seq([point : Ino, root : Ino])
    BY <1>1, Zenon DEF MountInv
  <2> DEFINE R == [point : Ino, root : Ino]
  <2> HIDE DEF R
  <2>5. mounts \in Seq(R)
    BY <2>4, Zenon DEF R
  <2>6. MountedAt(mounts, m.point) = mounts[k].root
    BY <2>2, <2>3, <2>5, MountedFound, ZenonT(60)
  <2> QED BY <2>2, <2>6, Zenon DEF Mounted, MountedAt
<1> QED BY <1>2, <1>4, <1>5, <1>6, Zenon DEF NamesInv

\* Names lead to inodes in use, directories do not share their entries, and
\* the mount table has one answer for each directory, whatever runs out.
THEOREM NamesAreSound == Spec => []NamesInv
BY NamesInductive, NamesHold, PTL

\* However a program walks, its current directory is where the walk leads.
THEOREM CwdFollows == Spec => []CwdIsWhereWeWent
<1>1. IInv => CwdIsWhereWeWent
  BY Zenon DEF IInv, WalkInv, Walked, CwdIsWhereWeWent
<1> QED BY <1>1, NamesInductive, PTL

\* The last name is looked up where the names before it lead.
LEMMA LastName ==
  ASSUME IInv, NEW p \in Paths, NEW follow
  PROVE  LastOf(p, follow) = Step(Trace(DirPart(p)), NamePart(p), follow)
<1> DEFINE q == DirPart(p)
           n == Len(p)
           L == TraceLoop(q)
           h == TraceLoop(p)
           J == [k \in 0 .. n - 1 |-> {L[k]}]
<1>1. n \in Nat \ {0} /\ Len(q) = n - 1 /\ (\A k \in 1 .. n - 1 : q[k] = p[k])
  BY PathParts, Zenon DEF IInv
<1>2. n - 1 \in Nat /\ Len(q) \in Nat /\ n \in Nat /\ n # 0
  BY <1>1
<1> HIDE DEF q
<1>3. /\ Trace(q) = L[n - 1] /\ L[0] = TraceStart
      /\ \A k \in 1 .. n - 1 : L[k] = Step(L[k - 1], q[k], TRUE)
  BY <1>1, <1>2, TraceIn, Zenon DEF IInv
<1>4. /\ h[0] = TraceStart
      /\ \A k \in 1 .. n : h[k] = Step(h[k - 1], p[k], TRUE)
  BY <1>2, TraceIn, Zenon DEF IInv
<1> HIDE DEF L, h
<1>5. h[0] \in J[0] /\ n - 1 \in 0 .. n - 1
  BY <1>2, <1>3, <1>4
<1>6. ASSUME NEW k \in 1 .. n - 1, h[k - 1] \in J[k - 1]
      PROVE  h[k] \in J[k]
  <2>1. k - 1 \in 0 .. n - 1 /\ k \in 0 .. n - 1 /\ k \in 1 .. n
    BY <1>2
  <2>2. h[k - 1] = L[k - 1]
    BY <1>6, <2>1, Zenon
  <2>3. h[k] = L[k]
    BY <1>1, <1>3, <1>4, <2>1, <2>2, Zenon
  <2> QED BY <2>1, <2>3, Zenon
<1> HIDE DEF J
<1>7. h[n - 1] \in J[n - 1]
  BY <1>2, <1>5, <1>6, LoopKeeps, Zenon
<1>8. h[n - 1] = Trace(q)
  BY <1>3, <1>5, <1>7, Zenon DEF J
<1> QED BY <1>2, <1>8, Zenon DEF LastOf, NamePart, h, q

\* What the two loops come to, in terms of the last name.
LEMMA LoopsEnd ==
  ASSUME IInv, NEW p \in Paths, NEW slash \in BOOLEAN
  PROVE  LET a == Trace(DirPart(p))
         IN /\ a \in Places /\ Parent(p) = Arrives(a)
            /\ ResolveText(Text(p, slash)) = Arrives(Step(a, NamePart(p), TRUE))
            /\ ResolveNoFollow(Text(p, slash)) = Arrives(Step(a, NamePart(p), slash))
<1>1. p \in PlainPaths /\ DirPart(p) \in PlainPaths /\ Len(p) \in Nat
      /\ Len(DirPart(p)) \in Nat
  BY PathParts DEF IInv
<1>2. Trace(DirPart(p)) \in Places
  BY <1>1, TraceIn, Zenon DEF IInv
<1>3. Parent(p) = Arrives(Trace(DirPart(p)))
  BY <1>1, WalkTraces, Zenon DEF Parent, Resolve, IInv
<1>4. ResolveText(Text(p, slash)) = Arrives(LastOf(p, TRUE))
  BY <1>1, WalkTraces, TraceEnds, Zenon DEF IInv
<1>5. ResolveNoFollow(Text(p, slash)) = Arrives(LastOf(p, slash))
  BY <1>1, NoFollowTraces, Zenon DEF IInv
<1> QED BY <1>2, <1>3, <1>4, <1>5, LastName, Zenon

\* The last name, when it is a link, is not covered by a mount.
LEMMA LinksUncovered ==
  ASSUME IInv, NEW a \in Places, a.ino # 0, NEW name,
         IsLink(Lookup(T, Mounted(a.ino), name))
  PROVE  Mounted(Lookup(T, Mounted(a.ino), name)) = Lookup(T, Mounted(a.ino), name)
<1> DEFINE c == Mounted(a.ino)
           n == Lookup(T, c, name)
<1>1. a.ino \in Ino /\ InUse(a.ino)
  BY Sizes DEF Places, Ino
<1>2. c \in Ino
  BY <1>1, MountedInUse, Zenon DEF IInv
<1> HIDE DEF c
<1>3. n \in Ino /\ node[n].type = "link"
  BY <1>2, LookupIs, Zenon DEF IInv, IsLink, c
<1> HIDE DEF n
<1>4. \A k \in 1 .. Len(mounts) : mounts[k].point # n
  BY <1>3, Zenon DEF IInv, MountInv, InUse
<1>5. Mounted(n) = n
  BY <1>3, <1>4, MountedIs, Zenon DEF IInv
<1> QED BY <1>5, Zenon DEF n, c

\* The two loops of path resolution lead to the same inode but for a link at
\* the end, on which nothing is ever mounted; and what the one that does not
\* follow it finds is what the last name means in the parent directory.
THEOREM ResolutionsAgree == Spec => []ResolversAgree
<1>1. ASSUME IInv, NEW p \in Paths, NEW slash \in BOOLEAN PROVE LoopsAgree(p, slash)
  <2> DEFINE a == Trace(DirPart(p))
             n == Lookup(T, Mounted(a.ino), NamePart(p))
             i == ResolveNoFollow(Text(p, slash))
  <2>1. /\ a \in Places
        /\ ResolveText(Text(p, slash)) = Arrives(Step(a, NamePart(p), TRUE))
        /\ i = Arrives(Step(a, NamePart(p), slash))
    BY <1>1, LoopsEnd, Zenon
  <2>2. CASE slash
    BY <2>1, <2>2, Zenon DEF LoopsAgree
  <2>3. CASE ~slash
    <3> HIDE DEF a
    <3>1. CASE a.ino = 0 \/ ~IsLink(n)
      <4>1. Step(a, NamePart(p), FALSE) = Step(a, NamePart(p), TRUE)
        BY <3>1, Zenon DEF Step, IsLink
      <4> QED BY <2>1, <2>3, <4>1, Zenon DEF LoopsAgree
    <3>2. CASE a.ino # 0 /\ IsLink(n)
      <4>1. Step(a, NamePart(p), FALSE).ino = n
        BY <3>2, Zenon DEF Step
      <4>2. Mounted(n) = n
        BY <1>1, <2>1, <3>2, LinksUncovered, Zenon
      <4>3. n # 0
        BY <3>2, Zenon DEF IsLink
      <4> HIDE DEF n, i
      <4>4. i = n
        BY <2>1, <2>3, <4>1, <4>2, <4>3, Zenon DEF Arrives
      <4> QED BY <2>3, <3>2, <4>4, Zenon DEF LoopsAgree, i
    <3> QED BY <3>1, <3>2, Zenon
  <2> QED BY <2>2, <2>3, Zenon
<1>2. ASSUME IInv, NEW p \in Paths PROVE LastNameAgrees(p)
  <2> DEFINE a == Trace(DirPart(p))
             n == Lookup(T, Mounted(a.ino), NamePart(p))
  <2>1. /\ Parent(p) = Arrives(a)
        /\ ResolveNoFollow(Text(p, FALSE)) = Arrives(Step(a, NamePart(p), FALSE))
    BY <1>2, LoopsEnd, Zenon
  <2> HIDE DEF a
  <2> SUFFICES ASSUME Parent(p) # 0
               PROVE  ResolveNoFollow(Text(p, FALSE)) =
                        LET i == Lookup(T, Parent(p), NamePart(p))
                        IN IF i = 0 THEN 0 ELSE Mounted(i)
    BY Zenon DEF LastNameAgrees
  <2>2. a.ino # 0 /\ Parent(p) = Mounted(a.ino)
    BY <2>1, Zenon DEF Arrives
  <2>3. Step(a, NamePart(p), FALSE).ino = n
    BY <2>2, Zenon DEF Step
  <2> HIDE DEF n
  <2>4. ResolveNoFollow(Text(p, FALSE)) = IF n = 0 THEN 0 ELSE Mounted(n)
    BY <2>1, <2>3, Zenon DEF Arrives
  <2> QED BY <2>2, <2>4, Zenon DEF n
<1>3. IInv => ResolversAgree
  BY <1>1, <1>2, Zenon DEF ResolversAgree
<1> QED BY <1>3, NamesInductive, PTL

-----------------------------------------------------------------------------
(* What a step may never do.                                                *)

\* Only an unmount makes the mount table shorter.
LEMMA OnlyUnmountShortens ==
  ASSUME IInv, Next, Len(mounts') < Len(mounts)
  PROVE  \E p \in Paths \cup {<<>>} : Unmount(p)
<1>1. Len(mounts) \in Nat
  BY DEF IInv, MountInv
<1>2. mounts' # mounts
  BY <1>1
<1>3. ASSUME NEW p \in Paths, CreateFile(p) PROVE FALSE
  BY <1>2, <1>3, Zenon DEF CreateFile
<1>4. ASSUME NEW p \in Paths, Mkdir(p) PROVE FALSE
  BY <1>2, <1>4, Zenon DEF Mkdir
<1>5. ASSUME NEW p \in Paths, Mknod(p) PROVE FALSE
  BY <1>2, <1>5, Zenon DEF Mknod
<1>6. ASSUME NEW p \in Paths, NEW target \in Targets, Symlink(p, target) PROVE FALSE
  BY <1>2, <1>6, Zenon DEF Symlink
<1>7. ASSUME NEW p \in Paths, Unlink(p) \/ Rmdir(p) PROVE FALSE
  BY <1>2, <1>7, Zenon DEF Unlink, Rmdir
<1>8. ASSUME NEW p \in Paths, NEW q \in Paths, Rename(p, q) PROVE FALSE
  BY <1>2, <1>8, Zenon DEF Rename
<1>9. ASSUME NEW p \in Paths \cup {<<>>}, Mount(p) PROVE FALSE
  <2>1. PICK x, y : mounts' = TableWith(x, y)
    BY <1>9, Zenon DEF Mount
  <2> DEFINE m == [point |-> x, root |-> y]
             R == [point : Ino, root : Ino]
  <2>2. mounts' = Append(mounts, m)
    BY <1>2, <2>1, Zenon DEF TableWith
  <2>3. mounts \in Seq(R)
    BY Zenon DEF IInv, MountInv
  <2> HIDE DEF m, R
  <2>4. Len(Append(mounts, m)) = Len(mounts) + 1
    BY <2>3
  <2> QED BY <1>1, <2>2, <2>4
<1>10. ASSUME NEW p \in Moves, Chdir(p) PROVE FALSE
  BY <1>2, <1>10, Zenon DEF Chdir
<1> QED BY <1>3, <1>4, <1>5, <1>6, <1>7, <1>8, <1>9, <1>10, Zenon DEF Next, Calls

\* An unmount uncovers the directory of its mount and of no other.
LEMMA UnmountOne ==
  ASSUME IInv, IInv', NEW m \in Plain, NEW p, Unmount(p)
  PROVE  Mounted(m.point)' = IF Resolve(p) = m.root THEN m.point ELSE m.root
<1> DEFINE n == Len(mounts)
           R == [point : Ino, root : Ino]
           pt == m.point
<1>1. PICK i \in 1 .. n :
        /\ mounts[i].root = Resolve(p) /\ mounts' \in Seq(R) /\ Len(mounts') = n - 1
        /\ \A k \in 1 .. Len(mounts') : mounts'[k] = IF k = i THEN mounts[n] ELSE mounts[k]
        /\ node' = node
  BY UnmountIs, Zenon
<1>2. mounts \in Seq(R) /\ n \in Nat /\ MountInv /\ node[pt].store # DevMount
  BY SMTT(30) DEF IInv, MountInv, Plain
<1>3. PICK k \in 1 .. n : m = mounts[k]
  <2> HIDE DEF R
  <2>1. DOMAIN mounts = 1 .. n
    BY <1>2
  <2> QED BY <2>1, Zenon DEF Plain, Range
<1>4. Mounted(pt)' = MountedAt(mounts', pt)
  BY Zenon DEF Mounted, MountedAt
<1>5. \A j \in 1 .. n : mounts[j].point = pt => j = k
  BY <1>2, <1>3, Zenon DEF MountInv
<1>6. Resolve(p) = m.root <=> i = k
  <2>1. mounts[i].root = mounts[k].root => i = k
    BY <1>2, Zenon DEF MountInv
  <2> QED BY <1>1, <1>3, <2>1, Zenon
<1>7. ASSUME NEW j \in 1 .. Len(mounts'), mounts'[j].point = pt
      PROVE  /\ i # k
             /\ j = IF k = n THEN i ELSE k
  <2> DEFINE a == IF j = i THEN n ELSE j
  <2>1. a \in 1 .. n /\ a # i /\ j \in 1 .. n - 1
    BY <1>1, <1>2
  <2>2. mounts'[j] = mounts[a]
    BY <1>1, Zenon
  <2>3. a = k
    BY <1>5, <1>7, <2>1, <2>2, Zenon
  <2>4. n \in Nat
    BY <1>2, Zenon
  <2> HIDE DEF n
  <2> QED BY <2>1, <2>3, <2>4
<1> HIDE DEF R
<1>8. CASE i = k
  <2>1. \A j \in 1 .. Len(mounts') : mounts'[j].point # pt
    BY <1>7, <1>8, Zenon
  <2>2. MountedAt(mounts', pt) = pt
    BY <1>1, <2>1, MountedFound, Zenon
  <2> QED BY <1>4, <1>6, <1>8, <2>2, Zenon
<1>9. CASE i # k
  <2> DEFINE h == IF k = n THEN i ELSE k
  <2>1. h \in 1 .. Len(mounts') /\ mounts'[h] = m
    <3>1. n \in Nat /\ Len(mounts') = n - 1
      BY <1>1, <1>2, Zenon
    <3> HIDE DEF n
    <3>2. h \in 1 .. Len(mounts')
      BY <1>9, <3>1
    <3> QED BY <1>1, <1>3, <1>9, <3>2, Zenon
  <2>2. \A j \in 1 .. Len(mounts') : mounts'[j].point = pt => j = h
    BY <1>7, Zenon
  <2> HIDE DEF h
  <2>3. MountedAt(mounts', pt) = mounts'[h].root
    BY <1>1, <2>1, <2>2, MountedFound, SMTT(30)
  <2> QED BY <1>4, <1>6, <1>9, <2>1, <2>3, Zenon
<1> QED BY <1>8, <1>9, Zenon

\* An unmount brings the covered directory back, and changes nothing for any
\* directory that another mount covers.
THEOREM UnmountsUncover == Spec => UnmountUncovers
<1> DEFINE Step1 == \A m \in Plain :
             Len(mounts') < Len(mounts) =>
               IF \E p \in Paths \cup {<<>>} : Unmount(p) /\ Resolve(p) = m.root
               THEN Mounted(m.point)' = m.point ELSE Mounted(m.point)' = m.root
<1>1. IInv /\ IInv' /\ [Next]_vars => [Step1]_vars
  <2> SUFFICES ASSUME IInv, IInv', Next, NEW m \in Plain, Len(mounts') < Len(mounts)
               PROVE  IF \E p \in Paths \cup {<<>>} : Unmount(p) /\ Resolve(p) = m.root
                      THEN Mounted(m.point)' = m.point ELSE Mounted(m.point)' = m.root
    BY Zenon DEF Step1
  <2>1. PICK p \in Paths \cup {<<>>} : Unmount(p)
    BY OnlyUnmountShortens, Zenon
  <2>2. ASSUME NEW r \in Paths \cup {<<>>}, Unmount(r)
        PROVE  Mounted(m.point)' = IF Resolve(r) = m.root THEN m.point ELSE m.root
    BY <2>2, UnmountOne, Zenon
  <2> QED BY <2>1, <2>2, Zenon
<1>2. IInv /\ [Next]_vars => IInv'
  BY NextInv, Zenon
<1>3. [][Step1]_vars => UnmountUncovers
  BY PTL DEF UnmountUncovers, Step1
<1> HIDE DEF Step1
<1> QED BY <1>1, <1>2, <1>3, NamesInductive, PTL DEF Spec

\* The entries es, and perhaps one with another name behind them.
Same(es, fs, name) ==
  fs = es \/ \E e \in Entries : fs = Append(es, e) /\ e.name # name

\* Every name of es but one is found in ws as it was in es.
OthersIn(es, ws, name) ==
  \A e \in Range(es) : LookupIn(ws, e.name) = IF e.name = name THEN 0 ELSE e.ino

\* The entries es without entry i, in whose place is the last one.
HoleAt(es, i, ws) ==
  /\ ws \in Seq(Entries) /\ Len(ws) = Len(es) - 1
  /\ \A k \in 1 .. Len(es) - 1 : ws[k] = IF k = i THEN es[Len(es)] ELSE es[k]

\* devtmpfs_remove_entry takes one entry with the name.
LEMMA RemoveFromHole ==
  ASSUME NEW es \in Seq(Entries), NEW name, LookupIn(es, name) # 0
  PROVE  \E i \in 1 .. Len(es) : es[i].name = name /\ HoleAt(es, i, RemoveFrom(es, name))
BY RemoveFromIs DEF HoleAt

\* One name leaves a table of entries and one with another name may have come
\* before: every other name is found as it was.
LEMMA OthersFound ==
  ASSUME NEW es \in Seq(Entries), NEW fs \in Seq(Entries), NEW ws, NEW name, Same(es, fs, name),
         Unique(es), Unique(ws), LookupIn(es, name) # 0, ws = RemoveFrom(fs, name)
  PROVE  OthersIn(es, ws, name)
<1> DEFINE n == Len(es)
           m == Len(fs)
<1>0. n \in Nat /\ m \in Nat /\ DOMAIN es = 1 .. n
  OBVIOUS
<1>1. /\ n <= m /\ \A k \in 1 .. n : fs[k] = es[k]
      /\ \A k \in 1 .. m : k \in 1 .. n \/ fs[k].name # name
  <2>1. CASE fs = es
    BY <1>0, <2>1
  <2>2. ASSUME NEW e \in Entries, fs = Append(es, e), e.name # name
        PROVE  /\ n <= m /\ \A k \in 1 .. n : fs[k] = es[k]
               /\ \A k \in 1 .. m : k \in 1 .. n \/ fs[k].name # name
    <3>1. m = n + 1 /\ (\A k \in 1 .. n : fs[k] = es[k]) /\ fs[n + 1] = e
      BY <2>2, Appended
    <3>2. \A k \in 1 .. m : k \in 1 .. n \/ k = n + 1
      BY <1>0, <3>1
    <3>3. n <= m
      BY <1>0, <3>1
    <3> HIDE DEF n, m
    <3> QED BY <2>2, <3>1, <3>2, <3>3, Zenon
  <2> QED BY <2>1, <2>2, Zenon DEF Same
<1>2. LookupIn(fs, name) # 0
  <2>1. PICK k \in 1 .. n : es[k].name = name
    BY LookupInHit, Zenon
  <2>2. k \in 1 .. m /\ fs[k].name = name
    BY <1>0, <1>1, <2>1
  <2> QED BY <2>2, LookupInHit, Zenon
<1>3. PICK i \in 1 .. m :
        /\ fs[i].name = name /\ ws \in Seq(Entries) /\ Len(ws) = m - 1
        /\ \A k \in 1 .. m - 1 : ws[k] = IF k = i THEN fs[m] ELSE fs[k]
  <2>1. PICK i \in 1 .. m : fs[i].name = name /\ HoleAt(fs, i, ws)
    BY <1>2, RemoveFromHole, Zenon
  <2> QED BY <2>1, Zenon DEF HoleAt
<1>4. i \in 1 .. n /\ es[i].name = name
  BY <1>1, <1>3, Zenon
<1> SUFFICES ASSUME NEW e \in Range(es)
             PROVE  LookupIn(ws, e.name) = IF e.name = name THEN 0 ELSE e.ino
  BY Zenon DEF OthersIn
<1>5. PICK j \in 1 .. n : e = es[j]
  BY <1>0, Zenon DEF Range
<1>6. CASE e.name = name
  <2>1. ASSUME NEW k \in 1 .. Len(ws), ws[k].name = name PROVE FALSE
    <3> DEFINE a == IF k = i THEN m ELSE k
    <3>0. k \in 1 .. m - 1
      BY <1>0, <1>3, Zenon
    <3>1. a \in 1 .. m /\ a # i /\ ws[k] = fs[a]
      <4> HIDE DEF m
      <4>1. a \in 1 .. m /\ a # i
        BY <1>0, <3>0
      <4> QED BY <1>3, <3>0, <4>1, Zenon
    <3> HIDE DEF a
    <3>2. a \in 1 .. n /\ es[a].name = name
      BY <1>1, <2>1, <3>1, SMTT(30)
    <3> QED BY <1>0, <1>4, <3>1, <3>2, SMTT(30) DEF Unique
  <2>2. LookupIn(ws, name) = 0
    <3>1. ws \in Seq(Entries)
      BY <1>3, Zenon
    <3> QED BY <2>1, <3>1, LookupInHit, Zenon
  <2> QED BY <1>6, <2>2, Zenon
<1>7. CASE e.name # name
  <2> DEFINE h == IF j = m THEN i ELSE j
  <2>1. h \in 1 .. m - 1 /\ ws[h] = e
    <3>1. j # i /\ j \in 1 .. m /\ fs[j] = e
      BY <1>0, <1>1, <1>4, <1>5, <1>7
    <3> QED BY <1>0, <1>3, <3>1, SMTT(30)
  <2> HIDE DEF h
  <2>2. DOMAIN ws = 1 .. m - 1
    BY <1>3
  <2>3. LookupIn(ws, e.name) # 0
    BY <1>3, <2>1, LookupInHit, SMTT(30)
  <2>4. PICK k \in 1 .. Len(ws) : ws[k].name = e.name /\ LookupIn(ws, e.name) = ws[k].ino
    <3> DEFINE nm == e.name
    <3>1. ws \in Seq(Entries) /\ LookupIn(ws, nm) # 0
      BY <1>3, <2>3, Zenon
    <3> HIDE DEF nm
    <3>2. \E k \in 1 .. Len(ws) : ws[k].name = nm /\ LookupIn(ws, nm) = ws[k].ino
      BY <3>1, LookupInEntry, SMTT(30)
    <3> QED BY <3>2, Zenon DEF nm
  <2>5. k = h
    BY <1>3, <2>1, <2>2, <2>4, Zenon DEF Unique
  <2> QED BY <1>7, <2>1, <2>4, <2>5, Zenon
<1> QED BY <1>6, <1>7, Zenon

\* Removing a name, or renaming it, takes it away and leaves every other name
\* of its directory as it was, if none is there twice.
LEMMA OthersKept ==
  ASSUME IInv, NEW p \in Paths,
         \/ Unlink(p) \/ Rmdir(p)
         \/ \E q \in Paths : Rename(p, q) /\ ~SameName(p, q),
         Unique(dirs[StoreOf(p)]), Unique(dirs'[StoreOf(p)])
  PROVE  \A e \in Range(dirs[StoreOf(p)]) :
           LookupIn(dirs'[StoreOf(p)], e.name) = IF e.name = NamePart(p) THEN 0 ELSE e.ino
<1> DEFINE s == StoreOf(p)
           name == NamePart(p)
           es == dirs[s]
<1>1. ParentIsDir(p) /\ Lookup(T, Parent(p), name) # 0
  BY Zenon DEF Unlink, Rmdir, Rename
<1>2. s \in Store /\ es \in Seq(Entries) /\ Parent(p) \in Ino
  BY <1>1, ParentHasStore, Zenon
<1>3. LookupIn(es, name) # 0 /\ Lookup(T, Parent(p), name) \in Ino
  BY <1>1, <1>2, LookupIs, Zenon DEF StoreOf, IInv
<1>4. Sound(T, ndirs) /\ T.dirs = dirs /\ T \in Tables
  BY Zenon DEF IInv, PoolInv, T, Sound
<1>5. ASSUME NEW t \in Tables, Becomes(Removed(t, p))
      PROVE  dirs'[s] = RemoveFrom(t.dirs[s], name)
  <2>1. dirs' = SetDir(t, s, RemoveFrom(t.dirs[s], name)).dirs
    BY <1>5, Zenon DEF Becomes, Removed
  <2> DEFINE ws == RemoveFrom(t.dirs[s], name)
  <2> HIDE DEF ws, s
  <2>2. SetDir(t, s, ws).dirs[s] = ws
    BY <1>2, Zenon DEF SetDir, Tables
  <2> QED BY <2>1, <2>2, Zenon DEF ws
<1>6. CASE Unlink(p) \/ Rmdir(p)
  <2>1. Becomes(Removed(T, p))
    BY <1>6, Zenon DEF Unlink, Rmdir
  <2>2. dirs'[s] = RemoveFrom(es, name)
    BY <1>4, <1>5, <2>1, Zenon
  <2> HIDE DEF es, s, name
  <2> DEFINE ws == dirs'[s]
  <2>3. es \in Seq(Entries) /\ LookupIn(es, name) # 0 /\ ws = RemoveFrom(es, name)
        /\ Unique(es) /\ Unique(ws) /\ Same(es, es, name)
    BY <1>2, <1>3, <2>2, Zenon DEF es, s, Same
  <2> HIDE DEF ws
  <2>4. OthersIn(es, ws, name)
    BY <2>3, OthersFound, Zenon
  <2> QED BY <2>4, Zenon DEF es, s, name, ws, OthersIn
<1>7. ASSUME NEW q \in Paths, Rename(p, q), ~SameName(p, q)
      PROVE  \A e \in Range(es) : LookupIn(dirs'[s], e.name) = IF e.name = name THEN 0 ELSE e.ino
  <2> DEFINE i == Lookup(T, Parent(p), name)
             r == StoreOf(q)
             e1 == Entry(NamePart(q), i)
             u == AddEntry(T, r, NamePart(q), i)
             fs == u.dirs[s]
  <2>1. ParentIsDir(q) /\ RoomIn(T, r) /\ Becomes(Removed(u, p))
    BY <1>7, Zenon DEF Rename
  <2>2. r \in Store /\ dirs[r] \in Seq(Entries) /\ NamePart(q) \in STRING
    BY <2>1, ParentHasStore, PathParts, Zenon DEF IInv
  <2>3. e1 \in Entries /\ e1.name = NamePart(q)
    BY <1>3, <2>2, Zenon DEF Entry, Entries
  <2>4. u = SetDir(T, r, Append(dirs[r], e1))
    BY <1>4, <2>1, Zenon DEF AddEntry
  <2> HIDE DEF i, e1, u, r
  <2>5. Append(dirs[r], e1) \in Seq(Entries)
    BY <2>2, <2>3
  <2>6. u \in Tables /\ u.dirs[s] = IF s = r THEN Append(dirs[r], e1) ELSE dirs[s]
    <3> DEFINE as == Append(dirs[r], e1)
    <3> HIDE DEF as, s
    <3>1. PICK t1 : t1 = T
      BY Zenon
    <3>2. t1 \in Tables /\ t1.dirs = dirs /\ u = SetDir(t1, r, as) /\ as \in Seq(Entries)
      BY <1>4, <2>4, <2>5, <3>1, Zenon DEF as
    <3>3. u \in Tables /\ u.dirs = [t1.dirs EXCEPT ![r] = as]
      BY <2>2, <3>2, Zenon DEF SetDir, Tables
    <3> QED BY <1>2, <2>2, <3>2, <3>3, Zenon DEF Tables, as
  <2>7. s = r => e1.name # name
    BY <1>7, <2>3, Zenon DEF SameName, r
  <2>8. dirs'[s] = RemoveFrom(fs, name)
    BY <1>5, <2>1, <2>6, Zenon
  <2>9. fs \in Seq(Entries) /\ Same(es, fs, name)
    BY <1>2, <2>3, <2>5, <2>6, <2>7, Zenon DEF Same
  <2> HIDE DEF es, s, name, fs
  <2> DEFINE ws == dirs'[s]
  <2>10. es \in Seq(Entries) /\ LookupIn(es, name) # 0 /\ ws = RemoveFrom(fs, name)
         /\ Unique(es) /\ Unique(ws)
    BY <1>2, <1>3, <2>8, Zenon DEF es, s
  <2> HIDE DEF ws
  <2>11. OthersIn(es, ws, name)
    BY <2>9, <2>10, OthersFound, Zenon
  <2> QED BY <2>11, Zenon DEF ws, OthersIn
<1> QED BY <1>6, <1>7, Zenon

\* In a directory without duplicate names, removing or renaming one takes
\* that name away and leaves every other name as it was.
THEOREM OthersAreKept == Spec => OthersStay
<1> DEFINE Kept == \A p \in Paths :
             LET s == StoreOf(p) IN
             /\ \/ Unlink(p) \/ Rmdir(p)
                \/ \E q \in Paths : Rename(p, q) /\ ~SameName(p, q)
             /\ Unique(dirs[s]) /\ Unique(dirs'[s])
             => \A e \in Range(dirs[s]) :
                  LookupIn(dirs'[s], e.name) = IF e.name = NamePart(p) THEN 0 ELSE e.ino
<1>1. IInv /\ [Next]_vars => [Kept]_vars
  <2>1. IInv => Kept
    BY OthersKept, Zenon DEF Kept
  <2> QED BY <2>1, Zenon
<1>2. [][Kept]_vars => OthersStay
  BY PTL DEF OthersStay, Kept
<1> HIDE DEF Kept
<1> QED BY <1>1, <1>2, NamesInductive, PTL DEF Spec
=============================================================================
