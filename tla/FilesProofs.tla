----------------------------- MODULE FilesProofs ----------------------------
(***************************************************************************)
(* Proofs about Files, for tables of every size.                           *)
(***************************************************************************)
EXTENDS Files, FiniteSetTheorems, WellFoundedInduction, TLAPS

\* The search for a free entry finds one when there is one.
LEMMA FirstIn ==
  ASSUME NEW S \in SUBSET Nat, S # {}
  PROVE  First(S) \in S
<1>1. PICK R : /\ IsWellFoundedOn(R, Nat)
               /\ \A x, y \in Nat : y < x => <<y, x>> \in R
  <2>1. \A x, y \in Nat : y < x => <<y, x>> \in OpToRel(<, Nat)
    BY Zenon DEF OpToRel
  <2> QED BY <2>1, NatLessThanWellFounded, Zenon
<1>2. PICK x \in S : \A y \in S : ~ (<<y, x>> \in R)
  BY <1>1, WFMin, Zenon
<1>3. \A y \in S : x <= y
  <2> SUFFICES ASSUME NEW y \in S PROVE ~ (y < x)
    OBVIOUS
  <2> QED BY <1>1, <1>2, Zenon
<1> QED BY <1>3, Zenon DEF First

\* Every table is finite, and so is every set of references.
LEMMA Finite ==
  /\ IsFiniteSet(Task) /\ IsFiniteSet(Fd) /\ IsFiniteSet(File)
  /\ IsFiniteSet(Task \X Fd)
  /\ \A f : IsFiniteSet(Refs(f))
<1>1. IsFiniteSet(Task) /\ IsFiniteSet(Fd) /\ IsFiniteSet(File)
  BY FilesAssumption, FS_Interval DEF Task, Fd, File
<1>2. IsFiniteSet(Task \X Fd)
  BY <1>1, FS_Product, Zenon
<1>3. ASSUME NEW f PROVE IsFiniteSet(Refs(f))
  <2>1. Refs(f) \in SUBSET (Task \X Fd)
    BY Zenon DEF Refs
  <2> QED BY <1>2, <2>1, FS_Subset, Zenon
<1> QED BY <1>1, <1>2, <1>3, Zenon

\* One task's references are as many as its descriptors.
LEMMA OneTask ==
  ASSUME NEW t, NEW D, IsFiniteSet(D)
  PROVE  IsFiniteSet({t} \X D) /\ Cardinality({t} \X D) = Cardinality(D)
<1>1. IsFiniteSet({t}) /\ Cardinality({t}) = 1
  BY FS_Singleton, Zenon
<1>2. /\ IsFiniteSet({t} \X D)
      /\ Cardinality({t} \X D) = Cardinality({t}) * Cardinality(D)
  BY <1>1, FS_Product, Zenon
<1>3. Cardinality(D) \in Nat
  BY FS_CardinalityType, Zenon
<1> QED BY <1>1, <1>2, <1>3

\* NULL is no file.
LEMMA NullIsNoFile == NULL \notin File /\ File \in SUBSET Nat /\ Fd \in SUBSET Nat
                      /\ Pipe \in SUBSET Nat /\ Task \in SUBSET Nat
BY FilesAssumption DEF NULL, File, Fd, Pipe, Task
-----------------------------------------------------------------------------
(* Closing *)

\* What RefcountOK says of file f.
CountOK(f) ==
  IF ops[f] = "none" THEN Refs(f) = {} /\ stray[f] = 0
  ELSE refcount[f] > 0 /\ refcount[f] = Cardinality(Refs(f)) + stray[f]

\* The references that closing the descriptors D of task t takes from f.
Dropped(t, D, f) == {t} \X {d \in D : fd_table[t][d] = f}

\* vfs_close_file leaves the count at the number of references left, and
\* releases the file exactly when none is.
LEMMA DropCounts ==
  ASSUME FilesInv, NEW t \in Task, NEW D \in SUBSET Fd, NEW f \in File
  PROVE  /\ Dropped(t, D, f) \in SUBSET Refs(f)
         /\ ops[f] # "none" =>
              /\ Count(t, D)[f]
                   = Cardinality(Refs(f) \ Dropped(t, D, f)) + stray[f]
              /\ Count(t, D)[f] \in Nat
              /\ f \notin Released(t, D) => Count(t, D)[f] > 0
         /\ f \in Released(t, D) =>
              /\ Dropped(t, D, f) # {} /\ Refs(f) = Dropped(t, D, f)
              /\ stray[f] = 0
         /\ f \in Released(t, D) => ops[f] # "none"
<1> DEFINE S == {d \in D : fd_table[t][d] = f}
           K == Dropped(t, D, f)
<1>1. K \in SUBSET Refs(f)
  BY Zenon DEF Dropped, Refs
<1>2. IsFiniteSet(Refs(f)) /\ IsFiniteSet(S)
  <2>1. S \in SUBSET Fd
    BY Zenon
  <2> QED BY <2>1, Finite, FS_Subset
<1>3. Cardinality(K) = Cardinality(S)
  BY <1>2, OneTask, Zenon DEF Dropped
<1>4. /\ IsFiniteSet(Refs(f) \ K)
      /\ Cardinality(Refs(f) \ K) = Cardinality(Refs(f)) - Cardinality(K)
      /\ Cardinality(Refs(f) \ K) \in Nat
  <2>1. Refs(f) \cap K = K
    BY <1>1, Zenon
  <2> QED BY <1>2, <2>1, FS_Difference, FS_CardinalityType, ZenonT(60)
<1>5. Count(t, D)[f] = refcount[f] - Cardinality(S)
  BY Zenon DEF Count
<1>6. ops[f] # "none" =>
        /\ Count(t, D)[f] = Cardinality(Refs(f) \ K) + stray[f]
        /\ Count(t, D)[f] \in Nat
  <2>1. stray[f] \in Nat /\ Cardinality(Refs(f)) \in Nat /\ Cardinality(S) \in Nat
    BY <1>2, FS_CardinalityType, Zenon DEF FilesInv, TypeOK
  <2>2. ops[f] # "none" => refcount[f] = Cardinality(Refs(f)) + stray[f]
    BY Zenon DEF FilesInv, RefcountOK
  <2> QED BY <1>3, <1>4, <1>5, <2>1, <2>2
<1>7. K # {} <=> \E d \in D : fd_table[t][d] = f
  <2>1. ASSUME NEW d \in D, fd_table[t][d] = f PROVE <<t, d>> \in K
    BY <2>1, Zenon DEF Dropped
  <2>2. ASSUME NEW r \in K PROVE \E d \in D : fd_table[t][d] = f
    BY <2>2, Zenon DEF Dropped
  <2> QED BY <2>1, <2>2, Zenon
<1>8. K # {} => ops[f] # "none"
  BY <1>1, Zenon DEF FilesInv, RefcountOK
<1>9. Refs(f) \ K = {} <=> Refs(f) = K
  BY <1>1, Zenon
<1>10. f \in Released(t, D) <=> K # {} /\ Count(t, D)[f] <= 0
  BY <1>7, Zenon DEF Released
<1>11. Cardinality(Refs(f) \ K) = 0 <=> Refs(f) \ K = {}
  BY <1>4, FS_EmptySet, Zenon
<1>12. f \in Released(t, D) => Refs(f) = K /\ stray[f] = 0
  <2> SUFFICES ASSUME f \in Released(t, D) PROVE Refs(f) = K /\ stray[f] = 0
    BY Zenon
  <2>1. stray[f] \in Nat
    BY Zenon DEF FilesInv, TypeOK
  <2>2. Cardinality(Refs(f) \ K) = 0 /\ stray[f] = 0
    BY <1>4, <1>6, <1>8, <1>10, <2>1
  <2> QED BY <1>9, <1>11, <2>2, Zenon
<1>13. ops[f] # "none" /\ f \notin Released(t, D) => Count(t, D)[f] > 0
  <2> SUFFICES ASSUME ops[f] # "none", f \notin Released(t, D)
               PROVE  Count(t, D)[f] > 0
    BY Zenon
  <2>1. CASE K # {}
    BY <1>6, <1>10, <2>1
  <2>2. CASE K = {}
    <3>1. Refs(f) \ K = Refs(f)
      BY <2>2, Zenon
    <3>2. refcount[f] > 0 /\ refcount[f] = Cardinality(Refs(f)) + stray[f]
      BY Zenon DEF FilesInv, RefcountOK
    <3> QED BY <1>6, <3>1, <3>2
  <2> QED BY <2>1, <2>2, Zenon
<1> QED BY <1>1, <1>6, <1>8, <1>10, <1>12, <1>13, Zenon

\* The close operations of a set of open files keep the pipes' counts, and
\* free a pipe with its last file.
LEMMA CloseFilesKeepsPipes ==
  ASSUME FilesInv, NEW R \in SUBSET File, CloseFiles(R)
  PROVE  /\ PipeRefsOK'
         /\ ops' \in [File -> {"none", "file", "pipe_read", "pipe_write"}]
         /\ private_data' \in [File -> Inode \cup Pipe \cup {NULL}]
         /\ pipe_used' \in [Pipe -> BOOLEAN]
         /\ read_refs' \in [Pipe -> 0 .. 1] /\ write_refs' \in [Pipe -> 0 .. 1]
         /\ \A f \in File : ops'[f] \in {"pipe_read", "pipe_write"}
                              => private_data'[f] \in Pipe
<1>1. /\ ops' = [f \in File |-> IF f \in R THEN "none" ELSE ops[f]]
      /\ private_data' = [f \in File |->
                            IF f \in R THEN NULL ELSE private_data[f]]
  BY Zenon DEF CloseFiles
<1>2. /\ ops' \in [File -> {"none", "file", "pipe_read", "pipe_write"}]
      /\ private_data' \in [File -> Inode \cup Pipe \cup {NULL}]
  BY <1>1, Zenon DEF FilesInv, TypeOK
<1>3. \A f \in File : ops'[f] \in {"pipe_read", "pipe_write"}
                        => private_data'[f] \in Pipe
  BY <1>1, Zenon DEF FilesInv, SlotsOK
<1>4. ASSUME NEW e \in {"pipe_read", "pipe_write"}, NEW i \in Pipe
      PROVE  /\ EndsIn(File, e, i)' = EndsIn(File, e, i) \ R
             /\ EndsIn(R, e, i) = EndsIn(File, e, i) \cap R
             /\ IsFiniteSet(EndsIn(File, e, i))
             /\ Cardinality(EndsIn(File, e, i)')
                  = Cardinality(EndsIn(File, e, i)) - Cardinality(EndsIn(R, e, i))
             /\ Cardinality(EndsIn(File, e, i)') \in Nat
             /\ Cardinality(EndsIn(R, e, i)) \in Nat
  <2> DEFINE S == EndsIn(File, e, i)
  <2>1. EndsIn(File, e, i)' = {f \in File : ops'[f] = e /\ private_data'[f] = i}
    BY Zenon DEF EndsIn
  <2>2. EndsIn(File, e, i)' = S \ R
    BY <1>1, <2>1, Zenon DEF EndsIn
  <2>3. EndsIn(R, e, i) = S \cap R
    BY Zenon DEF EndsIn
  <2>4. IsFiniteSet(S)
    <3>1. S \in SUBSET File
      BY Zenon DEF EndsIn
    <3> QED BY <3>1, Finite, FS_Subset, Zenon
  <2> HIDE DEF S
  <2>5. /\ Cardinality(S \ R) = Cardinality(S) - Cardinality(S \cap R)
        /\ IsFiniteSet(S \ R) /\ IsFiniteSet(S \cap R)
    BY <2>4, FS_Difference, FS_Intersection, Zenon
  <2>6. Cardinality(S \ R) \in Nat /\ Cardinality(S \cap R) \in Nat
    BY <2>5, FS_CardinalityType, Zenon
  <2> QED BY <2>2, <2>3, <2>4, <2>5, <2>6, Zenon DEF S
<1>5. ASSUME NEW i \in Pipe
      PROVE  LET A == EndsIn(File, "pipe_read", i)'
                 B == EndsIn(File, "pipe_write", i)'
             IN  /\ pipe_used'[i] <=> A \cup B # {}
                 /\ read_refs'[i] = Cardinality(A) /\ Cardinality(A) <= 1
                 /\ write_refs'[i] = Cardinality(B) /\ Cardinality(B) <= 1
                 /\ read_refs'[i] \in 0 .. 1 /\ write_refs'[i] \in 0 .. 1
  <2> DEFINE S == EndsIn(File, "pipe_read", i)
             W == EndsIn(File, "pipe_write", i)
             A == EndsIn(File, "pipe_read", i)'
             B == EndsIn(File, "pipe_write", i)'
             SR == EndsIn(R, "pipe_read", i)
             WR == EndsIn(R, "pipe_write", i)
  <2>1. /\ pipe_used[i] <=> S \cup W # {}
        /\ read_refs[i] = Cardinality(S) /\ Cardinality(S) <= 1
        /\ write_refs[i] = Cardinality(W) /\ Cardinality(W) <= 1
    BY Zenon DEF FilesInv, PipeRefsOK
  <2>2. /\ read_refs'[i] = read_refs[i] - Cardinality(SR)
        /\ write_refs'[i] = write_refs[i] - Cardinality(WR)
        /\ pipe_used'[i] <=> pipe_used[i] /\
             ~(SR \cup WR # {} /\ read_refs'[i] = 0 /\ write_refs'[i] = 0)
    BY Zenon DEF CloseFiles, ClosePipes
  <2>3. /\ A = S \ R /\ SR = S \cap R /\ IsFiniteSet(S)
        /\ Cardinality(A) = Cardinality(S) - Cardinality(SR)
        /\ Cardinality(A) \in Nat /\ Cardinality(SR) \in Nat
    BY <1>4, Zenon
  <2>4. /\ B = W \ R /\ WR = W \cap R /\ IsFiniteSet(W)
        /\ Cardinality(B) = Cardinality(W) - Cardinality(WR)
        /\ Cardinality(B) \in Nat /\ Cardinality(WR) \in Nat
    BY <1>4, Zenon
  <2> HIDE DEF S, W, A, B, SR, WR
  <2>5. IsFiniteSet(A) /\ IsFiniteSet(B)
    BY <2>3, <2>4, FS_Difference, Zenon
  <2>6. (Cardinality(A) = 0 <=> A = {}) /\ (Cardinality(B) = 0 <=> B = {})
    BY <2>5, FS_EmptySet, Zenon
  <2>7. /\ read_refs'[i] = Cardinality(A) /\ Cardinality(A) <= 1
        /\ write_refs'[i] = Cardinality(B) /\ Cardinality(B) <= 1
    <3>1. Cardinality(S) \in Nat /\ Cardinality(W) \in Nat
      BY <2>3, <2>4, FS_CardinalityType, Zenon
    <3> QED BY <2>1, <2>2, <2>3, <2>4, <3>1
  <2>8. SR \cup WR = {} => A = S /\ B = W
    BY <2>3, <2>4, Zenon
  <2>9. A \cup B # {} => S \cup W # {}
    BY <2>3, <2>4, Zenon
  <2>10. S \cup W # {} /\ SR \cup WR = {} => A \cup B # {}
    BY <2>8, Zenon
  <2>11. A \cup B = {} <=> read_refs'[i] = 0 /\ write_refs'[i] = 0
    BY <2>6, <2>7, Zenon
  <2>12. pipe_used'[i] <=> A \cup B # {}
    BY <2>1, <2>2, <2>9, <2>10, <2>11, Zenon
  <2>13. read_refs'[i] \in 0 .. 1 /\ write_refs'[i] \in 0 .. 1
    BY <2>3, <2>4, <2>7
  <2> QED BY <2>7, <2>12, <2>13, Zenon DEF A, B
<1>6. PipeRefsOK'
  BY <1>5, Zenon DEF PipeRefsOK
<1>7. read_refs' \in [Pipe -> 0 .. 1] /\ write_refs' \in [Pipe -> 0 .. 1]
  BY <1>5, Zenon DEF CloseFiles, ClosePipes
<1>8. pipe_used' \in [Pipe -> BOOLEAN]
  BY Zenon DEF CloseFiles, ClosePipes
<1> QED BY <1>2, <1>3, <1>6, <1>7, <1>8, Zenon
-----------------------------------------------------------------------------
(* The invariant, action by action *)

\* The tables that setup_main_task leaves satisfy the invariant.
LEMMA InitInv == Init => FilesInv
<1> SUFFICES ASSUME Init PROVE FilesInv
  BY Zenon
<1>1. TypeOK
  <2>1. status \in [Task -> {"none", "live", "dead", "lost"}]
    BY Zenon DEF Init
  <2>2. fd_table \in [Task -> [Fd -> File \cup {NULL}]]
    BY FilesAssumption DEF Init, File, Fd
  <2>3. ops \in [File -> {"none", "file", "pipe_read", "pipe_write"}]
    BY Zenon DEF Init
  <2>4. private_data \in [File -> Inode \cup Pipe \cup {NULL}]
    BY Zenon DEF Init
  <2>5. refcount \in [File -> Nat]
    BY Zenon DEF Init
  <2>6. pipe_used \in [Pipe -> BOOLEAN]
    BY Zenon DEF Init
  <2>7. read_refs \in [Pipe -> 0 .. 1] /\ write_refs \in [Pipe -> 0 .. 1]
    BY DEF Init
  <2>8. stray \in [File -> Nat] /\ wild \in BOOLEAN
    BY DEF Init
  <2> QED BY <2>1, <2>2, <2>3, <2>4, <2>5, <2>6, <2>7, <2>8, Zenon DEF TypeOK
<1>2. ASSUME NEW f \in File
      PROVE  CountOK(f)
  <2>1. 0 \in Task
    BY FilesAssumption DEF Task
  <2>2. ASSUME NEW a \in Task, NEW d \in Fd
        PROVE  fd_table[a][d] = f <=> a = 0 /\ d = f /\ f < STD
    BY NullIsNoFile, Zenon DEF Init, Fd, Task, File
  <2>3. CASE f < STD
    <3>1. f \in Fd
      BY <2>3, FilesAssumption DEF File, Fd
    <3>2. \A r \in Task \X Fd : r \in Refs(f) <=> r = <<0, f>>
      BY <2>2, <2>3 DEF Refs
    <3>3. Refs(f) = {<<0, f>>}
      BY <2>1, <3>1, <3>2, Zenon DEF Refs
    <3>4. Cardinality(Refs(f)) = 1
      BY <3>3, FS_Singleton, Zenon
    <3> QED BY <2>3, <3>4 DEF Init, CountOK
  <2>4. CASE ~(f < STD)
    <3>1. Refs(f) = {}
      BY <2>2, <2>4, Zenon DEF Refs
    <3> QED BY <2>4, <3>1, Zenon DEF Init, CountOK
  <2> QED BY <2>3, <2>4, Zenon
<1>3. RefcountOK
  BY <1>2, Zenon DEF RefcountOK, CountOK
<1>4. PipeRefsOK
  <2>1. ASSUME NEW i \in Pipe
        PROVE EndsIn(File, "pipe_read", i) = {} /\ EndsIn(File, "pipe_write", i) = {}
    BY Zenon DEF EndsIn, Init
  <2>2. ASSUME NEW i \in Pipe
        PROVE  ~pipe_used[i] /\ read_refs[i] = 0 /\ write_refs[i] = 0
    BY Zenon DEF Init
  <2>3. Cardinality({}) = 0
    BY FS_EmptySet, Zenon
  <2> QED BY <2>1, <2>2, <2>3 DEF PipeRefsOK
<1>5. SlotsOK
  BY Zenon DEF SlotsOK, Init
<1> QED BY <1>1, <1>3, <1>4, <1>5, Zenon DEF FilesInv

\* Closing some of a task's descriptors, as sys_close and sys_exit do.
LEMMA DropStep ==
  ASSUME FilesInv, NEW t \in Task, NEW D \in SUBSET Fd, Live(t),
         \A d \in D : fd_table[t][d] # NULL,
         fd_table' = [fd_table EXCEPT ![t] =
                        [d \in Fd |-> IF d \in D THEN NULL ELSE @[d]]],
         refcount' = Count(t, D),
         CloseFiles(Released(t, D)),
         status' \in {status, [status EXCEPT ![t] = "dead"]},
         UNCHANGED outside
  PROVE  FilesInv'
<1> DEFINE R == Released(t, D)
<1>1. R \in SUBSET File
  BY Zenon DEF Released
<1>2. /\ PipeRefsOK'
      /\ ops' \in [File -> {"none", "file", "pipe_read", "pipe_write"}]
      /\ private_data' \in [File -> Inode \cup Pipe \cup {NULL}]
      /\ pipe_used' \in [Pipe -> BOOLEAN]
      /\ read_refs' \in [Pipe -> 0 .. 1] /\ write_refs' \in [Pipe -> 0 .. 1]
      /\ \A f \in File : ops'[f] \in {"pipe_read", "pipe_write"}
                           => private_data'[f] \in Pipe
  BY <1>1, CloseFilesKeepsPipes, Zenon
<1>3. ops' = [f \in File |-> IF f \in R THEN "none" ELSE ops[f]]
  BY Zenon DEF CloseFiles
<1>4. /\ fd_table' \in [Task -> [Fd -> File \cup {NULL}]]
      /\ \A a \in Task, d \in Fd :
           fd_table'[a][d] = IF a = t /\ d \in D THEN NULL ELSE fd_table[a][d]
  BY ZenonT(60) DEF FilesInv, TypeOK
<1>5. ASSUME NEW f \in File
      PROVE  CountOK(f)' /\ refcount'[f] \in Nat
  <2> DEFINE K == Dropped(t, D, f)
  <2>1. Refs(f)' = Refs(f) \ K
    <3>1. \A a \in Task, d \in Fd :
            fd_table'[a][d] = f <=> fd_table[a][d] = f /\ ~(a = t /\ d \in D)
      BY <1>4, NullIsNoFile, Zenon
    <3>2. \A a \in Task, d \in Fd :
            <<a, d>> \in K <=> a = t /\ d \in D /\ fd_table[t][d] = f
      BY Zenon DEF Dropped
    <3>3. \A r \in Task \X Fd : r \in Refs(f)' <=> r \in Refs(f) /\ r \notin K
      BY <3>1, <3>2 DEF Refs
    <3> QED BY <3>3 DEF Refs
  <2>2. /\ ops[f] # "none" => /\ Count(t, D)[f] = Cardinality(Refs(f) \ K) + stray[f]
                              /\ Count(t, D)[f] \in Nat
                              /\ f \notin R => Count(t, D)[f] > 0
        /\ f \in R => Refs(f) = K /\ stray[f] = 0
    BY DropCounts
  <2> HIDE DEF K
  <2>6. stray' = stray
    BY Zenon DEF outside
  <2>3. CASE ops[f] = "none"
    <3>1. Refs(f) = {} /\ Refs(f)' = {} /\ ops'[f] = "none" /\ stray[f] = 0
      BY <1>3, <2>1, <2>3, Zenon DEF FilesInv, RefcountOK
    <3>2. {d \in D : fd_table[t][d] = f} = {}
      <4>1. \A d \in D : <<t, d>> \in Task \X Fd /\ <<t, d>> \notin Refs(f)
        BY <3>1, Zenon
      <4> QED BY <4>1, Zenon DEF Refs
    <3>3. Count(t, D)[f] = refcount[f] - 0
      BY <3>2, FS_EmptySet, Zenon DEF Count
    <3> QED BY <2>6, <3>1, <3>3 DEF FilesInv, TypeOK, CountOK
  <2>4. CASE ops[f] # "none" /\ f \in R
    <3>1. ops'[f] = "none" /\ Refs(f)' = {}
      BY <1>3, <2>1, <2>2, <2>4, Zenon
    <3> QED BY <2>2, <2>4, <2>6, <3>1, Zenon DEF CountOK
  <2>5. CASE ops[f] # "none" /\ f \notin R
    <3>1. ops'[f] # "none"
      BY <1>3, <2>5, Zenon
    <3> QED BY <2>1, <2>2, <2>5, <2>6, <3>1, Zenon DEF CountOK
  <2> QED BY <2>3, <2>4, <2>5, Zenon
<1>6. RefcountOK'
  BY <1>5, Zenon DEF RefcountOK, CountOK
<1>7. refcount' \in [File -> Nat]
  BY <1>5, Zenon DEF Count
<1>8. status' \in [Task -> {"none", "live", "dead", "lost"}]
  BY Zenon DEF FilesInv, TypeOK
<1>9. TypeOK'
  BY <1>2, <1>4, <1>7, <1>8, Zenon DEF FilesInv, TypeOK, outside
<1>10. \A a \in Task : status'[a] = "none" => \A d \in Fd : fd_table'[a][d] = NULL
  BY <1>4, ZenonT(60) DEF FilesInv, SlotsOK, TypeOK
<1>11. SlotsOK'
  BY <1>2, <1>10, Zenon DEF SlotsOK
<1> QED BY <1>2, <1>6, <1>9, <1>11, Zenon DEF FilesInv

\* A descriptor that names nothing, or whose file is dropped, comes to name
\* the file of another: one reference more, counted.
LEMMA Dup2Step ==
  ASSUME FilesInv, NEW t \in Task, NEW o \in Fd, NEW n \in Fd, Dup2(t, o, n),
         UNCHANGED outside
  PROVE  FilesInv'
<1> DEFINE f == fd_table[t][o]
           D == {d \in {n} : fd_table[t][d] # NULL}
           R == Released(t, D)
<1>1. /\ o # n /\ f # NULL /\ CloseFiles(R) /\ status' = status
      /\ refcount' = [Count(t, D) EXCEPT ![f] = @ + 1]
      /\ fd_table' = [fd_table EXCEPT ![t][n] = f]
  BY Zenon DEF Dup2
<1>2. f \in File /\ D \in SUBSET Fd /\ R \in SUBSET File
  BY <1>1 DEF FilesInv, TypeOK, Released
<1>3. <<t, o>> \in Refs(f) /\ \A g \in File : <<t, o>> \notin Dropped(t, D, g)
  BY <1>1, Zenon DEF Refs, Dropped
<1>4. \A g \in File : \A d \in {n} : <<t, d>> \in Refs(g) => <<t, d>> \in Dropped(t, D, g)
  BY <1>2, NullIsNoFile, Zenon DEF Refs, Dropped
<1>5. ops[f] # "none" /\ f \notin R
  <2>1. ops[f] # "none"
    BY <1>2, <1>3, Zenon DEF FilesInv, RefcountOK
  <2>2. Refs(f) # Dropped(t, D, f)
    BY <1>2, <1>3
  <2> HIDE DEF D, f
  <2> QED BY <1>2, <2>1, <2>2, DropCounts, Zenon
<1>6. /\ fd_table' \in [Task -> [Fd -> File \cup {NULL}]]
      /\ \A a \in Task, d \in Fd :
           fd_table'[a][d] = IF a = t /\ d = n THEN f ELSE fd_table[a][d]
  <2> HIDE DEF f
  <2> QED BY <1>1, <1>2, Zenon DEF FilesInv, TypeOK
<1>7. ASSUME NEW g \in File, NEW a \in Task, NEW d \in Fd
      PROVE  <<a, d>> \in Dropped(t, D, g) <=> a = t /\ d = n /\ fd_table[t][d] = g
  BY NullIsNoFile, Zenon DEF Dropped
<1> HIDE DEF f, D, R
<1>8. ASSUME NEW g \in File
      PROVE  Refs(g)' = (Refs(g) \ Dropped(t, D, g))
                          \cup (IF g = f THEN {<<t, n>>} ELSE {})
  <2>1. \A a \in Task, d \in Fd :
          fd_table'[a][d] = g <=>
            \/ fd_table[a][d] = g /\ ~(a = t /\ d = n)
            \/ g = f /\ a = t /\ d = n
    BY <1>6, Zenon
  <2>2. \A r \in Task \X Fd :
          r \in Refs(g)' <=> \/ r \in Refs(g) /\ r \notin Dropped(t, D, g)
                             \/ g = f /\ r = <<t, n>>
    BY <1>7, <2>1 DEF Refs
  <2> QED BY <2>2, Zenon DEF Refs
<1>9. /\ PipeRefsOK'
      /\ ops' \in [File -> {"none", "file", "pipe_read", "pipe_write"}]
      /\ private_data' \in [File -> Inode \cup Pipe \cup {NULL}]
      /\ pipe_used' \in [Pipe -> BOOLEAN]
      /\ read_refs' \in [Pipe -> 0 .. 1] /\ write_refs' \in [Pipe -> 0 .. 1]
      /\ \A g \in File : ops'[g] \in {"pipe_read", "pipe_write"}
                           => private_data'[g] \in Pipe
  BY <1>1, <1>2, CloseFilesKeepsPipes, Zenon
<1>10. ops' = [g \in File |-> IF g \in R THEN "none" ELSE ops[g]]
  BY <1>1, Zenon DEF CloseFiles
<1>11. /\ refcount'[f] = Count(t, D)[f] + 1
       /\ \A g \in File \ {f} : refcount'[g] = Count(t, D)[g]
       /\ DOMAIN refcount' = File
  BY <1>1, <1>2, Zenon DEF Count
<1>12. ASSUME NEW g \in File
       PROVE  CountOK(g)' /\ refcount'[g] \in Nat
  <2> DEFINE K == Dropped(t, D, g)
  <2>1. /\ ops[g] # "none" => /\ Count(t, D)[g] = Cardinality(Refs(g) \ K) + stray[g]
                              /\ Count(t, D)[g] \in Nat
                              /\ g \notin R => Count(t, D)[g] > 0
        /\ g \in R => Refs(g) = K /\ stray[g] = 0
    BY <1>2, DropCounts, Zenon DEF R
  <2>4. stray' = stray /\ stray[g] \in Nat
    BY Zenon DEF outside, FilesInv, TypeOK
  <2>2. CASE g = f
    <3>1. Refs(g)' = (Refs(g) \ K) \cup {<<t, n>>}
      BY <1>8, <2>2, Zenon
    <3>2. <<t, n>> \notin Refs(g) \ K
      BY <1>4, Zenon
    <3>3. IsFiniteSet(Refs(g) \ K)
      BY Finite, FS_Difference, Zenon
    <3> HIDE DEF K
    <3>4. Cardinality(Refs(g)') = Cardinality(Refs(g) \ K) + 1
      BY <3>1, <3>2, <3>3, FS_AddElement, Zenon
    <3>5. ops'[g] # "none" /\ ops[g] # "none"
      BY <1>5, <1>10, <2>2, Zenon
    <3>6. Cardinality(Refs(g) \ K) \in Nat
      BY <3>3, FS_CardinalityType, Zenon
    <3>7. refcount'[g] = Count(t, D)[g] + 1
      BY <1>11, <2>2, Zenon
    <3> QED BY <2>1, <2>4, <3>4, <3>5, <3>6, <3>7 DEF CountOK
  <2>3. CASE g # f
    <3>1. Refs(g)' = Refs(g) \ K /\ refcount'[g] = Count(t, D)[g]
      BY <1>8, <1>11, <2>3, Zenon
    <3>2. CASE ops[g] = "none"
      <4>1. Refs(g) = {} /\ ops'[g] = "none" /\ stray[g] = 0
        BY <1>10, <3>2, Zenon DEF FilesInv, RefcountOK
      <4>2. {d \in D : fd_table[t][d] = g} = {}
        <5>1. \A d \in D : <<t, d>> \in Task \X Fd /\ <<t, d>> \notin Refs(g)
          BY <1>2, <4>1, Zenon
        <5> QED BY <5>1, Zenon DEF Refs
      <4>3. Count(t, D)[g] = refcount[g] - 0
        BY <4>2, FS_EmptySet, Zenon DEF Count
      <4> QED BY <2>4, <3>1, <4>1, <4>3 DEF FilesInv, TypeOK, CountOK
    <3>3. CASE ops[g] # "none" /\ g \in R
      <4>1. ops'[g] = "none" /\ Refs(g)' = {}
        BY <1>10, <2>1, <3>1, <3>3, Zenon
      <4> HIDE DEF K
      <4> QED BY <2>1, <2>4, <3>1, <3>3, <4>1, Zenon DEF CountOK
    <3>4. CASE ops[g] # "none" /\ g \notin R
      <4>1. ops'[g] # "none"
        BY <1>10, <3>4, Zenon
      <4> HIDE DEF K
      <4> QED BY <2>1, <2>4, <3>1, <3>4, <4>1, Zenon DEF CountOK
    <3> QED BY <3>2, <3>3, <3>4, Zenon
  <2> QED BY <2>2, <2>3
<1>13. RefcountOK'
  BY <1>12, Zenon DEF RefcountOK, CountOK
<1>14. refcount' \in [File -> Nat]
  BY <1>1, <1>12, Zenon DEF Count
<1>15. TypeOK'
  BY <1>1, <1>6, <1>9, <1>14, Zenon DEF FilesInv, TypeOK, outside
<1>16. SlotsOK'
  <2>1. status[t] = "live"
    BY Zenon DEF Dup2, Live
  <2> QED BY <1>1, <1>6, <1>9, <2>1, ZenonT(60) DEF FilesInv, SlotsOK
<1> QED BY <1>9, <1>13, <1>15, <1>16, Zenon DEF FilesInv

\* A step that only touches free entries: the failures of sys_open and
\* sys_pipe, and Kill.
LEMMA QuietStep ==
  ASSUME FilesInv, UNCHANGED <<fd_table, ops, pipe_used, read_refs, write_refs, stray>>,
         wild' \in BOOLEAN,
         private_data' \in [File -> Inode \cup Pipe \cup {NULL}],
         refcount' \in [File -> Nat],
         status' \in [Task -> {"none", "live", "dead", "lost"}],
         \A t \in Task : status'[t] = "none" => status[t] = "none",
         \A f \in File : ops[f] # "none" =>
           private_data'[f] = private_data[f] /\ refcount'[f] = refcount[f]
  PROVE  FilesInv'
<1>1. \A f : Refs(f)' = Refs(f)
  BY Zenon DEF Refs
<1>2. RefcountOK'
  BY <1>1, Zenon DEF FilesInv, RefcountOK
<1>3. \A e \in {"pipe_read", "pipe_write"}, i \in Pipe :
        EndsIn(File, e, i)' = EndsIn(File, e, i)
  BY Zenon DEF EndsIn
<1>4. PipeRefsOK'
  BY <1>3, ZenonT(60) DEF FilesInv, PipeRefsOK
<1>5. TypeOK'
  BY Zenon DEF FilesInv, TypeOK
<1>6. SlotsOK'
  BY Zenon DEF FilesInv, SlotsOK
<1> QED BY <1>2, <1>4, <1>5, <1>6, Zenon DEF FilesInv

\* The counts of a pipe that is free are 0 already.
LEMMA FreePipe ==
  ASSUME FilesInv, NEW i \in Pipe, ~pipe_used[i]
  PROVE  /\ read_refs[i] = 0 /\ write_refs[i] = 0
         /\ [read_refs EXCEPT ![i] = 0] = read_refs
         /\ [write_refs EXCEPT ![i] = 0] = write_refs
         /\ EndsIn(File, "pipe_read", i) = {}
         /\ EndsIn(File, "pipe_write", i) = {}
<1>1. /\ EndsIn(File, "pipe_read", i) = {} /\ EndsIn(File, "pipe_write", i) = {}
  BY Zenon DEF FilesInv, PipeRefsOK
<1>2. Cardinality({}) = 0
  BY FS_EmptySet, Zenon
<1>3. read_refs[i] = 0 /\ write_refs[i] = 0
  BY <1>1, <1>2, Zenon DEF FilesInv, PipeRefsOK
<1> QED BY <1>1, <1>3, Zenon DEF FilesInv, TypeOK

\* What the searches for free entries return.
LEMMA FreeEntries ==
  ASSUME FilesInv
  PROVE  /\ FreeFiles # {} => First(FreeFiles) \in File
                                /\ ops[First(FreeFiles)] = "none"
         /\ FreePipes # {} => First(FreePipes) \in Pipe
                                /\ ~pipe_used[First(FreePipes)]
         /\ \A t \in Task : FreeFds(t) # {} =>
              First(FreeFds(t)) \in Fd /\ fd_table[t][First(FreeFds(t))] = NULL
<1>1. FreeFiles # {} => First(FreeFiles) \in FreeFiles
  BY FirstIn, NullIsNoFile, Zenon DEF FreeFiles
<1>2. FreePipes # {} => First(FreePipes) \in FreePipes
  BY FirstIn, NullIsNoFile, Zenon DEF FreePipes
<1>3. \A t \in Task : FreeFds(t) # {} => First(FreeFds(t)) \in FreeFds(t)
  BY FirstIn, NullIsNoFile, Zenon DEF FreeFds
<1> QED BY <1>1, <1>2, <1>3, Zenon DEF FreeFiles, FreePipes, FreeFds

\* Two searches in a row return different entries.
LEMMA TwoFirst ==
  ASSUME NEW S \in SUBSET Nat, IsFiniteSet(S), Cardinality(S) >= 2
  PROVE  /\ First(S) \in S /\ First(S \ {First(S)}) \in S
         /\ First(S) # First(S \ {First(S)})
<1>1. S # {}
  BY FS_EmptySet
<1>2. First(S) \in S
  BY <1>1, FirstIn, Zenon
<1> DEFINE x == First(S)
<1>3. Cardinality(S \ {x}) = Cardinality(S) - 1 /\ IsFiniteSet(S \ {x})
  BY <1>2, FS_RemoveElement, Zenon
<1>4. Cardinality(S) \in Nat
  BY FS_CardinalityType, Zenon
<1>5. S \ {x} # {}
  BY <1>3, <1>4, FS_EmptySet
<1>6. First(S \ {x}) \in S \ {x}
  <2>1. S \ {x} \in SUBSET Nat
    BY Zenon
  <2> HIDE DEF x
  <2> QED BY <1>5, <2>1, FirstIn, Zenon
<1> QED BY <1>2, <1>6, Zenon

\* The error paths of sys_open and sys_pipe give back what they took.
LEMMA FailureSteps ==
  ASSUME FilesInv, NEW t \in Task, NEW x \in Inode,
         OpenNoFd(t, x) \/ PipeNoFile(t) \/ PipeOneFile(t) \/ PipeNoFd(t),
         UNCHANGED outside
  PROVE  FilesInv'
<1>1. FreePipes # {} => First(FreePipes) \in Pipe /\ ~pipe_used[First(FreePipes)]
  BY FreeEntries, Zenon
<1>2. FreePipes # {} =>
        /\ [read_refs EXCEPT ![First(FreePipes)] = 0] = read_refs
        /\ [write_refs EXCEPT ![First(FreePipes)] = 0] = write_refs
  BY <1>1, FreePipe, Zenon
<1>3. FreeFiles # {} =>
        First(FreeFiles) \in File /\ ops[First(FreeFiles)] = "none"
  BY FreeEntries, Zenon
<1>4. /\ private_data \in [File -> Inode \cup Pipe \cup {NULL}]
      /\ refcount \in [File -> Nat]
      /\ status \in [Task -> {"none", "live", "dead", "lost"}]
      /\ stray' = stray /\ wild' \in BOOLEAN
  BY Zenon DEF FilesInv, TypeOK, outside
<1>5. CASE OpenNoFd(t, x)
  <2> DEFINE f == First(FreeFiles)
  <2>1. /\ f \in File /\ ops[f] = "none"
        /\ private_data' = [private_data EXCEPT ![f] = NULL]
        /\ refcount' = [refcount EXCEPT ![f] = 0]
        /\ UNCHANGED <<status, fd_table, ops, pipe_used, read_refs, write_refs>>
    BY <1>3, <1>5, Zenon DEF OpenNoFd, pipes
  <2> HIDE DEF f
  <2> QED BY <1>4, <2>1, QuietStep, Zenon
<1>6. CASE PipeNoFile(t)
  <2>1. UNCHANGED <<status, fd_table, ops, pipe_used, read_refs, write_refs,
                    private_data, refcount>>
    BY <1>2, <1>6, Zenon DEF PipeNoFile, files
  <2> QED BY <1>4, <2>1, QuietStep, Zenon
<1>7. CASE PipeOneFile(t)
  <2> DEFINE f == First(FreeFiles)
             i == First(FreePipes)
  <2>1. FreeFiles # {}
    <3>1. Cardinality(FreeFiles) = 1
      BY <1>7, Zenon DEF PipeOneFile
    <3>2. Cardinality({}) = 0
      BY FS_EmptySet, Zenon
    <3> QED BY <3>1, <3>2
  <2>2. /\ f \in File /\ ops[f] = "none" /\ i \in Pipe
        /\ private_data' = [private_data EXCEPT ![f] = i]
        /\ refcount' = [refcount EXCEPT ![f] = 1]
        /\ UNCHANGED <<status, fd_table, ops, pipe_used, read_refs, write_refs>>
    BY <1>1, <1>2, <1>3, <1>7, <2>1, Zenon DEF PipeOneFile
  <2> HIDE DEF f, i
  <2> QED BY <1>4, <2>2, QuietStep, Zenon
<1>8. CASE PipeNoFd(t)
  <2> DEFINE f == First(FreeFiles)
             g == First(FreeFiles \ {f})
  <2>1. FreeFiles \in SUBSET Nat /\ IsFiniteSet(FreeFiles)
        /\ Cardinality(FreeFiles) >= 2
    <3>1. FreeFiles \in SUBSET File
      BY Zenon DEF FreeFiles
    <3> QED BY <1>8, <3>1, NullIsNoFile, Finite, FS_Subset, Zenon DEF PipeNoFd
  <2>2. f \in FreeFiles /\ g \in FreeFiles
    BY <2>1, TwoFirst, Zenon
  <2>3. /\ f \in File /\ ops[f] = "none" /\ g \in File /\ ops[g] = "none"
    BY <2>2, Zenon DEF FreeFiles
  <2>4. /\ private_data' = [private_data EXCEPT ![f] = NULL, ![g] = NULL]
        /\ refcount' = [refcount EXCEPT ![f] = 0, ![g] = 0]
        /\ UNCHANGED <<status, fd_table, ops, pipe_used, read_refs, write_refs>>
    BY <1>2, <1>8, Zenon DEF PipeNoFd
  <2> HIDE DEF f, g
  <2> QED BY <1>4, <2>3, <2>4, QuietStep, Zenon
<1> QED BY <1>5, <1>6, <1>7, <1>8, Zenon

\* sys_open: a free file gets its one reference.
LEMMA OpenStep ==
  ASSUME FilesInv, NEW t \in Task, NEW x \in Inode, Open(t, x),
         UNCHANGED outside
  PROVE  FilesInv'
<1>1. PICK f \in File, n \in Fd :
        /\ ops[f] = "none" /\ fd_table[t][n] = NULL
        /\ ops' = [ops EXCEPT ![f] = "file"]
        /\ private_data' = [private_data EXCEPT ![f] = x]
        /\ refcount' = [refcount EXCEPT ![f] = 1]
        /\ fd_table' = [fd_table EXCEPT ![t][n] = f]
  BY FreeEntries, Zenon DEF Open
<1>2. /\ status[t] = "live"
      /\ UNCHANGED <<status, pipe_used, read_refs, write_refs>>
  BY Zenon DEF Open, Live, pipes
<1>3. /\ fd_table' \in [Task -> [Fd -> File \cup {NULL}]]
      /\ \A a \in Task, d \in Fd :
           fd_table'[a][d] = IF a = t /\ d = n THEN f ELSE fd_table[a][d]
  BY <1>1, <1>2, Zenon DEF FilesInv, TypeOK
<1>4. TypeOK'
  BY <1>1, <1>2, <1>3, Zenon DEF FilesInv, TypeOK, outside
<1>5. ASSUME NEW g \in File \ {f} PROVE Refs(g)' = Refs(g)
  <2>0. g # f /\ fd_table[t][n] # g
    BY <1>1, <1>5, NullIsNoFile, Zenon
  <2>1. \A a \in Task, d \in Fd : fd_table'[a][d] = g <=> fd_table[a][d] = g
    BY <1>3, <2>0, Zenon
  <2>2. \A r \in Task \X Fd : r \in Refs(g)' <=> r \in Refs(g)
    BY <2>1, ZenonT(60) DEF Refs
  <2> QED BY <2>2, Zenon DEF Refs
<1>6. Refs(f)' = {<<t, n>>}
  <2>1. Refs(f) = {}
    BY <1>1, Zenon DEF FilesInv, RefcountOK
  <2>2. \A a \in Task, d \in Fd : fd_table[a][d] # f
    <3>1. \A a \in Task, d \in Fd : <<a, d>> \notin Refs(f)
      BY <2>1, Zenon
    <3> QED BY <3>1, Zenon DEF Refs
  <2>3. \A a \in Task, d \in Fd : fd_table'[a][d] = f <=> a = t /\ d = n
    BY <1>3, <2>2, Zenon
  <2>4. \A r \in Task \X Fd : r \in Refs(f)' <=> r = <<t, n>>
    BY <2>3 DEF Refs
  <2> QED BY <1>1, <2>4, Zenon DEF Refs
<1>7. RefcountOK'
  <2>1. Cardinality(Refs(f)') = 1
    BY <1>6, FS_Singleton, Zenon
  <2>2. CountOK(f)'
    <3>1. stray'[f] = 0
      BY <1>1, Zenon DEF FilesInv, RefcountOK, outside
    <3>2. ops'[f] # "none" /\ refcount'[f] = 1
      BY <1>1, Zenon DEF FilesInv, TypeOK
    <3> QED BY <2>1, <3>1, <3>2 DEF CountOK
  <2>3. ASSUME NEW g \in File \ {f} PROVE CountOK(g)'
    <3>1. ops'[g] = ops[g] /\ refcount'[g] = refcount[g]
      BY <1>1, Zenon DEF FilesInv, TypeOK
    <3> QED BY <1>5, <3>1, Zenon DEF FilesInv, RefcountOK, CountOK, outside
  <2> QED BY <2>2, <2>3, Zenon DEF RefcountOK, CountOK
<1>8. PipeRefsOK'
  <2>1. ASSUME NEW e \in {"pipe_read", "pipe_write"}, NEW i \in Pipe
        PROVE EndsIn(File, e, i)' = EndsIn(File, e, i)
    BY <1>1, <1>2, Zenon DEF EndsIn, FilesInv, TypeOK
  <2> QED BY <1>2, <2>1, Zenon DEF FilesInv, PipeRefsOK
<1>9. SlotsOK'
  <2>1. \A a \in Task : status'[a] = "none" => \A d \in Fd : fd_table'[a][d] = NULL
    BY <1>1, <1>2, <1>3, ZenonT(60) DEF FilesInv, SlotsOK
  <2>2. \A g \in File : ops'[g] \in {"pipe_read", "pipe_write"}
                          => private_data'[g] \in Pipe
    BY <1>1, <1>2, Zenon DEF FilesInv, SlotsOK, TypeOK
  <2> QED BY <2>1, <2>2, Zenon DEF SlotsOK
<1> QED BY <1>4, <1>7, <1>8, <1>9, Zenon DEF FilesInv

\* fcntl's F_DUPFD: one reference more to a file that has some.
LEMMA DupFromStep ==
  ASSUME FilesInv, NEW t \in Task, NEW o \in Fd, NEW a \in Fd, DupFrom(t, o, a),
         UNCHANGED outside
  PROVE  FilesInv'
<1>1. PICK f \in File, n \in Fd :
        /\ f = fd_table[t][o] /\ fd_table[t][n] = NULL
        /\ fd_table' = [fd_table EXCEPT ![t][n] = f]
        /\ refcount' = [refcount EXCEPT ![f] = @ + 1]
  <2> DEFINE free == {d \in FreeFds(t) : d >= a}
  <2>1. free # {} /\ free \in SUBSET Nat
    BY NullIsNoFile, Zenon DEF DupFrom, FreeFds
  <2>2. First(free) \in free
    BY <2>1, FirstIn, Zenon
  <2>3. First(free) \in Fd /\ fd_table[t][First(free)] = NULL
    BY <2>2 DEF FreeFds
  <2>4. fd_table[t][o] \in File
    BY DEF DupFrom, FilesInv, TypeOK
  <2> QED BY <2>3, <2>4, Zenon DEF DupFrom
<1>2. /\ status[t] = "live"
      /\ UNCHANGED <<status, ops, private_data, pipe_used, read_refs, write_refs>>
  BY Zenon DEF DupFrom, Live, pipes
<1>3. /\ fd_table' \in [Task -> [Fd -> File \cup {NULL}]]
      /\ \A b \in Task, d \in Fd :
           fd_table'[b][d] = IF b = t /\ d = n THEN f ELSE fd_table[b][d]
  BY <1>1, Zenon DEF FilesInv, TypeOK
<1>4. refcount' \in [File -> Nat]
  BY <1>1 DEF FilesInv, TypeOK
<1>5. TypeOK'
  BY <1>2, <1>3, <1>4, Zenon DEF FilesInv, TypeOK, outside
<1>6. ASSUME NEW g \in File
      PROVE  Refs(g)' = Refs(g) \cup (IF g = f THEN {<<t, n>>} ELSE {})
  <2>1. \A b \in Task, d \in Fd :
          fd_table'[b][d] = g <=> \/ fd_table[b][d] = g
                                  \/ g = f /\ b = t /\ d = n
    BY <1>1, <1>3, NullIsNoFile
  <2>2. \A r \in Task \X Fd :
          r \in Refs(g)' <=> r \in Refs(g) \/ (g = f /\ r = <<t, n>>)
    BY <2>1 DEF Refs
  <2> QED BY <2>2, Zenon DEF Refs
<1>7. /\ <<t, n>> \notin Refs(f) /\ <<t, o>> \in Refs(f)
  BY <1>1, NullIsNoFile, Zenon DEF Refs
<1>8. Cardinality(Refs(f)') = Cardinality(Refs(f)) + 1
  <2>1. Refs(f)' = Refs(f) \cup {<<t, n>>}
    BY <1>6, Zenon
  <2>2. IsFiniteSet(Refs(f))
    BY Finite, Zenon
  <2>3. Cardinality(Refs(f) \cup {<<t, n>>}) = Cardinality(Refs(f)) + 1
    BY <1>7, <2>2, FS_AddElement, Zenon
  <2> QED BY <2>1, <2>3, Zenon
<1>9. RefcountOK'
  <2>1. ops[f] # "none" /\ refcount[f] > 0
        /\ refcount[f] = Cardinality(Refs(f)) + stray[f]
    BY <1>7, Zenon DEF FilesInv, RefcountOK
  <2>2. CountOK(f)'
    <3>1. refcount'[f] = refcount[f] + 1 /\ stray[f] \in Nat /\ refcount[f] \in Nat
      BY <1>1, Zenon DEF FilesInv, TypeOK
    <3>2. Cardinality(Refs(f)) \in Nat
      BY Finite, FS_CardinalityType, Zenon
    <3> QED BY <1>2, <1>8, <2>1, <3>1, <3>2 DEF CountOK, outside
  <2>3. ASSUME NEW g \in File \ {f} PROVE CountOK(g)'
    <3>1. refcount'[g] = refcount[g]
      BY <1>1, Zenon DEF FilesInv, TypeOK
    <3>2. Refs(g)' = Refs(g)
      BY <1>6, Zenon
    <3> QED BY <1>2, <3>1, <3>2, Zenon DEF FilesInv, RefcountOK, CountOK, outside
  <2> QED BY <2>2, <2>3, Zenon DEF RefcountOK, CountOK
<1>10. PipeRefsOK'
  <2>1. ASSUME NEW e, NEW i \in Pipe
        PROVE EndsIn(File, e, i)' = EndsIn(File, e, i)
    BY <1>2, Zenon DEF EndsIn
  <2> QED BY <1>2, <2>1, Zenon DEF FilesInv, PipeRefsOK
<1>11. SlotsOK'
  BY <1>2, <1>3, ZenonT(60) DEF FilesInv, SlotsOK
<1> QED BY <1>5, <1>9, <1>10, <1>11 DEF FilesInv

\* F_DUPFD with a negative minimum: one reference more that no descriptor
\* holds, or the model stops.
LEMMA DupBelowStep ==
  ASSUME FilesInv, NEW t \in Task, NEW o \in Fd, DupBelow(t, o)
  PROVE  FilesInv'
<1>1. PICK f \in File : f = fd_table[t][o]
  BY DEF DupBelow, FilesInv, TypeOK
<1>2. UNCHANGED <<status, fd_table, ops, private_data, pipe_used, read_refs, write_refs>>
  BY Zenon DEF DupBelow, pipes
<1>3. /\ private_data \in [File -> Inode \cup Pipe \cup {NULL}]
      /\ refcount \in [File -> Nat] /\ stray \in [File -> Nat] /\ wild \in BOOLEAN
      /\ status \in [Task -> {"none", "live", "dead", "lost"}]
  BY Zenon DEF FilesInv, TypeOK
<1>4. CASE wild' = TRUE /\ UNCHANGED <<refcount, stray>>
  BY <1>2, <1>3, <1>4, QuietStep, Zenon
<1>5. CASE /\ refcount' = [refcount EXCEPT ![f] = @ + 1]
           /\ stray' = [stray EXCEPT ![f] = @ + 1]
           /\ UNCHANGED wild
  <2>1. \A g : Refs(g)' = Refs(g)
    BY <1>2, Zenon DEF Refs
  <2>2. ops[f] # "none"
    <3>1. <<t, o>> \in Refs(f)
      BY <1>1, Zenon DEF Refs
    <3> QED BY <3>1, Zenon DEF FilesInv, RefcountOK
  <2>3. ASSUME NEW g \in File PROVE CountOK(g)'
    <3>1. /\ refcount'[g] = IF g = f THEN refcount[g] + 1 ELSE refcount[g]
          /\ stray'[g] = IF g = f THEN stray[g] + 1 ELSE stray[g]
      BY <1>3, <1>5, Zenon
    <3>2. Cardinality(Refs(g)) \in Nat /\ stray[g] \in Nat /\ refcount[g] \in Nat
      BY <1>3, Finite, FS_CardinalityType, Zenon
    <3>3. CountOK(g)
      BY Zenon DEF FilesInv, RefcountOK, CountOK
    <3> QED BY <1>2, <2>1, <2>2, <3>1, <3>2, <3>3 DEF CountOK
  <2>4. RefcountOK'
    BY <2>3, Zenon DEF RefcountOK, CountOK
  <2>5. refcount' \in [File -> Nat] /\ stray' \in [File -> Nat]
    BY <1>3, <1>5
  <2>6. TypeOK'
    BY <1>2, <1>5, <2>5, Zenon DEF FilesInv, TypeOK
  <2>7. PipeRefsOK'
    <3>1. ASSUME NEW e, NEW i \in Pipe
          PROVE EndsIn(File, e, i)' = EndsIn(File, e, i)
      BY <1>2, Zenon DEF EndsIn
    <3> QED BY <1>2, <3>1, Zenon DEF FilesInv, PipeRefsOK
  <2>8. SlotsOK'
    BY <1>2, Zenon DEF FilesInv, SlotsOK
  <2> QED BY <2>4, <2>6, <2>7, <2>8, Zenon DEF FilesInv
<1> QED BY <1>1, <1>4, <1>5 DEF DupBelow

\* task_fork: the child's references are added to every count.
LEMMA InheritStep ==
  ASSUME FilesInv, NEW t \in Task, NEW c \in Task, NEW s \in {"live", "lost"},
         Inherit(t, c, s), UNCHANGED outside
  PROVE  FilesInv'
<1>1. /\ status[t] = "live" /\ status[c] = "none"
      /\ fd_table' = [fd_table EXCEPT ![c] = fd_table[t]]
      /\ refcount' = [f \in File |->
           refcount[f] + Cardinality({d \in Fd : fd_table[t][d] = f})]
      /\ status' = [status EXCEPT ![c] = s]
      /\ UNCHANGED <<ops, private_data, pipe_used, read_refs, write_refs>>
  <2>1. First(FreeTasks) \in FreeTasks
    BY FirstIn, NullIsNoFile, Zenon DEF FreeTasks, Inherit
  <2> QED BY <2>1, Zenon DEF Inherit, FreeTasks, Live, pipes
<1>2. /\ fd_table' \in [Task -> [Fd -> File \cup {NULL}]]
      /\ \A b \in Task, d \in Fd :
           fd_table'[b][d] = IF b = c THEN fd_table[t][d] ELSE fd_table[b][d]
  BY <1>1, Zenon DEF FilesInv, TypeOK
<1>3. ASSUME NEW f \in File
      PROVE  LET S == {d \in Fd : fd_table[t][d] = f}
             IN  /\ Refs(f)' = Refs(f) \cup ({c} \X S)
                 /\ Cardinality(Refs(f)') = Cardinality(Refs(f)) + Cardinality(S)
                 /\ Cardinality(S) \in Nat
                 /\ S # {} => Refs(f) # {}
  <2> DEFINE S == {d \in Fd : fd_table[t][d] = f}
             K == {c} \X S
  <2>1. \A d \in Fd : fd_table[c][d] = NULL
    BY <1>1, Zenon DEF FilesInv, SlotsOK
  <2>2. \A b \in Task, d \in Fd :
          fd_table'[b][d] = f <=> fd_table[b][d] = f \/ (b = c /\ d \in S)
    BY <1>2, <2>1, NullIsNoFile
  <2>3. \A r \in Task \X Fd : r \in Refs(f)' <=> r \in Refs(f) \/ r \in K
    BY <2>2, ZenonT(60) DEF Refs
  <2>4. K \in SUBSET (Task \X Fd)
    BY Zenon
  <2>5. Refs(f)' = Refs(f) \cup K
    BY <2>3, <2>4, Zenon DEF Refs
  <2>6. Refs(f) \cap K = {}
    BY <2>1, NullIsNoFile, Zenon DEF Refs
  <2>7. IsFiniteSet(S)
    <3>1. S \in SUBSET Fd
      BY Zenon
    <3> QED BY <3>1, Finite, FS_Subset, Zenon
  <2>8. ASSUME NEW d \in S PROVE <<t, d>> \in Refs(f)
    BY Zenon DEF Refs
  <2>9. S # {} => Refs(f) # {}
    BY <2>8, Zenon
  <2> HIDE DEF S
  <2>10. IsFiniteSet(K) /\ Cardinality(K) = Cardinality(S) /\ Cardinality(S) \in Nat
    BY <2>7, OneTask, FS_CardinalityType, Zenon
  <2> HIDE DEF K
  <2>11. Cardinality(Refs(f) \cup K)
           = Cardinality(Refs(f)) + Cardinality(K) - Cardinality(Refs(f) \cap K)
    BY <2>10, Finite, FS_Union, Zenon
  <2>12. Cardinality(Refs(f) \cap K) = 0 /\ Cardinality(Refs(f)) \in Nat
    BY <2>6, Finite, FS_EmptySet, FS_CardinalityType, Zenon
  <2>13. Cardinality(Refs(f) \cup K) = Cardinality(Refs(f)) + Cardinality(S)
    BY <2>10, <2>11, <2>12
  <2> QED BY <2>5, <2>9, <2>10, <2>13, Zenon DEF S, K
<1>4. refcount' \in [File -> Nat]
  <2>1. ASSUME NEW f \in File PROVE refcount'[f] \in Nat
    <3>1. Cardinality({d \in Fd : fd_table[t][d] = f}) \in Nat
      BY <1>3
    <3>2. refcount[f] \in Nat
      BY Zenon DEF FilesInv, TypeOK
    <3>3. refcount'[f] = refcount[f] + Cardinality({d \in Fd : fd_table[t][d] = f})
      BY <1>1, Zenon
    <3> QED BY <3>1, <3>2, <3>3
  <2>2. refcount' = [f \in File |-> refcount'[f]]
    BY <1>1, Zenon
  <2> QED BY <2>1, <2>2, Zenon
<1>5. TypeOK'
  BY <1>1, <1>2, <1>4, Zenon DEF FilesInv, TypeOK, outside
<1>6. RefcountOK'
  <2>1. ASSUME NEW f \in File PROVE CountOK(f)'
    <3> DEFINE S == {d \in Fd : fd_table[t][d] = f}
    <3>1. /\ Refs(f)' = Refs(f) \cup ({c} \X S)
          /\ Cardinality(Refs(f)') = Cardinality(Refs(f)) + Cardinality(S)
          /\ Cardinality(S) \in Nat
          /\ S # {} => Refs(f) # {}
      BY <1>3, Zenon
    <3>2. refcount'[f] = refcount[f] + Cardinality(S)
      BY <1>1, Zenon
    <3> HIDE DEF S
    <3>3. CASE ops[f] = "none"
      <4>1. Refs(f) = {} /\ stray[f] = 0
        BY <3>3 DEF FilesInv, RefcountOK
      <4>2. S = {}
        BY <3>1, <4>1, Zenon
      <4>3. Refs(f)' = {}
        BY <3>1, <4>1, <4>2, Zenon
      <4> QED BY <1>1, <3>3, <4>1, <4>3, Zenon DEF CountOK, outside
    <3>4. CASE ops[f] # "none"
      <4>1. refcount[f] > 0 /\ refcount[f] = Cardinality(Refs(f)) + stray[f]
        BY <3>4, Zenon DEF FilesInv, RefcountOK
      <4>2. Cardinality(Refs(f)) \in Nat /\ stray[f] \in Nat /\ refcount[f] \in Nat
        BY Finite, FS_CardinalityType DEF FilesInv, TypeOK
      <4> QED BY <1>1, <3>1, <3>2, <3>4, <4>1, <4>2 DEF CountOK, outside
    <3> QED BY <3>3, <3>4, Zenon
  <2> QED BY <2>1, Zenon DEF RefcountOK, CountOK
<1>7. PipeRefsOK'
  <2>1. ASSUME NEW e, NEW i \in Pipe
        PROVE EndsIn(File, e, i)' = EndsIn(File, e, i)
    BY <1>1, Zenon DEF EndsIn
  <2> QED BY <1>1, <2>1, ZenonT(60) DEF FilesInv, PipeRefsOK
<1>8. SlotsOK'
  BY <1>1, <1>2, ZenonT(60) DEF FilesInv, SlotsOK, TypeOK
<1> QED BY <1>5, <1>6, <1>7, <1>8, Zenon DEF FilesInv

\* sys_pipe: a free pipe gets two free files, and each of these one reference.
LEMMA MakePipeStep ==
  ASSUME FilesInv, NEW t \in Task, MakePipe(t), UNCHANGED outside
  PROVE  FilesInv'
<1>1. PICK i \in Pipe, f \in File, g \in File, n \in Fd, m \in Fd :
        /\ f # g /\ n # m /\ ~pipe_used[i]
        /\ ops[f] = "none" /\ ops[g] = "none"
        /\ fd_table[t][n] = NULL /\ fd_table[t][m] = NULL
        /\ ops' = [ops EXCEPT ![f] = "pipe_read", ![g] = "pipe_write"]
        /\ private_data' = [private_data EXCEPT ![f] = i, ![g] = i]
        /\ refcount' = [refcount EXCEPT ![f] = 1, ![g] = 1]
        /\ fd_table' = [fd_table EXCEPT ![t][n] = f, ![t][m] = g]
        /\ pipe_used' = [pipe_used EXCEPT ![i] = TRUE]
        /\ read_refs' = [read_refs EXCEPT ![i] = 1]
        /\ write_refs' = [write_refs EXCEPT ![i] = 1]
  <2> DEFINE i == First(FreePipes)
             f == First(FreeFiles)
             g == First(FreeFiles \ {f})
             n == First(FreeFds(t))
             m == First(FreeFds(t) \ {n})
  <2>1. i \in Pipe /\ ~pipe_used[i]
    BY FreeEntries, Zenon DEF MakePipe
  <2>2. f \in FreeFiles /\ g \in FreeFiles /\ f # g
    <3>1. FreeFiles \in SUBSET File
      BY Zenon DEF FreeFiles
    <3>2. FreeFiles \in SUBSET Nat /\ IsFiniteSet(FreeFiles)
      BY <3>1, NullIsNoFile, Finite, FS_Subset, Zenon
    <3> QED BY <3>2, TwoFirst, Zenon DEF MakePipe
  <2>3. n \in FreeFds(t) /\ m \in FreeFds(t) /\ n # m
    <3>1. FreeFds(t) \in SUBSET Fd
      BY Zenon DEF FreeFds
    <3>2. FreeFds(t) \in SUBSET Nat /\ IsFiniteSet(FreeFds(t))
      BY <3>1, NullIsNoFile, Finite, FS_Subset, Zenon
    <3> QED BY <3>2, TwoFirst, Zenon DEF MakePipe
  <2>4. /\ f \in File /\ g \in File /\ ops[f] = "none" /\ ops[g] = "none"
        /\ n \in Fd /\ m \in Fd
        /\ fd_table[t][n] = NULL /\ fd_table[t][m] = NULL
    BY <2>2, <2>3, Zenon DEF FreeFiles, FreeFds
  <2>5. /\ ops' = [ops EXCEPT ![f] = "pipe_read", ![g] = "pipe_write"]
        /\ private_data' = [private_data EXCEPT ![f] = i, ![g] = i]
        /\ refcount' = [refcount EXCEPT ![f] = 1, ![g] = 1]
        /\ fd_table' = [fd_table EXCEPT ![t][n] = f, ![t][m] = g]
        /\ pipe_used' = [pipe_used EXCEPT ![i] = TRUE]
        /\ read_refs' = [read_refs EXCEPT ![i] = 1]
        /\ write_refs' = [write_refs EXCEPT ![i] = 1]
    BY Zenon DEF MakePipe
  <2> HIDE DEF i, f, g, n, m
  <2> QED BY <2>1, <2>2, <2>3, <2>4, <2>5
<1>2. status[t] = "live" /\ status' = status
  BY Zenon DEF MakePipe, Live
<1>3. /\ fd_table' \in [Task -> [Fd -> File \cup {NULL}]]
      /\ \A a \in Task, d \in Fd :
           fd_table'[a][d] = IF a = t /\ d = n THEN f
                             ELSE IF a = t /\ d = m THEN g
                             ELSE fd_table[a][d]
  BY <1>1, Zenon DEF FilesInv, TypeOK
<1>4. /\ \A h \in File : ops'[h] = IF h = f THEN "pipe_read"
                                   ELSE IF h = g THEN "pipe_write" ELSE ops[h]
      /\ \A h \in File : private_data'[h] = IF h \in {f, g} THEN i
                                            ELSE private_data[h]
      /\ \A h \in File : refcount'[h] = IF h \in {f, g} THEN 1 ELSE refcount[h]
  BY <1>1, Zenon DEF FilesInv, TypeOK
<1>5. TypeOK'
  <2>1. ops' \in [File -> {"none", "file", "pipe_read", "pipe_write"}]
    BY <1>1, Zenon DEF FilesInv, TypeOK
  <2>2. private_data' \in [File -> Inode \cup Pipe \cup {NULL}]
    BY <1>1, Zenon DEF FilesInv, TypeOK
  <2>3. refcount' \in [File -> Nat]
    BY <1>1, Zenon DEF FilesInv, TypeOK
  <2>4. pipe_used' \in [Pipe -> BOOLEAN]
    BY <1>1, Zenon DEF FilesInv, TypeOK
  <2>5. read_refs' \in [Pipe -> 0 .. 1] /\ write_refs' \in [Pipe -> 0 .. 1]
    BY <1>1 DEF FilesInv, TypeOK
  <2> QED BY <1>2, <1>3, <2>1, <2>2, <2>3, <2>4, <2>5, Zenon DEF FilesInv, TypeOK, outside
<1>6. ASSUME NEW h \in File
      PROVE  Refs(h)' = IF h = f THEN {<<t, n>>}
                        ELSE IF h = g THEN {<<t, m>>} ELSE Refs(h)
  <2>1. \A a \in Task, d \in Fd : fd_table[a][d] # f /\ fd_table[a][d] # g
    <3>1. Refs(f) = {} /\ Refs(g) = {}
      BY <1>1, Zenon DEF FilesInv, RefcountOK
    <3>2. \A a \in Task, d \in Fd : <<a, d>> \notin Refs(f) /\ <<a, d>> \notin Refs(g)
      BY <3>1, Zenon
    <3> QED BY <3>2, Zenon DEF Refs
  <2>2. \A a \in Task, d \in Fd :
          fd_table'[a][d] = h <=> IF h = f THEN a = t /\ d = n
                                  ELSE IF h = g THEN a = t /\ d = m
                                  ELSE fd_table[a][d] = h
    BY <1>1, <1>3, <2>1, NullIsNoFile
  <2>3. \A r \in Task \X Fd :
          r \in Refs(h)' <=> IF h = f THEN r = <<t, n>>
                             ELSE IF h = g THEN r = <<t, m>> ELSE r \in Refs(h)
    BY <2>2 DEF Refs
  <2> QED BY <2>3, Zenon DEF Refs
<1>7. RefcountOK'
  <2>1. Cardinality({<<t, n>>}) = 1 /\ Cardinality({<<t, m>>}) = 1
    BY FS_Singleton, Zenon
  <2>2. ASSUME NEW h \in File
        PROVE  CountOK(h)'
    <3>4. stray' = stray /\ (ops[h] = "none" => stray[h] = 0)
      BY Zenon DEF FilesInv, RefcountOK, outside
    <3>5. h \in {f, g} => stray'[h] = 0
      BY <1>1, <3>4, Zenon
    <3>1. CASE h = f
      <4>1. /\ ops'[h] # "none" /\ refcount'[h] = 1 /\ stray'[h] = 0
            /\ Cardinality(Refs(h)') = 1
        BY <1>4, <1>6, <2>1, <3>1, <3>5, Zenon
      <4> QED BY <4>1 DEF CountOK
    <3>2. CASE h # f /\ h = g
      <4>1. /\ ops'[h] # "none" /\ refcount'[h] = 1 /\ stray'[h] = 0
            /\ Cardinality(Refs(h)') = 1
        BY <1>4, <1>6, <2>1, <3>2, <3>5
      <4> QED BY <4>1 DEF CountOK
    <3>3. CASE h # f /\ h # g
      <4>1. ops'[h] = ops[h] /\ refcount'[h] = refcount[h] /\ Refs(h)' = Refs(h)
        BY <1>4, <1>6, <3>3, Zenon
      <4> QED BY <3>4, <4>1, Zenon DEF FilesInv, RefcountOK, CountOK
    <3> QED BY <3>1, <3>2, <3>3, Zenon
  <2> QED BY <2>2, Zenon DEF RefcountOK, CountOK
<1>8. ASSUME NEW j \in Pipe
      PROVE  LET R == EndsIn(File, "pipe_read", j)'
                 W == EndsIn(File, "pipe_write", j)'
             IN  /\ pipe_used'[j] <=> R \cup W # {}
                 /\ read_refs'[j] = Cardinality(R) /\ Cardinality(R) <= 1
                 /\ write_refs'[j] = Cardinality(W) /\ Cardinality(W) <= 1
  <2>1. EndsIn(File, "pipe_read", j)'
          = {h \in File : ops'[h] = "pipe_read" /\ private_data'[h] = j}
    BY Zenon DEF EndsIn
  <2>2. EndsIn(File, "pipe_write", j)'
          = {h \in File : ops'[h] = "pipe_write" /\ private_data'[h] = j}
    BY Zenon DEF EndsIn
  <2>3. CASE j = i
    <3>1. EndsIn(File, "pipe_read", j) = {} /\ EndsIn(File, "pipe_write", j) = {}
      BY <1>1, <2>3, FreePipe, Zenon
    <3>2. EndsIn(File, "pipe_read", j)' = {f}
      <4>1. \A h \in File : ~(ops[h] = "pipe_read" /\ private_data[h] = j)
        BY <3>1, Zenon DEF EndsIn
      <4>2. \A h \in File :
              (ops'[h] = "pipe_read" /\ private_data'[h] = j) <=> h = f
        <5>1. f # g
          BY <1>1, Zenon
        <5> SUFFICES ASSUME NEW h \in File
                     PROVE  (ops'[h] = "pipe_read" /\ private_data'[h] = j)
                              <=> h = f
          BY Zenon
        <5>2. CASE h = f
          BY <1>4, <2>3, <5>1, <5>2, Zenon
        <5>3. CASE h = g
          BY <1>4, <2>3, <5>1, <5>3, Zenon
        <5>4. CASE h # f /\ h # g
          BY <1>4, <4>1, <5>4, Zenon
        <5> QED BY <5>2, <5>3, <5>4, Zenon
      <4> QED BY <2>1, <4>2, Zenon
    <3>3. EndsIn(File, "pipe_write", j)' = {g}
      <4>1. \A h \in File : ~(ops[h] = "pipe_write" /\ private_data[h] = j)
        BY <3>1, Zenon DEF EndsIn
      <4>2. \A h \in File :
              (ops'[h] = "pipe_write" /\ private_data'[h] = j) <=> h = g
        <5>1. f # g
          BY <1>1
        <5> SUFFICES ASSUME NEW h \in File
                     PROVE  (ops'[h] = "pipe_write" /\ private_data'[h] = j)
                              <=> h = g
          BY Zenon
        <5>2. CASE h = f
          BY <1>4, <2>3, <5>1, <5>2, Zenon
        <5>3. CASE h = g
          BY <1>4, <2>3, <5>1, <5>3, Zenon
        <5>4. CASE h # f /\ h # g
          BY <1>4, <4>1, <5>4, Zenon
        <5> QED BY <5>2, <5>3, <5>4, Zenon
      <4> QED BY <2>2, <4>2, Zenon
    <3>4. Cardinality({f}) = 1 /\ Cardinality({g}) = 1
      BY FS_Singleton, Zenon
    <3>5. pipe_used'[j] /\ read_refs'[j] = 1 /\ write_refs'[j] = 1
      BY <1>1, <2>3, Zenon DEF FilesInv, TypeOK
    <3> QED BY <3>2, <3>3, <3>4, <3>5
  <2>4. CASE j # i
    <3>1. EndsIn(File, "pipe_read", j)' = EndsIn(File, "pipe_read", j)
      <4>1. \A h \in File :
              (ops'[h] = "pipe_read" /\ private_data'[h] = j)
                <=> (ops[h] = "pipe_read" /\ private_data[h] = j)
        BY <1>1, <1>4, <2>4, ZenonT(60)
      <4> QED BY <2>1, <4>1, Zenon DEF EndsIn
    <3>2. EndsIn(File, "pipe_write", j)' = EndsIn(File, "pipe_write", j)
      <4>1. \A h \in File :
              (ops'[h] = "pipe_write" /\ private_data'[h] = j)
                <=> (ops[h] = "pipe_write" /\ private_data[h] = j)
        BY <1>1, <1>4, <2>4, ZenonT(60)
      <4> QED BY <2>2, <4>1, Zenon DEF EndsIn
    <3>3. /\ pipe_used'[j] = pipe_used[j]
          /\ read_refs'[j] = read_refs[j] /\ write_refs'[j] = write_refs[j]
      BY <1>1, <2>4, Zenon DEF FilesInv, TypeOK
    <3> QED BY <3>1, <3>2, <3>3, Zenon DEF FilesInv, PipeRefsOK
  <2> QED BY <2>3, <2>4
<1>9. PipeRefsOK'
  BY <1>8, Zenon DEF PipeRefsOK
<1>10. SlotsOK'
  <2>1. \A a \in Task : status'[a] = "none" => \A d \in Fd : fd_table'[a][d] = NULL
    BY <1>2, <1>3, ZenonT(60) DEF FilesInv, SlotsOK
  <2>2. \A h \in File : ops'[h] \in {"pipe_read", "pipe_write"}
                          => private_data'[h] \in Pipe
    BY <1>4, Zenon DEF FilesInv, SlotsOK
  <2> QED BY <2>1, <2>2, Zenon DEF SlotsOK
<1> QED BY <1>5, <1>7, <1>9, <1>10, Zenon DEF FilesInv

\* Every system call and task event keeps the invariant.
LEMMA FilesInvInductive == FilesInv /\ [Next]_vars => FilesInv'
<1> SUFFICES ASSUME FilesInv, [Next]_vars PROVE FilesInv'
  BY Zenon
<1>1. /\ private_data \in [File -> Inode \cup Pipe \cup {NULL}]
      /\ refcount \in [File -> Nat]
      /\ status \in [Task -> {"none", "live", "dead", "lost"}]
      /\ wild \in BOOLEAN
  BY Zenon DEF FilesInv, TypeOK
<1>2. CASE UNCHANGED vars
  BY <1>1, <1>2, QuietStep, Zenon DEF vars, files, pipes, outside
<1>3. ASSUME NEW t \in Task, Call(t), UNCHANGED outside PROVE FilesInv'
  <2>1. ASSUME NEW x \in Inode, Open(t, x) PROVE FilesInv'
    BY <1>3, <2>1, OpenStep, Zenon
  <2>2. ASSUME NEW x \in Inode, OpenNoFd(t, x) PROVE FilesInv'
    BY <1>3, <2>2, FailureSteps, Zenon
  <2>3. ASSUME NEW d \in Fd, Close(t, d) PROVE FilesInv'
    <3>1. fd_table' = [fd_table EXCEPT ![t] =
                         [e \in Fd |-> IF e \in {d} THEN NULL ELSE @[e]]]
      BY <2>3, Zenon DEF Close, FilesInv, TypeOK
    <3>2. {d} \in SUBSET Fd /\ \A e \in {d} : fd_table[t][e] # NULL
      BY <2>3, Zenon DEF Close
    <3> QED BY <1>3, <2>3, <3>1, <3>2, DropStep, Zenon DEF Close
  <2>4. ASSUME NEW o \in Fd, NEW n \in Fd, Dup2(t, o, n) PROVE FilesInv'
    BY <1>3, <2>4, Dup2Step, Zenon
  <2>5. ASSUME NEW o \in Fd, NEW n \in Fd, DupFrom(t, o, n) PROVE FilesInv'
    BY <1>3, <2>5, DupFromStep, Zenon
  <2>6. ASSUME NEW o \in Fd, Dup(t, o) PROVE FilesInv'
    <3>1. First(FreeFds(t)) \in Fd
      BY <2>6, FreeEntries, Zenon DEF Dup
    <3> QED BY <1>3, <2>6, <3>1, Dup2Step, Zenon DEF Dup
  <2>7. CASE MakePipe(t)
    BY <1>3, <2>7, MakePipeStep, Zenon
  <2>8. CASE PipeNoFile(t) \/ PipeOneFile(t) \/ PipeNoFd(t)
    <3>1. PICK x \in Inode : TRUE
      BY FilesAssumption, Zenon
    <3> QED BY <1>3, <2>8, <3>1, FailureSteps, Zenon
  <2>9. ASSUME NEW c \in Task, Fork(t, c) \/ ForkFail(t, c) PROVE FilesInv'
    BY <1>3, <2>9, InheritStep, Zenon DEF Fork, ForkFail
  <2>10. CASE Exit(t)
    <3> DEFINE D == {d \in Fd : fd_table[t][d] # NULL}
    <3>1. fd_table' = [fd_table EXCEPT ![t] =
                         [d \in Fd |-> IF d \in D THEN NULL ELSE @[d]]]
      BY <2>10, Zenon DEF Exit, FilesInv, TypeOK
    <3>2. D \in SUBSET Fd /\ \A d \in D : fd_table[t][d] # NULL
      BY Zenon
    <3>3. /\ Live(t) /\ refcount' = Count(t, D) /\ CloseFiles(Released(t, D))
          /\ status' = [status EXCEPT ![t] = "dead"]
      BY <2>10, Zenon DEF Exit
    <3> HIDE DEF D
    <3> QED BY <1>3, <3>1, <3>2, <3>3, DropStep, Zenon
  <2>11. CASE Kill(t)
    BY <1>1, <1>3, <2>11, QuietStep, Zenon DEF Kill, files, pipes, outside
  <2> QED BY <1>3, <2>1, <2>2, <2>3, <2>4, <2>5, <2>6, <2>7, <2>8, <2>9,
             <2>10, <2>11, Zenon DEF Call
<1>4. ASSUME NEW t \in Task, NEW o \in Fd, DupBelow(t, o) PROVE FilesInv'
  BY <1>4, DupBelowStep, Zenon
<1> QED BY <1>2, <1>3, <1>4, Zenon DEF Next

\* The counts of files and pipes are right in every reachable state, for
\* tables of every size and whatever the tasks do.
THEOREM FilesInvariant == Spec => []FilesInv
BY InitInv, FilesInvInductive, PTL DEF Spec

\* A file is open exactly as long as some descriptor names it or F_DUPFD has
\* stored it outside the tables, and refcount is the number of both: nothing
\* but F_DUPFD with a negative minimum counts a reference that is never given
\* back, and nothing forgets to count one.
THEOREM RefcountCorrect == Spec => []RefcountOK
<1>1. FilesInv => RefcountOK
  BY Zenon DEF FilesInv
<1> QED BY <1>1, FilesInvariant, PTL

\* A pipe is allocated exactly as long as one of its files is open.
THEOREM PipeRefsCorrect == Spec => []PipeRefsOK
<1>1. FilesInv => PipeRefsOK
  BY Zenon DEF FilesInv
<1> QED BY <1>1, FilesInvariant, PTL
-----------------------------------------------------------------------------
(* What a step does to an open file *)

\* A file that is open before and after a step is the same file: only free
\* entries of vfs_open_files are handed out, and closing frees the entry.
LEMMA OpenFileKept ==
  ASSUME FilesInv, [Next]_vars, NEW f \in File,
         ops[f] # "none", ops'[f] # "none"
  PROVE  ops'[f] = ops[f] /\ private_data'[f] = private_data[f]
<1>1. CASE UNCHANGED vars
  BY <1>1, Zenon DEF vars, files
<1>2. ASSUME NEW R, CloseFiles(R)
      PROVE  ops'[f] = ops[f] /\ private_data'[f] = private_data[f]
  BY <1>2, Zenon DEF CloseFiles
<1>3. FreeFiles # {} => First(FreeFiles) \in FreeFiles
  BY FreeEntries, Zenon DEF FreeFiles
<1>4. Cardinality(FreeFiles) >= 2 =>
        First(FreeFiles) # f /\ First(FreeFiles \ {First(FreeFiles)}) # f
  <2>1. FreeFiles \in SUBSET File
    BY Zenon DEF FreeFiles
  <2>2. FreeFiles \in SUBSET Nat /\ IsFiniteSet(FreeFiles)
    BY <2>1, NullIsNoFile, Finite, FS_Subset, Zenon
  <2>3. f \notin FreeFiles
    BY Zenon DEF FreeFiles
  <2> QED BY <2>2, <2>3, TwoFirst
<1>5. FreeFiles # {} => First(FreeFiles) # f
  BY <1>3, Zenon DEF FreeFiles
<1>6. ops \in [File -> {"none", "file", "pipe_read", "pipe_write"}]
      /\ private_data \in [File -> Inode \cup Pipe \cup {NULL}]
  BY Zenon DEF FilesInv, TypeOK
<1>7. ASSUME NEW t \in Task, Call(t)
      PROVE  ops'[f] = ops[f] /\ private_data'[f] = private_data[f]
  <2>1. ASSUME NEW x \in Inode, Open(t, x) \/ OpenNoFd(t, x)
        PROVE  ops'[f] = ops[f] /\ private_data'[f] = private_data[f]
    BY <1>5, <1>6, <2>1, Zenon DEF Open, OpenNoFd
  <2>2. ASSUME NEW d \in Fd, Close(t, d)
        PROVE  ops'[f] = ops[f] /\ private_data'[f] = private_data[f]
    BY <1>2, <2>2, Zenon DEF Close
  <2>3. ASSUME NEW o \in Fd, NEW n, Dup2(t, o, n)
        PROVE  ops'[f] = ops[f] /\ private_data'[f] = private_data[f]
    BY <1>2, <2>3, Zenon DEF Dup2
  <2>4. ASSUME NEW o \in Fd, NEW n \in Fd, DupFrom(t, o, n)
        PROVE  ops'[f] = ops[f] /\ private_data'[f] = private_data[f]
    BY <2>4, Zenon DEF DupFrom
  <2>5. ASSUME NEW o \in Fd, Dup(t, o)
        PROVE  ops'[f] = ops[f] /\ private_data'[f] = private_data[f]
    BY <2>3, <2>5, Zenon DEF Dup
  <2>6. CASE MakePipe(t)
    BY <1>4, <1>6, <2>6, Zenon DEF MakePipe
  <2>7. CASE PipeNoFile(t)
    BY <2>7, Zenon DEF PipeNoFile, files
  <2>8. CASE PipeOneFile(t)
    <3>1. FreeFiles # {}
      <4>1. Cardinality(FreeFiles) = 1
        BY <2>8, Zenon DEF PipeOneFile
      <4>2. Cardinality({}) = 0
        BY FS_EmptySet, Zenon
      <4> QED BY <4>1, <4>2
    <3> QED BY <1>5, <1>6, <2>8, <3>1, Zenon DEF PipeOneFile
  <2>9. CASE PipeNoFd(t)
    BY <1>4, <1>6, <2>9, Zenon DEF PipeNoFd
  <2>10. ASSUME NEW c \in Task, Fork(t, c) \/ ForkFail(t, c)
         PROVE  ops'[f] = ops[f] /\ private_data'[f] = private_data[f]
    BY <2>10, Zenon DEF Fork, ForkFail, Inherit
  <2>11. CASE Exit(t)
    BY <1>2, <2>11, Zenon DEF Exit
  <2>12. CASE Kill(t)
    BY <2>12, Zenon DEF Kill, files
  <2> QED BY <1>7, <2>1, <2>2, <2>3, <2>4, <2>5, <2>6, <2>7, <2>8, <2>9,
             <2>10, <2>11, <2>12 DEF Call
<1>8. ASSUME NEW t \in Task, NEW o \in Fd, DupBelow(t, o)
      PROVE  ops'[f] = ops[f] /\ private_data'[f] = private_data[f]
  BY <1>8, Zenon DEF DupBelow
<1> QED BY <1>1, <1>7, <1>8, Zenon DEF Next

\* An open descriptor leads to the same file until it is itself changed: no
\* close, exit, dup2 or reuse of an entry by anyone takes the file away.
THEOREM DescriptorsKeep == Spec => DescriptorsKeepFiles
<1>1. ASSUME FilesInv, FilesInv', [Next]_vars, NEW t \in Task, NEW d \in Fd,
             fd_table[t][d] # NULL, fd_table'[t][d] = fd_table[t][d]
      PROVE  LET f == fd_table[t][d]
             IN  ops'[f] = ops[f] /\ private_data'[f] = private_data[f]
  <2>1. PICK f \in File : f = fd_table[t][d]
    BY <1>1 DEF FilesInv, TypeOK
  <2>2. <<t, d>> \in Refs(f) /\ <<t, d>> \in Refs(f)'
    BY <1>1, <2>1, Zenon DEF Refs
  <2>3. ops[f] # "none"
    BY <1>1, <2>2, Zenon DEF FilesInv, RefcountOK
  <2>4. ops'[f] # "none"
    BY <1>1, <2>2, Zenon DEF FilesInv, RefcountOK
  <2> QED BY <1>1, <2>1, <2>3, <2>4, OpenFileKept, Zenon
<1>2. FilesInv /\ FilesInv' /\ [Next]_vars =>
        [\A t \in Task, d \in Fd :
           LET f == fd_table[t][d]
           IN  (f # NULL /\ fd_table'[t][d] = f)
                 => ops'[f] = ops[f] /\ private_data'[f] = private_data[f]]_vars
  BY <1>1, Zenon
<1> QED BY <1>2, FilesInvariant, PTL DEF Spec, DescriptorsKeepFiles
-----------------------------------------------------------------------------
(* The counted tables implement Descriptors.                                *)

\* A file is free exactly when no descriptor names it and it is not pinned.
LEMMA FreeUnnamed ==
  ASSUME FilesInv, NEW f \in File
  PROVE  f \in Desc!Named(fd_table) \cup Pinned <=> ops[f] # "none"
<1>1. f \in Desc!Named(fd_table) <=> Refs(f) # {}
  BY Zenon DEF Desc!Named, Refs
<1>2. f \in Pinned <=> stray[f] > 0
  BY Zenon DEF Pinned
<1>3. stray[f] \in Nat /\ refcount[f] \in Nat
  BY Zenon DEF FilesInv, TypeOK
<1>4. CASE ops[f] = "none"
  BY <1>1, <1>2, <1>4 DEF FilesInv, RefcountOK
<1>5. CASE ops[f] # "none"
  <2>1. refcount[f] > 0 /\ refcount[f] = Cardinality(Refs(f)) + stray[f]
    BY <1>5, Zenon DEF FilesInv, RefcountOK
  <2>2. Cardinality({}) = 0
    BY FS_EmptySet, Zenon
  <2>3. Refs(f) # {} \/ stray[f] > 0
    BY <1>3, <2>1, <2>2
  <2> QED BY <1>1, <1>2, <1>5, <2>3, Zenon
<1> QED BY <1>4, <1>5, Zenon

\* The same of all files, for the state after a step too.
LEMMA FreeAreUnnamed ==
  FilesInv => \A f \in File : f \in Desc!Named(fd_table) \cup Pinned <=> ops[f] # "none"
BY FreeUnnamed, Zenon

\* A step of the tables is one of Descriptors' when every file that is open
\* after it is one it made, or the file that was there.
LEMMA StepBecomes ==
  ASSUME FilesInv', UNCHANGED outside, NEW table, fd_table' = table, NEW new,
         \A f \in File : ops'[f] # "none" =>
           AbsFile'[f] = IF f \in DOMAIN new THEN new[f] ELSE AbsFile[f]
  PROVE  Desc!Becomes(table, new)
<1>6. Pinned' = Pinned
  BY Zenon DEF Pinned, outside
<1>1. \A f \in File : f \in Desc!Named(table) \cup Pinned <=> ops'[f] # "none"
  <2>1. (\A f \in File : f \in Desc!Named(fd_table) \cup Pinned <=> ops[f] # "none")'
    BY FreeAreUnnamed, PTL
  <2>2. Desc!Named(fd_table)' = Desc!Named(table)
    BY Zenon DEF Desc!Named
  <2> QED BY <1>6, <2>1, <2>2, Zenon
<1>2. \A f \in File : ops'[f] = "none" => AbsFile'[f] = Desc!NoFile
  BY Zenon DEF AbsFile, Desc!NoFile
<1>3. AbsFile' = [f \in File |->
        IF f \notin Desc!Named(table) \cup Pinned THEN Desc!NoFile
        ELSE IF f \in DOMAIN new THEN new[f] ELSE AbsFile[f]]
  <2>1. AbsFile' = [f \in File |-> AbsFile'[f]]
    BY Zenon DEF AbsFile
  <2> QED BY <1>1, <1>2, <2>1, Zenon
<1> DEFINE Leads(f, i) == /\ AbsFile'[f].kind \in {"pipe_read", "pipe_write"}
                          /\ AbsFile'[f].of = i
<1>4. \A i \in Pipe : pipe_used'[i] <=> \E f \in File : Leads(f, i)
  <2>1. \A i \in Pipe : pipe_used'[i] <=> \E f \in File :
          ops'[f] \in {"pipe_read", "pipe_write"} /\ private_data'[f] = i
    BY Zenon DEF FilesInv, PipeRefsOK, EndsIn
  <2>2. \A f \in File : AbsFile'[f].kind = ops'[f]
          /\ (ops'[f] # "none" => AbsFile'[f].of = private_data'[f])
    BY Zenon DEF AbsFile
  <2> QED BY <2>1, <2>2
<1>5. pipe_used' = [i \in Pipe |-> \E f \in File : Leads(f, i)]
  <2>1. pipe_used' \in [Pipe -> BOOLEAN]
    BY Zenon DEF FilesInv, TypeOK
  <2> HIDE DEF Leads
  <2> QED BY <1>4, <2>1, Zenon
<1> QED BY <1>3, <1>5, <1>6, Zenon DEF Desc!Becomes

\* Closing files and making none.
LEMMA ClosingBecomes ==
  ASSUME FilesInv', UNCHANGED outside,
         NEW table, fd_table' = table, NEW R, CloseFiles(R)
  PROVE  Desc!Becomes(table, Desc!NoNew)
<1>1. \A f \in File : ops'[f] # "none" => AbsFile'[f] = AbsFile[f]
  BY Zenon DEF CloseFiles, AbsFile
<1>2. DOMAIN Desc!NoNew = {}
  BY Zenon DEF Desc!NoNew
<1> QED BY <1>1, <1>2, StepBecomes, Zenon

\* Only the descriptors change.
LEMMA CopyingBecomes ==
  ASSUME FilesInv', UNCHANGED outside,
         NEW table, fd_table' = table, UNCHANGED <<ops, private_data>>
  PROVE  Desc!Becomes(table, Desc!NoNew)
<1>1. \A f \in File : ops'[f] # "none" => AbsFile'[f] = AbsFile[f]
  BY Zenon DEF AbsFile
<1>2. DOMAIN Desc!NoNew = {}
  BY Zenon DEF Desc!NoNew
<1> QED BY <1>1, <1>2, StepBecomes, Zenon
-----------------------------------------------------------------------------
(* The refinement, action by action *)

\* The tables at boot: the standard descriptors name one file each.
LEMMA InitRefines == Init => Desc!Init
<1> SUFFICES ASSUME Init PROVE Desc!Init
  OBVIOUS
<1>1. FilesInv
  BY InitInv, Zenon
<1>2. fd_table \in [Task -> [Fd -> File \cup {NULL}]]
  BY <1>1, Zenon DEF FilesInv, TypeOK
<1>3. ASSUME NEW f \in File
      PROVE  /\ AbsFile[f] \in {Desc!NoFile} \cup [kind : {"file"}, of : Inode]
             /\ AbsFile[f] = Desc!NoFile <=> ops[f] = "none"
  BY Zenon DEF AbsFile, Init, Desc!NoFile
<1>4. AbsFile \in [File -> {Desc!NoFile} \cup [kind : {"file"}, of : Inode]]
  BY <1>3, Zenon DEF AbsFile
<1>5. \A f \in File : f \in Desc!Named(fd_table) \cup Pinned <=> ops[f] # "none"
  BY <1>1, FreeUnnamed, Zenon
<1>6. \A f \in File : AbsFile[f] = Desc!NoFile <=> f \in Desc!Unnamed
  BY <1>3, <1>5, Zenon DEF Desc!Unnamed
<1>8. Pinned = {}
  BY DEF Pinned, Init
<1>7. pipe_used = [i \in Pipe |-> FALSE]
  BY Zenon DEF Init
<1> QED BY <1>2, <1>4, <1>6, <1>7, <1>8, Zenon DEF Desc!Init

\* The failures of sys_open and sys_pipe, and a death by signal, change
\* nothing a descriptor can see.
LEMMA FailureStutters ==
  ASSUME FilesInv, NEW t \in Task, NEW x \in Inode,
         \/ OpenNoFd(t, x) \/ PipeNoFile(t) \/ PipeOneFile(t) \/ PipeNoFd(t)
         \/ Kill(t),
         UNCHANGED outside
  PROVE  UNCHANGED Desc!vars
<1>1. /\ fd_table' = fd_table /\ ops' = ops /\ pipe_used' = pipe_used
      /\ \A f \in File : ops[f] # "none" => private_data'[f] = private_data[f]
  <2>1. FreeFiles # {} => First(FreeFiles) \in File
                            /\ ops[First(FreeFiles)] = "none"
    BY FreeEntries, Zenon
  <2>2. private_data \in [File -> Inode \cup Pipe \cup {NULL}]
    BY Zenon DEF FilesInv, TypeOK
  <2>3. CASE OpenNoFd(t, x)
    BY <2>1, <2>2, <2>3, Zenon DEF OpenNoFd, pipes
  <2>4. CASE PipeNoFile(t)
    BY <2>4 DEF PipeNoFile, files
  <2>7. CASE Kill(t)
    BY <2>7, Zenon DEF Kill, files, pipes
  <2>5. CASE PipeOneFile(t)
    <3>1. FreeFiles # {}
      <4>1. Cardinality(FreeFiles) = 1 /\ Cardinality({}) = 0
        BY <2>5, FS_EmptySet, Zenon DEF PipeOneFile
      <4> QED BY <4>1
    <3> QED BY <2>1, <2>2, <2>5, <3>1, Zenon DEF PipeOneFile
  <2>6. CASE PipeNoFd(t)
    <3> DEFINE f == First(FreeFiles)
               g == First(FreeFiles \ {f})
    <3>1. FreeFiles \in SUBSET Nat /\ IsFiniteSet(FreeFiles)
          /\ Cardinality(FreeFiles) >= 2
      <4>1. FreeFiles \in SUBSET File
        BY Zenon DEF FreeFiles
      <4> QED BY <2>6, <4>1, NullIsNoFile, Finite, FS_Subset DEF PipeNoFd
    <3>2. f \in FreeFiles /\ g \in FreeFiles
      BY <3>1, TwoFirst, Zenon
    <3>3. ops[f] = "none" /\ ops[g] = "none"
      BY <3>2, Zenon DEF FreeFiles
    <3>4. /\ private_data' = [private_data EXCEPT ![f] = NULL, ![g] = NULL]
          /\ UNCHANGED <<fd_table, ops, pipe_used>>
      BY <2>6, Zenon DEF PipeNoFd
    <3> HIDE DEF f, g
    <3> QED BY <2>2, <3>3, <3>4, Zenon
  <2> QED BY <2>3, <2>4, <2>5, <2>6, <2>7, Zenon
<1>2. AbsFile' = AbsFile
  BY <1>1, Zenon DEF AbsFile
<1> QED BY <1>1, <1>2, Zenon DEF Desc!vars, Pinned, outside

\* sys_open makes one file.
LEMMA OpenRefines ==
  ASSUME FilesInv, FilesInv', NEW t \in Task, NEW x \in Inode, Open(t, x),
         UNCHANGED outside
  PROVE  Desc!Open
<1>1. PICK f \in File, d \in Fd :
        /\ ops[f] = "none" /\ fd_table[t][d] = NULL
        /\ ops' = [ops EXCEPT ![f] = "file"]
        /\ private_data' = [private_data EXCEPT ![f] = x]
        /\ fd_table' = [fd_table EXCEPT ![t][d] = f]
  BY FreeEntries, Zenon DEF Open
<1> DEFINE new == [g \in {f} |-> [kind |-> "file", of |-> x]]
<1>2. f \in Desc!Unnamed
  BY <1>1, FreeUnnamed, Zenon DEF Desc!Unnamed
<1>3. \A g \in File : AbsFile'[g] = IF g \in DOMAIN new THEN new[g] ELSE AbsFile[g]
  BY <1>1, ZenonT(60) DEF AbsFile, FilesInv, TypeOK
<1> HIDE DEF new
<1>4. Desc!Becomes([fd_table EXCEPT ![t][d] = f], new)
  BY <1>1, <1>3, StepBecomes, Zenon
<1>5. d \in Desc!Free(t)
  BY <1>1, Zenon DEF Desc!Free
<1> QED BY <1>2, <1>4, <1>5, Zenon DEF Desc!Open, new

\* sys_pipe makes two files, the ends of a pipe that was free.
LEMMA MakePipeRefines ==
  ASSUME FilesInv, FilesInv', NEW t \in Task, MakePipe(t), UNCHANGED outside
  PROVE  Desc!MakePipe
<1>1. FreeFiles \in SUBSET Nat /\ IsFiniteSet(FreeFiles)
      /\ FreeFds(t) \in SUBSET Nat /\ IsFiniteSet(FreeFds(t))
  <2>1. FreeFiles \in SUBSET File /\ FreeFds(t) \in SUBSET Fd
    BY Zenon DEF FreeFiles, FreeFds
  <2> QED BY <2>1, NullIsNoFile, Finite, FS_Subset, Zenon
<1>2. PICK i \in Pipe, f \in FreeFiles, g \in FreeFiles,
           d \in FreeFds(t), e \in FreeFds(t) :
        /\ f # g /\ d # e /\ ~pipe_used[i]
        /\ ops' = [ops EXCEPT ![f] = "pipe_read", ![g] = "pipe_write"]
        /\ private_data' = [private_data EXCEPT ![f] = i, ![g] = i]
        /\ fd_table' = [fd_table EXCEPT ![t][d] = f, ![t][e] = g]
  BY <1>1, TwoFirst, FreeEntries, Zenon DEF MakePipe
<1>3. /\ f \in File /\ g \in File /\ ops[f] = "none" /\ ops[g] = "none"
      /\ d \in Fd /\ e \in Fd /\ fd_table[t][d] = NULL /\ fd_table[t][e] = NULL
  BY <1>2, Zenon DEF FreeFiles, FreeFds
<1> DEFINE new == [h \in {f, g} |->
                     [kind |-> IF h = f THEN "pipe_read" ELSE "pipe_write",
                      of |-> i]]
<1>4. f \in Desc!Unnamed /\ g \in Desc!Unnamed
  BY <1>3, FreeUnnamed, Zenon DEF Desc!Unnamed
<1>5. \A h \in File : AbsFile'[h] = IF h \in DOMAIN new THEN new[h] ELSE AbsFile[h]
  BY <1>2, <1>3, ZenonT(60) DEF AbsFile, FilesInv, TypeOK
<1> HIDE DEF new
<1>6. Desc!Becomes([fd_table EXCEPT ![t][d] = f, ![t][e] = g], new)
  BY <1>2, <1>5, StepBecomes, Zenon
<1>7. \E d1, e1 \in Desc!Free(t), f1, g1 \in Desc!Unnamed :
        /\ d1 # e1 /\ f1 # g1
        /\ Desc!Becomes([fd_table EXCEPT ![t][d1] = f1, ![t][e1] = g1],
                        [h \in {f1, g1} |->
                           [kind |-> IF h = f1 THEN "pipe_read" ELSE "pipe_write",
                            of |-> i]])
  <2> /\ d \in Desc!Free(t) /\ e \in Desc!Free(t)
      /\ f \in Desc!Unnamed /\ g \in Desc!Unnamed
    BY <1>3, <1>4, Zenon DEF Desc!Free
  <2> WITNESS d \in Desc!Free(t), e \in Desc!Free(t),
              f \in Desc!Unnamed, g \in Desc!Unnamed
  <2> QED BY <1>2, <1>6, Zenon DEF new
<1>8. i \in {j \in Pipe : ~pipe_used[j]}
  BY <1>2, Zenon
<1> QED BY <1>7, <1>8, Zenon DEF Desc!MakePipe

\* dup, dup2 and F_DUPFD copy a descriptor.
LEMMA DupRefines ==
  ASSUME FilesInv, FilesInv', NEW t \in Task, NEW o \in Fd, NEW n \in Fd,
         Dup2(t, o, n) \/ Dup(t, o) \/ DupFrom(t, o, n), UNCHANGED outside
  PROVE  Desc!Dup
<1>1. ASSUME NEW e \in Fd, Dup2(t, o, e) PROVE Desc!Dup
  <2>1. Desc!Becomes([fd_table EXCEPT ![t][e] = fd_table[t][o]], Desc!NoNew)
    BY <1>1, ClosingBecomes, Zenon DEF Dup2
  <2> QED BY <1>1, <2>1, Zenon DEF Desc!Dup, Dup2
<1>2. CASE Dup(t, o)
  BY <1>1, <1>2, FreeEntries, Zenon DEF Dup
<1>3. CASE DupFrom(t, o, n)
  <2> DEFINE free == {d \in FreeFds(t) : d >= n}
             e == First(free)
  <2>1. e \in Fd
    <3>1. free \in SUBSET Nat /\ free # {} /\ free \in SUBSET Fd
      BY <1>3, NullIsNoFile, Zenon DEF DupFrom, FreeFds
    <3> HIDE DEF free
    <3> QED BY <3>1, FirstIn, Zenon
  <2>2. /\ fd_table' = [fd_table EXCEPT ![t][e] = fd_table[t][o]]
        /\ fd_table[t][o] # NULL
        /\ UNCHANGED <<ops, private_data>>
    BY <1>3, Zenon DEF DupFrom
  <2> HIDE DEF e
  <2>3. Desc!Becomes([fd_table EXCEPT ![t][e] = fd_table[t][o]], Desc!NoNew)
    BY <2>2, CopyingBecomes, Zenon
  <2> QED BY <2>1, <2>2, <2>3, Zenon DEF Desc!Dup
<1> QED BY <1>1, <1>2, <1>3, Zenon

\* Every step of the tables is a step of Descriptors or changes nothing there.
LEMMA StepRefines == FilesInv /\ [Next]_vars => [Desc!Next]_(Desc!vars)
<1> SUFFICES ASSUME FilesInv, [Next]_vars PROVE [Desc!Next]_(Desc!vars)
  BY Zenon
<1>1. FilesInv'
  BY FilesInvInductive, Zenon
<1>2. CASE UNCHANGED vars
  BY <1>2, Zenon DEF vars, files, pipes, outside, Desc!vars, AbsFile, Pinned
<1>3. ASSUME NEW t \in Task, Call(t), UNCHANGED outside
      PROVE  Desc!Next \/ UNCHANGED Desc!vars
  <2>1. ASSUME NEW x \in Inode, Open(t, x) PROVE Desc!Next
    BY <1>1, <1>3, <2>1, OpenRefines, Zenon DEF Desc!Next
  <2>2. ASSUME NEW x \in Inode, OpenNoFd(t, x) PROVE UNCHANGED Desc!vars
    BY <1>3, <2>2, FailureStutters, Zenon
  <2>3. ASSUME NEW d \in Fd, Close(t, d) PROVE Desc!Next
    <3>1. Desc!Becomes([fd_table EXCEPT ![t][d] = NULL], Desc!NoNew)
      BY <1>1, <1>3, <2>3, ClosingBecomes, Zenon DEF Close
    <3> QED BY <2>3, <3>1, Zenon DEF Close, Desc!Close, Desc!Next
  <2>4. ASSUME NEW o \in Fd, NEW n \in Fd,
               Dup2(t, o, n) \/ Dup(t, o) \/ DupFrom(t, o, n)
        PROVE  Desc!Next
    BY <1>1, <1>3, <2>4, DupRefines, Zenon DEF Desc!Next
  <2>5. CASE MakePipe(t)
    BY <1>1, <1>3, <2>5, MakePipeRefines, Zenon DEF Desc!Next
  <2>6. CASE PipeNoFile(t) \/ PipeOneFile(t) \/ PipeNoFd(t) \/ Kill(t)
    <3>1. PICK x \in Inode : TRUE
      BY FilesAssumption
    <3> QED BY <1>3, <2>6, <3>1, FailureStutters, Zenon
  <2>7. ASSUME NEW c \in Task, Fork(t, c) \/ ForkFail(t, c) PROVE Desc!Next
    <3>1. /\ FreeTasks # {} /\ c = First(FreeTasks)
          /\ fd_table' = [fd_table EXCEPT ![c] = fd_table[t]]
          /\ UNCHANGED <<ops, private_data>>
      BY <2>7, Zenon DEF Fork, ForkFail, Inherit
    <3>2. \A d \in Fd : fd_table[c][d] = NULL
      <4>1. c \in FreeTasks
        BY <3>1, FirstIn, NullIsNoFile, Zenon DEF FreeTasks
      <4> QED BY <4>1, Zenon DEF FreeTasks, FilesInv, SlotsOK
    <3>3. Desc!Becomes([fd_table EXCEPT ![c] = fd_table[t]], Desc!NoNew)
      BY <1>1, <1>3, <3>1, CopyingBecomes, Zenon
    <3> QED BY <3>2, <3>3, Zenon DEF Desc!Fork, Desc!Next
  <2>8. CASE Exit(t)
    <3>1. Desc!Becomes([fd_table EXCEPT ![t] = [d \in Fd |-> NULL]], Desc!NoNew)
      BY <1>1, <1>3, <2>8, ClosingBecomes, Zenon DEF Exit
    <3> QED BY <3>1, Zenon DEF Desc!Exit, Desc!Next
  <2> QED BY <1>3, <2>1, <2>2, <2>3, <2>4, <2>5, <2>6, <2>7, <2>8, Zenon DEF Call
<1>4. ASSUME NEW t \in Task, NEW o \in Fd, DupBelow(t, o)
      PROVE  Desc!Next \/ UNCHANGED Desc!vars
  <2>1. PICK f \in File : f = fd_table[t][o]
    BY <1>4 DEF DupBelow, FilesInv, TypeOK
  <2>2. UNCHANGED <<fd_table, AbsFile, pipe_used>>
    BY <1>4, Zenon DEF DupBelow, AbsFile, pipes
  <2>3. CASE stray' = [stray EXCEPT ![f] = @ + 1]
    <3>1. Pinned' = Pinned \cup {f}
      <4>1. stray \in [File -> Nat]
        BY Zenon DEF FilesInv, TypeOK
      <4>2. \A g \in File : stray'[g] > 0 <=> stray[g] > 0 \/ g = f
        BY <2>3, <4>1
      <4> QED BY <4>2, Zenon DEF Pinned
    <3>2. f \in File \cap Desc!Named(fd_table)
      <4>1. /\ <<t, o>> \in Task \X Fd
            /\ f = fd_table[<<t, o>>[1]][<<t, o>>[2]]
        BY <2>1, Zenon
      <4> QED BY <4>1, Zenon DEF Desc!Named
    <3>3. Desc!Pin
      BY <2>2, <3>1, <3>2, Zenon DEF Desc!Pin
    <3> QED BY <3>3, Zenon DEF Desc!Next
  <2>4. CASE UNCHANGED stray
    BY <2>2, <2>4, Zenon DEF Desc!vars, Pinned
  <2> QED BY <1>4, <2>1, <2>3, <2>4, Zenon DEF DupBelow
<1> QED BY <1>2, <1>3, <1>4, Zenon DEF Next

\* Descriptors, open files and pipes, with their reference counts and error
\* paths, implement the tables that count nothing: a file lives exactly as long
\* as a descriptor names it, and does not change while it lives.  A file that
\* F_DUPFD has stored outside the tables lives for good.
THEOREM FilesImplementDescriptors == Spec => DescSpec
<1>1. Spec => Desc!Spec
  BY InitRefines, StepRefines, FilesInvariant, PTL DEF Spec, Desc!Spec
<1> QED BY <1>1, Zenon DEF DescSpec
=============================================================================
