----------------------------- MODULE PipeProofs -----------------------------
(***************************************************************************)
(* Proofs about Pipe, for every buffer size, set of tasks and bound.       *)
(***************************************************************************)
EXTENDS Pipe, Sequences, TLAPS

\* A position that runs past the end of the buffer starts again at 0: what
\* "(pos + 1) % PIPE_BUF_SIZE", done i times, comes to.
LEMMA AtWraps ==
  ASSUME NEW pos \in Pos, NEW i \in 0 .. PIPE_BUF_SIZE
  PROVE  /\ At(pos, i) = IF pos + i < PIPE_BUF_SIZE THEN pos + i
                         ELSE pos + i - PIPE_BUF_SIZE
         /\ At(pos, i) \in Pos
<1> DEFINE N == PIPE_BUF_SIZE
           a == pos + i
<1>1. N \in Nat \ {0} /\ a \in Nat /\ a < 2 * N
  BY PipeAssumption DEF Pos
<1>2. CASE a < N
  BY <1>1, <1>2 DEF At, Pos
<1>3. CASE a >= N
  <2>1. a - N \in 0 .. N - 1 /\ a = N * 1 + (a - N)
    BY <1>1, <1>3
  <2>2. a % N = a - N
    BY <1>1, <2>1
  <2> QED BY <1>1, <1>3, <2>2 DEF At, Pos
<1> QED BY <1>1, <1>2, <1>3

\* Going on from a position i further is going on from the start: positions
\* add up, and those less than a buffer apart are different.
LEMMA AtAdds ==
  ASSUME NEW pos \in Pos, NEW i \in Nat, NEW j \in Nat, i + j <= PIPE_BUF_SIZE
  PROVE  At(At(pos, i), j) = At(pos, i + j)
<1> DEFINE N == PIPE_BUF_SIZE
           q == At(pos, i)
<1>1. N \in Nat \ {0} /\ pos \in 0 .. N - 1
  BY PipeAssumption DEF Pos
<1>2. i \in 0 .. N /\ j \in 0 .. N /\ i + j \in 0 .. N
  BY <1>1
<1>3. q \in Pos /\ q = IF pos + i < N THEN pos + i ELSE pos + i - N
  BY <1>2, AtWraps
<1> HIDE DEF q
<1>4. At(q, j) = IF q + j < N THEN q + j ELSE q + j - N
  BY <1>2, <1>3, AtWraps
<1>5. At(pos, i + j) = IF pos + (i + j) < N THEN pos + (i + j)
                       ELSE pos + (i + j) - N
  BY <1>2, AtWraps
<1> HIDE DEF N
<1>6. At(q, j) = At(pos, i + j)
  BY <1>1, <1>2, <1>3, <1>4, <1>5
<1> QED BY <1>6 DEF q

\* Fewer than PIPE_BUF_SIZE steps from one position lead to distinct slots:
\* a byte stored behind the content overwrites none of it.
LEMMA AtInjective ==
  ASSUME NEW pos \in Pos, NEW i \in 0 .. PIPE_BUF_SIZE - 1,
         NEW j \in 0 .. PIPE_BUF_SIZE - 1, At(pos, i) = At(pos, j)
  PROVE  i = j
<1>1. PIPE_BUF_SIZE \in Nat \ {0} /\ pos \in 0 .. PIPE_BUF_SIZE - 1
  BY PipeAssumption DEF Pos
<1>2. i \in 0 .. PIPE_BUF_SIZE /\ j \in 0 .. PIPE_BUF_SIZE
  BY <1>1
<1>3. At(pos, i) = pos + i \/ At(pos, i) = pos + i - PIPE_BUF_SIZE
  BY <1>2, AtWraps
<1>4. At(pos, j) = pos + j \/ At(pos, j) = pos + j - PIPE_BUF_SIZE
  BY <1>2, AtWraps
<1>5. \/ pos + i = pos + j
      \/ pos + i = pos + j - PIPE_BUF_SIZE
      \/ pos + i - PIPE_BUF_SIZE = pos + j
      \/ pos + i - PIPE_BUF_SIZE = pos + j - PIPE_BUF_SIZE
  BY <1>3, <1>4
<1> QED BY <1>1, <1>5
-----------------------------------------------------------------------------
(* The ring *)

\* Storing k bytes into free room keeps the unread bytes and puts the new ones
\* behind them.
LEMMA StoreKeepsRing ==
  ASSUME TypeOK, RingOK, NEW k \in Nat, k <= PIPE_BUF_SIZE - bytes, Store(k)
  PROVE  /\ RingOK'
         /\ buf' \in [Pos -> Nat] /\ write_pos' \in Pos /\ read_pos' = read_pos
         /\ bytes' = bytes + k /\ bytes' \in 0 .. PIPE_BUF_SIZE
         /\ sent' = sent + k /\ rcvd' = rcvd
<1> DEFINE N == PIPE_BUF_SIZE
<1>1. /\ N \in Nat \ {0} /\ bytes \in 0 .. N /\ k \in 0 .. N
      /\ read_pos \in Pos /\ write_pos \in Pos
      /\ sent \in Nat /\ rcvd \in Nat /\ rcvd + bytes = sent
  BY PipeAssumption DEF TypeOK, RingOK
<1>2. /\ bytes' = bytes + k /\ sent' = sent + k /\ rcvd' = rcvd
      /\ read_pos' = read_pos /\ write_pos' = At(write_pos, k)
  BY DEF Store
<1>3. write_pos' \in Pos
  BY <1>1, <1>2, AtWraps
<1>4. buf' \in [Pos -> Nat]
  <2>1. buf' = [i \in Pos |->
                  IF \E j \in 0 .. k - 1 : At(write_pos, j) = i
                  THEN sent + (CHOOSE j \in 0 .. k - 1 : At(write_pos, j) = i)
                  ELSE buf[i]]
    BY DEF Store
  <2>2. ASSUME NEW i \in Pos, \E j \in 0 .. k - 1 : At(write_pos, j) = i
        PROVE  (CHOOSE j \in 0 .. k - 1 : At(write_pos, j) = i) \in 0 .. k - 1
    BY <2>2, Zenon
  <2>3. ASSUME NEW i \in Pos PROVE buf[i] \in Nat
    BY DEF TypeOK
  <2> QED BY <1>1, <2>1, <2>2, <2>3
\* Positions less than a buffer apart are different.
<1>5. ASSUME NEW i \in 0 .. N - 1, NEW j \in 0 .. N - 1, i # j
      PROVE  At(read_pos, i) # At(read_pos, j)
  BY <1>1, <1>5, AtInjective
<1>6. ASSUME NEW j \in 0 .. N - bytes
      PROVE  At(write_pos, j) = At(read_pos, bytes + j)
  <2>1. write_pos = At(read_pos, bytes)
    BY DEF RingOK
  <2>2. bytes \in Nat /\ j \in Nat /\ bytes + j <= PIPE_BUF_SIZE
    BY <1>1
  <2> QED BY <1>1, <2>1, <2>2, AtAdds
<1>7. ASSUME NEW i \in 0 .. bytes' - 1
      PROVE  buf'[At(read_pos, i)] = rcvd + i
  <2>1. i \in 0 .. N - 1 /\ At(read_pos, i) \in Pos
    BY <1>1, <1>2, AtWraps
  <2>2. CASE i < bytes
    <3>1. ASSUME NEW j \in 0 .. k - 1 PROVE At(write_pos, j) # At(read_pos, i)
      <4>1. bytes + j \in 0 .. N - 1 /\ j \in 0 .. N - bytes /\ bytes + j # i
        BY <1>1, <2>2
      <4> QED BY <1>5, <1>6, <2>1, <4>1
    <3>2. buf'[At(read_pos, i)] = buf[At(read_pos, i)]
      BY <2>1, <3>1 DEF Store
    <3>3. i \in 0 .. bytes - 1
      BY <1>1, <2>1, <2>2
    <3> QED BY <3>2, <3>3 DEF RingOK
  <2>3. CASE i >= bytes
    <3> DEFINE j == i - bytes
    <3>1. j \in 0 .. k - 1 /\ j \in 0 .. N - bytes /\ i = bytes + j
      BY <1>1, <1>2, <2>1, <2>3
    <3>2. At(write_pos, j) = At(read_pos, i)
      BY <1>6, <3>1
    <3>3. ASSUME NEW l \in 0 .. k - 1, At(write_pos, l) = At(read_pos, i)
          PROVE  l = j
      <4>1. bytes + l \in 0 .. N - 1 /\ l \in 0 .. N - bytes
        BY <1>1, <3>3
      <4>2. At(read_pos, bytes + l) = At(read_pos, i)
        BY <1>6, <3>3, <4>1
      <4>3. bytes + l = i
        BY <1>5, <2>1, <4>1, <4>2
      <4> QED BY <1>1, <3>1, <4>1, <4>3
    <3>4. (CHOOSE l \in 0 .. k - 1 : At(write_pos, l) = At(read_pos, i)) = j
      <4> HIDE DEF j
      <4> QED BY <3>1, <3>2, <3>3, Zenon
    <3>5. buf'[At(read_pos, i)] = sent + j
      <4> HIDE DEF j
      <4> QED BY <2>1, <3>1, <3>2, <3>4 DEF Store
    <3> QED BY <1>1, <3>1, <3>5
  <2> QED BY <1>1, <2>1, <2>2, <2>3
<1>8. write_pos' = At(read_pos', bytes')
  BY <1>1, <1>2, <1>6
<1>9. rcvd' + bytes' = sent' /\ bytes' \in 0 .. PIPE_BUF_SIZE
  BY <1>1, <1>2
<1> QED BY <1>2, <1>3, <1>4, <1>7, <1>8, <1>9 DEF RingOK, At

\* Taking k bytes out leaves the ones behind them.
LEMMA FetchKeepsRing ==
  ASSUME TypeOK, RingOK, NEW k \in 0 .. bytes, Fetch(k)
  PROVE  /\ RingOK'
         /\ read_pos' \in Pos /\ bytes' \in 0 .. PIPE_BUF_SIZE
         /\ bytes' = bytes - k /\ rcvd' = rcvd + k
         /\ UNCHANGED <<buf, write_pos, sent>>
<1> DEFINE N == PIPE_BUF_SIZE
<1>1. /\ N \in Nat \ {0} /\ bytes \in 0 .. N /\ k \in 0 .. N
      /\ read_pos \in Pos
      /\ sent \in Nat /\ rcvd \in Nat /\ rcvd + bytes = sent
  BY PipeAssumption DEF TypeOK, RingOK
<1>2. /\ bytes' = bytes - k /\ rcvd' = rcvd + k /\ sent' = sent
      /\ read_pos' = At(read_pos, k) /\ write_pos' = write_pos /\ buf' = buf
  BY DEF Fetch
<1>3. read_pos' \in Pos
  BY <1>1, <1>2, AtWraps
<1>4. ASSUME NEW i \in 0 .. bytes - k
      PROVE  At(read_pos', i) = At(read_pos, k + i)
  <2>1. k \in Nat /\ i \in Nat /\ k + i <= PIPE_BUF_SIZE
    BY <1>1
  <2> QED BY <1>1, <1>2, <2>1, AtAdds
<1>5. write_pos' = At(read_pos', bytes')
  <2>1. bytes - k \in 0 .. bytes - k /\ k + (bytes - k) = bytes
    BY <1>1
  <2> QED BY <1>2, <1>4, <2>1 DEF RingOK
<1>6. ASSUME NEW i \in 0 .. bytes' - 1
      PROVE  buf'[At(read_pos', i)] = rcvd' + i
  <2>1. i \in 0 .. bytes - k /\ k + i \in 0 .. bytes - 1
    BY <1>1, <1>2
  <2>2. buf[At(read_pos, k + i)] = rcvd + (k + i)
    BY <2>1 DEF RingOK
  <2> QED BY <1>1, <1>2, <1>4, <2>1, <2>2
<1>7. rcvd' + bytes' = sent' /\ bytes' \in 0 .. N
  BY <1>1, <1>2
<1> QED BY <1>2, <1>3, <1>5, <1>6, <1>7 DEF RingOK, At
-----------------------------------------------------------------------------
(* The invariant, action by action *)

\* A pipe fresh from pipe_alloc satisfies the invariant.
LEMMA InitInv == Init => PipeInv
<1> SUFFICES ASSUME Init PROVE PipeInv
  OBVIOUS
<1>1. TypeOK
  <2>1. 0 \in Pos /\ 0 \in 0 .. PIPE_BUF_SIZE
    BY PipeAssumption DEF Pos
  <2>2. pc \in [Proc -> {"none", "run", "read", "write", "dead"}]
    BY DEF Init
  <2>3. /\ state \in [Proc -> {"READY", "BLOCKED"}]
        /\ want \in [Proc -> Nat] /\ asked \in [Proc -> Nat]
    BY DEF Init
  <2>4. holds \in [Proc -> SUBSET End]
    BY PipeAssumption DEF Init
  <2>5. buf \in [Pos -> Nat]
    BY DEF Init
  <2>6. used \in BOOLEAN /\ eof \in BOOLEAN
    BY Zenon DEF Init
  <2>7. /\ read_refs \in 0 .. 1 /\ write_refs \in 0 .. 1
        /\ reader_pid \in Proc \cup {NoPid} /\ writer_pid \in Proc \cup {NoPid}
        /\ sent \in Nat /\ rcvd \in Nat
        /\ read_pos \in Pos /\ write_pos \in Pos
        /\ bytes \in 0 .. PIPE_BUF_SIZE
    BY <2>1 DEF Init
  <2> QED BY <2>2, <2>3, <2>4, <2>5, <2>6, <2>7, Zenon DEF TypeOK
<1>2. RingOK
  <2>1. 0 \in Pos /\ 0 \in 0 .. PIPE_BUF_SIZE /\ 0 < PIPE_BUF_SIZE
    BY PipeAssumption DEF Pos
  <2>2. At(0, 0) = 0
    BY <2>1, AtWraps
  <2> QED BY <2>2 DEF Init, RingOK
<1>3. EndsOK
  <2>1. \A e \in End : \E q \in Proc : e \in holds[q]
    BY PipeAssumption DEF Init
  <2>2. Holders("read") # {} /\ Holders("write") # {}
    BY <2>1, Zenon DEF Holders, End
  <2> QED BY <2>2 DEF Init, EndsOK
<1>4. EofIsFinal
  BY DEF Init, EofIsFinal
<1>5. HoldsWhatItUses
  BY PipeAssumption DEF Init, HoldsWhatItUses, End
<1> QED BY <1>1, <1>2, <1>3, <1>4, <1>5 DEF PipeInv

\* task_wake changes nothing but BLOCKED to READY.
LEMMA WokenType ==
  ASSUME TypeOK, NEW pid
  PROVE  Woken(pid) \in [Proc -> {"READY", "BLOCKED"}]
BY DEF TypeOK, Woken

\* pipe_read_op by a task that holds the read end.
LEMMA ReadLoopStep ==
  ASSUME PipeInv, NEW p \in Proc, NEW n \in Nat, "read" \in holds[p],
         ReadLoop(p, n)
  PROVE  PipeInv'
<1> USE DEF PipeInv
<1>1. NoPid \notin Proc
  BY PipeAssumption
<1>2. CASE ReadEof(p, n)
  <2>1. RingOK'
    BY <1>2 DEF ReadEof, RingOK, At, ring
  <2>2. EofIsFinal'
    BY <1>2 DEF ReadEof, EofIsFinal, RingOK, TypeOK, ring, refs
  <2>3. TypeOK'
    BY <1>2 DEF ReadEof, TypeOK, Pos, ring, refs
  <2>4. EndsOK' /\ HoldsWhatItUses'
    BY <1>2 DEF ReadEof, EndsOK, HoldsWhatItUses, Holders, refs, TypeOK, End
  <2> QED BY <2>1, <2>2, <2>3, <2>4
<1>3. CASE ReadBlock(p, n)
  <2>1. RingOK' /\ EofIsFinal'
    BY <1>3 DEF ReadBlock, RingOK, EofIsFinal, At, ring, refs
  <2>2. TypeOK'
    BY <1>3 DEF ReadBlock, TypeOK, Pos, ring, refs
  <2>3. EndsOK' /\ HoldsWhatItUses'
    BY <1>3 DEF ReadBlock, EndsOK, HoldsWhatItUses, Holders, refs, TypeOK, End
  <2> QED BY <2>1, <2>2, <2>3
<1>4. CASE ReadSome(p, n)
  <2> DEFINE k == Min(n, bytes)
  <2>1. k \in 0 .. bytes /\ Fetch(k)
    BY <1>4 DEF ReadSome, Min, TypeOK
  <2> HIDE DEF k
  <2>2. /\ RingOK' /\ read_pos' \in Pos /\ bytes' \in 0 .. PIPE_BUF_SIZE
        /\ bytes' = bytes - k /\ rcvd' = rcvd + k
        /\ UNCHANGED <<buf, write_pos, sent>>
    BY <2>1, FetchKeepsRing
  <2>3. EofIsFinal'
    <3>1. ~eof
      BY <1>4 DEF ReadSome, EofIsFinal, RingOK, TypeOK
    <3> QED BY <1>4, <3>1 DEF ReadSome, EofIsFinal
  <2>4. state' \in [Proc -> {"READY", "BLOCKED"}]
    BY <1>4, WokenType DEF ReadSome
  <2>5. TypeOK'
    <3>1. rcvd' \in Nat
      BY <2>1, <2>2 DEF TypeOK
    <3> QED BY <1>4, <2>2, <2>4, <3>1, Zenon DEF ReadSome, TypeOK, Pos, refs
  <2>6. EndsOK' /\ HoldsWhatItUses'
    BY <1>4 DEF ReadSome, EndsOK, HoldsWhatItUses, Holders, refs, TypeOK, End
  <2> QED BY <2>2, <2>3, <2>5, <2>6
<1> QED BY <1>2, <1>3, <1>4 DEF ReadLoop

\* pipe_write_op by a task that holds the write end.
LEMMA WriteLoopStep ==
  ASSUME PipeInv, NEW p \in Proc, NEW n \in Nat, "write" \in holds[p],
         WriteLoop(p, n), asked' \in [Proc -> Nat]
  PROVE  PipeInv'
<1> USE DEF PipeInv
<1>1. ~eof
  BY DEF EndsOK, EofIsFinal, Holders
<1>2. PIPE_BUF_SIZE - bytes \in Nat /\ bytes \in Nat
  BY PipeAssumption DEF TypeOK
<1>3. ASSUME NEW k \in Nat, k <= PIPE_BUF_SIZE - bytes, Store(k),
             state' \in [Proc -> {"READY", "BLOCKED"}],
             reader_pid' \in Proc \cup {NoPid},
             writer_pid' \in Proc \cup {NoPid},
             want' \in [Proc -> Nat],
             pc' \in {[pc EXCEPT ![p] = "run"], [pc EXCEPT ![p] = "write"]},
             UNCHANGED <<refs, eof>>
      PROVE  PipeInv'
  <2>1. /\ RingOK'
        /\ buf' \in [Pos -> Nat] /\ write_pos' \in Pos /\ read_pos' = read_pos
        /\ bytes' \in 0 .. PIPE_BUF_SIZE
        /\ sent' = sent + k /\ rcvd' = rcvd
    BY <1>3, StoreKeepsRing
  <2>2. EofIsFinal'
    BY <1>1, <1>3 DEF EofIsFinal
  <2>3. pc' \in [Proc -> {"none", "run", "read", "write", "dead"}]
    BY <1>3 DEF TypeOK
  <2>4. sent' \in Nat
    BY <1>3, <2>1 DEF TypeOK
  <2>5. TypeOK'
    BY <1>3, <2>1, <2>3, <2>4, Zenon DEF TypeOK, Pos, refs
  <2>6. EndsOK'
    BY <1>3 DEF EndsOK, Holders, refs
  <2>7. HoldsWhatItUses'
    BY <1>3 DEF HoldsWhatItUses, refs, TypeOK, End
  <2> QED BY <2>1, <2>2, <2>5, <2>6, <2>7
<1>4. CASE WriteAll(p, n)
  <2>1. state' \in [Proc -> {"READY", "BLOCKED"}]
    BY <1>4, WokenType DEF WriteAll
  <2>2. want' \in [Proc -> Nat]
    BY <1>4 DEF WriteAll, TypeOK
  <2> QED BY <1>3, <1>4, <2>1, <2>2 DEF WriteAll, TypeOK
<1>5. CASE WriteBlock(p, n)
  <2>1. state' \in [Proc -> {"READY", "BLOCKED"}]
    BY <1>5 DEF WriteBlock, TypeOK
  <2>2. want' \in [Proc -> Nat]
    <3>1. n - (PIPE_BUF_SIZE - bytes) \in Nat
      BY <1>2, <1>5 DEF WriteBlock
    <3> QED BY <1>5, <3>1 DEF WriteBlock, TypeOK
  <2>3. PIPE_BUF_SIZE - bytes <= PIPE_BUF_SIZE - bytes
    BY <1>2
  <2> QED BY <1>2, <1>3, <1>5, <2>1, <2>2, <2>3 DEF WriteBlock, TypeOK
<1>6. CASE WriteBroken(p, n)
  <2>1. want' \in [Proc -> Nat]
    BY <1>6 DEF WriteBroken, TypeOK
  <2>2. PIPE_BUF_SIZE - bytes <= PIPE_BUF_SIZE - bytes
    BY <1>2
  <2> QED BY <1>2, <1>3, <1>6, <2>1, <2>2 DEF WriteBroken, TypeOK
<1> QED BY <1>4, <1>5, <1>6 DEF WriteLoop

\* vfs_close_file on some of a task's ends.
LEMMA CloseEndsStep ==
  ASSUME PipeInv, NEW p \in Proc, NEW es \in SUBSET holds[p],
         pc[p] = "run", pc' \in {pc, [pc EXCEPT ![p] = "dead"]},
         CloseEnds(p, es), UNCHANGED <<ring, want, asked, eof>>
  PROVE  PipeInv'
<1> USE DEF PipeInv
<1> DEFINE lastr == "read" \in es /\ LastHolder(p, "read")
           lastw == "write" \in es /\ LastHolder(p, "write")
<1>1. /\ holds' = [holds EXCEPT ![p] = @ \ es]
      /\ read_refs' = IF lastr THEN read_refs - 1 ELSE read_refs
      /\ write_refs' = IF lastw THEN write_refs - 1 ELSE write_refs
      /\ writer_pid' = IF lastr THEN NoPid ELSE writer_pid
      /\ reader_pid' = IF lastw THEN NoPid ELSE reader_pid
      /\ used' = (used /\ ~Freed(p, es))
  BY DEF CloseEnds
<1>2. state' \in [Proc -> {"READY", "BLOCKED"}]
  BY DEF CloseEnds, TypeOK
<1>3. ASSUME NEW e \in End
      PROVE  /\ (e \in es /\ LastHolder(p, e)) => Holders(e)' = {}
             /\ ~(e \in es /\ LastHolder(p, e)) => (Holders(e)' = {} <=> Holders(e) = {})
  <2>1. Holders(e)' = {q \in Proc : e \in holds'[q]}
    BY DEF Holders
  <2>2. \A q \in Proc : e \in holds'[q] <=> e \in holds[q] /\ ~(q = p /\ e \in es)
    BY <1>1 DEF TypeOK
  <2>3. Holders(e)' = IF e \in es THEN Holders(e) \ {p} ELSE Holders(e)
    BY <2>1, <2>2 DEF Holders
  <2>4. e \in es => p \in Holders(e)
    BY DEF Holders
  <2> QED BY <2>3, <2>4 DEF LastHolder
<1>4. "read" \in End /\ "write" \in End
  BY DEF End
<1>5. read_refs' = IF Holders("read")' = {} THEN 0 ELSE 1
  <2>1. CASE lastr
    <3>1. read_refs = 1
      BY <2>1 DEF EndsOK, LastHolder
    <3> QED BY <1>1, <1>3, <1>4, <2>1, <3>1
  <2>2. CASE ~lastr
    BY <1>1, <1>3, <1>4, <2>2 DEF EndsOK
  <2> QED BY <2>1, <2>2
<1>6. write_refs' = IF Holders("write")' = {} THEN 0 ELSE 1
  <2>1. CASE lastw
    <3>1. write_refs = 1
      BY <2>1 DEF EndsOK, LastHolder
    <3> QED BY <1>1, <1>3, <1>4, <2>1, <3>1
  <2>2. CASE ~lastw
    BY <1>1, <1>3, <1>4, <2>2 DEF EndsOK
  <2> QED BY <2>1, <2>2
<1>7. used' <=> Holders("read")' \cup Holders("write")' # {}
  <2>1. /\ read_refs = 0 <=> Holders("read") = {}
        /\ write_refs = 0 <=> Holders("write") = {}
        /\ used <=> Holders("read") # {} \/ Holders("write") # {}
    BY DEF EndsOK
  <2>2. \A e \in es : e \in End
    BY DEF TypeOK
  <2>3. (\E e \in es : LastHolder(p, e)) <=> lastr \/ lastw
    BY <2>2 DEF End
  <2>4. lastr => Holders("read")' = {} /\ Holders("read") # {}
    BY <1>3, <1>4 DEF LastHolder
  <2>5. lastw => Holders("write")' = {} /\ Holders("write") # {}
    BY <1>3, <1>4 DEF LastHolder
  <2>6. ~lastr => (Holders("read")' = {} <=> Holders("read") = {})
    BY <1>3, <1>4
  <2>7. ~lastw => (Holders("write")' = {} <=> Holders("write") = {})
    BY <1>3, <1>4
  <2>8. Freed(p, es) <=> /\ lastr \/ lastw
                         /\ lastr \/ read_refs = 0
                         /\ lastw \/ write_refs = 0
    BY <2>3 DEF Freed
  <2> HIDE DEF lastr, lastw
  <2>9. used' <=> used /\ ~Freed(p, es)
    BY <1>1, Zenon
  <2>10. used' <=> Holders("read")' # {} \/ Holders("write")' # {}
    BY <2>1, <2>4, <2>5, <2>6, <2>7, <2>8, <2>9
  <2> QED BY <2>10
<1>8. EndsOK'
  BY <1>5, <1>6, <1>7 DEF EndsOK
<1>9. RingOK'
  BY DEF RingOK, At, ring
<1>10. EofIsFinal'
  <2>1. write_refs = 0 => write_refs' = 0
    BY <1>1 DEF EndsOK, LastHolder
  <2> QED BY <2>1 DEF EofIsFinal, ring
<1>11. HoldsWhatItUses'
  BY <1>1 DEF HoldsWhatItUses, TypeOK, End
<1>12. TypeOK'
  <2>1. read_refs' \in 0 .. 1 /\ write_refs' \in 0 .. 1
    BY <1>5, <1>6
  <2>2. used' \in BOOLEAN
    BY <1>1
  <2>3. reader_pid' \in Proc \cup {NoPid} /\ writer_pid' \in Proc \cup {NoPid}
    BY <1>1 DEF TypeOK
  <2>4. holds' \in [Proc -> SUBSET End]
    BY <1>1 DEF TypeOK
  <2>5. pc' \in [Proc -> {"none", "run", "read", "write", "dead"}]
    BY DEF TypeOK
  <2> QED BY <1>2, <2>1, <2>2, <2>3, <2>4, <2>5, SMTT(30) DEF TypeOK, Pos, ring
<1> QED BY <1>8, <1>9, <1>10, <1>11, <1>12

\* A fork gives the child the ends of its parent, and takes none away.
LEMMA ForkStep ==
  ASSUME PipeInv, NEW p \in Proc, NEW c \in Proc, Fork(p, c)
  PROVE  PipeInv'
<1> USE DEF PipeInv
<1>1. /\ pc[p] = "run" /\ pc[c] = "none" /\ p # c /\ holds[c] = {}
      /\ pc' = [pc EXCEPT ![c] = "run"]
      /\ holds' = [holds EXCEPT ![c] = holds[p]]
  BY DEF Fork, Runs, HoldsWhatItUses
<1>2. ASSUME NEW e \in End PROVE Holders(e)' = {} <=> Holders(e) = {}
  <2>1. holds'[p] = holds[p] /\ holds'[c] = holds[p]
        /\ \A q \in Proc \ {c} : holds'[q] = holds[q]
    BY <1>1 DEF TypeOK
  <2>2. (\E q \in Proc : e \in holds'[q]) <=> (\E q \in Proc : e \in holds[q])
    BY <1>1, <2>1
  <2> QED BY <2>2 DEF Holders
<1>3. EndsOK'
  <2>1. UNCHANGED <<read_refs, write_refs, used>>
    BY DEF Fork
  <2>2. /\ Holders("read")' = {} <=> Holders("read") = {}
        /\ Holders("write")' = {} <=> Holders("write") = {}
    BY <1>2 DEF End
  <2> QED BY <2>1, <2>2 DEF EndsOK
<1>4. RingOK' /\ EofIsFinal'
  BY DEF Fork, RingOK, EofIsFinal, At, ring
<1>5. HoldsWhatItUses'
  BY <1>1 DEF HoldsWhatItUses, TypeOK, End
<1>6. TypeOK'
  BY <1>1, SMTT(30) DEF Fork, TypeOK, Pos, ring
<1> QED BY <1>3, <1>4, <1>5, <1>6

\* Every step of a task keeps the invariant.
LEMMA PipeInvInductive == PipeInv /\ [Next]_vars => PipeInv'
<1> SUFFICES ASSUME PipeInv, [Next]_vars PROVE PipeInv'
  OBVIOUS
<1>1. CASE UNCHANGED vars
  <2>1. UNCHANGED <<ring, refs, reader_pid, writer_pid, tasks, eof>>
    BY <1>1 DEF vars
  <2>2. TypeOK'
    BY <2>1 DEF PipeInv, TypeOK, Pos, ring, refs, tasks
  <2>3. RingOK' /\ EofIsFinal'
    BY <2>1 DEF PipeInv, RingOK, EofIsFinal, At, ring, refs
  <2>4. EndsOK' /\ HoldsWhatItUses'
    BY <2>1 DEF PipeInv, EndsOK, HoldsWhatItUses, Holders, refs, tasks
  <2> QED BY <2>2, <2>3, <2>4 DEF PipeInv
<1>2. ASSUME NEW p \in Proc, Step(p) PROVE PipeInv'
  <2>1. CASE ReadAgain(p)
    BY <2>1, ReadLoopStep
       DEF ReadAgain, Runs, PipeInv, TypeOK, HoldsWhatItUses, End
  <2>2. CASE WriteAgain(p)
    BY <2>2, WriteLoopStep
       DEF WriteAgain, Runs, PipeInv, TypeOK, HoldsWhatItUses, End
  <2>3. ASSUME NEW n \in 0 .. MaxRead, Read(p, n) PROVE PipeInv'
    BY <2>3, ReadLoopStep DEF Read
  <2>4. ASSUME NEW n \in 0 .. MaxWrite, Write(p, n) PROVE PipeInv'
    <3>1. asked' \in [Proc -> Nat]
      BY <2>4 DEF Write, PipeInv, TypeOK
    <3> QED BY <2>4, <3>1, WriteLoopStep DEF Write
  <2>5. ASSUME NEW e \in End, Close(p, e) PROVE PipeInv'
    BY <2>5, CloseEndsStep DEF Close, Runs
  <2>6. CASE Exit(p)
    BY <2>6, CloseEndsStep, Zenon DEF Exit, Runs
  <2>7. CASE Kill(p) \/ Signal(p)
    <3>1. UNCHANGED <<ring, refs, reader_pid, writer_pid, want, asked, eof>>
      BY <2>7 DEF Kill, Signal
    <3>2. TypeOK'
      BY <2>7, <3>1, Zenon DEF PipeInv, TypeOK, Pos, ring, refs, Kill, Signal
    <3>3. RingOK' /\ EofIsFinal'
      BY <3>1 DEF PipeInv, RingOK, EofIsFinal, At, ring, refs
    <3>4. EndsOK'
      BY <3>1 DEF PipeInv, EndsOK, Holders, refs
    <3>5. HoldsWhatItUses'
      BY <2>7, <3>1
         DEF PipeInv, HoldsWhatItUses, TypeOK, End, refs, Kill, Signal
    <3> QED BY <3>2, <3>3, <3>4, <3>5 DEF PipeInv
  <2>8. ASSUME NEW c \in Proc, Fork(p, c) PROVE PipeInv'
    BY <2>8, ForkStep
  <2> QED BY <1>2, <2>1, <2>2, <2>3, <2>4, <2>5, <2>6, <2>7, <2>8 DEF Step
<1> QED BY <1>1, <1>2 DEF Next

\* The ring buffer, the reference counts and the end of file are right in
\* every reachable state, whatever the buffer size and the number of tasks.
THEOREM PipeInvariant == Spec => []PipeInv
BY InitInv, PipeInvInductive, PTL DEF Spec

\* Bytes come out in the order in which they went in, none lost or repeated,
\* however pipe_read_op and pipe_write_op interleave and the positions wrap.
THEOREM RingCorrect == Spec => []RingOK
<1>1. PipeInv => RingOK
  BY DEF PipeInv
<1> QED BY <1>1, PipeInvariant, PTL

\* read_refs and write_refs say which ends some task holds, and pipe_free
\* comes when the last is closed: not before, and not later.
THEOREM EndsCorrect == Spec => []EndsOK
<1>1. PipeInv => EndsOK
  BY DEF PipeInv
<1> QED BY <1>1, PipeInvariant, PTL

\* A read that returned 0 for the empty pipe was right for good.
THEOREM EofCorrect == Spec => []EofIsFinal
<1>1. PipeInv => EofIsFinal
  BY DEF PipeInv
<1> QED BY <1>1, PipeInvariant, PTL
\* Reading, in whatever way, keeps the records of blocked tasks: a task that
\* clears the writer's record wakes that writer.
LEMMA ReadKeepsRecord ==
  ASSUME PipeInv, NEW p \in Proc, NEW n \in Nat, ReadLoop(p, n),
         state[p] = "READY"
  PROVE  KeepsRecord
<1> USE DEF PipeInv, TypeOK
<1>1. CASE ReadEof(p, n)
  BY <1>1 DEF ReadEof, KeepsRecord, Recorded, End
<1>2. CASE ReadBlock(p, n)
  BY <1>2 DEF ReadBlock, KeepsRecord, Recorded, End
<1>3. CASE ReadSome(p, n)
  BY <1>3 DEF ReadSome, KeepsRecord, Recorded, End, Woken
<1> QED BY <1>1, <1>2, <1>3 DEF ReadLoop

\* So does writing.
LEMMA WriteKeepsRecord ==
  ASSUME PipeInv, NEW p \in Proc, NEW n \in Nat, WriteLoop(p, n),
         state[p] = "READY"
  PROVE  KeepsRecord
<1> USE DEF PipeInv, TypeOK
<1>1. CASE WriteAll(p, n)
  BY <1>1 DEF WriteAll, KeepsRecord, Recorded, End, Woken
<1>2. CASE WriteBlock(p, n)
  BY <1>2 DEF WriteBlock, KeepsRecord, Recorded, End
<1>3. CASE WriteBroken(p, n)
  BY <1>3 DEF WriteBroken, KeepsRecord, Recorded, End
<1> QED BY <1>1, <1>2, <1>3 DEF WriteLoop

\* And closing: the last close of a side wakes the task on the other one.
LEMMA CloseKeepsRecord ==
  ASSUME PipeInv, NEW p \in Proc, NEW es \in SUBSET End, CloseEnds(p, es),
         state[p] = "READY",
         \A q \in Proc : state[q] = "BLOCKED" => pc'[q] = pc[q]
  PROVE  KeepsRecord
BY DEF CloseEnds, KeepsRecord, Recorded, End, PipeInv, TypeOK

\* No step forgets a task that is blocked on the pipe, except by recording
\* another one in its place.
THEOREM SleepersKeepPlace == Spec => SleepersRecorded
<1>1. PipeInv /\ [Next]_vars => [KeepsRecord]_vars
  <2> SUFFICES ASSUME PipeInv, NEW p \in Proc, Step(p) PROVE KeepsRecord
    BY DEF Next
  <2> USE DEF PipeInv, TypeOK
  <2>1. CASE ReadAgain(p)
    BY <2>1, ReadKeepsRecord DEF ReadAgain, Runs
  <2>2. CASE WriteAgain(p)
    BY <2>2, WriteKeepsRecord DEF WriteAgain, Runs
  <2>3. ASSUME NEW n \in 0 .. MaxRead, Read(p, n) PROVE KeepsRecord
    BY <2>3, ReadKeepsRecord DEF Read, Runs
  <2>4. ASSUME NEW n \in 0 .. MaxWrite, Write(p, n) PROVE KeepsRecord
    BY <2>4, WriteKeepsRecord DEF Write, Runs
  <2>5. ASSUME NEW e \in End, Close(p, e) PROVE KeepsRecord
    BY <2>5, CloseKeepsRecord DEF Close, Runs
  <2>6. CASE Exit(p)
    <3>1. \A q \in Proc : state[q] = "BLOCKED" => pc'[q] = pc[q]
      BY <2>6 DEF Exit, Runs
    <3> QED BY <2>6, <3>1, CloseKeepsRecord DEF Exit, Runs
  <2>7. CASE Kill(p)
    BY <2>7 DEF Kill, Runs, KeepsRecord, Recorded, End
  <2>8. CASE Signal(p)
    BY <2>8 DEF Signal, KeepsRecord, Recorded, End
  <2>9. ASSUME NEW c \in Proc, Fork(p, c) PROVE KeepsRecord
    BY <2>9 DEF Fork, Runs, KeepsRecord, Recorded, End, HoldsWhatItUses
  <2> QED BY <2>1, <2>2, <2>3, <2>4, <2>5, <2>6, <2>7, <2>8, <2>9 DEF Step
<1> QED BY <1>1, PipeInvariant, PTL DEF Spec, SleepersRecorded

-----------------------------------------------------------------------------
(* With one reader, what a blocked read waits for                           *)

\* One task has the read end.
OneReader == \A p, q \in Proc : "read" \in holds[p] /\ "read" \in holds[q] => p = q

\* A blocked read is the recorded one, and waits for a byte that some writer
\* can still send, or for the end of a write larger than the buffer.
Waits(p) == reader_pid = p /\ ((bytes = 0 /\ write_refs # 0) \/ Oversized)
ReaderInv ==
  /\ \A p \in Proc : pc[p] = "write" => want[p] <= asked[p]
  /\ \A p \in Proc : pc[p] = "read" /\ state[p] = "BLOCKED" => Waits(p)

\* Nobody but the reader reads, and its own read leaves no blocked one behind
\* that does not wait.
LEMMA ReadKeepsReader ==
  ASSUME PipeInv, OneReader, ReaderInv, NEW p \in Proc, NEW n \in Nat,
         "read" \in holds[p], pc[p] # "write", ReadLoop(p, n)
  PROVE  ReaderInv'
<1> USE DEF PipeInv, TypeOK
<1>1. \A q \in Proc : pc[q] = "read" => q = p
  BY DEF OneReader, HoldsWhatItUses, End
<1>2. asked' = asked /\ \A q \in Proc : q # p => pc'[q] = pc[q] /\ want'[q] = want[q]
  BY DEF ReadLoop, ReadEof, ReadBlock, ReadSome
<1>3. \A q \in Proc : pc'[q] = "write" => want'[q] <= asked'[q]
  <2>1. pc'[p] # "write"
    BY DEF ReadLoop, ReadEof, ReadBlock, ReadSome
  <2> QED BY <1>2, <2>1 DEF ReaderInv
<1>4. ASSUME NEW q \in Proc, pc'[q] = "read", state'[q] = "BLOCKED" PROVE Waits(q)'
  <2>1. q = p
    BY <1>1, <1>2, <1>4
  <2>2. ReadBlock(p, n)
    BY <1>4, <2>1 DEF ReadLoop, ReadEof, ReadSome
  <2>3. reader_pid' = p /\ bytes' = 0 /\ write_refs' # 0
    BY <2>2 DEF ReadBlock, ring, refs
  <2> QED BY <2>1, <2>3 DEF Waits
<1> QED BY <1>3, <1>4 DEF ReaderInv

\* A write wakes the recorded reader, or blocks for lack of room: with an
\* empty buffer that is a write larger than it.
LEMMA WriteKeepsReader ==
  ASSUME PipeInv, ReaderInv, NEW p \in Proc, NEW n \in Nat, pc[p] \in {"run", "write"},
         WriteLoop(p, n), n <= asked'[p], asked' \in [Proc -> Nat],
         \A q \in Proc : q # p => asked'[q] = asked[q],
         pc[p] = "write" => asked'[p] = asked[p]
  PROVE  ReaderInv'
<1> USE DEF PipeInv, TypeOK
<1>1. \A q \in Proc : q # p => pc'[q] = pc[q] /\ want'[q] = want[q]
  BY DEF WriteLoop, WriteAll, WriteBlock, WriteBroken
<1>2. PIPE_BUF_SIZE \in Nat /\ bytes \in Nat /\ bytes <= PIPE_BUF_SIZE
  BY PipeAssumption
<1>3. \A q \in Proc : pc'[q] = "write" => want'[q] <= asked'[q]
  <2>1. pc'[p] = "write" => want'[p] <= n /\ want'[p] \in Nat
    BY <1>2 DEF WriteLoop, WriteAll, WriteBlock, WriteBroken
  <2>2. pc'[p] = "write" => want'[p] <= asked'[p]
    BY <2>1
  <2> QED BY <1>1, <2>2 DEF ReaderInv
<1>4. ASSUME NEW q \in Proc, pc'[q] = "read", state'[q] = "BLOCKED" PROVE Waits(q)'
  <2>1. q # p /\ pc[q] = "read"
    BY <1>1, <1>4 DEF WriteLoop, WriteAll, WriteBlock, WriteBroken
  <2>2. state[q] = "BLOCKED"
    BY <1>4, <2>1 DEF WriteLoop, WriteAll, WriteBlock, WriteBroken, Woken
  <2>3. Waits(q)
    BY <2>1, <2>2 DEF ReaderInv
  <2>4. ~WriteAll(p, n)
    BY <1>4, <2>2, <2>3 DEF WriteAll, Woken, Waits
  <2>5. ~WriteBroken(p, n)
    <3>1. "read" \in holds[q]
      BY <2>1 DEF HoldsWhatItUses, End
    <3>2. read_refs # 0
      BY <3>1 DEF EndsOK, Holders
    <3> QED BY <3>2 DEF WriteBroken
  <2>6. WriteBlock(p, n)
    BY <2>4, <2>5 DEF WriteLoop
  <2>7. reader_pid' = q /\ pc'[p] = "write"
    BY <2>3, <2>6 DEF WriteBlock, Waits
  <2>8. Oversized'
    <3>1. CASE bytes = 0
      <4>1. n > PIPE_BUF_SIZE
        BY <1>2, <2>6, <3>1 DEF WriteBlock
      <4>2. asked'[p] > PIPE_BUF_SIZE
        BY <1>2, <4>1
      <4> QED BY <2>7, <4>2 DEF Oversized
    <3>2. CASE Oversized
      <4>1. PICK r \in Proc : pc[r] = "write" /\ asked[r] > PIPE_BUF_SIZE
        BY <3>2 DEF Oversized
      <4>2. pc'[r] = "write" /\ asked'[r] = asked[r]
        BY <1>1, <2>7, <4>1
      <4> QED BY <4>1, <4>2 DEF Oversized
    <3> QED BY <2>3, <3>1, <3>2 DEF Waits
  <2> QED BY <2>7, <2>8 DEF Waits
<1> QED BY <1>3, <1>4 DEF ReaderInv

\* A step that leaves the ring alone, and every reader and writer where it is,
\* keeps the reader's record with its reason to wait.
LEMMA OtherKeepsReader ==
  ASSUME ReaderInv, UNCHANGED <<bytes, want, asked>>,
         \A q \in Proc : pc'[q] \in End <=> pc[q] \in End,
         \A q \in Proc : pc[q] \in End => pc'[q] = pc[q],
         \A q \in Proc : state'[q] = "BLOCKED" =>
           /\ state[q] = "BLOCKED"
           /\ reader_pid = q =>
                \/ pc[q] # "read"
                \/ reader_pid' = reader_pid /\ write_refs' = write_refs
  PROVE  ReaderInv'
<1>1. \A q \in Proc : pc'[q] = "write" <=> pc[q] = "write"
  BY DEF End
<1>2. \A q \in Proc : pc'[q] = "read" <=> pc[q] = "read"
  BY DEF End
<1>3. Oversized' <=> Oversized
  BY <1>1 DEF Oversized
<1>4. \A q \in Proc : pc'[q] = "write" => want'[q] <= asked'[q]
  BY <1>1 DEF ReaderInv
<1>5. ASSUME NEW q \in Proc, pc'[q] = "read", state'[q] = "BLOCKED" PROVE Waits(q)'
  <2>1. Waits(q) /\ pc[q] = "read"
    BY <1>2, <1>5 DEF ReaderInv
  <2>2. reader_pid' = reader_pid /\ write_refs' = write_refs
    BY <1>5, <2>1 DEF Waits
  <2> QED BY <1>3, <2>1, <2>2 DEF Waits
<1> QED BY <1>4, <1>5 DEF ReaderInv

\* The last close of the write end wakes the recorded reader; any other close
\* leaves it a writer.
LEMMA CloseKeepsReader ==
  ASSUME PipeInv, ReaderInv, NEW p \in Proc, NEW es \in SUBSET End, pc[p] = "run",
         CloseEnds(p, es), UNCHANGED <<ring, want, asked>>,
         pc' = pc \/ pc' = [pc EXCEPT ![p] = "dead"]
  PROVE  ReaderInv'
<1> USE DEF PipeInv, TypeOK
<1>1. UNCHANGED <<bytes, want, asked>>
  BY DEF ring
<1>2. /\ \A q \in Proc : pc'[q] \in End <=> pc[q] \in End
      /\ \A q \in Proc : pc[q] \in End => pc'[q] = pc[q]
  BY DEF End
<1>3. ASSUME NEW q \in Proc, state'[q] = "BLOCKED"
      PROVE  /\ state[q] = "BLOCKED"
             /\ reader_pid = q => reader_pid' = reader_pid /\ write_refs' = write_refs
  BY <1>3 DEF CloseEnds
<1> QED BY <1>1, <1>2, <1>3, OtherKeepsReader, Zenon

\* Every step of a task keeps the reader's reason to wait.
LEMMA ReaderInvInductive ==
  PipeInv /\ OneReader /\ ReaderInv /\ [Next]_vars => ReaderInv'
<1> SUFFICES ASSUME PipeInv, OneReader, ReaderInv, [Next]_vars PROVE ReaderInv'
  OBVIOUS
<1>1. CASE UNCHANGED vars
  BY <1>1 DEF vars, ring, refs, tasks, ReaderInv, Waits, Oversized
<1>2. ASSUME NEW p \in Proc, Step(p) PROVE ReaderInv'
  <2> USE DEF PipeInv, TypeOK
  <2>1. CASE ReadAgain(p)
    <3>1. "read" \in holds[p] /\ pc[p] # "write" /\ want[p] \in Nat /\ ReadLoop(p, want[p])
      BY <2>1 DEF ReadAgain, Runs, HoldsWhatItUses, End
    <3> QED BY <3>1, ReadKeepsReader, Zenon
  <2>2. CASE WriteAgain(p)
    <3>1. pc[p] \in {"run", "write"} /\ want[p] \in Nat /\ WriteLoop(p, want[p])
      BY <2>2 DEF WriteAgain, Runs
    <3>2. asked' = asked /\ asked' \in [Proc -> Nat] /\ want[p] <= asked'[p]
      BY <2>2 DEF WriteAgain, Runs, ReaderInv
    <3> QED BY <3>1, <3>2, WriteKeepsReader, Zenon
  <2>3. ASSUME NEW n \in 0 .. MaxRead, Read(p, n) PROVE ReaderInv'
    <3>1. "read" \in holds[p] /\ pc[p] # "write" /\ n \in Nat /\ ReadLoop(p, n)
      BY <2>3 DEF Read, Runs
    <3> QED BY <3>1, ReadKeepsReader, Zenon
  <2>4. ASSUME NEW n \in 0 .. MaxWrite, Write(p, n) PROVE ReaderInv'
    <3>1. pc[p] \in {"run", "write"} /\ pc[p] # "write" /\ n \in Nat /\ WriteLoop(p, n)
      BY <2>4 DEF Write, Runs
    <3>2. /\ asked' \in [Proc -> Nat] /\ n <= asked'[p]
          /\ \A q \in Proc : q # p => asked'[q] = asked[q]
      BY <2>4 DEF Write
    <3> QED BY <3>1, <3>2, WriteKeepsReader, Zenon
  <2>5. ASSUME NEW e \in End, Close(p, e) PROVE ReaderInv'
    <3>1. /\ pc[p] = "run" /\ {e} \in SUBSET End /\ CloseEnds(p, {e}) /\ pc' = pc
          /\ UNCHANGED <<ring, want, asked>>
      BY <2>5 DEF Close, Runs
    <3> QED BY <3>1, CloseKeepsReader, Zenon
  <2>6. CASE Exit(p)
    <3>1. /\ pc[p] = "run" /\ holds[p] \in SUBSET End /\ CloseEnds(p, holds[p])
          /\ pc' = [pc EXCEPT ![p] = "dead"] /\ UNCHANGED <<ring, want, asked>>
      BY <2>6 DEF Exit, Runs
    <3> QED BY <3>1, CloseKeepsReader, Zenon
  <2>7. CASE Kill(p) \/ Signal(p) \/ \E c \in Proc : Fork(p, c)
    <3>1. UNCHANGED <<bytes, want, asked, reader_pid, write_refs>>
      BY <2>7 DEF Kill, Signal, Fork, ring, refs
    <3>2. /\ \A q \in Proc : pc'[q] \in End <=> pc[q] \in End
          /\ \A q \in Proc : pc[q] \in End => pc'[q] = pc[q]
      BY <2>7 DEF Kill, Signal, Fork, Runs, End
    <3>3. \A q \in Proc : state'[q] = "BLOCKED" => state[q] = "BLOCKED"
      BY <2>7 DEF Kill, Signal, Fork
    <3> QED BY <3>1, <3>2, <3>3, OtherKeepsReader, Zenon
  <2> QED BY <1>2, <2>1, <2>2, <2>3, <2>4, <2>5, <2>6, <2>7 DEF Step
<1> QED BY <1>1, <1>2 DEF Next

\* As long as one task has the read end, its read sleeps on bytes that are
\* there, or after the last writer is gone, only if a write larger than the
\* buffer is under way: pipe_write_op and pipe_close_write wake it otherwise.
THEOREM BlockedReadersWait == Spec /\ []OneReader => []BlockedOnlyByOversized
<1>1. Init => ReaderInv
  BY DEF Init, ReaderInv
<1>2. PipeInv /\ ReaderInv => BlockedOnlyByOversized
  BY DEF PipeInv, TypeOK, ReaderInv, Waits, BlockedOnlyByOversized
<1> QED BY <1>1, <1>2, ReaderInvInductive, PipeInvariant, PTL DEF Spec

-----------------------------------------------------------------------------
(* The pipe implements PipeFifo *)

\* The bytes in the ring are numbered from rcvd on, as the FIFO's are.
LEMMA ContentIs ==
  ASSUME TypeOK, RingOK
  PROVE  /\ Content = [i \in 1 .. bytes |-> rcvd + i - 1]
         /\ Content \in Seq(Nat) /\ Len(Content) = bytes
<1>1. bytes \in Nat /\ rcvd \in Nat
  BY PipeAssumption DEF TypeOK
<1>2. ASSUME NEW i \in 1 .. bytes
      PROVE  buf[At(read_pos, i - 1)] = rcvd + i - 1
  <2>1. i - 1 \in 0 .. bytes - 1
    BY <1>1
  <2>2. buf[At(read_pos, i - 1)] = rcvd + (i - 1)
    BY <2>1 DEF RingOK
  <2> QED BY <1>1, <2>2
<1>3. Content = [i \in 1 .. bytes |-> rcvd + i - 1]
  BY <1>2 DEF Content
<1>4. [i \in 1 .. bytes |-> rcvd + i - 1] \in Seq(Nat)
      /\ Len([i \in 1 .. bytes |-> rcvd + i - 1]) = bytes
  BY <1>1
<1> QED BY <1>3, <1>4, Zenon

\* Storing k bytes appends their numbers.
LEMMA StoreAppends ==
  ASSUME TypeOK, RingOK, NEW k \in Nat, k <= PIPE_BUF_SIZE - bytes, Store(k)
  PROVE  /\ Content' = Content \o [i \in 1 .. k |-> sent + i - 1]
         /\ sent' = sent + k
         /\ Len(Content) + k <= PIPE_BUF_SIZE
<1>1. /\ RingOK' /\ bytes' = bytes + k /\ sent' = sent + k /\ rcvd' = rcvd
      /\ buf' \in [Pos -> Nat] /\ bytes' \in 0 .. PIPE_BUF_SIZE
      /\ read_pos' = read_pos
  BY StoreKeepsRing
<1>2. /\ bytes \in Nat /\ rcvd \in Nat /\ sent \in Nat /\ rcvd + bytes = sent
      /\ PIPE_BUF_SIZE \in Nat
  BY PipeAssumption DEF TypeOK, RingOK
<1>3. ASSUME NEW i \in 1 .. bytes'
      PROVE  buf'[At(read_pos', i - 1)] = rcvd + i - 1
  <2>1. i - 1 \in 0 .. bytes' - 1
    BY <1>1, <1>2
  <2>2. buf'[At(read_pos', i - 1)] = rcvd' + (i - 1)
    BY <1>1, <2>1 DEF RingOK, At
  <2> QED BY <1>1, <1>2, <2>2
<1>4. Content' = [i \in 1 .. bytes + k |-> rcvd + i - 1]
  BY <1>1, <1>3 DEF Content, At
<1>5. Content = [i \in 1 .. bytes |-> rcvd + i - 1] /\ Len(Content) = bytes
  BY ContentIs
<1>6. [i \in 1 .. bytes + k |-> rcvd + i - 1]
        = [i \in 1 .. bytes |-> rcvd + i - 1]
            \o [i \in 1 .. k |-> sent + i - 1]
  BY <1>2, SMTT(30)
<1> QED BY <1>1, <1>2, <1>4, <1>5, <1>6

\* Fetching k bytes takes them off the front.
LEMMA FetchRemoves ==
  ASSUME TypeOK, RingOK, NEW k \in 0 .. bytes, Fetch(k)
  PROVE  Content' = SubSeq(Content, k + 1, Len(Content)) /\ sent' = sent
<1>1. /\ RingOK' /\ bytes' = bytes - k /\ rcvd' = rcvd + k
      /\ UNCHANGED <<buf, write_pos, sent>>
  BY FetchKeepsRing
<1>2. bytes \in Nat /\ rcvd \in Nat
  BY PipeAssumption DEF TypeOK
<1>3. ASSUME NEW i \in 1 .. bytes'
      PROVE  buf'[At(read_pos', i - 1)] = rcvd + k + i - 1
  <2>1. i - 1 \in 0 .. bytes' - 1
    BY <1>1, <1>2
  <2>2. buf'[At(read_pos', i - 1)] = rcvd' + (i - 1)
    BY <1>1, <2>1 DEF RingOK, At
  <2> QED BY <1>1, <1>2, <2>2
<1>4. Content' = [i \in 1 .. bytes - k |-> rcvd + k + i - 1]
  BY <1>1, <1>3 DEF Content, At
<1>5. Content = [i \in 1 .. bytes |-> rcvd + i - 1] /\ Len(Content) = bytes
  BY ContentIs
<1>6. SubSeq([i \in 1 .. bytes |-> rcvd + i - 1], k + 1, bytes)
        = [i \in 1 .. bytes - k |-> rcvd + k + i - 1]
  BY <1>2
<1> QED BY <1>1, <1>4, <1>5, <1>6, Zenon

\* A write is one Put, or nothing when it stores no byte.
LEMMA StoreIsPut ==
  ASSUME PipeInv, NEW k \in Nat, k <= PIPE_BUF_SIZE - bytes, Store(k),
         write_refs # 0, UNCHANGED <<refs, eof>>
  PROVE  [Fifo!Next]_(Fifo!vars)
<1>1. /\ Content' = Content \o [i \in 1 .. k |-> sent + i - 1]
      /\ sent' = sent + k
      /\ Len(Content) + k <= PIPE_BUF_SIZE
  BY StoreAppends DEF PipeInv
<1>2. /\ Content \in Seq(Nat) /\ Len(Content) = bytes
      /\ bytes \in Nat /\ sent \in Nat /\ PIPE_BUF_SIZE \in Nat
  BY ContentIs, PipeAssumption DEF PipeInv, TypeOK
<1>3. read_refs' = read_refs /\ write_refs' = write_refs /\ eof' = eof
  BY DEF refs
<1>4. CASE k = 0
  <2>1. [i \in 1 .. k |-> sent + i - 1] = << >>
    BY <1>4
  <2>2. Content' = Content /\ sent' = sent
    BY <1>1, <1>2, <1>4, <2>1
  <2> QED BY <1>3, <2>2 DEF Fifo!vars
<1>5. CASE k # 0
  <2>1. Fifo!Put(k)
    BY <1>1, <1>3 DEF Fifo!Put
  <2>2. k \in 1 .. PIPE_BUF_SIZE
    BY <1>1, <1>2, <1>5
  <2> QED BY <2>1, <2>2 DEF Fifo!Next
<1> QED BY <1>4, <1>5

\* A step that leaves the ring alone and opens no end is a Close or a stutter.
LEMMA EndsOnly ==
  ASSUME UNCHANGED <<ring, eof>>,
         read_refs = 0 => read_refs' = 0, write_refs = 0 => write_refs' = 0
  PROVE  Fifo!Next
<1>1. Content' = Content /\ sent' = sent /\ eof' = eof
  BY DEF ring, Content, At
<1>2. /\ (read_refs' # 0) \in {read_refs # 0, FALSE}
      /\ (write_refs' # 0) \in {write_refs # 0, FALSE}
  BY Zenon
<1>3. Fifo!Close
  BY <1>1, <1>2, Zenon DEF Fifo!Close
<1> QED BY <1>3 DEF Fifo!Next

\* pipe_read_op is a Get, an Eof or, when it blocks, no step of the FIFO.
LEMMA ReadLoopRefines ==
  ASSUME PipeInv, NEW p \in Proc, NEW n \in Nat, "read" \in holds[p],
         ReadLoop(p, n)
  PROVE  [Fifo!Next]_(Fifo!vars)
<1>1. read_refs # 0
  BY DEF PipeInv, EndsOK, Holders
<1>2. CASE ReadEof(p, n)
  <2>1. Content' = Content /\ UNCHANGED <<sent, read_refs, write_refs>>
    BY <1>2 DEF ReadEof, ring, refs, Content, At
  <2>2. Content = << >>
    BY <1>2, ContentIs DEF ReadEof, PipeInv
  <2>3. Fifo!Eof
    BY <1>1, <1>2, <2>1, <2>2 DEF ReadEof, Fifo!Eof
  <2> QED BY <2>3 DEF Fifo!Next
<1>3. CASE ReadBlock(p, n)
  BY <1>3, EndsOnly DEF ReadBlock, refs
<1>4. CASE ReadSome(p, n)
  <2> DEFINE k == Min(n, bytes)
  <2>1. k \in 0 .. bytes /\ Fetch(k)
    BY <1>4 DEF ReadSome, Min, PipeInv, TypeOK
  <2> HIDE DEF k
  <2>2. Content' = SubSeq(Content, k + 1, Len(Content)) /\ sent' = sent
    BY <2>1, FetchRemoves DEF PipeInv
  <2>3. UNCHANGED <<read_refs, write_refs, eof>>
    BY <1>4 DEF ReadSome, refs
  <2>4. Content \in Seq(Nat) /\ Len(Content) = bytes /\ bytes \in Nat
    BY ContentIs, PipeAssumption, SMTT(30) DEF PipeInv, TypeOK
  <2>5. CASE k = 0
    <3>1. Content' = Content
      BY <2>2, <2>4, <2>5
    <3> QED BY <2>2, <2>3, <3>1 DEF Fifo!vars
  <2>6. CASE k # 0
    <3>1. Fifo!Get(k)
      BY <1>1, <2>2, <2>3 DEF Fifo!Get
    <3>2. k \in 1 .. Len(Content)
      BY <2>1, <2>4, <2>6
    <3> QED BY <3>1, <3>2 DEF Fifo!Next
  <2> QED BY <2>5, <2>6
<1> QED BY <1>2, <1>3, <1>4 DEF ReadLoop

\* pipe_write_op, up to where it returns or blocks, is a Put or no step.
LEMMA WriteLoopRefines ==
  ASSUME PipeInv, NEW p \in Proc, NEW n \in Nat, "write" \in holds[p],
         WriteLoop(p, n)
  PROVE  [Fifo!Next]_(Fifo!vars)
<1>1. write_refs # 0
  BY DEF PipeInv, EndsOK, Holders
<1>2. PIPE_BUF_SIZE - bytes \in Nat
      /\ PIPE_BUF_SIZE - bytes <= PIPE_BUF_SIZE - bytes
  BY PipeAssumption DEF PipeInv, TypeOK
<1>3. CASE WriteAll(p, n)
  BY <1>1, <1>3, StoreIsPut DEF WriteAll
<1>4. CASE WriteBlock(p, n)
  BY <1>1, <1>2, <1>4, StoreIsPut DEF WriteBlock
<1>5. CASE WriteBroken(p, n)
  BY <1>1, <1>2, <1>5, StoreIsPut DEF WriteBroken
<1> QED BY <1>3, <1>4, <1>5 DEF WriteLoop

\* Every step of a task is a step of the channel, or none.
LEMMA StepRefines ==
  PipeInv /\ [Next]_vars => [Fifo!Next]_(Fifo!vars)
<1> SUFFICES ASSUME PipeInv, [Next]_vars PROVE [Fifo!Next]_(Fifo!vars)
  OBVIOUS
<1>1. CASE UNCHANGED vars
  BY <1>1, EndsOnly DEF vars, refs
<1>2. ASSUME NEW p \in Proc, Step(p) PROVE [Fifo!Next]_(Fifo!vars)
  <2>1. CASE ReadAgain(p)
    BY <2>1, ReadLoopRefines
       DEF ReadAgain, Runs, PipeInv, TypeOK, HoldsWhatItUses, End
  <2>2. CASE WriteAgain(p)
    BY <2>2, WriteLoopRefines
       DEF WriteAgain, Runs, PipeInv, TypeOK, HoldsWhatItUses, End
  <2>3. ASSUME NEW n \in 0 .. MaxRead, Read(p, n)
        PROVE  [Fifo!Next]_(Fifo!vars)
    BY <2>3, ReadLoopRefines DEF Read
  <2>4. ASSUME NEW n \in 0 .. MaxWrite, Write(p, n)
        PROVE  [Fifo!Next]_(Fifo!vars)
    BY <2>4, WriteLoopRefines DEF Write
  <2>5. ASSUME NEW es \in SUBSET holds[p], CloseEnds(p, es),
               UNCHANGED <<ring, eof>>
        PROVE  Fifo!Next
    <3>1. read_refs = 0 => read_refs' = 0
      BY <2>5 DEF CloseEnds, LastHolder, PipeInv, EndsOK
    <3>2. write_refs = 0 => write_refs' = 0
      BY <2>5 DEF CloseEnds, LastHolder, PipeInv, EndsOK
    <3> QED BY <2>5, <3>1, <3>2, EndsOnly
  <2>6. ASSUME NEW e \in End, Close(p, e) PROVE Fifo!Next
    BY <2>5, <2>6 DEF Close
  <2>7. CASE Exit(p)
    BY <2>5, <2>7 DEF Exit
  <2>8. CASE Kill(p) \/ Signal(p)
    BY <2>8, EndsOnly DEF Kill, Signal, refs
  <2>9. ASSUME NEW c \in Proc, Fork(p, c) PROVE Fifo!Next
    BY <2>9, EndsOnly DEF Fork
  <2> QED BY <1>2, <2>1, <2>2, <2>3, <2>4, <2>6, <2>7, <2>8, <2>9 DEF Step
<1> QED BY <1>1, <1>2 DEF Next

\* A pipe fresh from pipe_alloc is an empty FIFO with both ends open.
LEMMA InitRefines == Init => Fifo!Init
<1> SUFFICES ASSUME Init PROVE Fifo!Init
  OBVIOUS
<1>1. Content = << >>
  BY DEF Init, Content
<1> QED BY <1>1 DEF Init, Fifo!Init

\* The pipe is a bounded first-in first-out channel whose ends close for good.
THEOREM PipeIsFifo == Spec => FifoSpec
<1>1. Spec => Fifo!Spec
  BY InitRefines, StepRefines, PipeInvariant, PTL DEF Spec, Fifo!Spec
<1> QED BY <1>1 DEF FifoSpec
=============================================================================
