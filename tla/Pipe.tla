-------------------------------- MODULE Pipe --------------------------------
(***************************************************************************)
(* One pipe of kernel/pipe.c: the ring buffer, the blocking of readers and *)
(* writers, and the life of its two ends from sys_pipe to pipe_free.       *)
(*                                                                         *)
(* System calls run with interrupts off, so a step is a stretch of         *)
(* pipe_read_op or pipe_write_op up to task_block or the return, and       *)
(* between two steps any READY task may run.  Bytes are numbered in the    *)
(* order in which they are written: the buffer holds their numbers.        *)
(***************************************************************************)
EXTENDS Integers, FiniteSets

CONSTANTS
  PIPE_BUF_SIZE,
  Proc,         \* the tasks that may come to hold an end
  Ends,         \* which ends each task of Proc holds at the start
  MaxRead,      \* largest nbyte of a read
  MaxWrite,     \* largest nbyte of a write
  MaxSent       \* bound on the bytes written in a run

End == {"read", "write"}
NoPid == -1

ASSUME PipeAssumption ==
  /\ PIPE_BUF_SIZE \in Nat \ {0}
  /\ IsFiniteSet(Proc) /\ NoPid \notin Proc
  /\ Ends \in [Proc -> SUBSET End]
  /\ \A e \in End : \E p \in Proc : e \in Ends[p]
  /\ MaxRead \in Nat /\ MaxWrite \in Nat /\ MaxSent \in Nat

VARIABLES
  buf, read_pos, write_pos, bytes,
  read_refs, write_refs,    \* open files on each end: 1 or 0
  reader_pid, writer_pid,   \* the one task recorded as waiting on each side
  used,                     \* pipe_used
  holds,                    \* the ends in each task's fd table
  pc,        \* none: not forked; run: elsewhere; read, write; dead: killed
  state,     \* READY or BLOCKED
  want,      \* bytes a read asked for, or a write has still to store
  asked,     \* bytes the write asked for
  sent, rcvd, \* how many bytes went in and out
  eof        \* has a read returned end of file?

ring == <<buf, read_pos, write_pos, bytes, sent, rcvd>>
refs == <<read_refs, write_refs, used, holds>>
tasks == <<pc, state, want, asked>>
vars == <<ring, refs, reader_pid, writer_pid, tasks, eof>>

Pos == 0 .. PIPE_BUF_SIZE - 1
Holders(e) == {p \in Proc : e \in holds[p]}
-----------------------------------------------------------------------------
\* Where the i-th byte from position pos is.
At(pos, i) == (pos + i) % PIPE_BUF_SIZE

\* The numbers of the bytes in the pipe, from the oldest on.
Content == [i \in 1 .. bytes |-> buf[At(read_pos, i - 1)]]

Min(a, b) == IF a < b THEN a ELSE b

\* The inner part of pipe_write_op's loop, k times.
Store(k) ==
  /\ buf' = [i \in Pos |->
               IF \E j \in 0 .. k - 1 : At(write_pos, j) = i
               THEN sent + (CHOOSE j \in 0 .. k - 1 : At(write_pos, j) = i)
               ELSE buf[i]]
  /\ write_pos' = At(write_pos, k)
  /\ bytes' = bytes + k
  /\ sent' = sent + k
  /\ UNCHANGED <<read_pos, rcvd>>

\* Mutant: a read leaves the position one short.
FetchShort(k) ==
  /\ read_pos' = IF k > 1 THEN At(read_pos, k - 1) ELSE At(read_pos, k)
  /\ bytes' = bytes - k
  /\ rcvd' = rcvd + k
  /\ UNCHANGED <<buf, write_pos, sent>>

\* The loop of pipe_read_op, k times.
Fetch(k) ==
  /\ read_pos' = At(read_pos, k)
  /\ bytes' = bytes - k
  /\ rcvd' = rcvd + k
  /\ UNCHANGED <<buf, write_pos, sent>>

\* Mutant: the task recorded on a side is not woken.
WakeNobody(pid) == state

\* task_wake on the task recorded on one side, if any.
Woken(pid) ==
  IF pid \in Proc /\ state[pid] = "BLOCKED"
  THEN [state EXCEPT ![pid] = "READY"] ELSE state

Runs(p, l) == state[p] = "READY" /\ pc[p] = l
-----------------------------------------------------------------------------
(* pipe_read_op *)

\* Mutant: an empty pipe is the end of file.
ReadEofEarly(p, n) ==
  /\ bytes = 0
  /\ pc' = [pc EXCEPT ![p] = "run"]
  /\ want' = [want EXCEPT ![p] = 0]
  /\ eof' = TRUE
  /\ UNCHANGED <<ring, refs, reader_pid, writer_pid, state, asked>>

\* The pipe is empty and nobody holds the write end any more: end of file.
ReadEof(p, n) ==
  /\ bytes = 0 /\ write_refs = 0
  /\ pc' = [pc EXCEPT ![p] = "run"]
  /\ want' = [want EXCEPT ![p] = 0]
  /\ eof' = TRUE
  /\ UNCHANGED <<ring, refs, reader_pid, writer_pid, state, asked>>

\* The pipe is empty: the task records itself and blocks.
ReadBlock(p, n) ==
  /\ bytes = 0 /\ write_refs # 0
  /\ reader_pid' = p
  /\ state' = [state EXCEPT ![p] = "BLOCKED"]
  /\ pc' = [pc EXCEPT ![p] = "read"]
  /\ want' = [want EXCEPT ![p] = n]
  /\ UNCHANGED <<ring, refs, writer_pid, asked, eof>>

\* There is something to read: take what is there, wake the writer, return.
ReadSome(p, n) ==
  /\ bytes > 0
  /\ Fetch(Min(n, bytes))
  /\ state' = Woken(writer_pid)
  /\ writer_pid' = NoPid
  /\ pc' = [pc EXCEPT ![p] = "run"]
  /\ want' = [want EXCEPT ![p] = 0]
  /\ UNCHANGED <<refs, reader_pid, asked, eof>>

ReadLoop(p, n) == ReadEof(p, n) \/ ReadBlock(p, n) \/ ReadSome(p, n)

\* sys_read on the read end, and the return of task_block in it.
Read(p, n) == Runs(p, "run") /\ "read" \in holds[p] /\ ReadLoop(p, n)
ReadAgain(p) == Runs(p, "read") /\ ReadLoop(p, want[p])
-----------------------------------------------------------------------------
(* pipe_write_op, with n bytes still to store *)

\* They fit: store them, wake the reader, return.
WriteAll(p, n) ==
  /\ n <= PIPE_BUF_SIZE - bytes
  /\ Store(n)
  /\ state' = Woken(reader_pid)
  /\ reader_pid' = NoPid
  /\ pc' = [pc EXCEPT ![p] = "run"]
  /\ want' = [want EXCEPT ![p] = 0]
  /\ UNCHANGED <<refs, writer_pid, eof>>

\* They do not: fill the buffer, record the task and block.  The reader is
\* not woken.
WriteBlock(p, n) ==
  /\ n > PIPE_BUF_SIZE - bytes
  /\ read_refs # 0
  /\ Store(PIPE_BUF_SIZE - bytes)
  /\ writer_pid' = p
  /\ state' = [state EXCEPT ![p] = "BLOCKED"]
  /\ pc' = [pc EXCEPT ![p] = "write"]
  /\ want' = [want EXCEPT ![p] = n - (PIPE_BUF_SIZE - bytes)]
  /\ UNCHANGED <<refs, reader_pid, eof>>

\* The buffer is full and nobody holds the read end any more: give up.
WriteBroken(p, n) ==
  /\ n > PIPE_BUF_SIZE - bytes
  /\ read_refs = 0
  /\ Store(PIPE_BUF_SIZE - bytes)
  /\ pc' = [pc EXCEPT ![p] = "run"]
  /\ want' = [want EXCEPT ![p] = 0]
  /\ UNCHANGED <<refs, reader_pid, writer_pid, state, eof>>

WriteLoop(p, n) == WriteAll(p, n) \/ WriteBlock(p, n) \/ WriteBroken(p, n)

\* sys_write on the write end, and the return of task_block in it.
Write(p, n) ==
  /\ Runs(p, "run") /\ "write" \in holds[p]
  /\ sent + n <= MaxSent
  /\ asked' = [asked EXCEPT ![p] = n]
  /\ WriteLoop(p, n)
WriteAgain(p) == Runs(p, "write") /\ WriteLoop(p, want[p]) /\ UNCHANGED asked
-----------------------------------------------------------------------------
(* The ends *)

LastHolder(p, e) == Holders(e) = {p}

\* pipe_free is called: the last file on one side goes, the other is gone.
Freed(p, es) ==
  /\ \E e \in es : LastHolder(p, e)
  /\ ("read" \in es /\ LastHolder(p, "read")) \/ read_refs = 0
  /\ ("write" \in es /\ LastHolder(p, "write")) \/ write_refs = 0

\* vfs_close_file on the ends es of p.  The file's close operation runs when
\* no other task has it: it wakes the task recorded on the other side, and
\* frees the pipe when that side is closed too.
CloseEnds(p, es) ==
  LET lastr == "read" \in es /\ LastHolder(p, "read")
      lastw == "write" \in es /\ LastHolder(p, "write")
      woken == (IF lastr THEN {writer_pid} ELSE {})
               \cup (IF lastw THEN {reader_pid} ELSE {})
  IN  /\ holds' = [holds EXCEPT ![p] = @ \ es]
      /\ read_refs' = IF lastr THEN read_refs - 1 ELSE read_refs
      /\ write_refs' = IF lastw THEN write_refs - 1 ELSE write_refs
      /\ state' = [q \in Proc |-> IF q \in woken /\ state[q] = "BLOCKED"
                                  THEN "READY" ELSE state[q]]
      /\ writer_pid' = IF lastr THEN NoPid ELSE writer_pid
      /\ reader_pid' = IF lastw THEN NoPid ELSE reader_pid
      /\ used' = (used /\ ~Freed(p, es))

\* sys_close, or a dup2 over the descriptor.
Close(p, e) ==
  /\ Runs(p, "run") /\ e \in holds[p]
  /\ CloseEnds(p, {e})
  /\ UNCHANGED <<ring, pc, want, asked, eof>>

\* sys_exit closes every descriptor.
Exit(p) ==
  /\ Runs(p, "run")
  /\ CloseEnds(p, holds[p])
  /\ pc' = [pc EXCEPT ![p] = "dead"]
  /\ UNCHANGED <<ring, want, asked, eof>>

\* A signal ends the task on its way to ring 3; its descriptors stay.
Kill(p) ==
  /\ Runs(p, "run")
  /\ pc' = [pc EXCEPT ![p] = "dead"]
  /\ UNCHANGED <<ring, refs, reader_pid, writer_pid, state, want, asked, eof>>

\* signal_send to a task that waits: it goes round its loop once more.
Signal(p) ==
  /\ state[p] = "BLOCKED"
  /\ state' = [state EXCEPT ![p] = "READY"]
  /\ UNCHANGED <<ring, refs, reader_pid, writer_pid, pc, want, asked, eof>>

\* task_fork copies the descriptors.
Fork(p, c) ==
  /\ Runs(p, "run") /\ pc[c] = "none"
  /\ pc' = [pc EXCEPT ![c] = "run"]
  /\ holds' = [holds EXCEPT ![c] = holds[p]]
  /\ UNCHANGED <<ring, read_refs, write_refs, used, reader_pid, writer_pid,
                 state, want, asked, eof>>
-----------------------------------------------------------------------------
\* The pipe after sys_pipe and the forks that spread its ends as Ends says.
Init ==
  /\ buf = [i \in Pos |-> 0]
  /\ read_pos = 0 /\ write_pos = 0 /\ bytes = 0
  /\ read_refs = 1 /\ write_refs = 1
  /\ reader_pid = NoPid /\ writer_pid = NoPid
  /\ used = TRUE
  /\ holds = Ends
  /\ pc = [p \in Proc |-> IF Ends[p] = {} THEN "none" ELSE "run"]
  /\ state = [p \in Proc |-> "READY"]
  /\ want = [p \in Proc |-> 0]
  /\ asked = [p \in Proc |-> 0]
  /\ sent = 0 /\ rcvd = 0
  /\ eof = FALSE

Step(p) ==
  \/ ReadAgain(p) \/ WriteAgain(p)
  \/ \E n \in 0 .. MaxRead : Read(p, n)
  \/ \E n \in 0 .. MaxWrite : Write(p, n)
  \/ \E e \in End : Close(p, e)
  \/ Exit(p) \/ Kill(p) \/ Signal(p)
  \/ \E c \in Proc : Fork(p, c)

Next == \E p \in Proc : Step(p)

\* A READY task gets the CPU (Tasks!ReadyRuns).  Programs promise nothing.
Fairness == \A p \in Proc : WF_vars(ReadAgain(p)) /\ WF_vars(WriteAgain(p))

Spec == Init /\ [][Next]_vars
FairSpec == Spec /\ Fairness
-----------------------------------------------------------------------------
(* Properties *)

\* Every field of struct pipe and every task has its type: bytes stays within
\* the buffer, and each end has one file at most, so one reference at most.
TypeOK ==
  /\ buf \in [Pos -> Nat]
  /\ read_pos \in Pos /\ write_pos \in Pos
  /\ bytes \in 0 .. PIPE_BUF_SIZE
  /\ read_refs \in 0 .. 1 /\ write_refs \in 0 .. 1
  /\ reader_pid \in Proc \cup {NoPid} /\ writer_pid \in Proc \cup {NoPid}
  /\ used \in BOOLEAN
  /\ holds \in [Proc -> SUBSET End]
  /\ pc \in [Proc -> {"none", "run", "read", "write", "dead"}]
  /\ state \in [Proc -> {"READY", "BLOCKED"}]
  /\ want \in [Proc -> Nat] /\ asked \in [Proc -> Nat]
  /\ sent \in Nat /\ rcvd \in Nat
  /\ eof \in BOOLEAN

\* The buffer holds the bytes that were written and not yet read, in order,
\* without loss, repetition or overwriting, wherever the positions wrap.
RingOK ==
  /\ write_pos = At(read_pos, bytes)
  /\ rcvd + bytes = sent
  /\ \A i \in 0 .. bytes - 1 : buf[At(read_pos, i)] = rcvd + i

\* The reference counts follow the descriptors: an end counts as open as long
\* as some task holds it, and the pipe is freed exactly when nobody holds
\* either end, never under a task that does.
EndsOK ==
  /\ read_refs = IF Holders("read") = {} THEN 0 ELSE 1
  /\ write_refs = IF Holders("write") = {} THEN 0 ELSE 1
  /\ used <=> Holders("read") \cup Holders("write") # {}

\* End of file is reported only when every byte has been read and no task
\* can write any more, and that stays so.
EofIsFinal == eof => write_refs = 0 /\ rcvd = sent

\* A task inside pipe_read_op or pipe_write_op still holds the end it works on.
HoldsWhatItUses ==
  \A p \in Proc : /\ pc[p] \in End => pc[p] \in holds[p]
                  /\ pc[p] = "none" => holds[p] = {}

\* The inductive invariant: bytes come out as they went in, the ends are
\* counted right, and end of file is told only after the last byte.
PipeInv == TypeOK /\ RingOK /\ EndsOK /\ EofIsFinal /\ HoldsWhatItUses

\* A write larger than the buffer is under way: pipe_write_op wakes the reader
\* only when it is through, and blocks before that.
Oversized == \E q \in Proc : pc[q] = "write" /\ asked[q] > PIPE_BUF_SIZE

\* With one reader: it stays blocked while the pipe has data for it, or has
\* no writer left, only if a write larger than the buffer waits on it.
BlockedOnlyByOversized ==
  \A p \in Proc :
    (/\ pc[p] = "read" /\ state[p] = "BLOCKED"
     /\ bytes > 0 \/ write_refs = 0) => Oversized

\* With one reader: a read returns once there is data, or no writer is left,
\* unless a write larger than the buffer waits on it.
ReaderServed ==
  \A p \in Proc : (pc[p] = "read" /\ (bytes > 0 \/ write_refs = 0))
                    ~> (pc[p] # "read" \/ Oversized)

\* With one writer: it fills the room that a read makes, or gives up when no
\* reader is left.
WriterServed ==
  \A p \in Proc :
    (pc[p] = "write" /\ (bytes < PIPE_BUF_SIZE \/ read_refs = 0))
      ~> (pc[p] # "write" \/ (bytes = PIPE_BUF_SIZE /\ read_refs # 0))

Recorded(e) == IF e = "read" THEN reader_pid ELSE writer_pid

\* A step leaves every task that is blocked on a side recorded there, unless it
\* was not before or another blocked task is now.
KeepsRecord ==
  \A p \in Proc, e \in End :
    state'[p] = "BLOCKED" /\ pc'[p] = e =>
      \/ Recorded(e)' = p
      \/ state[p] = "BLOCKED" /\ Recorded(e) # p
      \/ Recorded(e)' \in Proc /\ state'[Recorded(e)'] = "BLOCKED"

\* A task that blocks on a pipe is recorded on its side, and stays so until it
\* is woken or another task that blocks there takes its place: as long as kernel
\* code is not interrupted, whoever clears the record wakes the task in it.
SleepersRecorded == [][KeepsRecord]_vars

\* The pipe is a bounded first-in first-out channel with two ends.
Fifo == INSTANCE PipeFifo WITH
          Capacity <- PIPE_BUF_SIZE, content <- Content,
          readable <- (read_refs # 0), writable <- (write_refs # 0)
FifoSpec == Fifo!Spec
=============================================================================
