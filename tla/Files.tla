------------------------------- MODULE Files --------------------------------
(***************************************************************************)
(* Descriptors, open files and pipes: the per-task fd_table, the shared    *)
(* table vfs_open_files with its reference counts, and the pool of pipes,  *)
(* under every system call and task event that changes them.               *)
(*                                                                         *)
(* System calls run with interrupts off and none of these blocks, so each  *)
(* one is a step.                                                          *)
(*                                                                         *)
(* fcntl does not check the minimum of F_DUPFD, and a negative one makes   *)
(* it write outside fd_table.  stray is a history variable: how often that *)
(* stored a file where no call looks for one.  When it wrote over          *)
(* something in use, wild is set and the model stops: the variables keep   *)
(* the last state that is described.                                       *)
(***************************************************************************)
EXTENDS Integers, FiniteSets

CONSTANTS
  MAX_TASKS, VFS_MAX_FD, VFS_MAX_OPEN_FILES, PIPE_MAX_PIPES,
  Inode,    \* what can be opened by name
  STD,      \* descriptors the first task starts with: 3 in the code
  MaxStray  \* bound: how often files are stored outside the tables

NULL == -1
Task == 0 .. MAX_TASKS - 1
Fd == 0 .. VFS_MAX_FD - 1
File == 0 .. VFS_MAX_OPEN_FILES - 1
Pipe == 0 .. PIPE_MAX_PIPES - 1

ASSUME FilesAssumption ==
  /\ MAX_TASKS \in Nat \ {0}
  /\ VFS_MAX_FD \in Nat /\ VFS_MAX_OPEN_FILES \in Nat /\ PIPE_MAX_PIPES \in Nat
  /\ STD \in Nat /\ STD <= VFS_MAX_FD /\ STD <= VFS_MAX_OPEN_FILES
  /\ MaxStray \in Nat
  /\ Inode # {}

VARIABLES
  status,                       \* none, live, dead, or lost: a failed fork
  fd_table,                     \* the files behind each task's descriptors
  ops, private_data, refcount,  \* vfs_open_files
  pipe_used, read_refs, write_refs,
  stray, wild                   \* what was written outside the tables

files == <<ops, private_data, refcount>>
pipes == <<pipe_used, read_refs, write_refs>>
outside == <<stray, wild>>
vars == <<status, fd_table, files, pipes, outside>>

\* The descriptors, of whatever task, that name file f.
Refs(f) == {r \in Task \X Fd : fd_table[r[1]][r[2]] = f}
-----------------------------------------------------------------------------
(* Allocation: always the first free entry *)

First(S) == CHOOSE x \in S : \A y \in S : x <= y

FreeFiles == {f \in File : ops[f] = "none"}
FreePipes == {i \in Pipe : ~pipe_used[i]}
FreeFds(t) == {d \in Fd : fd_table[t][d] = NULL}
FreeTasks == {t \in Task : status[t] = "none"}
-----------------------------------------------------------------------------
(* vfs_close_file, once for each descriptor in D of task t *)

Count(t, D) ==
  [f \in File |-> refcount[f] - Cardinality({d \in D : fd_table[t][d] = f})]

\* Mutant: the file is closed whoever else has it.
ReleasedAnyway(t, D) == {f \in File : \E d \in D : fd_table[t][d] = f}

\* The files whose last reference that was: their close operation runs.
Released(t, D) ==
  {f \in File : (\E d \in D : fd_table[t][d] = f) /\ Count(t, D)[f] <= 0}

\* The files of R that are the end e of pipe i.
EndsIn(R, e, i) == {f \in R : ops[f] = e /\ private_data[f] = i}

\* pipe_close_read and pipe_close_write for the files of R.
ClosePipes(R) ==
  /\ read_refs' =
       [i \in Pipe |-> read_refs[i] - Cardinality(EndsIn(R, "pipe_read", i))]
  /\ write_refs' =
       [i \in Pipe |-> write_refs[i] - Cardinality(EndsIn(R, "pipe_write", i))]
  /\ pipe_used' =
       [i \in Pipe |-> pipe_used[i] /\
          ~(/\ EndsIn(R, "pipe_read", i) \cup EndsIn(R, "pipe_write", i) # {}
            /\ read_refs'[i] = 0 /\ write_refs'[i] = 0)]

\* What becomes of the tables when R is released.
CloseFiles(R) ==
  /\ ops' = [f \in File |-> IF f \in R THEN "none" ELSE ops[f]]
  /\ private_data' = [f \in File |-> IF f \in R THEN NULL ELSE private_data[f]]
  /\ ClosePipes(R)
-----------------------------------------------------------------------------
(* System calls of task t *)

Live(t) == status[t] = "live"

\* sys_open: vfs_open_file_flags takes a file, then a descriptor is found.
Open(t, x) ==
  /\ Live(t) /\ FreeFiles # {} /\ FreeFds(t) # {}
  /\ LET f == First(FreeFiles)
     IN  /\ ops' = [ops EXCEPT ![f] = "file"]
         /\ private_data' = [private_data EXCEPT ![f] = x]
         /\ refcount' = [refcount EXCEPT ![f] = 1]
         /\ fd_table' = [fd_table EXCEPT ![t][First(FreeFds(t))] = f]
  /\ UNCHANGED <<status, pipes>>

\* No descriptor is free: the file is closed again.
OpenNoFd(t, x) ==
  /\ Live(t) /\ FreeFiles # {} /\ FreeFds(t) = {}
  /\ LET f == First(FreeFiles)
     IN  /\ private_data' = [private_data EXCEPT ![f] = NULL]
         /\ refcount' = [refcount EXCEPT ![f] = 0]
  /\ UNCHANGED <<status, fd_table, ops, pipes>>

\* sys_close.
Close(t, d) ==
  /\ Live(t) /\ fd_table[t][d] # NULL
  /\ fd_table' = [fd_table EXCEPT ![t][d] = NULL]
  /\ refcount' = Count(t, {d})
  /\ CloseFiles(Released(t, {d}))
  /\ UNCHANGED status

\* Mutant: the old file behind the new descriptor is forgotten, not closed.
Dup2NoClose(t, o, n) ==
  /\ Live(t) /\ o # n
  /\ LET f == fd_table[t][o]
     IN  /\ f # NULL
         /\ refcount' = [refcount EXCEPT ![f] = @ + 1]
         /\ fd_table' = [fd_table EXCEPT ![t][n] = f]
  /\ UNCHANGED <<status, ops, private_data, pipes>>

\* sys_dup2: close what newfd names, count one more on the file of oldfd.
Dup2(t, o, n) ==
  /\ Live(t) /\ o # n
  /\ LET f == fd_table[t][o]
         D == {d \in {n} : fd_table[t][d] # NULL}
     IN  /\ f # NULL
         /\ CloseFiles(Released(t, D))
         /\ refcount' = [Count(t, D) EXCEPT ![f] = @ + 1]
         /\ fd_table' = [fd_table EXCEPT ![t][n] = f]
  /\ UNCHANGED status

\* sys_dup: dup2 onto the first free descriptor.
Dup(t, o) == FreeFds(t) # {} /\ Dup2(t, o, First(FreeFds(t)))

\* sys_fcntl64 with F_DUPFD: the first free descriptor from a on.  From a
\* negative minimum it comes to this, with a = 0, when no word on the way
\* is zero.
DupFrom(t, o, a) ==
  LET f == fd_table[t][o]
      free == {d \in FreeFds(t) : d >= a}
  IN  /\ Live(t) /\ f # NULL /\ free # {}
      /\ fd_table' = [fd_table EXCEPT ![t][First(free)] = f]
      /\ refcount' = [refcount EXCEPT ![f] = @ + 1]
      /\ UNCHANGED <<status, ops, private_data, pipes>>

\* All that is stored outside the tables.
Strays == {s \in File \X (1 .. MaxStray) : s[2] <= stray[s[1]]}

\* F_DUPFD with a negative minimum: the search starts in what comes before
\* fd_table.  The first word that is zero, such as the end of name, takes
\* the file and one more reference is counted; or that word, or the byte
\* that fd_flags[new_fd] = 0 clears, was in use.
DupBelow(t, o) ==
  LET f == fd_table[t][o]
  IN  /\ Live(t) /\ f # NULL /\ Cardinality(Strays) < MaxStray
      /\ \/ /\ refcount' = [refcount EXCEPT ![f] = @ + 1]
            /\ stray' = [stray EXCEPT ![f] = @ + 1]
            /\ UNCHANGED wild
         \/ wild' = TRUE /\ UNCHANGED <<refcount, stray>>
      /\ UNCHANGED <<status, fd_table, ops, private_data, pipes>>
-----------------------------------------------------------------------------
(* sys_pipe *)

\* A pipe, two files and two descriptors are there.
MakePipe(t) ==
  /\ Live(t) /\ FreePipes # {}
  /\ Cardinality(FreeFiles) >= 2 /\ Cardinality(FreeFds(t)) >= 2
  /\ LET i == First(FreePipes)
         rf == First(FreeFiles)
         wf == First(FreeFiles \ {rf})
         rfd == First(FreeFds(t))
         wfd == First(FreeFds(t) \ {rfd})
     IN  /\ ops' = [ops EXCEPT ![rf] = "pipe_read", ![wf] = "pipe_write"]
         /\ private_data' = [private_data EXCEPT ![rf] = i, ![wf] = i]
         /\ refcount' = [refcount EXCEPT ![rf] = 1, ![wf] = 1]
         /\ fd_table' = [fd_table EXCEPT ![t][rfd] = rf, ![t][wfd] = wf]
         /\ pipe_used' = [pipe_used EXCEPT ![i] = TRUE]
         /\ read_refs' = [read_refs EXCEPT ![i] = 1]
         /\ write_refs' = [write_refs EXCEPT ![i] = 1]
  /\ UNCHANGED status

\* No file, or only one: the pipe goes back, and the file by its ops.
PipeNoFile(t) ==
  /\ Live(t) /\ FreePipes # {} /\ FreeFiles = {}
  /\ LET i == First(FreePipes)
     IN  /\ read_refs' = [read_refs EXCEPT ![i] = 0]
         /\ write_refs' = [write_refs EXCEPT ![i] = 0]
  /\ UNCHANGED <<status, fd_table, files, pipe_used>>

PipeOneFile(t) ==
  /\ Live(t) /\ FreePipes # {} /\ Cardinality(FreeFiles) = 1
  /\ LET i == First(FreePipes)
         rf == First(FreeFiles)
     IN  /\ private_data' = [private_data EXCEPT ![rf] = i]
         /\ refcount' = [refcount EXCEPT ![rf] = 1]
         /\ read_refs' = [read_refs EXCEPT ![i] = 0]
         /\ write_refs' = [write_refs EXCEPT ![i] = 0]
  /\ UNCHANGED <<status, fd_table, ops, pipe_used>>

\* Not two descriptors: both files are closed, and with the second the pipe.
PipeNoFd(t) ==
  /\ Live(t) /\ FreePipes # {}
  /\ Cardinality(FreeFiles) >= 2 /\ Cardinality(FreeFds(t)) < 2
  /\ LET i == First(FreePipes)
         rf == First(FreeFiles)
         wf == First(FreeFiles \ {rf})
     IN  /\ private_data' = [private_data EXCEPT ![rf] = NULL, ![wf] = NULL]
         /\ refcount' = [refcount EXCEPT ![rf] = 0, ![wf] = 0]
         /\ read_refs' = [read_refs EXCEPT ![i] = 0]
         /\ write_refs' = [write_refs EXCEPT ![i] = 0]
  /\ UNCHANGED <<status, fd_table, ops, pipe_used>>
-----------------------------------------------------------------------------
(* Tasks *)

\* task_fork: the child's slot gets the descriptors, each counted; s is what
\* becomes of the slot.
Inherit(t, c, s) ==
  /\ Live(t) /\ FreeTasks # {} /\ c = First(FreeTasks)
  /\ fd_table' = [fd_table EXCEPT ![c] = fd_table[t]]
  /\ refcount' = [f \in File |->
       refcount[f] + Cardinality({d \in Fd : fd_table[t][d] = f})]
  /\ status' = [status EXCEPT ![c] = s]
  /\ UNCHANGED <<ops, private_data, pipes>>

\* Mutant: a fork copies the descriptors and counts nothing.
ForkNoCount(t, c) ==
  /\ Live(t) /\ FreeTasks # {} /\ c = First(FreeTasks)
  /\ fd_table' = [fd_table EXCEPT ![c] = fd_table[t]]
  /\ status' = [status EXCEPT ![c] = "live"]
  /\ UNCHANGED <<files, pipes>>

Fork(t, c) == Inherit(t, c, "live")

\* mm_clone_pdir fails: task_fork returns and leaves the slot as it is.
ForkFail(t, c) == Inherit(t, c, "lost")

\* sys_exit closes every descriptor.
Exit(t) ==
  LET D == {d \in Fd : fd_table[t][d] # NULL}
  IN  /\ Live(t)
      /\ fd_table' = [fd_table EXCEPT ![t] = [d \in Fd |-> NULL]]
      /\ refcount' = Count(t, D)
      /\ CloseFiles(Released(t, D))
      /\ status' = [status EXCEPT ![t] = "dead"]

\* A signal ends the task: task_exit alone, the descriptors stay.
Kill(t) ==
  /\ Live(t)
  /\ status' = [status EXCEPT ![t] = "dead"]
  /\ UNCHANGED <<fd_table, files, pipes>>
-----------------------------------------------------------------------------
\* setup_main_task opens the keyboard and the screen for the first task.
Init ==
  /\ status = [t \in Task |-> IF t = 0 THEN "live" ELSE "none"]
  /\ fd_table = [t \in Task |-> [d \in Fd |->
                   IF t = 0 /\ d < STD THEN d ELSE NULL]]
  /\ ops = [f \in File |-> IF f < STD THEN "file" ELSE "none"]
  /\ private_data \in [File -> Inode \cup {NULL}]
  /\ \A f \in File : private_data[f] \in Inode <=> f < STD
  /\ refcount = [f \in File |-> IF f < STD THEN 1 ELSE 0]
  /\ pipe_used = [i \in Pipe |-> FALSE]
  /\ read_refs = [i \in Pipe |-> 0]
  /\ write_refs = [i \in Pipe |-> 0]
  /\ stray = [f \in File |-> 0]
  /\ wild = FALSE

Call(t) ==
  \/ \E x \in Inode : Open(t, x) \/ OpenNoFd(t, x)
  \/ \E d \in Fd : Close(t, d)
  \/ \E o, n \in Fd : Dup2(t, o, n) \/ DupFrom(t, o, n)
  \/ \E o \in Fd : Dup(t, o)
  \/ MakePipe(t) \/ PipeNoFile(t) \/ PipeOneFile(t) \/ PipeNoFd(t)
  \/ \E c \in Task : Fork(t, c) \/ ForkFail(t, c)
  \/ Exit(t) \/ Kill(t)

Next ==
  /\ ~wild
  /\ \E t \in Task :
       \/ Call(t) /\ UNCHANGED outside
       \/ \E o \in Fd : DupBelow(t, o)

Spec == Init /\ [][Next]_vars
-----------------------------------------------------------------------------
(* Properties *)

\* Every entry of the tables has its type: no count goes below zero, and a
\* pipe never has more than one file for an end.
TypeOK ==
  /\ status \in [Task -> {"none", "live", "dead", "lost"}]
  /\ fd_table \in [Task -> [Fd -> File \cup {NULL}]]
  /\ ops \in [File -> {"none", "file", "pipe_read", "pipe_write"}]
  /\ private_data \in [File -> Inode \cup Pipe \cup {NULL}]
  /\ refcount \in [File -> Nat]
  /\ pipe_used \in [Pipe -> BOOLEAN]
  /\ read_refs \in [Pipe -> 0 .. 1] /\ write_refs \in [Pipe -> 0 .. 1]
  /\ stray \in [File -> Nat] /\ wild \in BOOLEAN

\* Every reference is counted, over all tasks, dead ones and failed forks
\* included.  The count of an open file is the number of descriptors that
\* name it and of the times that F_DUPFD stored it outside the tables, which
\* nothing gives back; a file is free exactly when there are none of either.
RefcountOK ==
  \A f \in File :
    IF ops[f] = "none" THEN Refs(f) = {} /\ stray[f] = 0
    ELSE refcount[f] > 0 /\ refcount[f] = Cardinality(Refs(f)) + stray[f]

\* A pipe is in use exactly as long as one of its two files is open; each
\* end has one file at most, and read_refs and write_refs count it.
PipeRefsOK ==
  \A i \in Pipe :
    LET R == EndsIn(File, "pipe_read", i)
        W == EndsIn(File, "pipe_write", i)
    IN  /\ pipe_used[i] <=> R \cup W # {}
        /\ read_refs[i] = Cardinality(R) /\ Cardinality(R) <= 1
        /\ write_refs[i] = Cardinality(W) /\ Cardinality(W) <= 1

\* A task slot that is not handed out yet names no file, and a pipe end
\* belongs to a pipe.
SlotsOK ==
  /\ \A t \in Task : status[t] = "none" => \A d \in Fd : fd_table[t][d] = NULL
  /\ \A f \in File : ops[f] \in {"pipe_read", "pipe_write"}
                       => private_data[f] \in Pipe

\* The inductive invariant.
FilesInv == TypeOK /\ RefcountOK /\ PipeRefsOK /\ SlotsOK

\* No step changes what an open descriptor leads to, except by changing the
\* descriptor: closing, exiting, dup2 and reuse of table entries never pull a
\* file from under another task or another descriptor.
DescriptorsKeepFiles ==
  [][\A t \in Task, d \in Fd :
       LET f == fd_table[t][d]
       IN  (f # NULL /\ fd_table'[t][d] = f)
             => ops'[f] = ops[f] /\ private_data'[f] = private_data[f]]_vars

\* An open file as its descriptors see it: a kind and a target, no count.
AbsFile ==
  [f \in File |-> [kind |-> ops[f],
                   of |-> IF ops[f] = "none" THEN NULL ELSE private_data[f]]]

\* The files that F_DUPFD has stored outside the tables.
Pinned == {f \in File : stray[f] > 0}

Desc == INSTANCE Descriptors WITH file <- AbsFile, pinned <- Pinned

\* The tables behave as if files and pipes were found free by looking for
\* references, and nothing were counted: a file that no descriptor names is
\* closed at once, unless F_DUPFD has stored it outside the tables, and then
\* never.
DescSpec == Desc!Spec
=============================================================================
