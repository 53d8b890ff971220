----------------------------- MODULE Descriptors ----------------------------
(***************************************************************************)
(* What descriptors promise, without reference counts.  A file is an       *)
(* object with a kind and a target.  It exists as long as some descriptor  *)
(* of some task names it, and does not change while it exists.  A file     *)
(* that got pinned exists for good.                                        *)
(***************************************************************************)
EXTENDS Integers

CONSTANTS Task, Fd, File, Inode, Pipe, STD, NULL

VARIABLES fd_table, file, pipe_used, pinned

vars == <<fd_table, file, pipe_used, pinned>>

NoFile == [kind |-> "none", of |-> NULL]

Named(table) == {table[r[1]][r[2]] : r \in Task \X Fd}

\* The tables after a step: new are the files it made.
Becomes(table, new) ==
  /\ fd_table' = table
  /\ file' = [f \in File |->
       IF f \notin Named(table) \cup pinned THEN NoFile
       ELSE IF f \in DOMAIN new THEN new[f] ELSE file[f]]
  /\ pipe_used' = [i \in Pipe |->
       \E f \in File : file'[f].kind \in {"pipe_read", "pipe_write"}
                         /\ file'[f].of = i]
  /\ pinned' = pinned

Unnamed == File \ (Named(fd_table) \cup pinned)

Init ==
  /\ fd_table \in [Task -> [Fd -> File \cup {NULL}]]
  /\ file \in [File -> {NoFile} \cup [kind : {"file"}, of : Inode]]
  /\ \A f \in File : file[f] = NoFile <=> f \in Unnamed
  /\ pipe_used = [i \in Pipe |-> FALSE]
  /\ pinned = {}

Free(t) == {d \in Fd : fd_table[t][d] = NULL}

\* An unnamed file is named by a descriptor that named none.
Open ==
  \E t \in Task : \E d \in Free(t), f \in Unnamed, x \in Inode :
    Becomes([fd_table EXCEPT ![t][d] = f],
            [g \in {f} |-> [kind |-> "file", of |-> x]])

\* Two unnamed files become the ends of a pipe that had none.
MakePipe ==
  \E t \in Task, i \in {j \in Pipe : ~pipe_used[j]} :
  \E d, e \in Free(t), f, g \in Unnamed :
    /\ d # e /\ f # g
    /\ Becomes([fd_table EXCEPT ![t][d] = f, ![t][e] = g],
               [h \in {f, g} |->
                  [kind |-> IF h = f THEN "pipe_read" ELSE "pipe_write",
                   of |-> i]])

NoNew == [f \in {} |-> NoFile]

Close == \E t \in Task, d \in Fd :
           /\ fd_table[t][d] # NULL
           /\ Becomes([fd_table EXCEPT ![t][d] = NULL], NoNew)

Dup == \E t \in Task, d, e \in Fd :
         /\ fd_table[t][d] # NULL
         /\ Becomes([fd_table EXCEPT ![t][e] = fd_table[t][d]], NoNew)

\* A task without descriptors gets those of another.
Fork ==
  \E t, c \in Task :
    /\ \A d \in Fd : fd_table[c][d] = NULL
    /\ Becomes([fd_table EXCEPT ![c] = fd_table[t]], NoNew)

Exit == \E t \in Task :
          Becomes([fd_table EXCEPT ![t] = [d \in Fd |-> NULL]], NoNew)

\* A file that a descriptor names is never closed from now on.
Pin == \E f \in File \cap Named(fd_table) :
         pinned' = pinned \cup {f} /\ UNCHANGED <<fd_table, file, pipe_used>>

Next == Close \/ Dup \/ Exit \/ Fork \/ Pin \/ Open \/ MakePipe

Spec == Init /\ [][Next]_vars
=============================================================================
