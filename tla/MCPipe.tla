------------------------------- MODULE MCPipe -------------------------------
(* Instances of Pipe for TLC. *)
EXTENDS Pipe

\* A pipeline of the shell, after the closes: one writer, one reader.
MCPair == 1 .. 2
MCPairEnds == [p \in MCPair |-> IF p = 1 THEN {"write"} ELSE {"read"}]

\* A task that has just called pipe(), and two children it may fork.
MCShared == 1 .. 3
MCSharedEnds == [p \in MCShared |-> IF p = 1 THEN End ELSE {}]
=============================================================================
