------------------------------ MODULE PipeFifo ------------------------------
(***************************************************************************)
(* What a pipe promises: a first-in first-out channel of at most Capacity  *)
(* bytes, whose bytes are numbered as they go in, and whose two ends can   *)
(* each be closed once and for all.                                        *)
(***************************************************************************)
EXTENDS Integers, Sequences

CONSTANT Capacity

VARIABLES content, sent, readable, writable, eof

vars == <<content, sent, readable, writable, eof>>

Init ==
  /\ content = <<>> /\ sent = 0
  /\ readable = TRUE /\ writable = TRUE
  /\ eof = FALSE

\* Some bytes go in at the back.
Put(k) ==
  /\ writable
  /\ Len(content) + k <= Capacity
  /\ content' = content \o [i \in 1 .. k |-> sent + i - 1]
  /\ sent' = sent + k
  /\ UNCHANGED <<readable, writable, eof>>

\* Some bytes come out at the front.
Get(k) ==
  /\ readable
  /\ content' = SubSeq(content, k + 1, Len(content))
  /\ UNCHANGED <<sent, readable, writable, eof>>

Eof ==
  /\ readable /\ ~writable /\ content = <<>>
  /\ eof' = TRUE
  /\ UNCHANGED <<content, sent, readable, writable>>

\* One end, or both at once when a task exits.
Close ==
  /\ readable' \in {readable, FALSE}
  /\ writable' \in {writable, FALSE}
  /\ UNCHANGED <<content, sent, eof>>

Next ==
  \/ \E k \in 1 .. Capacity : Put(k)
  \/ \E k \in 1 .. Len(content) : Get(k)
  \/ Eof \/ Close

Spec == Init /\ [][Next]_vars
=============================================================================
