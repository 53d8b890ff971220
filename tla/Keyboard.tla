------------------------------ MODULE Keyboard ------------------------------
(***************************************************************************)
(* The PS/2 keyboard of drivers/ps2/kbd.c: the ring of typed characters,   *)
(* filled by the interrupt handler, and by kbd_read itself when it finds   *)
(* the ring empty and polls the controller.                                *)
(*                                                                         *)
(* kbd_read and the handler both run with interrupts off, so each is one   *)
(* step.  An interrupt that was latched before kbd_read polled its byte    *)
(* away is still taken afterwards; the handler then reads the data port    *)
(* without a new byte in it, and gets the last one again.                  *)
(***************************************************************************)
EXTENDS Integers, Sequences

CONSTANTS
  KBD_BUFFER_SIZE,
  Boards,      \* bound: the sets of keys that are used together
  MaxEvents,   \* bound: key events
  MaxRead      \* bound: bytes that a program asks for

VARIABLES
  board,   \* the keys of this behaviour
  kbd,     \* the driver (buffer, head, tail, shift, caps, held), the controller
           \* (queue, last, irq), and what became of the keys (got: characters
           \* read, sent: SIGINTs, full: a character found the ring full)
  hand,    \* the user: keys down, caps lock; history: characters typed, Ctrl+C
           \* typed, and whether both shift keys were ever down together
  events   \* key events so far

vars == <<board, kbd, hand, events>>

Shifts == {"lshift", "rshift"}
Modifiers == Shifts \cup {"ctrl", "caps"}
Pos == 0 .. KBD_BUFFER_SIZE - 1

Make(k) == [key |-> k, up |-> FALSE]
Break(k) == [key |-> k, up |-> TRUE]
Char(k, upper) == [key |-> k, upper |-> upper]

Init ==
  /\ board \in Boards
  /\ kbd = [buffer |-> [i \in Pos |-> Char("c", FALSE)], head |-> 0, tail |-> 0,
            shift |-> FALSE, caps |-> FALSE, held |-> {},
            queue |-> <<>>, last |-> Break("c"), irq |-> FALSE,
            got |-> <<>>, sent |-> 0, full |-> FALSE]
  /\ hand = [down |-> {}, caps |-> FALSE, typed |-> <<>>, ints |-> 0, both |-> FALSE]
  /\ events = 0

-----------------------------------------------------------------------------
(* The driver.                                                              *)

After(i) == (i + 1) % KBD_BUFFER_SIZE

\* Mutant: a full ring is written over.
PushAnyway(d, c) == [d EXCEPT !.buffer[d.head] = c, !.head = After(d.head)]

\* kbd_push
Push(d, c) ==
  IF After(d.head) = d.tail THEN [d EXCEPT !.full = TRUE]
  ELSE [d EXCEPT !.buffer[d.head] = c, !.head = After(d.head)]

Empty(d) == d.head = d.tail

\* kbd_pop, of a ring that is not empty.
Pop(d) ==
  [d EXCEPT !.got = Append(@, d.buffer[d.tail]), !.tail = After(d.tail)]

\* Mutant: letting go of shift changes nothing.
ReleasedKeepsShift(d, k) == [d EXCEPT !.held = @ \ {k}]

Released(d, k) ==
  [d EXCEPT !.held = @ \ {k}, !.shift = @ /\ k \notin Shifts]

\* A key that was not held down goes down; d knows it already.
Pressed(d, k) ==
  CASE k = "ctrl"    -> d
    [] k \in Shifts  -> [d EXCEPT !.shift = TRUE]
    [] k = "caps"    -> [d EXCEPT !.caps = ~@]
    [] k = "c" /\ "ctrl" \in d.held -> [d EXCEPT !.sent = @ + 1]
    [] OTHER         -> Push(d, Char(k, d.shift \/ d.caps))

\* kbd_process_scancode
Process(d, b) ==
  IF b.up THEN Released(d, b.key)
  ELSE IF b.key \in d.held THEN d
  ELSE Pressed([d EXCEPT !.held = @ \cup {b.key}], b.key)

-----------------------------------------------------------------------------
(* The controller: a byte at a time, with an interrupt for each.            *)

\* in(PS2_DATA), and the next byte moves up.
Byte(d) == IF d.queue = <<>> THEN d.last ELSE Head(d.queue)
Taken(d) ==
  LET rest == IF d.queue = <<>> THEN <<>> ELSE Tail(d.queue)
  IN [d EXCEPT !.queue = rest, !.last = Byte(d), !.irq = @ \/ rest # <<>>]

Arrived(d, b) ==
  [d EXCEPT !.queue = Append(@, b), !.irq = @ \/ d.queue = <<>>]

-----------------------------------------------------------------------------
(* The handler, kbd_read and the user.                                      *)

\* kbd_irq_handler
Interrupt ==
  /\ kbd.irq
  /\ kbd' = Process(Taken([kbd EXCEPT !.irq = FALSE]), Byte(kbd))
  /\ UNCHANGED <<board, hand, events>>

\* One turn of kbd_read: pop, or else kbd_poll_one.  r.more tells whether it
\* got a character.
Turn(r) ==
  LET d == IF ~Empty(r.d) \/ r.d.queue = <<>> THEN r.d
           ELSE Process(Taken(r.d), Byte(r.d))
  IN IF ~r.more THEN r
     ELSE IF Empty(d) THEN [d |-> d, more |-> FALSE]
     ELSE [d |-> Pop(d), more |-> TRUE]

\* kbd_read
Read(n) ==
  /\ LET after[i \in 0 .. n] == IF i = 0 THEN [d |-> kbd, more |-> TRUE]
                                ELSE Turn(after[i - 1])
     IN kbd' = after[n].d
  /\ UNCHANGED <<board, hand, events>>

\* A key goes down: what it should give, Ctrl+C or a character.
Press(k) ==
  LET upper == hand.caps \/ hand.down \cap Shifts # {}
      int   == k = "c" /\ "ctrl" \in hand.down
      down  == hand.down \cup {k}
  IN /\ k \notin hand.down /\ events < MaxEvents /\ events' = events + 1
     /\ kbd' = Arrived(kbd, Make(k))
     /\ hand' = [down  |-> down,
                 caps  |-> IF k = "caps" THEN ~hand.caps ELSE hand.caps,
                 typed |-> IF int \/ k \in Modifiers THEN hand.typed
                           ELSE Append(hand.typed, Char(k, upper)),
                 ints  |-> IF int THEN hand.ints + 1 ELSE hand.ints,
                 both  |-> hand.both \/ Shifts \subseteq down]
     /\ UNCHANGED board

\* The keyboard repeats a key that is held.
Repeat(k) ==
  /\ k \in hand.down /\ events < MaxEvents /\ events' = events + 1
  /\ kbd' = Arrived(kbd, Make(k))
  /\ UNCHANGED <<board, hand>>

Release(k) ==
  /\ k \in hand.down /\ events < MaxEvents /\ events' = events + 1
  /\ kbd' = Arrived(kbd, Break(k))
  /\ hand' = [hand EXCEPT !.down = @ \ {k}]
  /\ UNCHANGED board

Next ==
  \/ Interrupt
  \/ \E n \in 1 .. MaxRead : Read(n)
  \/ \E k \in board : Press(k) \/ Repeat(k) \/ Release(k)

Spec == Init /\ [][Next]_vars

-----------------------------------------------------------------------------
(* Properties.                                                              *)

\* The characters in the ring, oldest first.
Ring(d) == [i \in 1 .. (d.head - d.tail) % KBD_BUFFER_SIZE |->
              d.buffer[(d.tail + i - 1) % KBD_BUFFER_SIZE]]

\* The first of two sequences is how the second begins.
Begins(s, t) == Len(s) <= Len(t) /\ \A i \in 1 .. Len(s) : s[i] = t[i]

\* What programs read and will read from the ring are the characters typed, in
\* order, each once and in the case that shift and caps lock gave it, and all
\* of them when no byte is on its way: although bytes come in by interrupt and
\* by polling, and some by both.  Exceptions: a full ring drops characters,
\* and letting go of one of two shift keys ends the shift.  Likewise every
\* Ctrl+C sends one SIGINT, and none gives a character.
KeysInOrder ==
  /\ ~kbd.full /\ ~hand.both =>
       /\ Begins(kbd.got \o Ring(kbd), hand.typed)
       /\ kbd.queue = <<>> => kbd.got \o Ring(kbd) = hand.typed
  /\ kbd.sent <= hand.ints
  /\ kbd.queue = <<>> => kbd.sent = hand.ints

\* A full ring drops what comes, never what it has: programs read no more than
\* was typed, and a character in the ring stays until it is read.
RingKept ==
  /\ Len(kbd'.got) <= Len(hand.typed)
  /\ Begins(kbd.got \o Ring(kbd), kbd'.got \o Ring(kbd'))
=============================================================================
