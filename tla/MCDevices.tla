----------------------------- MODULE MCDevices ------------------------------
(* An instance of BlockDev and Keyboard for TLC.  The disk and the keyboard *)
(* share no state, so a behaviour exercises one of them.                    *)
EXTENDS BlockDev

CONSTANTS KBD_BUFFER_SIZE, Boards, MaxEvents, MaxRead
VARIABLES board, kbd, hand, events

ASSUME KeyboardAssumption ==
  KBD_BUFFER_SIZE \in Nat \ {0} /\ MaxEvents \in Nat /\ MaxRead \in Nat

keyboard == <<board, kbd, hand, events>>
Keys == INSTANCE Keyboard

Part(type, start, count) ==
  [type |-> type, lba_start |-> start, sector_count |-> count]

MCMbr == <<Part(131, 1, 2), Part(0, 0, 0), Part(131, 3, 2), Part(131, 5, 0)>>

MCBoards == {{}, {"c", "ctrl", "a"}, {"a", "c", "caps"}, {"a", "lshift", "rshift"}}

\* An empty board leaves the keyboard alone, another one the disk.
Quiet == board = {}

DevInit == Init /\ Keys!Init /\ (Quiet \/ dev = 1)
DevNext ==
  \/ Quiet /\ Next /\ UNCHANGED keyboard
  \/ ~Quiet /\ Keys!Next /\ UNCHANGED vars

DevSpec == DevInit /\ [][DevNext]_<<vars, keyboard>>

\* Characters and SIGINTs are the keys typed, in order and once (Keyboard).
KeysInOrder == Keys!KeysInOrder

\* A full ring drops what comes and keeps what it has (Keyboard).
RingKeeps == [][Keys!RingKept]_keyboard
=============================================================================
