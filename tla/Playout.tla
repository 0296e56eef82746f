------------------------------ MODULE Playout ------------------------------
(***************************************************************************)
(* What the AirTunes player may rely on when it asks its buffer for the    *)
(* next frame: frame numbers come one after the other, over the end of the *)
(* number space, and each frame that has come in is played in its turn and *)
(* only then.  A missing frame is skipped as long as some later one is     *)
(* waiting; without any, the player has to wait.                           *)
(***************************************************************************)
EXTENDS Integers

CONSTANTS
  SeqSpace,   \* frame numbers are 0..SeqSpace-1
  Capacity,   \* how far a frame may come in before its turn
  None        \* no number, no frame

VARIABLES
  turn,      \* the number of the frame to play next, None before the first one
  waiting,   \* the frames that have come in and wait for their turn
  played     \* what was played last, and for which number

vars == << turn, waiting, played >>

Ahead(i) == IF i >= turn THEN i - turn ELSE SeqSpace - turn + i

After(i) == IF i = SeqSpace - 1 THEN 0 ELSE i + 1

Init == turn = None /\ waiting = {} /\ played = [index |-> None, data |-> None]

Start(i) ==
  /\ turn = None
  /\ turn' = i /\ waiting' = {i}
  /\ UNCHANGED played

Arrive(i) ==
  /\ turn # None /\ Ahead(i) < Capacity
  /\ waiting' = waiting \cup {i}
  /\ UNCHANGED << turn, played >>

Play ==
  /\ turn # None /\ waiting # {}
  /\ played' = [index |-> turn, data |-> IF turn \in waiting THEN turn ELSE None]
  /\ waiting' = waiting \ {turn}
  /\ turn' = After(turn)

Next == Play \/ \E i \in 0..SeqSpace-1 : Start(i) \/ Arrive(i)

Spec == Init /\ [][Next]_vars
=============================================================================
