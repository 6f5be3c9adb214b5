----------------------------- MODULE CodeWords -----------------------------
(***************************************************************************)
(* What the stages from the demapper to the de-header promise together: a  *)
(* queue of code words.  They come out one by one, in the order in which   *)
(* they went in, each under the PLP it belongs to; a batch may be lost,    *)
(* but only as a whole and before its first word is out.                   *)
(***************************************************************************)
EXTENDS Integers, Sequences

CONSTANTS
  Words,   \* code words
  Nothing, \* not one of them
  Batch    \* words that are decoded together

VARIABLES
  waiting, \* the words that are inside, in order
  turn,    \* words of the present batch that are out
  out      \* the word handed on last

Init == waiting = <<>> /\ turn = 0 /\ out = Nothing

Put(w) ==
  /\ waiting' = Append(waiting, w)
  /\ UNCHANGED <<turn, out>>

Hand ==
  /\ turn + Len(waiting) >= Batch
  /\ out' = Head(waiting)
  /\ waiting' = Tail(waiting)
  /\ turn' = (turn + 1) % Batch

Lose ==
  /\ turn = 0 /\ Len(waiting) >= Batch
  /\ waiting' = SubSeq(waiting, Batch + 1, Len(waiting))
  /\ UNCHANGED <<turn, out>>

Next == (\E w \in Words : Put(w)) \/ Hand \/ Lose

Spec == Init /\ [][Next]_<<waiting, turn, out>>
=============================================================================
