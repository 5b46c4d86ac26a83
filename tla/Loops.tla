-------------------------------- MODULE Loops --------------------------------
(***************************************************************************)
(* A loop that goes through its turns in order: each is a function that is *)
(* applied to what the turn before it left.                                *)
(***************************************************************************)
EXTENDS Integers, Sequences

(* What a loop leaves of x.                                                *)
Loop(turns, x) ==
    LET left[i \in 0..Len(turns)] == IF i = 0 THEN x ELSE turns[i][left[i - 1]]
    IN  left[Len(turns)]
==============================================================================
