------------------------------- MODULE Channel -------------------------------
(***************************************************************************)
(* What a socket queue of node.c promises: on every descriptor, messages   *)
(* are handed over in the order in which they came, each of them once      *)
(* (node.c:90: "each thread has an array of byte_array messages, to be     *)
(* sent/received in order").                                               *)
(*                                                                         *)
(* Messages of a descriptor are numbered 1, 2, 3, ... in order of arrival, *)
(* so that in[f] is the number of messages accepted so far and out[f] the  *)
(* number of the last one handed over.                                     *)
(***************************************************************************)
EXTENDS Naturals

CONSTANT Fd         (* socket descriptors                                  *)

VARIABLES in,       (* messages accepted on each descriptor                *)
          out       (* last message handed over on each descriptor         *)

chan == <<in, out>>

Init == /\ in  = [f \in Fd |-> 0]
        /\ out = [f \in Fd |-> 0]

Accept(f) == /\ in' = [in EXCEPT ![f] = @ + 1]
             /\ UNCHANGED out

HandOver(f) == /\ out[f] < in[f]
               /\ out' = [out EXCEPT ![f] = @ + 1]
               /\ UNCHANGED in

Next == \E f \in Fd : Accept(f) \/ HandOver(f)

SafeSpec == Init /\ [][Next]_chan

Spec == SafeSpec /\ \A f \in Fd : WF_chan(HandOver(f))
=============================================================================
