---------------------------- MODULE MCContainers -----------------------------
(***************************************************************************)
(* Keys, literals and variables for TLC to check Containers with.          *)
(***************************************************************************)
EXTENDS Containers

MCKeys == {1, 101, 102}
MCHash == (1 :> 1) @@ (101 :> 17) @@ (102 :> 33)
El(x) == [val |-> x]
Pair(k, v) == [key |-> k, val |-> v]
MCLiterals == {<<>>, <<El(1), Pair(101, 2), El(2)>>, [i \in 1..6 |-> El(1)],
               <<El(2), El(1), El(2), El(1), El(1), El(2), El(1)>>,
               <<Pair(101, 1), Pair(102, 2), El(1), Pair(101, 2)>>}

(* What the elements and keys are: integers at the edges of one byte, a    *)
(* string whose length takes two, a pair among the elements of a list, a   *)
(* function with what it closes over, a dic of two keys in a list.         *)
MCMeaning ==
    1 :> Int32(-64) @@ 101 :> Str("k", 1) @@ 102 :> Nil
    @@ 2 :> Lst(<<Nil, Str("s", 64), Kvp(Int32(64), Bool(FALSE)), Bool(TRUE), Str("", 0),
                  Fnc(Str("code", 63),
                      <<[key |-> Str("x", 1), val |-> Kvp(Int32(8191), Int32(-8192))]>>)>>,
                <<[key |-> Int32(63), val |-> Lst(<<Kvp(Nil, Nil), Int32(63)>>, <<>>)],
                  [key |-> Str("b", 1), val |-> Str("bb", 2)]>>)
==============================================================================
