----------------------------- MODULE Containers ------------------------------
(***************************************************************************)
(* Lists and Serial together: the list that the script works on, with      *)
(* elements and keys that are variables, is serialised and read back, and  *)
(* is compared with lists that are written as literals.                    *)
(***************************************************************************)
EXTENDS Lists, Serial

CONSTANT Meaning   (* the variable that each element, value or key is *)

(* A literal has its pairs in the dic: what Lists has for elements are no  *)
(* pairs.                                                                  *)
ASSUME MeaningAssumption ==
    /\ Depth > 0 /\ Values \cup Keys \subseteq Int32s /\ DOMAIN Meaning = Values \cup Keys
    /\ \A n \in Values \cup Keys : Meaning[n] \in Layer[Depth - 1]
    /\ \A n \in Values : Meaning[n].type # "kvp"
    /\ \A k \in Keys : Meaning[k] \in Keyed
    /\ \A j, k \in Keys : DicKeyEquals(Meaning[j], Meaning[k]) => j = k

AsVariable(v, meaning) ==
    LET pairs == DicPairs(v.dic)
    IN  Lst([i \in 1..v.ordered.length |-> meaning[v.ordered.cells[i]]],
            [i \in DOMAIN pairs |-> [key |-> meaning[pairs[i].key], val |-> meaning[pairs[i].val]]])

Sized(v) == {Len(v.elements), Len(v.pairs)} \subseteq 0..Most   (* as an int32_t can tell *)

(* variable_deserialize reads what variable_serialize wrote, to its last   *)
(* byte and no further, whatever follows in the stream; at every depth the *)
(* keys of a dic come back in the opposite order, and of the elements of a *)
(* list all but the pairs.                                                 *)
RoundTrip ==
    LET v    == AsVariable(List, Meaning)
        bits == VariableSerialize(v)
    IN  (Numeric(ordered) /\ Sized(v)) =>
            VariableDeserialize(bits \o <<255, 255>>, 1) =
                [val |-> Mirrored[Depth][v], next |-> Len(bits) + 1]

(* variable_compare asks for the keys of its first list only; two lists    *)
(* that it finds equal both ways round have equal elements, keys and       *)
(* values, however their chains are ordered.                               *)
Plain == [n \in Values \cup Keys |-> Int32(n)]
EqualBothWays ==
    Numeric(ordered) =>
        \A items \in Literals :
            LET u == AsVariable(List, Plain)
                v == AsVariable(PushList(items), Plain)
            IN  (Sized(u) /\ Sized(v)) =>
                    (VariableCompare(u, v) /\ VariableCompare(v, u)
                        <=> /\ Elements(ordered) = Script!ElementsOf(items)
                            /\ \A k \in Keys : DicGet(dic, k) = Script!PairsOf(items)[k])
==============================================================================
