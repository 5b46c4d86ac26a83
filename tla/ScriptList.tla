----------------------------- MODULE ScriptList ------------------------------
(***************************************************************************)
(* A list as the author of a script sees it: "one structure, a list, which *)
(* may contain values indexed by number (array) and values indexed by      *)
(* string (map)".  A sequence and a function, nothing of their memory.     *)
(* An element may be Null, the hole of a sparse array; a key whose value   *)
(* is Null is absent.                                                      *)
(***************************************************************************)
EXTENDS Integers, Sequences, FiniteSetsExt, SequencesExt, Loops

CONSTANTS Values, Null, Keys, Literals

VARIABLES seq, map

vars == <<seq, map>>

Cells == Values \cup {Null}
IsPair(item) == "key" \in DOMAIN item

(* The value of a literal: of two pairs with one key the first counts.     *)
ElementsOf(items) ==
    FlattenSeq([i \in DOMAIN items |-> IF IsPair(items[i]) THEN <<>> ELSE <<items[i].val>>])
PairsOf(items) ==
    [k \in Keys |->
        LET pairs == {i \in DOMAIN items : IsPair(items[i]) /\ items[i].key = k}
        IN  IF pairs = {} THEN Null ELSE items[Min(pairs)].val]

Times(s, x) == Cardinality({i \in DOMAIN s : s[i] = x})

(* The first occurrence of x goes, or else the key x.                      *)
Lists == [seq : Seq(Cells), map : [Keys -> Cells]]
Without(v, x) ==
    LET places == {i \in DOMAIN v.seq : v.seq[i] = x}
    IN  IF places # {} THEN [v EXCEPT !.seq = RemoveAt(@, Min(places))]
        ELSE [v EXCEPT !.map = [k \in Keys |-> IF k = x THEN Null ELSE @[k]]]

Init == \E items \in Literals : seq = ElementsOf(items) /\ map = PairsOf(items)

Literal == \E items \in Literals : seq' = ElementsOf(items) /\ map' = PairsOf(items)

(* Of the elements between the old end and the new one nothing is said.    *)
Put(i, x) ==
    /\ seq' \in Seq(Cells)
    /\ Len(seq') = IF i < Len(seq) THEN Len(seq) ELSE i + 1
    /\ seq'[i + 1] = x
    /\ \A j \in DOMAIN seq \ {i + 1} : seq'[j] = seq[j]
    /\ UNCHANGED map

PutKey(k, v)  == map' = [map EXCEPT ![k] = v] /\ UNCHANGED seq
Insert(x)     == seq' = Append(seq, x) /\ UNCHANGED map
PlusList(items) ==
    /\ seq' = seq \o ElementsOf(items)
    /\ map' = [k \in Keys |-> IF map[k] # Null THEN map[k] ELSE PairsOf(items)[k]]
MinusElement(x) == [seq |-> seq', map |-> map'] = Without([seq |-> seq, map |-> map], x)
MinusList(items) ==
    LET elements == ElementsOf(items)
        last == Loop([i \in DOMAIN elements |-> [v \in Lists |-> Without(v, elements[i])]],
                     [seq |-> seq, map |-> map])
    IN  /\ seq' = last.seq
        /\ map' = [k \in Keys |-> IF PairsOf(items)[k] # Null THEN Null ELSE last.map[k]]
Snip(start, n) ==
    seq' = SubSeq(seq, 1, start) \o SubSeq(seq, start + n + 1, Len(seq)) /\ UNCHANGED map
Sort == /\ Null \notin ToSet(seq) /\ Len(seq') = Len(seq)
        /\ \A i \in 1..Len(seq) - 1 : seq'[i] <= seq'[i + 1]
        /\ \A x \in Cells : Times(seq', x) = Times(seq, x)
        /\ UNCHANGED map

Next == \/ Literal \/ Sort
        \/ \E x \in Values : Insert(x) \/ MinusElement(x) \/ \E i \in 0..Len(seq') - 1 : Put(i, x)
        \/ \E k \in Keys, v \in Cells : PutKey(k, v)
        \/ \E items \in Literals : PlusList(items) \/ MinusList(items)
        \/ \E start, n \in 0..Len(seq) : Snip(start, n)

Spec == Init /\ [][Next]_vars
==============================================================================
