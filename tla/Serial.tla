------------------------------- MODULE Serial --------------------------------
(***************************************************************************)
(* The wire format of variable.c: values, which l.serialize and            *)
(* l.deserialize turn into bytes and back; and variable_compare, the       *)
(* language's ==.                                                          *)
(*                                                                         *)
(* The functions of variable.c call themselves for the parts of a list, of *)
(* a pair and of a closure.  Here each has a level, the depth to which     *)
(* variables are nested, and calls itself one level below; what is done at *)
(* one level is an operator, which takes what is done with the parts.      *)
(***************************************************************************)
EXTENDS Bytecode

CONSTANT Depth   (* bound: how deep variables are nested in one another *)

ASSUME DepthAssumption == Depth \in Nat

VarType == [nil |-> 0, int |-> 1, str |-> 3, fnc |-> 4, lst |-> 5, kvp |-> 6, bool |-> 10]

(* Numbers that an int32_t holds and its negative too, lengths, strings;   *)
(* the empty string has one name.                                          *)
Most     == 2147483647
Int32s   == -Most..Most
Counted(S) == {s \in Seq(S) : Len(s) <= Most}
Strings  == {s \in [type : {"str"}, name : STRING, len : 0..Most] : s.len = 0 => s.name = ""}

Simple   == {Nil} \cup [type : {"int"}, val : Int32s] \cup [type : {"bool"}, boolean : BOOLEAN]
            \cup Strings

-----------------------------------------------------------------------------
(* variable_compare.  Of two dics only the keys of the first are compared; *)
(* two functions, or two pairs, cannot be ("bad comparison").  The first   *)
(* dic, when it is empty, is one from which all keys have been removed: if *)
(* it is a null pointer the two change places, and the second must have no *)
(* keys either.  Asked both ways round, the two cases have one answer.     *)

Sought(pairs, k, same) == {i \in DOMAIN pairs : same[pairs[i].key][k]}
VariableCompareKeys(u, v, same) ==   (* a slip: the values are not compared *)
    \A i \in DOMAIN u : Sought(v, u[i].key, same) # {}

VariableCompareDics(u, v, same) ==
    \A i \in DOMAIN u : LET found == Sought(v, u[i].key, same)
                        IN  found # {} /\ same[u[i].val][v[Min(found)].val]

Compare(u, v, same) ==
    IF Scalar(u) /\ Scalar(v) THEN VariableValueInt(u) = VariableValueInt(v)
    ELSE /\ u.type = v.type
         /\ CASE u.type = "str" -> u = v
              [] u.type = "lst" ->
                   /\ Len(u.elements) = Len(v.elements)
                   /\ \A i \in DOMAIN u.elements : same[u.elements[i]][v.elements[i]]
                   /\ VariableCompareDics(u.pairs, v.pairs, same)

-----------------------------------------------------------------------------
(* struct.c.  A dic is the sequence of its pairs, as dic_keys and dic_vals *)
(* list them: those inserted last come first, as in a chain; the code has  *)
(* 16 chains, and those that are in different ones do not change places.   *)
(* Two keys that variable_compare finds equal have one hash, and so are in *)
(* one chain, which has one of them.                                       *)

(* The types of which default_hashor knows a hash.  For the others it ends *)
(* the program.                                                            *)
Hashed == {"nil", "int", "str", "fnc"}

(* What a script has for keys: functions are left out, since two of them   *)
(* in a chain cannot be compared.                                          *)
Keyed == {Nil} \cup [type : {"int"}, val : Int32s] \cup Strings

DicKeyEquals(key1, key2) == Compare(key1, key2, <<>>)   (* of keys, which have no parts *)
DicInserted(pairs, key, val) ==
    CASE key.type \in Hashed ->
            LET equal == {i \in DOMAIN pairs : DicKeyEquals(pairs[i].key, key)}
            IN  IF equal # {} THEN [pairs EXCEPT ![Min(equal)].val = val]
                ELSE <<[key |-> key, val |-> val]>> \o pairs

-----------------------------------------------------------------------------
(* The variables.                                                          *)

PairsOver(V) == [key : V \cap Keyed, val : V]
DicsOver(V)  == {pairs \in Counted(PairsOver(V)) :
                    \A i, j \in DOMAIN pairs : DicKeyEquals(pairs[i].key, pairs[j].key) => i = j}
Kvps(V)  == [type : {"kvp"}, key : V, val : V]
Fncs(V)  == [type : {"fnc"}, body : Strings, pairs : DicsOver(V)]
Lsts(V)  == [type : {"lst"}, elements : Counted(V), pairs : DicsOver(V)]

Composed(V)  == Simple \cup Kvps(V) \cup Fncs(V) \cup Lsts(V)
Layer[n \in 0..Depth] == IF n = 0 THEN Simple ELSE Composed(Layer[n - 1])

Compared[n \in 0..Depth] ==
    [u \in Layer[n] |-> [v \in Layer[n] |-> Compare(u, v, IF n = 0 THEN <<>> ELSE Compared[n - 1])]]
VariableCompare(u, v) == Compared[Depth][u][v]

-----------------------------------------------------------------------------
(* variable.c: variable_serialize and variable_deserialize.                *)

DicSerialize(pairs, bytes) ==
    SerialEncodeInt(Len(pairs)) \o
    FlattenSeq([i \in DOMAIN pairs |-> bytes[pairs[i].key] \o bytes[pairs[i].val]])

Serialize(v, bytes) ==
    SerialEncodeInt(VarType[v.type]) \o
    CASE v.type = "nil" -> <<>>
      [] v.type = "int" -> SerialEncodeInt(v.val)
      [] v.type = "bool" -> SerialEncodeInt(IF v.boolean THEN 1 ELSE 0)
      [] v.type = "str" -> SerialEncodeString(v)
      [] v.type = "fnc" -> SerialEncodeString(v.body) \o DicSerialize(v.pairs, bytes)
      [] v.type = "lst" -> SerialEncodeInt(Len(v.elements)) \o
                           FlattenSeq([i \in DOMAIN v.elements |-> bytes[v.elements[i]]]) \o
                           DicSerialize(v.pairs, bytes)
      [] v.type = "kvp" -> bytes[v.key] \o bytes[v.val]

Serialized[n \in 0..Depth] ==
    [v \in Layer[n] |-> Serialize(v, IF n = 0 THEN <<>> ELSE Serialized[n - 1])]
VariableSerialize(v) == Serialized[Depth][v]

(* n variables, one after the other; read[p] is the one that begins at p.  *)
ReadNext(last, read) ==
    LET one == read[last.next] IN [val |-> Append(last.val, one.val), next |-> one.next]
Sequel(at, n, read) ==
    LET got[i \in 0..n] == IF i = 0 THEN [val |-> <<>>, next |-> at] ELSE ReadNext(got[i - 1], read)
    IN  got[n]

(* The dic that n keys and values, one after the other, make.              *)
DicOf(both, n) ==
    LET dic[i \in 0..n] == IF i = 0 THEN <<>>
                           ELSE DicInserted(dic[i - 1], both[2 * i - 1], both[2 * i])
    IN  dic[n]

DicDeserialize(buf, at, read) ==
    LET n    == SerialDecodeInt(buf, at)
        both == Sequel(n.next, 2 * n.val, read)
    IN  [both EXCEPT !.val = DicOf(@, n.val)]

(* A pair that is an element is not added: its value is taken for a dic    *)
(* (one without keys: where a dic has its size, a new variable has its     *)
(* mark, 0), and that dic is not kept either.                              *)
VariableNewList(list) ==
    FlattenSeq([i \in DOMAIN list |-> IF list[i].type = "kvp" THEN <<>> ELSE <<list[i]>>])

Deserialize(buf, at, read) ==
    LET type == SerialDecodeInt(buf, at)
        one  == SerialDecodeInt(buf, type.next)
        str  == SerialDecodeString(buf, type.next)
    IN  CASE type.val = 0  -> [type EXCEPT !.val = Nil]
          [] type.val = 1  -> [one EXCEPT !.val = Int32(@)]
          [] type.val = 10 -> [one EXCEPT !.val = Bool(@ # 0)]
          [] type.val = 3  -> str
          [] type.val = 4  -> LET closure == DicDeserialize(buf, str.next, read)
                              IN  [closure EXCEPT !.val = Fnc(str.val, @)]
          [] type.val = 5  -> LET elements == Sequel(one.next, one.val, read)
                                  pairs    == DicDeserialize(buf, elements.next, read)
                              IN  [pairs EXCEPT !.val = Lst(VariableNewList(elements.val), @)]
          [] type.val = 6  -> LET both == Sequel(type.next, 2, read)
                              IN  [both EXCEPT !.val = Kvp(@[1], @[2])]

Deserialized(buf) ==
    LET level[n \in 0..Depth] ==
            [at \in DOMAIN buf |-> Deserialize(buf, at, IF n = 0 THEN <<>> ELSE level[n - 1])]
    IN  level
VariableDeserialize(buf, at) == Deserialized(buf)[Depth][at]

(* For the properties: the same variable, its dics turned round, and       *)
(* without the pairs among the elements of its lists.                      *)
MirrorPairs(pairs, parts) ==
    Reverse([i \in DOMAIN pairs |-> [key |-> parts[pairs[i].key], val |-> parts[pairs[i].val]]])
Mirror(v, parts) ==
    CASE v.type = "kvp" -> Kvp(parts[v.key], parts[v.val])
      [] v.type = "fnc" -> Fnc(v.body, MirrorPairs(v.pairs, parts))
      [] v.type = "lst" -> Lst(FlattenSeq([i \in DOMAIN v.elements |->
                                             IF v.elements[i].type = "kvp" THEN <<>>
                                             ELSE <<parts[v.elements[i]]>>]),
                               MirrorPairs(v.pairs, parts))
      [] OTHER -> v
Mirrored[n \in 0..Depth] ==
    [v \in Layer[n] |-> Mirror(v, IF n = 0 THEN <<>> ELSE Mirrored[n - 1])]
==============================================================================
