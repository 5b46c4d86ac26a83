------------------------------ MODULE Bytecode -------------------------------
(***************************************************************************)
(* What the compiler and the machine agree upon, and serialisation uses as *)
(* well: the values, the integers of variable length and the strings of    *)
(* serial.c, and the instructions of vm.h.                                 *)
(*                                                                         *)
(* A variable is a record with its type.  A string is a name and a length, *)
(* and so many bytes of the stream are that name; the stream is a sequence *)
(* whose cell buf[at] is the byte at buf->current.  A decoding returns     *)
(* what it read, val, and where it stopped, next.                          *)
(***************************************************************************)
EXTENDS Integers, Sequences, SequencesExt

Nil            == [type |-> "nil"]
Int32(i)       == [type |-> "int", val |-> i]
Bool(b)        == [type |-> "bool", boolean |-> b]
Str(name, len) == [type |-> "str", name |-> name, len |-> len]
Fnc(body, closure)   == [type |-> "fnc", body |-> body, pairs |-> closure]
Lst(elements, pairs) == [type |-> "lst", elements |-> elements, pairs |-> pairs]
Kvp(key, val)  == [type |-> "kvp", key |-> key, val |-> val]

Scalar(v) == v.type \in {"int", "bool", "nil"}
VariableValueInt(v) ==
    CASE v.type = "int" -> v.val [] v.type = "bool" -> IF v.boolean THEN 1 ELSE 0 [] OTHER -> 0

-----------------------------------------------------------------------------
(* serial.c.  An int32_t without its sign is 6 bits in the first byte, and *)
(* then groups of 7, of which it has at most four.                         *)

Abs(i)  == IF i < 0 THEN -i ELSE i
Weights == <<1, 128, 16384, 2097152>>    (* of the groups: 128 ^ (k - 1) *)
Groups(n) == Cardinality({k \in 1..4 : Weights[k] <= n})
Continued(byte) == byte >= 128
Signed(byte)    == byte % 128 >= 64

SerialEncodeIntSize(i) == 1 + Groups(Abs(i) \div 64)
RestBytes(n) ==
    [k \in 1..Groups(n) |-> ((n \div Weights[k]) % 128) + (IF k < Groups(n) THEN 128 ELSE 0)]
SerialEncodeInt(i) ==
    <<(Abs(i) % 64) + (IF Abs(i) >= 64 THEN 128 ELSE 0) + (IF i < 0 THEN 64 ELSE 0)>>
        \o RestBytes(Abs(i) \div 64)

(* How many bytes follow the one at at.                                    *)
Following(buf, at) ==
    CHOOSE n \in 0..4 : /\ \A k \in 0..n - 1 : Continued(buf[at + k])
                        /\ n = 4 \/ ~Continued(buf[at + n])
Magnitude(buf, at) ==
    LET n    == Following(buf, at)
        rest == [k \in 1..4 |-> IF k <= n THEN (buf[at + k] % 128) * Weights[k] ELSE 0]
    IN  [val |-> (buf[at] % 64) + 64 * (rest[1] + rest[2] + rest[3] + rest[4]), next |-> at + n + 1]
SerialDecodeIntUnsigned(buf, at) == Magnitude(buf, at)   (* a slip: the sign is dropped *)
SerialDecodeInt(buf, at) ==
    [Magnitude(buf, at) EXCEPT !.val = IF Signed(buf[at]) THEN -@ ELSE @]

SerialEncodeString(s) == SerialEncodeInt(s.len) \o [i \in 1..s.len |-> s.name]
SerialDecodeString(buf, at) ==
    LET len == SerialDecodeInt(buf, at)
    IN  [val  |-> Str(IF len.val = 0 THEN "" ELSE buf[len.next], len.val),
         next |-> len.next + len.val]

-----------------------------------------------------------------------------
(* vm.h.                                                                   *)

Opcodes == <<"NIL", "INT", "ADD", "SET", "VAR", "FLT", "BUL", "STR", "FNC", "DST",
             "SRC", "LST", "KVP", "GET", "PUT", "SUB", "MUL", "DIV", "INC", "MOD",
             "BND", "BOR", "INV", "XOR", "LSF", "RSF", "NEG", "NOT", "EQU", "NEQ",
             "GTN", "LTN", "GRQ", "LEQ", "AND", "ORR", "IFF", "JMP", "CAL", "MET",
             "RET", "ITR", "COM", "TRY", "TRO", "STX", "PTX", "FIL", "LIN">>
Opcode == [op \in Range(Opcodes) |-> (CHOOSE i \in DOMAIN Opcodes : Opcodes[i] = op) - 1]
==============================================================================
