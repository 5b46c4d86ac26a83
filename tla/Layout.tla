-------------------------------- MODULE Layout --------------------------------
(***************************************************************************)
(* How compile.c puts pieces of code together: pieces that the machine     *)
(* jumps over, or back to, and pieces inside an instruction, which it takes *)
(* out and runs by themselves.  Each is found by counting bytes, and the   *)
(* bytes in which other counts are written are among them.  The pieces are *)
(* any code; Compile says which.                                           *)
(***************************************************************************)
EXTENDS Bytecode

Step(op) == <<Opcode[op]>>
Name(n)  == SerialEncodeString(Str(n, 1))
Names(list)  == FlattenSeq([i \in DOMAIN list |-> Name(list[i])])
Quoted(code) == SerialEncodeInt(Len(code)) \o code
GenerateNil  == Step("NIL")
GenerateJump(offset) == IF offset = 0 THEN <<>> ELSE Step("JMP") \o SerialEncodeInt(offset)

-----------------------------------------------------------------------------
(* Jumps.                                                                  *)

(* The second operand of and, or or: left out when the first decides.      *)
EitherCode(op, first, second) == first \o Step(op) \o Quoted(second)

(* The jump over the body b of a loop counts the bytes of the jump back,   *)
(* and the jump back those of the jump over: lengths of the jump back are  *)
(* tried, from 2 on, until one is right.  Each is longer than the one      *)
(* before, if that was not right, and none is longer than 6.               *)
LoopJumpsOnce(ifa, b) ==   (* a slip: no second try *)
    LET over == SerialEncodeInt(Len(b) + 2)
    IN  [over |-> over, back |-> GenerateJump(-(Len(ifa) + Len(over) + Len(b)))]
LoopJumps(ifa, b) ==
    LET Over(jbLen) == SerialEncodeInt(Len(b) + jbLen)
        Back(jbLen) == GenerateJump(-(Len(ifa) + Len(Over(jbLen)) + Len(b)))
        tried[k \in 0..4] == IF k = 0 THEN 2 ELSE Len(Back(tried[k - 1]))
    IN  [over |-> Over(tried[4]), back |-> Back(tried[4])]
LoopCode(test, b) ==
    LET ifa   == test \o Step("IFF")
        jumps == LoopJumps(ifa, b)
    IN  ifa \o jumps.over \o b \o jumps.back

(* A condition, its branch, and the branches that follow, which a jump at  *)
(* the end of the first leaves out.                                        *)
BranchCode(test, then, others) ==
    test \o Step("IFF") \o Quoted(then \o GenerateJump(Len(others))) \o others

-----------------------------------------------------------------------------
(* Code in an instruction.                                                 *)

FunctionCode(closure, body) ==
    Step("FNC") \o SerialEncodeInt(Len(closure)) \o Names(closure) \o Quoted(body)

(* where is the code of a sequence of one condition, or of none.           *)
IterationCode(op, who, where, how) ==
    Step(op) \o SerialEncodeInt(Len(who) - 1) \o Names(who) \o
    (IF where = <<>> THEN GenerateNil ELSE Quoted(where[1])) \o Quoted(how)

TryCode(trial, name, catcher) == Step("TRY") \o Quoted(trial) \o Name(name) \o Quoted(catcher)
==============================================================================
