------------------------------- MODULE Compile -------------------------------
(***************************************************************************)
(* The compiler of compile.c: the syntax trees that its parser builds, and *)
(* the bytecode that it generates from them.                               *)
(*                                                                         *)
(* A tree is a record with its nonterminal and exp, which says on which    *)
(* side of an assignment it stands (LHS, RHS, or BHS, both).  Left out:    *)
(* the lexer and the choice among the rules of the grammar (an operator    *)
(* below builds what the parser's function of that name returns), floats,  *)
(* and VM_FIL and VM_LIN, which note the source line for error messages.   *)
(*                                                                         *)
(* Code is a sequence of bytes, a byte of a string being the string's name *)
(* (Bytecode); a piece of code inside another is preceded by its length.   *)
(***************************************************************************)
EXTENDS Layout

-----------------------------------------------------------------------------
(* Trees, as the parser builds them.                                       *)

Symbol(nonterminal, parts) == [nonterminal |-> nonterminal, exp |-> "RHS"] @@ parts

Variable(name)           == Symbol("VARIABLE", [name |-> name])
Integer(i)               == Symbol("INTEGER", [number |-> i])
Boolean(b)               == Symbol("BOOLEAN", [value |-> b])
String(name, len)        == Symbol("STRING", [string |-> Str(name, len)])
NilSymbol                == Symbol("NIL", <<>>)
Table(items)             == Symbol("TABLE", [list |-> items])
PairOf(key, value)       == Symbol("PAIR", [index |-> key, value |-> value])
Expression(lexeme, list) == Symbol("EXPRESSION", [lexeme |-> lexeme, list |-> list])
Call(f, arguments)       == Symbol("CALL", [value |-> f, list |-> arguments])
Member(object, index)    == Symbol("MEMBER", [value |-> object, index |-> index])
Rejoinder(list)          == Symbol("RETURN", [list |-> list])
Thrower(value)           == Symbol("THROW", [value |-> value])

Destinations(names, exp) ==
    [Symbol("DESTINATION", [list |-> [i \in DOMAIN names |-> [Variable(names[i]) EXCEPT !.exp = "LHS"]]])
        EXCEPT !.exp = exp]
Assignment2(names, sources, exp) ==
    Symbol("ASSIGNMENT", [index |-> Destinations(names, exp),
                          value |-> Symbol("SOURCE", [list |-> sources])])
Assignment(names, sources)           == Assignment2(names, sources, "LHS")
AssignmentExpression(names, sources) == Assignment2(names, sources, "BHS")

Statements(list) ==
    Symbol("STATEMENTS", [list |-> [i \in DOMAIN list |-> [list[i] EXCEPT !.exp = "LHS"]]])
Fdecl(names, closure, body) ==
    Symbol("FDECL", [index |-> Destinations(names, "LHS"), other |-> closure, value |-> body])

Condition(e) == IF e.nonterminal = "ASSIGNMENT" THEN [e EXCEPT !.exp = "BHS"] ELSE e
(* A condition and its branch, another and its branch, ..., and perhaps    *)
(* the branch of an else.                                                  *)
IfThenElse(list) ==
    Symbol("IF_THEN_ELSE", [list |-> [i \in DOMAIN list |-> Condition(list[i])]])
Loop(e, body)         == Symbol("LOOP", [index |-> Condition(e), value |-> body])
(* where is a sequence of one condition, or of none.                       *)
Iterator(names, in, where) == Symbol("ITERATOR", [list |-> names, value |-> in, index |-> where])
Iterloop(ator, body)  == Symbol("ITERLOOP", [index |-> ator, value |-> body])
Comprehension(e, ator) == Symbol("COMPREHENSION", [index |-> ator, value |-> e])
Trycatch(trial, name, catcher) ==
    Symbol("TRYCATCH", [index |-> trial, name |-> name, value |-> catcher])

-----------------------------------------------------------------------------
(* Code.                                                                   *)

RECURSIVE GenerateCode(_), Branches(_)

GenerateItems(list) == FlattenSeq([i \in DOMAIN list |-> GenerateCode(list[i])])
GenerateItemsThenOp(op, list) == GenerateItems(list) \o Step(op) \o SerialEncodeInt(Len(list))

GenerateReturn(s)  == GenerateItemsThenOp("RET", s.list)
GenerateList(s)    == GenerateItemsThenOp("LST", s.list)
GenerateInteger(s) == Step("INT") \o SerialEncodeInt(s.number)
GenerateString(s)  == Step("STR") \o SerialEncodeString(s.string)
GenerateBoolean(s) == Step("BUL") \o SerialEncodeInt(IF s.value THEN 1 ELSE 0)

GenerateSource(s) ==
    CASE s.nonterminal = "SOURCE" /\ s.exp = "RHS" -> GenerateItemsThenOp("SRC", s.list)
      [] s.nonterminal = "DESTINATION" /\ s.exp = "LHS" -> GenerateItems(s.list) \o Step("DST")
      [] OTHER -> GenerateItems(s.list)      (* as in a = b = c *)

GenerateAssignment(s) ==
    LET index == IF s.exp # "BHS" THEN s.index
                 ELSE [s.index EXCEPT !.exp = "BHS",
                           !.list = [i \in DOMAIN @ |-> [@[i] EXCEPT !.exp = "BHS"]]]
    IN  GenerateCode(s.value) \o GenerateCode(index)

GenerateVariable(s) ==
    Step(CASE s.exp = "LHS" -> "SET" [] s.exp = "RHS" -> "VAR" [] s.exp = "BHS" -> "STX") \o Name(s.name)

GenerateFdecl(s) ==
    FunctionCode(s.other, GenerateCode(s.index) \o GenerateCode(s.value))

GeneratePair(s) == GenerateCode(s.index) \o GenerateCode(s.value) \o Step("KVP")

GenerateMember(s) ==
    GenerateCode(s.index) \o GenerateCode(s.value) \o
    Step(CASE s.exp = "LHS" -> "PUT" [] s.exp = "RHS" -> "GET" [] s.exp = "BHS" -> "PTX")

GenerateFcallKeeping(s) ==   (* a slip: the result of a statement is not dropped *)
    GenerateItems(s.list) \o GenerateCode(s.value) \o Step("CAL") \o SerialEncodeInt(Len(s.list))
GenerateFcall(s) ==
    GenerateItems(s.list) \o
    (IF s.value.nonterminal = "MEMBER"
     THEN GenerateCode(s.value.index) \o GenerateCode(s.value.value) \o Step("MET")
     ELSE GenerateCode(s.value) \o Step("CAL")) \o
    SerialEncodeInt(Len(s.list)) \o
    (IF s.exp = "LHS" THEN Step("DST") ELSE <<>>)

MathOpcode == [PLUS |-> "ADD", MINUS |-> "SUB", TIMES |-> "MUL", NOT |-> "NOT", NEG |-> "NEG",
               SAME |-> "EQU", DIFFERENT |-> "NEQ", GREATER |-> "GTN", LESSER |-> "LTN",
               GREAQUAL |-> "GRQ", LEAQUAL |-> "LEQ"]
GenerateMath(s) ==
    IF s.lexeme \in {"AND", "OR"}
    THEN EitherCode(IF s.lexeme = "AND" THEN "AND" ELSE "ORR",
                    GenerateCode(s.list[1]), GenerateCode(s.list[2]))
    ELSE GenerateItems(s.list) \o Step(MathOpcode[s.lexeme])

GenerateLoop(s) == LoopCode(GenerateCode(s.index), GenerateCode(s.value))

(* Conditions, each with its branch, and perhaps the branch of an else.    *)
Branches(list) ==
    CASE list = <<>> -> <<>>
      [] Len(list) = 1 -> GenerateCode(list[1])
      [] OTHER -> BranchCode(GenerateCode(list[1]), GenerateCode(list[2]),
                             Branches(SubSeq(list, 3, Len(list))))
GenerateIfThenElse(s) == Branches(s.list)

GenerateIterator(s, op) ==
    LET ator == s.index
        who  == SubSeq(ator.list, 1, IF Len(ator.list) > 1 THEN 2 ELSE 1)
    IN  GenerateCode(ator.value) \o
        IterationCode(op, who, [i \in DOMAIN ator.index |-> GenerateCode(ator.index[i])], GenerateCode(s.value))

GenerateTrycatch(s) == TryCode(GenerateCode(s.index), s.name, GenerateCode(s.value))

GenerateThrow(s) == GenerateCode(s.value) \o Step("TRO")

GenerateCode(s) ==
    CASE s.nonterminal = "NIL"           -> GenerateNil
      [] s.nonterminal = "PAIR"          -> GeneratePair(s)
      [] s.nonterminal = "LOOP"          -> GenerateLoop(s)
      [] s.nonterminal = "FDECL"         -> GenerateFdecl(s)
      [] s.nonterminal = "TABLE"         -> GenerateList(s)
      [] s.nonterminal = "CALL"          -> GenerateFcall(s)
      [] s.nonterminal = "MEMBER"        -> GenerateMember(s)
      [] s.nonterminal = "RETURN"        -> GenerateReturn(s)
      [] s.nonterminal \in {"DESTINATION", "SOURCE"} -> GenerateSource(s)
      [] s.nonterminal = "STRING"        -> GenerateString(s)
      [] s.nonterminal = "INTEGER"       -> GenerateInteger(s)
      [] s.nonterminal = "BOOLEAN"       -> GenerateBoolean(s)
      [] s.nonterminal = "ITERLOOP"      -> GenerateIterator(s, "ITR")
      [] s.nonterminal = "VARIABLE"      -> GenerateVariable(s)
      [] s.nonterminal = "STATEMENTS"    -> GenerateItems(s.list)
      [] s.nonterminal = "ASSIGNMENT"    -> GenerateAssignment(s)
      [] s.nonterminal = "EXPRESSION"    -> GenerateMath(s)
      [] s.nonterminal = "IF_THEN_ELSE"  -> GenerateIfThenElse(s)
      [] s.nonterminal = "COMPREHENSION" -> GenerateIterator(s, "COM")
      [] s.nonterminal = "TRYCATCH"      -> GenerateTrycatch(s)
      [] s.nonterminal = "THROW"         -> GenerateThrow(s)
==============================================================================
