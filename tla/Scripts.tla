------------------------------- MODULE Scripts --------------------------------
(***************************************************************************)
(* Scripts, compiled and interpreted: sessions for TLC, many of them from  *)
(* README.txt and test_syntax.fg, and what is true of every run of them.   *)
(***************************************************************************)
EXTENDS Interp, Language

V(name) == Variable(name)
I(i)    == Integer(i)
Op(lexeme, u, v) == Expression(lexeme, <<u, v>>)
Let(name, e) == Assignment(<<name>>, <<e>>)
Function(names, closure, list) == Fdecl(names, closure, Statements(list))
Return(e) == Rejoinder(<<e>>)
If(e, list) == IfThenElse(<<e, Statements(list)>>)
For(names, in, list) == Iterloop(Iterator(names, in, <<>>), Statements(list))
Numbers == Table(<<I(3), I(1), I(4), I(1), I(5)>>)

Session(interactive, trees) ==
    [interactive |-> interactive, trees |-> trees,
     inputs |-> [i \in DOMAIN trees |-> GenerateCode(trees[i])]]
File(list)    == Session(FALSE, <<Statements(list)>>)
Typed(inputs) == Session(TRUE, [i \in DOMAIN inputs |-> Statements(inputs[i])])

-----------------------------------------------------------------------------
(* Functions.                                                              *)

ManyReturns == File(<<
    Let("f", Function(<<>>, <<>>, <<Rejoinder(<<I(12), I(6)>>)>>)),
    Assignment(<<"x", "y", "z">>, <<Call(V("f"), <<>>)>>),
    IfThenElse(<<Expression("NOT", <<V("z")>>), Statements(<<Let("r", Op("MINUS", V("x"), V("y")))>>),
                 Statements(<<Let("r", I(99))>>)>>)>>)
Scope == File(<<
    Let("n", I(2)), Let("f", Function(<<"n">>, <<>>, <<Let("n", I(3))>>)),
    Call(V("f"), <<I(4)>>), Call(V("f"), <<I(5)>>), Let("r", V("n"))>>)
Closure == File(<<
    Assignment(<<"x", "y">>, <<I(7), I(8)>>),
    Let("f", Function(<<"a">>, <<"x", "y">>, <<Return(Op("PLUS", Op("PLUS", V("a"), V("x")), V("y")))>>)),
    Let("x", I(9)), Let("r", Call(V("f"), <<I(3)>>))>>)
NoReturn == File(<<
    Let("f", Function(<<>>, <<>>, <<Let("x", I(1))>>)),
    If(Call(V("f"), <<>>), <<Let("r", I(2))>>),
    Let("s", Table(<<Call(V("f"), <<>>), I(1)>>))>>)
(* The values of a call are arguments and results of their own.            *)
Spread == File(<<
    Let("g", Function(<<"a">>, <<>>, <<Rejoinder(<<V("a"), I(1)>>)>>)),
    Let("f", Function(<<"a", "b", "c">>, <<"g">>,
                 <<Rejoinder(<<Call(V("g"), <<V("c")>>), V("b"), V("a")>>)>>)),
    Assignment(<<"a", "b", "c", "d", "e">>, <<Call(V("f"), <<I(8), Call(V("g"), <<I(7)>>)>>), I(5)>>),
    Let("s", Table(<<Call(V("g"), <<I(7)>>), Call(V("g"), <<I(6)>>)>>)),
    Let("t", Op("PLUS", Call(V("g"), <<I(7)>>), Call(V("g"), <<I(6)>>))),
    Call(V("g"), <<I(7)>>), Call(V("f"), <<I(6)>>)>>)
Recursion == File(<<
    Let("f", Function(<<"f", "n">>, <<>>,
        <<If(Op("LESSER", V("n"), I(1)), <<Return(I(0))>>),
          Return(Op("PLUS", V("n"), Call(V("f"), <<V("f"), Op("MINUS", V("n"), I(1))>>)))>>)),
    Let("r", Call(V("f"), <<V("f"), I(3)>>))>>)
MapArguments == File(<<
    Let("f", Function(<<"a", "b">>, <<>>, <<Return(Op("PLUS", Member(V("b"), String("p", 1)),
                                                       Op("MINUS", Member(V("b"), String("q", 1)), V("a"))))>>)),
    Let("r", Call(V("f"), <<PairOf(String("p", 1), I(7)), I(2), PairOf(String("q", 1), I(8))>>))>>)
Methods == File(<<
    Let("o", Table(<<PairOf(String("n", 1), I(5)), NilSymbol, I(9),
                     PairOf(String("g", 1), Function(<<"s", "k">>, <<>>,
                         <<Return(Op("PLUS", Member(V("s"), String("n", 1)), V("k")))>>))>>)),
    Let("r", Call(Member(V("o"), String("g", 1)), <<I(2)>>)),
    Let("s", Call(Member(V("o"), String("h", 1)), <<I(2)>>)),
    Let("t", Member(V("o"), I(0)))>>)
NoFunction == File(<<
    Assignment(<<"s", "t", "f">>, <<I(1), I(2)>>), Let("r", Call(V("f"), <<I(1), I(2)>>)), Let("s", I(3))>>)

-----------------------------------------------------------------------------
(* Conditions and loops.  Padding puts the lengths of the code that is     *)
(* jumped over on both sides of those that take one byte more to write.    *)

Short(k) ==
    LET value(i) == CASE i = 0 -> NilSymbol [] i = 1 -> I(0) [] i = 2 -> I(7)
        lexeme(i) == IF i = 0 THEN "AND" ELSE "OR"
    IN  File(<<Let("r", Op(lexeme(k % 2), value((k \div 4) % 3),
                           Op(lexeme((k \div 2) % 2), value((k \div 12) % 3), value((k \div 36) % 3)))),
               Let("s", Op(lexeme((k \div 2) % 2),
                           Op(lexeme(k % 2), value((k \div 4) % 3), value((k \div 12) % 3)), value((k \div 36) % 3)))>>)
Padding(n) == Let("s", String("x", n))
Padded(n) == File(<<
    Assignment(<<"i", "r">>, <<I(2), Boolean(TRUE)>>),
    Loop(Op("GREATER", V("i"), I(0)), Statements(<<Padding(n), Let("i", Op("MINUS", V("i"), I(1)))>>)),
    IfThenElse(<<Op("SAME", V("i"), I(0)), Statements(<<Padding(n), Let("t", I(1))>>),
                 Op("DIFFERENT", V("i"), NilSymbol), Statements(<<Padding(n)>>),
                 Statements(<<Padding(n)>>)>>),
    Let("t", Op("OR", V("r"), String("x", n + 20))),
    Loop(V("r"), Statements(<<Padding(n + 6), Let("r", Boolean(FALSE))>>))>>)
Choice(k) ==
    LET value(i) == CASE i = 0 -> NilSymbol [] i = 1 -> Boolean(FALSE) [] i = 2 -> I(0)
                      [] i = 3 -> Table(<<>>)
    IN  File(<<IfThenElse(<<value(k % 4), Statements(<<Let("r", I(1))>>),
                            AssignmentExpression(<<"s">>, <<value((k \div 4) % 4)>>), Statements(<<Let("r", I(2))>>),
                            Op("GREAQUAL", value(k % 3), I(0)), Statements(<<Let("r", I(3))>>),
                            Statements(<<>>)>>)>>)
AssignmentExpressions == File(<<
    Assignment(<<"a", "b">>, <<AssignmentExpression(<<"c", "d", "e", "f", "g">>, <<I(7), I(8), I(9)>>)>>),
    IfThenElse(<<AssignmentExpression(<<"h">>, <<Expression("NOT", <<AssignmentExpression(<<"i">>, <<I(0)>>)>>)>>),
                 Statements(<<Let("r", Op("PLUS", V("h"), V("c")))>>)>>),
    Loop(AssignmentExpression(<<"i">>, <<Op("MINUS", I(0), V("i"))>>), Statements(<<>>))>>)
Nested == File(<<
    Let("i", I(2)),
    Loop(V("i"), Statements(<<
        Let("j", V("i")),
        Loop(Op("LEAQUAL", I(1), V("j")), Statements(<<
            If(Op("SAME", V("j"), I(1)), <<Let("r", Op("TIMES", V("i"), I(10)))>>),
            Let("j", Op("MINUS", V("j"), I(1)))>>)),
        Let("i", Op("PLUS", V("i"), Expression("NEG", <<I(1)>>)))>>))>>)

-----------------------------------------------------------------------------
(* Iterations, comprehensions and exceptions.                              *)

ForEachWhere == File(<<
    Assignment(<<"x", "r", "y">>, <<Numbers, I(20), Table(<<PairOf(String("a", 1), I(7)), PairOf(String("b", 1), I(8))>>)>>),
    Iterloop(Iterator(<<"n">>, V("x"), <<Op("GREATER", V("n"), I(3))>>),
             Statements(<<Let("r", Op("MINUS", V("r"), V("n")))>>)),
    For(<<"k">>, V("y"), <<Let("r", Op("PLUS", V("r"), Member(V("y"), V("k"))))>>),
    For(<<"k", "v">>, V("y"), <<For(<<"m", "u">>, Table(<<I(1), I(2)>>), <<Let("r", Op("PLUS", V("r"), V("v")))>>)>>),
    For(<<"k">>, NilSymbol, <<Let("r", I(0))>>)>>)
Comprehensions == File(<<
    Let("x", Numbers),
    Let("y", Comprehension(Op("PLUS", V("n"), I(1)), Iterator(<<"n">>, V("x"), <<Op("GREATER", V("n"), I(3))>>))),
    Let("z", Comprehension(PairOf(V("n"), Op("TIMES", V("n"), I(2))), Iterator(<<"n">>, V("x"), <<>>))),
    Let("r", Member(V("z"), I(4))),
    Let("t", Comprehension(Comprehension(Op("TIMES", V("n"), V("m")), Iterator(<<"m">>, Table(<<I(1), I(2)>>), <<>>)),
                           Iterator(<<"n">>, Table(<<I(3), I(4)>>), <<>>))),
    Let("u", Comprehension(V("n"), Iterator(<<"n">>, NilSymbol, <<>>)))>>)
ReturnFromLoop == File(<<
    Let("f", Function(<<"l", "n">>, <<>>,
        <<Iterloop(Iterator(<<"m">>, V("l"), <<Op("GREATER", V("m"), V("n"))>>),
                   Statements(<<If(Op("DIFFERENT", V("m"), I(4)), <<Rejoinder(<<V("m"), V("n")>>)>>)>>)),
          Loop(Boolean(TRUE), Statements(<<Return(I(0))>>))>>)),
    Let("r", Call(V("f"), <<Numbers, I(3)>>)),
    Let("s", Op("PLUS", Call(V("f"), <<Numbers, I(0)>>), Call(V("f"), <<Numbers, I(5)>>)))>>)
Exceptions == File(<<
    Let("f", Function(<<"n">>, <<>>,
        <<Trycatch(Statements(<<
              Loop(V("n"), Statements(<<
                  If(Op("SAME", V("n"), I(1)), <<Thrower(Op("PLUS", V("n"), I(8)))>>),
                  Let("n", Op("MINUS", V("n"), I(2)))>>)),
              Return(I(3))>>), "e", Statements(<<Return(V("e"))>>))>>)),
    Let("r", Call(V("f"), <<I(3)>>)), Let("s", Call(V("f"), <<I(2)>>)),
    For(<<"n">>, Numbers, <<Trycatch(Statements(<<Let("t", V("n")), Thrower(V("n"))>>), "e",
                                     Statements(<<Let("u", V("e"))>>))>>),
    Trycatch(Statements(<<Let("a", I(1))>>), "e", Statements(<<Let("a", V("e"))>>))>>)
NestedTries == File(<<
    Trycatch(Statements(<<Trycatch(Statements(<<Thrower(I(1))>>), "e",
                                   Statements(<<Let("r", V("e")), Thrower(I(2))>>))>>),
             "e", Statements(<<Let("s", V("e"))>>))>>)
Uncaught == File(<<If(I(1), <<Thrower(I(99))>>), Let("r", I(1))>>)
NotFound == File(<<Let("r", Op("PLUS", I(1), V("n"))), Let("s", I(1))>>)
NotFoundInClosure == File(<<Let("f", Function(<<>>, <<"n">>, <<>>)), Let("s", I(1))>>)
NotAFunction == File(<<Let("f", Function(<<"g">>, <<>>, <<Call(V("g"), <<>>)>>)), Call(V("f"), <<I(1)>>)>>)

Repl == Typed(<<
    <<Let("f", Function(<<"a">>, <<>>, <<Return(Op("PLUS", V("a"), I(1)))>>)), Let("x", I(1))>>,
    <<Loop(Op("LESSER", V("x"), I(3)), Statements(<<Let("x", Call(V("f"), <<V("x")>>))>>))>>,
    <<Trycatch(Statements(<<Thrower(V("x"))>>), "e", Statements(<<Call(V("f"), <<V("x")>>)>>))>>,
    <<Trycatch(Statements(<<Let("y", V("e"))>>), "e", Statements(<<Let("y", I(0))>>))>>>>)

ScriptSessions ==
    <<ManyReturns, Scope, Closure, NoReturn, Spread, Recursion, MapArguments, Methods, NoFunction,
      AssignmentExpressions, Nested, ForEachWhere, Comprehensions, ReturnFromLoop, Exceptions,
      NestedTries, Uncaught, NotFound, NotFoundInClosure, NotAFunction, Repl>>
    \o [k \in 1..108 |-> Short(k)] \o [k \in 1..16 |-> Choice(k)] \o [k \in 1..22 |-> Padded(k + 28)]

(* A function with a loop, called while the result of a call is waiting.   *)
LoopingSessions == <<File(<<
    Let("f", Function(<<"l">>, <<>>,
        <<Let("n", I(0)), For(<<"m">>, V("l"), <<Let("n", Op("PLUS", V("n"), V("m")))>>), Return(V("n"))>>)),
    Let("x", Call(V("f"), <<Numbers>>)),
    Let("y", Op("PLUS", Call(V("f"), <<Numbers>>), Call(V("f"), <<Numbers>>)))>>)>>

-----------------------------------------------------------------------------
RECURSIVE IsValue(_), InstructionEnd(_, _), Boundaries(_, _), Skip(_, _, _)

Undecided == [type |-> "undecided"]   (* model value of NoError *)

IsValue(v) ==
    CASE v.type \in {"nil", "int", "bool", "str"} -> TRUE
      [] v.type = "kvp" -> IsValue(v.key) /\ IsValue(v.val)
      [] v.type = "fnc" -> \A p \in Range(v.pairs) : IsValue(p.key) /\ IsValue(p.val)
      [] v.type = "lst" -> /\ \A e \in Range(v.elements) : IsValue(e)
                           /\ \A p \in Range(v.pairs) : IsValue(p.key) /\ IsValue(p.val)
      [] OTHER -> FALSE
IsOperand(v) ==
    IsValue(v) \/ /\ v.type = "src" /\ v.current \in 0..Len(v.elements)
                  /\ \A e \in Range(v.elements) : IsValue(e) /\ e.type # "kvp"

(* Types; in particular a source is only ever an operand, never inside     *)
(* another, in a list or in a variable: code that takes one value          *)
(* (variable_pop) and code that takes many (variable_new_src) unwrap them. *)
TypeOK ==
    /\ session \in DOMAIN Given /\ entered \in 0..Len(Inputs)
    /\ \A v \in Range(operands) : IsOperand(v)
    /\ \A st \in Range(states) : \A n \in DOMAIN st : IsValue(st[n])
    /\ error = NoError \/ IsValue(error)
    /\ \A f \in Range(frames) :
          /\ f.kind \in {"program", "call", "where", "how", "trial", "catcher"}
          /\ f.inst \in Range(Opcodes) /\ f.pc \in Nat \ {0} /\ {f.over, f.inState} \subseteq BOOLEAN

-----------------------------------------------------------------------------
(* Where the instruction at pc ends.                                       *)
Skip(program, at, strings) ==
    IF strings = 0 THEN at
    ELSE LET len == SerialDecodeInt(program, at) IN Skip(program, len.next + len.val, strings - 1)
InstructionEnd(program, pc) ==
    LET op   == Opcodes[program[pc] + 1]
        arg  == SerialDecodeInt(program, pc + 1)
    IN  CASE op \in {"INT", "BUL", "SRC", "LST", "IFF", "JMP", "AND", "ORR", "CAL", "MET", "RET"} -> arg.next
          [] op \in {"STR", "VAR", "SET", "STX"} -> Skip(program, pc + 1, 1)
          [] op = "FNC" -> Skip(program, arg.next, arg.val + 1)
          [] op \in {"ITR", "COM"} -> Skip(program, arg.next, arg.val + 3)
          [] op = "TRY" -> Skip(program, pc + 1, 3)
          [] OTHER -> pc + 1
Boundaries(program, pc) ==
    IF pc > Len(program) THEN {pc}
    ELSE {pc} \cup Boundaries(program, InstructionEnd(program, pc))

(* Whatever jumps were taken, every run is at an instruction that the      *)
(* compiler wrote, or at the end of its code: never at an operand or       *)
(* beyond the end.  The lengths that generate_loop, generate_ifthenelse    *)
(* and generate_math put in the code count the bytes that write them.      *)
AtInstruction == \A i \in DOMAIN frames : frames[i].pc \in Boundaries(frames[i].program, 1)

(* When a call is over its arguments are gone and one source is there in   *)
(* their place, whether the function has returned some values, none, or    *)
(* has no return at all.                                                   *)
OneResult ==
    [][\A f \in {frames[i] : i \in DOMAIN frames} :
          (f.kind = "call" /\ Len(frames') < Len(frames) /\ f = Top /\ error' # Str("error", 1))
              => Len(operands') = f.depth /\ Last(operands').type = "src"]_vars

(* "operand stack not empty" (vm.c:1589): a program that comes to its end  *)
(* has used or dropped all that it has pushed.                             *)
StackEmpty == Ended /\ Top.kind = "program" /\ Top.inst # "TRO" => Dropped(operands) = <<>>

(* What catches runs only for what was thrown in its own trial, never for  *)
(* an error that was there before.                                         *)
CatchesItsOwn == \A i \in DOMAIN frames : frames[i].kind = "trial" => ~frames[i].more.pending

(* At the end of every input the variables are what the statements mean.   *)
RECURSIVE Meaning(_)
Meaning(n) == IF n = 0 THEN Outcome(<<>>, <<>>, "next") ELSE Eval(Given[session].trees[n], Meaning(n - 1).env)
Observable(v) == v.type # "fnc" /\ (v.type = "lst" => \A e \in Range(v.pairs) : e.val.type # "fnc")
Agree(u, v) == VariableCompare(u, v) /\ VariableCompare(v, u) /\ (u = Nil) = (v = Nil)
Evaluates ==
    Ended /\ Top.kind = "program" =>
        LET meant == Meaning(entered)
        IN  /\ DOMAIN Env = DOMAIN meant.env
            /\ \A n \in DOMAIN Env : Observable(meant.env[n]) => Agree(Env[n], meant.env[n])
            /\ (error # NoError) = (meant.out = "throw")

(* Every session comes to its end.                                         *)
Terminates == <>Over

(* dst drops an "unused result" (vm.c:916): while a function runs, and     *)
(* when it returns, what its callers have on the operand stack stays.      *)
OperandsKept ==
    [][\A i \in DOMAIN frames : frames[i].kind = "call" /\ error' # Str("error", 1) =>
          \A k \in 1..frames[i].depth - 1 : k \in DOMAIN operands' /\ operands'[k] = operands[k]]_vars
==============================================================================
