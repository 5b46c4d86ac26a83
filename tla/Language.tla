------------------------------- MODULE Language -------------------------------
(***************************************************************************)
(* What the statements of the language mean, as README.txt and the tests   *)
(* of the language (test_syntax.fg) use them: the reference that compiled  *)
(* and interpreted scripts are compared with.  The tree of a statement or  *)
(* of an expression is evaluated where it stands, with no code, no stack   *)
(* and no jumps.                                                           *)
(*                                                                         *)
(* An outcome has the variables afterwards, the values of the expression   *)
(* (a call may have many), and whether to go on, to return the values or   *)
(* to throw the first of them.                                             *)
(***************************************************************************)
EXTENDS Compile, Serial

Outcome(env, vals, out) == [env |-> env, vals |-> vals, out |-> out]
Value(env, v) == Outcome(env, <<v>>, "next")
First(o) == IF o.vals = <<>> THEN Nil ELSE o.vals[1]

True(v) == CASE v.type = "nil" -> FALSE [] v.type = "bool" -> v.boolean
             [] v.type = "int" -> v.val # 0 [] OTHER -> TRUE

PairsOf(vals)    == SelectSeq(vals, LAMBDA v : v.type = "kvp")
ElementsOf(vals) == SelectSeq(vals, LAMBDA v : v.type # "kvp")
(* In no script here do two pairs with one key have different values.      *)
AsPairs(vals) ==
    LET pairs == PairsOf(vals)
        Later(i) == \E j \in i + 1..Len(pairs) : pairs[j].key = pairs[i].key
        used  == SelectSeq([i \in DOMAIN pairs |-> IF Later(i) THEN Nil ELSE pairs[i]], LAMBDA v : v # Nil)
    IN  [i \in DOMAIN used |-> [key |-> used[i].key, val |-> used[i].val]]

(* Names get the values in order, the first left over the pairs, if any.   *)
Bind(env, names, vals) ==
    LET elements == ElementsOf(vals)
        pairs    == AsPairs(vals)
        Of(i)    == IF i <= Len(elements) THEN elements[i]
                    ELSE IF pairs # <<>> THEN Lst(<<>>, pairs) ELSE Nil
    IN  [n \in Range(names) |-> Of(CHOOSE i \in DOMAIN names : names[i] = n)] @@ env

AtKey(pairs, key) == LET found == SelectSeq(pairs, LAMBDA p : p.key = key)
                     IN  IF found = <<>> THEN Nil ELSE found[1].val
AtIndex(v, index) ==
    IF index.type = "int" /\ index.val < Len(v.elements) THEN v.elements[index.val + 1]
    ELSE AtKey(v.pairs, index)

(* nil counts as 0 and true as 1.                                          *)
Math(lexeme, u, v) ==
    LET m == VariableValueInt(u)
        n == VariableValueInt(v)
    IN  CASE lexeme = "PLUS" -> Int32(m + n)     [] lexeme = "MINUS" -> Int32(m - n)
          [] lexeme = "TIMES" -> Int32(m * n)    [] lexeme = "NEG" -> Int32(-m)
          [] lexeme = "GREATER" -> Bool(m > n)   [] lexeme = "LESSER" -> Bool(m < n)
          [] lexeme = "GREAQUAL" -> Bool(m >= n) [] lexeme = "LEAQUAL" -> Bool(m <= n)
          [] lexeme = "SAME" -> Bool(VariableCompare(u, v))
          [] lexeme = "DIFFERENT" -> Bool(~VariableCompare(u, v))
          [] lexeme = "NOT" -> Bool(~True(u))

What(names) == [i \in DOMAIN names |-> names[i].name]

RECURSIVE Eval(_, _)

(* What comes after o, unless o returns or throws.                         *)
Then(o, Next(_)) == IF o.out = "next" THEN Next(o) ELSE o

(* A list of statements or expressions, with the values of each, or the    *)
(* first of each.                                                          *)
InTurn(list, env, Kept(_)) ==
    FoldLeft(LAMBDA o, e : Then(o, LAMBDA p : Then(Eval(e, p.env), LAMBDA q :
                 [q EXCEPT !.vals = p.vals \o Kept(@)])),
             Outcome(env, <<>>, "next"), list)
Values(list, env) == InTurn(list, env, LAMBDA vals : vals)
Firsts(list, env) == InTurn(list, env, LAMBDA vals : IF vals = <<>> THEN <<Nil>> ELSE <<vals[1]>>)

(* A function sees what it closes over and its parameters, nothing else,   *)
(* and the caller's variables stay as they are.                            *)
Apply(f, arguments, env) ==
    IF f.type = "nil" THEN Value(env, Nil)
    ELSE LET done == Eval(f.decl.value, Bind(f.closure, What(f.decl.index.list), arguments))
         IN  CASE done.out = "throw" -> Outcome(env, done.vals, "throw")
               [] done.out = "return" -> Outcome(env, done.vals, "next")
               [] done.out = "next" -> Value(env, Nil)

(* Body is done for each of the items that satisfies the condition.        *)
ItemsOf(what) ==
    CASE what.type = "nil" -> <<>>
      [] what.type = "lst" /\ what.elements = <<>> -> what.pairs
      [] OTHER -> [i \in DOMAIN what.elements |-> [key |-> what.elements[i], val |-> Nil]]
Each(ator, body, in) ==
    FoldLeft(LAMBDA o, item : Then(o, LAMBDA p :
                 LET bound == Bind(p.env, ator.list, <<item.key, item.val>>)
                 IN  Then(Firsts(ator.index, bound), LAMBDA a :
                         IF a.vals = <<>> \/ True(First(a))
                         THEN Then(Eval(body, a.env), LAMBDA d :
                                  [d EXCEPT !.vals = Append(p.vals, First(d))])
                         ELSE [a EXCEPT !.vals = p.vals])),
             Outcome(in.env, <<>>, "next"), ItemsOf(First(in)))

CallsMethod(e) == e.nonterminal = "CALL" /\ e.value.nonterminal = "MEMBER"

Eval(e, env) ==
    CASE e.nonterminal = "NIL" -> Value(env, Nil)
      [] e.nonterminal = "INTEGER" -> Value(env, Int32(e.number))
      [] e.nonterminal = "BOOLEAN" -> Value(env, Bool(e.value))
      [] e.nonterminal = "STRING" -> Value(env, e.string)
      [] e.nonterminal = "VARIABLE" -> Value(env, env[e.name])
      [] e.nonterminal = "FDECL" ->
             Value(env, [type |-> "fnc", decl |-> e, closure |-> [n \in Range(e.other) |-> env[n]]])
      [] e.nonterminal = "PAIR" ->
             Then(Firsts(<<e.index, e.value>>, env), LAMBDA o : Value(o.env, Kvp(o.vals[1], o.vals[2])))
      [] e.nonterminal = "TABLE" ->
             Then(Firsts(e.list, env), LAMBDA o :
                 LET some == SelectSeq(o.vals, LAMBDA v : v # Nil)
                 IN  Value(o.env, Lst(ElementsOf(some), AsPairs(some))))
      [] e.nonterminal = "MEMBER" ->
             Then(Firsts(<<e.index, e.value>>, env), LAMBDA o : Value(o.env, AtIndex(o.vals[2], o.vals[1])))
      [] e.nonterminal = "EXPRESSION" /\ e.lexeme \in {"AND", "OR"} ->
             Then(Firsts(<<e.list[1]>>, env), LAMBDA o :
                 IF True(First(o)) = (e.lexeme = "OR") THEN o ELSE Eval(e.list[2], o.env))
      [] e.nonterminal = "EXPRESSION" /\ e.lexeme \notin {"AND", "OR"} ->
             Then(Firsts(e.list, env), LAMBDA o : Value(o.env, Math(e.lexeme, o.vals[1], Last(o.vals))))
      [] e.nonterminal = "ASSIGNMENT" ->
             Then(Values(e.value.list, env), LAMBDA o :
                 [o EXCEPT !.env = Bind(@, What(e.index.list), o.vals)])
      [] e.nonterminal = "CALL" ->
             Then(Values(e.list, env), LAMBDA args :
                 IF CallsMethod(e)
                 THEN Then(Firsts(<<e.value.index, e.value.value>>, args.env), LAMBDA o :
                          Apply(AtIndex(o.vals[2], o.vals[1]), <<o.vals[2]>> \o args.vals, o.env))
                 ELSE Then(Eval(e.value, args.env), LAMBDA f : Apply(First(f), args.vals, f.env)))
      [] e.nonterminal = "COMPREHENSION" ->
             Then(Eval(e.index.value, env), LAMBDA in :
                 Then(Each(e.index, e.value, in), LAMBDA o :
                     Value(o.env, Lst(ElementsOf(o.vals), AsPairs(o.vals)))))
      [] e.nonterminal = "ITERLOOP" ->
             Then(Eval(e.index.value, env), LAMBDA in : Each(e.index, e.value, in))
      [] e.nonterminal = "STATEMENTS" -> Values(e.list, env)
      [] e.nonterminal = "IF_THEN_ELSE" ->
             CASE e.list = <<>> -> Outcome(env, <<>>, "next")
               [] Len(e.list) = 1 -> Eval(e.list[1], env)
               [] OTHER -> Then(Eval(e.list[1], env), LAMBDA o :
                               IF True(First(o)) THEN Eval(e.list[2], o.env)
                               ELSE Eval([e EXCEPT !.list = SubSeq(@, 3, Len(@))], o.env))
      [] e.nonterminal = "LOOP" ->
             Then(Eval(e.index, env), LAMBDA o :
                 IF True(First(o)) THEN Then(Eval(e.value, o.env), LAMBDA p : Eval(e, p.env)) ELSE o)
      [] e.nonterminal = "RETURN" ->
             Then(Values(e.list, env), LAMBDA o : [o EXCEPT !.out = "return"])
      [] e.nonterminal = "THROW" -> Then(Eval(e.value, env), LAMBDA o : [o EXCEPT !.out = "throw"])
      [] e.nonterminal = "TRYCATCH" ->
             LET tried == Eval(e.index, env)
             IN  IF tried.out # "throw" THEN tried
                 ELSE Eval(e.value, Bind(tried.env, <<e.name>>, <<First(tried)>>))
==============================================================================
