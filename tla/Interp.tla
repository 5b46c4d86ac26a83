-------------------------------- MODULE Interp --------------------------------
(***************************************************************************)
(* The stack machine of vm.c that runs bytecode, by one thread: the loop   *)
(* of run with the instructions as actions, and the runs that instructions *)
(* start inside it (of a function, of the body of an iteration, of what is *)
(* tried and what catches), each a frame.  A session is a file that is     *)
(* executed, or inputs to the read-eval loop of interpret.c, which keeps   *)
(* its context from one to the next.                                       *)
(*                                                                         *)
(* Values are those of Bytecode, and VAR_SRC, what an expression or return *)
(* pushes for those who assign from it.  Nothing is Put in a list here, or *)
(* incremented in place, so that a variable is its value: Lists has the    *)
(* lists that change.  Left out: floats, the operators on strings and      *)
(* lists, C functions and what sys offers (state->args is read only        *)
(* there), and the collection of garbage.  Where the code dereferences a   *)
(* null pointer, because the operand stack is too short, an action has a   *)
(* guard and the machine stops.  \E x \in {e} names a value e as LET would, *)
(* for TLC to evaluate once.                                               *)
(***************************************************************************)
EXTENDS Bytecode

CONSTANTS Sessions,  (* sequence of sessions: each interactive or not, with *)
                     (* its inputs, bytecode; a file is one input           *)
          NoError,   (* context->error when it is NULL                      *)
          Equal(_, _)   (* what variable_compare says of two values         *)

ASSUME SessionsAssumption == \A n \in DOMAIN Sessions : Sessions[n].interactive \in BOOLEAN

VARIABLES session,   (* which session this is                               *)
          entered,   (* how many of its inputs have been read               *)
          frames,    (* the runs in progress, the innermost last            *)
          operands,  (* context->operand_stack, its top last                *)
          states,    (* context->program_stack: named_variables of each     *)
          error      (* context->error                                      *)

vars == <<session, entered, frames, operands, states, error>>

-----------------------------------------------------------------------------
(* Values and the operand stack.                                           *)

Src(elements, pairs) ==
    [type |-> "src", elements |-> elements, pairs |-> pairs, current |-> 0]

TestOperandPlain(v) ==   (* a slip: no case for booleans *)
    v.type \notin {"nil", "int"} \/ (v.type = "int" /\ v.val # 0)
TestOperand(v) ==
    CASE v.type = "nil" -> FALSE
      [] v.type = "bool" -> v.boolean
      [] v.type = "int" -> v.val # 0
      [] OTHER -> TRUE

(* variable_dic_insert: the pairs of a dic, none with the same key.        *)
DicPut(pairs, key, val) ==
    LET rest == SelectSeq(pairs, LAMBDA p : p.key # key)
    IN  CASE key.type = "nil" -> pairs
          [] key.type # "nil" /\ val.type = "nil" -> rest
          [] OTHER -> <<[key |-> key, val |-> val]>> \o rest
DicAt(pairs, key) == SelectSeq(pairs, LAMBDA p : Equal(p.key, key))
DicJoin(a, b) == a \o SelectSeq(b, LAMBDA p : DicAt(a, p.key) = <<>>)

(* variable_pop from the stack ops, after k others.                        *)
PoppedWhole(ops, k) == ops[Len(ops) - k]   (* a slip: a source stays one *)
Popped(ops, k) ==
    LET v == ops[Len(ops) - k]
    IN  IF v.type # "src" THEN v ELSE IF v.elements = <<>> THEN Nil ELSE v.elements[1]
Below(ops, k) == SubSeq(ops, 1, Len(ops) - k)

(* variable_new_src takes size operands together, the sources among them   *)
(* apart, and push_list those of a list literal.                           *)
Uppermost(ops, n) == SubSeq(ops, Len(ops) - n + 1, Len(ops))
Gather(o, v) ==
    CASE o.type = "src" -> Src(o.elements \o v.elements, DicJoin(o.pairs, v.pairs))
      [] o.type = "kvp" -> [v EXCEPT !.pairs = DicPut(@, o.key, o.val)]
      [] OTHER -> [v EXCEPT !.elements = <<o>> \o @]
NewSrc(ops, size) ==
    Append(Below(ops, size), FoldRight(Gather, Uppermost(ops, size), Src(<<>>, <<>>)))

Collect(o, list) ==
    LET v == Popped(<<o>>, 0)
    IN  CASE v.type = "kvp" -> [list EXCEPT !.pairs = DicPut(@, v.key, v.val)]
          [] v.type = "nil" -> list
          [] OTHER -> [list EXCEPT !.elements = <<v>> \o @]
Collected(ops, n) == Append(Below(ops, n), FoldRight(Collect, Uppermost(ops, n), Lst(<<>>, <<>>)))

IsSrc(ops)    == ops # <<>> /\ Last(ops).type = "src"
Dropped(ops)  == IF IsSrc(ops) THEN Front(ops) ELSE ops      (* dst *)
ResultedBare(ops) == ops   (* a slip: no nil is pretended *)
Resulted(ops) == IF IsSrc(ops) THEN ops ELSE Append(ops, Src(<<Nil>>, <<>>))

-----------------------------------------------------------------------------
(* The run in progress, its instruction and operands.                      *)

Top         == Last(frames)
Others      == Front(frames)
Ended       == frames # <<>> /\ (Top.over \/ Top.pc > Len(Top.program))
Instruction == Opcodes[Top.program[Top.pc] + 1]
At(op)      == frames # <<>> /\ ~Ended /\ Instruction = op
Needs(n)    == Len(operands) >= n

Operand     == SerialDecodeInt(Top.program, Top.pc + 1)
IntAt(at)   == SerialDecodeInt(Top.program, at)
Label(at)   == LET s == SerialDecodeString(Top.program, at) IN [s EXCEPT !.val = @.name]
Code(at)    == LET len == IntAt(at)
               IN  [val  |-> SubSeq(Top.program, len.next, len.next + len.val - 1),
                    next |-> len.next + len.val]
Labels(at, n) ==
    LET starts[i \in 0..n] == IF i = 0 THEN at ELSE Label(starts[i - 1]).next
    IN  [val |-> [i \in 1..n |-> Label(starts[i - 1]).val], next |-> starts[n]]

(* depth and level are for the properties: how many operands and states    *)
(* there are when it starts.                                               *)
Frame(kind, program, inState, ops, sts, more) ==
    [kind |-> kind, program |-> program, pc |-> 1, inst |-> "NIL", over |-> FALSE,
     inState |-> inState, more |-> more, depth |-> Len(ops), level |-> Len(sts)]
(* The states when a run has started: it has one of its own, or uses the   *)
(* last.                                                                   *)
Entered(inState, env) == IF inState /\ states # <<>> THEN states ELSE Append(states, env)

Moved(pc)   == Append(Others, [Top EXCEPT !.inst = Instruction, !.pc = pc])
Left(inst)  == Append(Others, [Top EXCEPT !.inst = inst, !.over = TRUE])     (* goto done *)

Env == Last(states)
SetIn(sts, name, v) == [sts EXCEPT ![Len(sts)] = name :> v @@ @]
SetInFirst(sts, name, v) == [sts EXCEPT ![1] = name :> v @@ @]   (* a slip *)
SetNamedVariable(sts, name, v) == SetIn(sts, name, v)

(* An instruction that only works on the operands.                         *)
Operate(ops, pc) ==
    /\ operands' = ops
    /\ frames' = Moved(pc)
    /\ UNCHANGED <<session, entered, states, error>>

(* vm_exit: longjmp to where the session began, whatever is on the stacks. *)
VmExit(ops) ==
    /\ frames' = <<>>
    /\ operands' = ops
    /\ error' = Str("error", 1)
    /\ UNCHANGED <<session, entered, states>>

-----------------------------------------------------------------------------
(* Instructions on values.                                                 *)

PushNil == At("NIL") /\ Operate(Append(operands, Nil), Top.pc + 1)
PushInt == At("INT") /\ Operate(Append(operands, Int32(Operand.val)), Operand.next)
PushBool == At("BUL") /\ Operate(Append(operands, Bool(Operand.val # 0)), Operand.next)
PushStr ==
    At("STR") /\ LET s == SerialDecodeString(Top.program, Top.pc + 1)
                 IN  Operate(Append(operands, s.val), s.next)
PushVar ==
    /\ At("VAR")
    /\ LET name == Label(Top.pc + 1)
       IN  IF name.val \in DOMAIN Env THEN Operate(Append(operands, Env[name.val]), name.next)
           ELSE VmExit(operands)
PushFnc ==
    /\ At("FNC")
    /\ \E names \in {Labels(Operand.next, Operand.val)} : \E body \in {Code(names.next)} :
           IF Range(names.val) \subseteq DOMAIN Env
           THEN Operate(Append(operands,
                    Fnc(body.val, FoldLeft(LAMBDA pairs, n : DicPut(pairs, Str(n, 1), Env[n]),
                                           <<>>, names.val))), body.next)
           ELSE VmExit(operands)

PushList ==
    /\ At("LST") /\ Needs(Operand.val)
    /\ Operate(Collected(operands, Operand.val), Operand.next)
PushKvp ==
    /\ At("KVP") /\ Needs(2)
    /\ Operate(Append(Below(operands, 2), Kvp(Popped(operands, 1), Popped(operands, 0))), Top.pc + 1)

(* lookup; no index here is the name of a built-in method.                 *)
Lookup(indexable, index) ==
    LET found == IF indexable.type \in {"lst", "fnc"} THEN DicAt(indexable.pairs, index) ELSE <<>>
    IN  IF indexable.type = "lst" /\ index.type = "int" /\ index.val < Len(indexable.elements)
        THEN indexable.elements[index.val + 1]
        ELSE IF found # <<>> THEN found[1].val ELSE Nil
ListGet ==
    /\ At("GET") /\ Needs(2)
    /\ Operate(Append(Below(operands, 2), Lookup(Popped(operands, 0), Popped(operands, 1))), Top.pc + 1)

BinaryOpInt(op, m, n) ==
    LET Whether(b) == Int32(IF b THEN 1 ELSE 0)
    IN  CASE op = "ADD" -> Int32(m + n) [] op = "SUB" -> Int32(m - n) [] op = "MUL" -> Int32(m * n)
          [] op = "GTN" -> Whether(m > n) [] op = "LTN" -> Whether(m < n)
          [] op = "GRQ" -> Whether(m >= n) [] op = "LEQ" -> Whether(m <= n)
BinaryOpNil(op, u, v) ==
    CASE op = "SUB" -> IF u.type # "nil" THEN u ELSE Int32(-VariableValueInt(v))
      [] op = "ADD" -> IF u.type # "nil" THEN u ELSE v
      [] op = "MUL" -> Int32(0)
      [] OTHER -> Bool(BinaryOpInt(op, VariableValueInt(u), VariableValueInt(v)).val = 1)
BinaryOp(op, u, v) ==
    CASE op \in {"EQU", "NEQ"} -> Bool(Equal(u, v) # (op = "NEQ"))
      [] op \notin {"EQU", "NEQ"} /\ Nil \in {u, v} -> BinaryOpNil(op, u, v)
      [] OTHER -> BinaryOpInt(op, VariableValueInt(u), VariableValueInt(v))
Binary(op) ==
    /\ At(op) /\ Needs(2)
    /\ op \in {"EQU", "NEQ"} \/ (Scalar(Popped(operands, 1)) /\ Scalar(Popped(operands, 0)))
    /\ Operate(Append(Below(operands, 2), BinaryOp(op, Popped(operands, 1), Popped(operands, 0))), Top.pc + 1)

UnaryOp ==
    \/ /\ At("NOT") /\ Needs(1)
       /\ Operate(Append(Below(operands, 1), Bool(~TestOperand(Popped(operands, 0)))), Top.pc + 1)
    \/ /\ At("NEG") /\ Needs(1) /\ Popped(operands, 0).type \in {"int", "nil"}
       /\ LET v == Popped(operands, 0)
          IN  Operate(Append(Below(operands, 1), IF v = Nil THEN Nil ELSE Int32(-v.val)), Top.pc + 1)

-----------------------------------------------------------------------------
(* Assignment.                                                             *)

NewSource == At("SRC") /\ Needs(Operand.val) /\ Operate(NewSrc(operands, Operand.val), Operand.next)
DropSource == At("DST") /\ Operate(Dropped(operands), Top.pc + 1)

(* get_value: the next of a source's values, a list of its pairs when they *)
(* are used up, or else nil; what is not a source is popped by SET.        *)
GetValue(op) ==
    IF operands = <<>> THEN [val |-> Nil, ops |-> operands]
    ELSE LET v == Last(operands) IN
         CASE v.type = "src" /\ v.current < Len(v.elements) ->
                  [val |-> v.elements[v.current + 1],
                   ops |-> Append(Front(operands), [v EXCEPT !.current = @ + 1])]
           [] v.type = "src" /\ v.current >= Len(v.elements) ->
                  [val |-> IF v.pairs = <<>> THEN Nil ELSE Lst(<<>>, v.pairs), ops |-> operands]
           [] OTHER -> [val |-> v, ops |-> IF op = "STX" THEN operands ELSE Front(operands)]
Set(op) ==
    /\ At(op)
    /\ states' = SetNamedVariable(states, Label(Top.pc + 1).val, GetValue(op).val)
    /\ operands' = GetValue(op).ops
    /\ frames' = Moved(Label(Top.pc + 1).next)
    /\ UNCHANGED <<session, entered, error>>

-----------------------------------------------------------------------------
(* Jumps: of the operand's length forward from the next instruction, or    *)
(* back from this one.                                                     *)

BooleanOpOther(op) ==   (* a slip: AND and OR the wrong way round *)
    /\ At(op) /\ Needs(1)
    /\ LET v == Popped(operands, 0)
       IN  IF TestOperand(v) # (op = "ORR")
           THEN Operate(Append(Below(operands, 1), v), Operand.next + Operand.val)
           ELSE Operate(Below(operands, 1), Operand.next)
BooleanOp(op) ==
    /\ At(op) /\ Needs(1)
    /\ LET v == Popped(operands, 0)
       IN  IF TestOperand(v) # (op = "AND")
           THEN Operate(Append(Below(operands, 1), v), Operand.next + Operand.val)
           ELSE Operate(Below(operands, 1), Operand.next)

Jump ==
    At("JMP") /\ Operate(operands, (IF Operand.val < 0 THEN Top.pc ELSE Operand.next) + Operand.val)
Iff ==
    /\ At("IFF") /\ Needs(1)
    /\ Operate(Below(operands, 1),
               Operand.next + (IF TestOperand(Popped(operands, 0)) THEN 0 ELSE Operand.val))

-----------------------------------------------------------------------------
(* Calls.                                                                  *)

(* func_call and vm_call_src: args are the operands with func and self off *)
(* them, next is where the caller goes on.                                 *)
FuncCall(func, self, args, next) ==
    LET ops == [NewSrc(args, Operand.val) EXCEPT ![Len(args) - Operand.val + 1].elements = self \o @]
        env == [n \in {p.key.name : p \in Range(func.pairs)} |-> DicAt(func.pairs, Str(n, 1))[1].val]
    IN  CASE func.type = "fnc" ->
                 /\ operands' = ops
                 /\ states' = Entered(FALSE, env)
                 /\ frames' = Append(Moved(next), Frame("call", func.body, FALSE, ops, states', <<>>))
                 /\ UNCHANGED <<session, entered, error>>
          [] func.type = "nil" -> Operate(Resulted(Dropped(ops)), next)
          [] OTHER -> VmExit(ops)
CallFunction ==
    /\ At("CAL") /\ Needs(Operand.val + 1)
    /\ FuncCall(Popped(operands, 0), <<>>, Below(operands, 1), Operand.next)
Method ==
    /\ At("MET") /\ Needs(Operand.val + 2)
    /\ FuncCall(Lookup(Popped(operands, 0), Popped(operands, 1)), <<Popped(operands, 0)>>,
                Below(operands, 2), Operand.next)

Ret ==
    /\ At("RET") /\ Needs(Operand.val)
    /\ operands' = NewSrc(operands, Operand.val)
    /\ frames' = Left("RET")
    /\ UNCHANGED <<session, entered, states, error>>

(* What run does at its end with the stacks, and what it returns.          *)
RunOperands == IF Top.inState /\ Top.inst # "RET" THEN Dropped(operands) ELSE operands
RunStatesAll == Front(states)   (* a slip: not only the states of calls *)
RunStates   == IF Top.inState THEN states ELSE Front(states)
Returned    == Top.inst = "RET"

FinishCall ==
    /\ Ended /\ Top.kind = "call"
    /\ operands' = Resulted(RunOperands)
    /\ states' = RunStates
    /\ frames' = Others
    /\ UNCHANGED <<session, entered, error>>

-----------------------------------------------------------------------------
(* Iterations.                                                             *)

(* iterate goes on with the items that are left: the variables are set,    *)
(* and where or how is run; caller is the stack of runs below, of which    *)
(* the last is the one that iterates.                                      *)
NextItem(caller, it, ops, sts) ==
    IF it.items = <<>>
    THEN /\ operands' = IF it.op = "COM" THEN Append(ops, it.result) ELSE ops
         /\ states' = sts
         /\ frames' = caller
    ELSE LET item == Head(it.items)
             one  == SetNamedVariable(sts, it.who[1], item.key)
             rest == [it EXCEPT !.items = Tail(@)]
         IN  /\ operands' = ops
             /\ states' = IF Len(it.who) = 2 THEN SetNamedVariable(one, it.who[2], item.val) ELSE one
             /\ frames' = Append(caller,
                    IF it.where # <<>> THEN Frame("where", it.where, TRUE, ops, states', rest)
                    ELSE Frame("how", it.how, TRUE, ops, states', rest))

Items(what) ==
    CASE what.type = "nil" -> <<>>
      [] what.type = "lst" /\ what.elements = <<>> -> what.pairs
      [] OTHER -> [i \in DOMAIN what.elements |-> [key |-> what.elements[i], val |-> Nil]]
Iterate(op) ==
    /\ At(op) /\ Needs(1) /\ Popped(operands, 0).type \in {"nil", "lst"}
    /\ \E who \in {Labels(Operand.next, Operand.val + 1)} :
       \E where \in {Code(who.next)} : \E how \in {Code(where.next)} :
       \E it \in {[op |-> op, who |-> who.val, where |-> where.val, how |-> how.val,
                   items |-> Items(Popped(operands, 0)), result |-> Lst(<<>>, <<>>)]} :
          NextItem(Moved(how.next), it, Below(operands, 1), states)
    /\ UNCHANGED <<session, entered, error>>

FinishWhere ==
    /\ Ended /\ Top.kind = "where" /\ RunOperands # <<>>
    /\ LET ops == Below(RunOperands, 1)
       IN  IF TestOperand(Popped(RunOperands, 0))
           THEN /\ operands' = ops
                /\ states' = RunStates
                /\ frames' = Append(Others, Frame("how", Top.more.how, TRUE, ops, states', Top.more))
           ELSE NextItem(Others, Top.more, ops, RunStates)
    /\ UNCHANGED <<session, entered, error>>

(* A run that iterates and sees its body return is done too, but its last  *)
(* instruction is still ITR.                                               *)
FinishHow ==
    /\ Ended /\ Top.kind = "how"
    /\ \/ /\ Returned
          /\ operands' = RunOperands
          /\ states' = RunStates
          /\ frames' = [Others EXCEPT ![Len(Others)].over = TRUE]
       \/ ~Returned /\ Top.more.op = "ITR" /\ NextItem(Others, Top.more, RunOperands, RunStates)
       \/ /\ ~Returned /\ Top.more.op = "COM"
          /\ RunOperands # <<>> /\ ~IsSrc(RunOperands)
          /\ \E item \in {Last(RunOperands)} :
             \E more \in {IF item.type = "kvp"
                         THEN [Top.more EXCEPT !.result.pairs = DicPut(@, item.key, item.val)]
                         ELSE [Top.more EXCEPT !.result.elements = Append(@, item)]} :
                NextItem(Others, more, Below(RunOperands, 1), RunStates)
    /\ UNCHANGED <<session, entered, error>>

-----------------------------------------------------------------------------
(* Exceptions.                                                             *)

(* pending is for the properties: there is an error before the trial runs. *)
VmTrycatch ==
    /\ At("TRY")
    /\ \E trial \in {Code(Top.pc + 1)} : \E name \in {Label(trial.next)} :
       \E catcher \in {Code(name.next)} :
           frames' = Append(Moved(catcher.next), Frame("trial", trial.val, TRUE, operands, states,
                       [name |-> name.val, catcher |-> catcher.val, pending |-> error # NoError]))
    /\ UNCHANGED <<session, entered, operands, states, error>>

Tro ==
    /\ At("TRO") /\ Needs(1)
    /\ error' = Last(operands)
    /\ operands' = Front(operands)
    /\ frames' = Left("TRO")
    /\ UNCHANGED <<session, entered, states>>

(* The run that tries is done when the trial is, or what catches.          *)
FinishTrialStale ==   (* a slip: the error is not cleared *)
    /\ Ended /\ Top.kind = "trial"
    /\ operands' = RunOperands
    /\ IF error # NoError
       THEN /\ states' = SetNamedVariable(RunStates, Top.more.name, error)
            /\ frames' = Append(Others, Frame("catcher", Top.more.catcher, TRUE, RunOperands, states', <<>>))
       ELSE /\ frames' = [Others EXCEPT ![Len(Others)].over = TRUE]
            /\ states' = RunStates
    /\ UNCHANGED <<session, entered, error>>
FinishTrial ==
    /\ Ended /\ Top.kind = "trial"
    /\ operands' = RunOperands
    /\ IF error # NoError
       THEN /\ states' = SetNamedVariable(RunStates, Top.more.name, error)
            /\ error' = NoError
            /\ frames' = Append(Others, Frame("catcher", Top.more.catcher, TRUE, RunOperands, states', <<>>))
       ELSE /\ frames' = [Others EXCEPT ![Len(Others)].over = TRUE]
            /\ UNCHANGED <<states, error>>
    /\ UNCHANGED <<session, entered>>
FinishCatcher ==
    /\ Ended /\ Top.kind = "catcher"
    /\ operands' = RunOperands
    /\ frames' = [Others EXCEPT ![Len(Others)].over = TRUE,
                                ![Len(Others)].inst = IF Returned THEN "RET" ELSE @]
    /\ UNCHANGED <<session, entered, states, error>>

-----------------------------------------------------------------------------
(* Programs: execute runs a file with a state of its own, repl each input  *)
(* in the state that there is.                                             *)

Given       == Sessions   (* by a name that TLC evaluates once *)
Inputs      == Given[session].inputs
Interactive == Given[session].interactive

Enter ==
    /\ frames = <<>> /\ entered < Len(Inputs)
    /\ entered' = entered + 1
    /\ states' = Entered(Interactive, <<>>)
    /\ frames' = <<Frame("program", Inputs[entered'], Interactive, operands, states', <<>>)>>
    /\ UNCHANGED <<session, operands, error>>
FinishProgram ==
    /\ Ended /\ Top.kind = "program"
    /\ operands' = RunOperands
    /\ states' = RunStates
    /\ frames' = <<>>
    /\ UNCHANGED <<session, entered, error>>

Over == frames = <<>> /\ entered = Len(Inputs)
Rest == Over /\ UNCHANGED vars

Init ==
    /\ session \in DOMAIN Given
    /\ entered = 0
    /\ frames = <<>> /\ operands = <<>> /\ states = <<>>
    /\ error = NoError

Instructions ==
    \/ PushNil \/ PushInt \/ PushBool \/ PushStr \/ PushVar \/ PushFnc \/ PushList \/ PushKvp
    \/ ListGet \/ UnaryOp \/ NewSource \/ DropSource \/ Jump \/ Iff \/ CallFunction \/ Method \/ Ret
    \/ VmTrycatch \/ Tro
    \/ \E op \in {"ADD", "SUB", "MUL", "EQU", "NEQ", "GTN", "LTN", "GRQ", "LEQ"} : Binary(op)
    \/ \E op \in {"SET", "STX"} : Set(op)
    \/ \E op \in {"AND", "ORR"} : BooleanOp(op)
    \/ \E op \in {"ITR", "COM"} : Iterate(op)
Next ==
    \/ Instructions
    \/ FinishCall \/ FinishWhere \/ FinishHow \/ FinishTrial \/ FinishCatcher
    \/ Enter \/ FinishProgram
    \/ Rest

(* The one thread runs on.                                                 *)
Spec == Init /\ [][Next]_vars /\ WF_vars(Next)

-----------------------------------------------------------------------------
(* Two properties that all bytecode has (Scripts has those of compiled     *)
(* scripts).                                                               *)

(* "state variable doesn't match" (vm.c:1554): a run that has a state of   *)
(* its own finds it on top when it ends, one that has none finds the state *)
(* of the run below; the first run of a session has the first state.       *)
StatePerCall ==
    frames # <<>> =>
        /\ Len(states) = Top.level
        /\ \A i \in DOMAIN frames \ {1} :
              frames[i].level = frames[i - 1].level + (IF frames[i].inState THEN 0 ELSE 1)
        /\ entered = 1 => frames[1].level = 1

(* While a function runs, the variables of its callers stay as they are.   *)
CallersKept ==
    [][\A i \in DOMAIN states : i < Len(states) /\ i < Len(states') + 1 => states'[i] = states[i]]_vars
==============================================================================
