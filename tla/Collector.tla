------------------------------ MODULE Collector ------------------------------
(***************************************************************************)
(* The garbage collector of vm.c, and what one script does to its          *)
(* variables: every instruction that makes, names, moves or drops one.     *)
(*                                                                         *)
(* A variable is one of Objects.  It is a leaf (a string, or a function    *)
(* without closure) or a list.  nil, which is copied when it is named, is  *)
(* Nil until then; numbers, copied alike, are left out.  What VM_SRC and   *)
(* vm_call_src make (VAR_SRC, a set of values) lives on the operand stack  *)
(* only, and is an entry there: the collector marks a VAR_SRC but not the  *)
(* values in it, because variable_mark2 descends into VAR_LST alone.       *)
(*                                                                         *)
(* The instructions come in the order of the code that compile.c writes:   *)
(* in phase "values" a statement computes its values, VM_SRC collects them *)
(* and in phase "sets" they are assigned, up to VM_DST.  A function starts *)
(* in phase "sets", with its arguments.                                    *)
(*                                                                         *)
(* garbage_collect works when there are VAR_MAX variables; here it works   *)
(* or not at every point where it is called.                               *)
(***************************************************************************)
EXTENDS Naturals, Sequences, FiniteSets, SequencesExt

CONSTANTS Names,       (* variable names                                   *)
          MaxObjects,  (* bound: variables at one time                     *)
          MaxOperands, (* bound: entries of the operand stack              *)
          MaxItems,    (* bound: values of a list                          *)
          MaxVals,     (* bound: values of one assignment, call or return  *)
          MaxCalls,    (* bound: function calls within one another         *)
          Careful      (* of what scripts beware, a subset of Hazards      *)

(* Where a script may lose a variable, if it is not careful.               *)
Hazards == {"return",   (* of a value that nothing else leads to           *)
            "waiting",  (* making a call while the value of another waits  *)
            "threads",  (* others collect while it has values to assign    *)
            "args",     (* arguments without a name, to be got by sys.args *)
            "listen"}   (* using a listener again that a thread holds      *)

ASSUME CollectorAssumption ==
    /\ MaxObjects \in Nat /\ MaxOperands \in Nat /\ MaxItems \in Nat
    /\ MaxVals \in Nat \ {0} /\ MaxCalls \in Nat /\ Careful \subseteq Hazards

Objects == 1 .. MaxObjects
Nil     == 0
Values  == Objects \cup {Nil}
Lists(k) == UNION {[1 .. n -> Values] : n \in 0 .. k}

VARIABLES kind,      (* "free", "leaf" or "list", of each object            *)
          gc,        (* gc_state: "OLD" or "SAFE" (NEW ones are pushed,     *)
                     (* and so old, before anything can collect)            *)
          items,     (* list.ordered of each list                           *)
          scopes,    (* program_stack, its top last                         *)
          operands,  (* operand_stack, its top last                         *)
          phase,     (* "values" or "sets"                                  *)
          held       (* the listener that a socket thread holds, or Nil     *)

vars == <<kind, gc, items, scopes, operands, phase, held>>

-----------------------------------------------------------------------------
(* The operand stack: a variable is an entry with one value, a VAR_SRC one *)
(* with any number of them, of which get_value has not yet taken those     *)
(* from next on.                                                           *)
Variable(v)  == [src |-> FALSE, vals |-> <<v>>, next |-> 1]
Source(vs)   == [src |-> TRUE,  vals |-> vs,    next |-> 1]
Pending(e)   == SubSeq(e.vals, e.next, Len(e.vals))

(* variable_pop: of a VAR_SRC, its first value.                            *)
Popped(e) == IF e.vals = <<>> THEN Nil ELSE Head(e.vals)

Scope  == Last(scopes)
Depth  == Len(scopes)
Top    == Last(operands)
Above  == Len(operands) - Scope.base        (* entries of this function    *)
Below(k)  == SubSeq(operands, 1, Len(operands) - k)
TopOf(k)  == SubSeq(operands, Len(operands) - k + 1, Len(operands))

Named(s)  == {s.names[n] : n \in Names} \ {Nil}

(* variable_new_src: the top k entries, those of a VAR_SRC one by one.     *)
Gathered(k) == FlattenSeq([i \in 1 .. k |-> TopOf(k)[i].vals])

(* push_list: a popped nil is not put into the list.                       *)
WithoutNil(vs) == FlattenSeq([i \in DOMAIN vs |-> IF vs[i] = Nil THEN <<>> ELSE <<vs[i]>>])

-----------------------------------------------------------------------------
(* garbage_collect.                                                        *)

(* variable_mark2: what the lists of S hold, and so on.                    *)
HeldBy(S) == (UNION {ToSet(items[o]) : o \in S}) \ {Nil}
Reach(S) == LET r[n \in 0 .. MaxObjects] ==
                  IF n = 0 THEN S ELSE LET T == r[n - 1] IN T \cup HeldBy(T)
            IN  r[MaxObjects]

(* garbage_collect_mark_context: the named variables of all scopes, given  *)
(* as a sequence, and the operands.                                        *)
Innermost(ss) == Named(Last(ss))   (* a slip: the current scope alone       *)
AllNamed(ss)  == UNION {Named(ss[i]) : i \in DOMAIN ss}
OnStack(os) == (UNION {ToSet(os[i].vals) : i \in {j \in DOMAIN os : ~os[j].src}}) \ {Nil}
Safe == {o \in Objects : kind[o] # "free" /\ gc[o] = "SAFE"}

Marked(ss, os) == Reach(AllNamed(ss) \cup OnStack(os) \cup Safe)

(* Collect when the scopes are ss and the operands os.                     *)
Collect(ss, os) ==
    \/ UNCHANGED <<kind, gc, items>>
    \/ LET marked == Marked(ss, os)
       IN  /\ kind'  = [o \in Objects |-> IF o \in marked THEN kind[o] ELSE "free"]
           /\ gc'    = [o \in Objects |-> IF o \in marked THEN gc[o] ELSE "OLD"]
           /\ items' = [o \in Objects |-> IF o \in marked THEN items[o] ELSE <<>>]

(* What the program can still reach: through the names of every function   *)
(* that has not returned, and its arguments, if it calls sys.args, through *)
(* the values it is computing or has still to assign, through a socket     *)
(* thread, and through the lists among them.                               *)
Needed == Reach(AllNamed(scopes) \cup ({held} \ {Nil})
                \cup ((UNION {ToSet(scopes[i].args) : i \in DOMAIN scopes}) \ {Nil})
                \cup ((UNION {ToSet(Pending(operands[i])) : i \in DOMAIN operands}) \ {Nil}))

Free  == {o \in Objects : kind[o] = "free"}
Fresh == CHOOSE o \in Free : \A p \in Free : o <= p

New(k, its) == /\ Free # {}
               /\ kind'  = [kind EXCEPT ![Fresh] = k]
               /\ items' = [items EXCEPT ![Fresh] = its]
               /\ UNCHANGED gc

Push(e) == /\ Len(operands) < MaxOperands
           /\ operands' = Append(operands, e)

-----------------------------------------------------------------------------
(* args is that of the caller's state, which the collector marks: but it   *)
(* is a VAR_SRC.  It is kept here for functions that call sys.args.        *)
Globals == [names |-> [n \in Names |-> Nil], base |-> 0, args |-> <<>>]

Init == /\ kind  = [o \in Objects |-> "free"]
        /\ gc    = [o \in Objects |-> "OLD"]
        /\ items = [o \in Objects |-> <<>>]
        /\ scopes = <<Globals>>
        /\ operands = <<>>
        /\ phase = "values"
        /\ held = Nil

-----------------------------------------------------------------------------
(* Computing values.                                                       *)

(* push_str.                                                               *)
PushStr ==
    /\ phase = "values"
    /\ New("leaf", <<>>)
    /\ Push(Variable(Fresh))
    /\ UNCHANGED <<scopes, phase, held>>

(* variable_push makes a variable old, whatever it was.                    *)
Old(v) == /\ "listen" \in Careful => v # held
          /\ gc' = [gc EXCEPT ![v] = "OLD"]

(* push_var.                                                               *)
PushVar(n) ==
    /\ phase = "values"
    /\ Scope.names[n] # Nil
    /\ Push(Variable(Scope.names[n]))
    /\ Old(Scope.names[n])
    /\ UNCHANGED <<kind, items, scopes, phase, held>>

(* push_list, of k values; nil ones are left out.                          *)
PushList(k) ==
    LET popped == [i \in 1 .. k |-> Popped(TopOf(k)[i])] IN
    /\ phase = "values" /\ k <= Above /\ k <= MaxItems
    /\ New("list", WithoutNil(popped))
    /\ operands' = Append(Below(k), Variable(Fresh))
    /\ Len(operands') <= MaxOperands
    /\ UNCHANGED <<scopes, phase, held>>

(* list_get: a value that a list holds, in place of the list.              *)
Get ==
    LET list == Popped(Top) IN
    /\ phase = "values" /\ Above > 0 /\ list # Nil /\ items[list] # <<>>
    /\ \E v \in ToSet(items[list]) \ {Nil} :
          /\ operands' = Append(Below(1), Variable(v))
          /\ Old(v)
    /\ UNCHANGED <<kind, items, scopes, phase, held>>

(* src: all the values of an assignment.                                   *)
MakeSrc ==
    /\ phase = "values" /\ Above > 0
    /\ Len(Gathered(Above)) <= MaxVals
    /\ operands' = Append(Below(Above), Source(Gathered(Above)))
    /\ phase' = "sets"
    /\ UNCHANGED <<kind, gc, items, scopes, held>>

-----------------------------------------------------------------------------
(* Assigning them.                                                         *)

(* get_value: the next value of the VAR_SRC, nil when there are no more.   *)
(* (A slip: current goes on even so.)                                      *)
NextValue == IF Pending(Top) = <<>> THEN Nil ELSE Head(Pending(Top))
TakenUntested == operands' = [operands EXCEPT ![Len(operands)].next = @ + 1]
Taken == operands' = [operands EXCEPT ![Len(operands)].next =
                         IF Pending(Top) = <<>> THEN @ ELSE @ + 1]

(* The value that is stored: a copy, if it is nil.                         *)
Stored(v) == IF v = Nil THEN Fresh ELSE v
Storing(v) == IF v = Nil THEN New("leaf", <<>>) ELSE UNCHANGED <<kind, gc, items>>

(* set, set_named_variable.                                                *)
Set(n) ==
    /\ phase = "sets"
    /\ Storing(NextValue)
    /\ scopes' = [scopes EXCEPT ![Depth].names[n] = Stored(NextValue)]
    /\ Taken
    /\ UNCHANGED <<phase, held>>

(* list_put, into a list that has a name.                                  *)
Put(n) ==
    LET list == Scope.names[n] IN
    /\ phase = "sets"
    /\ list # Nil /\ kind[list] = "list" /\ NextValue # Nil
    /\ \E i \in 1 .. Len(items[list]) + 1 :
          /\ i <= MaxItems
          /\ items' = [items EXCEPT ![list] =
                          IF i <= Len(@) THEN [@ EXCEPT ![i] = NextValue]
                                         ELSE Append(@, NextValue)]
    /\ Old(list)
    /\ Taken
    /\ UNCHANGED <<kind, scopes, phase, held>>

(* dst: the VAR_SRC has been assigned, or it is what a call returned and   *)
(* nobody uses; drop it and collect.                                       *)
Dst ==
    /\ Above = 1 /\ Top.src
    /\ operands' = Below(1)
    /\ phase' = "values"
    /\ Collect(scopes, operands')
    /\ UNCHANGED <<scopes, held>>

-----------------------------------------------------------------------------
(* Calling functions.                                                      *)

(* func_call, vm_call_src and run: the arguments are gathered into a       *)
(* VAR_SRC and a new scope is pushed.                                      *)
Call(k, listing) ==
    LET args == IF listing THEN Gathered(k) ELSE <<>> IN
    /\ phase = "values" /\ k <= Above /\ Depth <= MaxCalls
    /\ Len(args) <= MaxItems /\ (listing => args # <<>>)
    /\ "args" \in Careful => ToSet(args) \ {Nil} \subseteq AllNamed(scopes)
    /\ Len(Gathered(k)) <= MaxVals
    /\ operands' = Append(Below(k), Source(Gathered(k)))
    /\ Len(operands') <= MaxOperands
    /\ "waiting" \in Careful => \A i \in DOMAIN Below(k) : ~operands[i].src
    /\ scopes' = Append(scopes, [Globals EXCEPT !.base = Len(operands) - k, !.args = args])
    /\ phase' = "sets"
    /\ UNCHANGED <<kind, gc, items, held>>

(* sys_args: a list of the arguments, in a VAR_SRC as any result.          *)
Args ==
    /\ phase = "values" /\ Scope.args # <<>>
    /\ New("list", Scope.args)
    /\ Push(Source(<<Fresh>>))
    /\ UNCHANGED <<scopes, phase, held>>

(* A function ends without a result: run pops its scope and collects,      *)
(* func_call pushes a VAR_SRC with nil.  (func_call takes a VAR_SRC that   *)
(* waits on the stack for the result; scripts that have one are left out.) *)
EndCall ==
    /\ Depth > 1 /\ phase = "values" /\ Above = 0
    /\ operands # <<>> => ~Top.src
    /\ scopes' = Front(scopes)
    /\ Collect(scopes', operands)
    /\ Push(Source(<<Nil>>))
    /\ UNCHANGED <<phase, held>>

(* ret: the values are gathered into a VAR_SRC, run pops the scope and     *)
(* collects.                                                               *)
Return ==
    /\ Depth > 1 /\ phase = "values"
    /\ "return" \in Careful =>
          ToSet(Gathered(Above)) \ {Nil} \subseteq Marked(Front(scopes), Below(Above))
    /\ Len(Gathered(Above)) <= MaxVals
    /\ operands' = Append(Below(Above), Source(Gathered(Above)))
    /\ Len(operands') <= MaxOperands
    /\ scopes' = Front(scopes)
    /\ Collect(scopes', operands')
    /\ UNCHANGED <<phase, held>>

(* sys_connect, sys_socket_listen and thread_new: a socket thread holds    *)
(* the listener, and keeps it safe.                                        *)
Listen(n) ==
    /\ held = Nil /\ Scope.names[n] # Nil
    /\ held' = Scope.names[n]
    /\ gc' = [gc EXCEPT ![held'] = "SAFE"]
    /\ UNCHANGED <<kind, items, scopes, operands, phase>>

(* Another thread's dst or return.                                         *)
CollectElsewhere ==
    /\ "threads" \in Careful => \A i \in DOMAIN operands : ~operands[i].src
    /\ Collect(scopes, operands)
    /\ UNCHANGED <<scopes, operands, phase, held>>

Next == \/ PushStr \/ Get \/ MakeSrc \/ Dst \/ Args \/ EndCall \/ Return
        \/ CollectElsewhere
        \/ \E n \in Names : PushVar(n) \/ Set(n) \/ Put(n) \/ Listen(n)
        \/ \E k \in 0 .. MaxOperands : PushList(k) \/ \E listing \in BOOLEAN : Call(k, listing)

Spec == Init /\ [][Next]_vars

-----------------------------------------------------------------------------
TypeOK ==
    /\ kind \in [Objects -> {"free", "leaf", "list"}]
    /\ gc \in [Objects -> {"OLD", "SAFE"}]
    /\ items \in [Objects -> Lists(MaxItems)]
    /\ \A i \in DOMAIN scopes :
          /\ scopes[i].names \in [Names -> Values]
          /\ scopes[i].base \in 0 .. MaxOperands
          /\ scopes[i].args \in Lists(MaxItems)
    /\ \A i \in DOMAIN operands :
          /\ operands[i].src \in BOOLEAN
          /\ operands[i].vals \in Lists(MaxVals)
          /\ operands[i].next \in 1 .. MaxVals + 1
    /\ phase \in {"values", "sets"}
    /\ held \in Values

(* variable.h:33: a variable "in some structure" is "safe from GC until no *)
(* longer needed".  No variable that the program can still reach has been   *)
(* freed.                                                                  *)
NoDangling == \A o \in Needed : kind[o] # "free"
=============================================================================
