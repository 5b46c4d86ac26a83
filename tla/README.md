# Filagree in TLA+

Filagree is a small scripting language: a compiler to bytecode, a virtual
machine with a garbage collector, and sockets whose threads call back into
scripts under a global interpreter lock (GIL).  This directory specifies in TLA+
its threads, its memory, its lists and their wire format, and its compiler with
the machine that runs the code; checks them on small instances with TLC; and
proves some of what they promise for all instances with TLAPS.

Paths and lines are those of the repository (`src/source/vm.c:1468`).

## The system

| component | state | operations | talks to |
|---|---|---|---|
| socket threads, `node.c` | `singleton->threads[fd][use]`, each thread's `bufs`, `event`, `message` | `sys.listen`, `sys.connect`, `sys.send`, `sys.disconnect`; `socket_event`, `enqueue`, `incoming`, `sys_send2`, `thread_wrapper` | calls scripts (`vm_call`) under the GIL; counts itself in `num_threads` |
| GIL and life cycle, `vm.c` | `gil`, `tick`, `num_threads`, `thread_cond`, `contexts` | `gil_lock`, `gil_unlock`, `execute`, `execute_with`, `context_new`, `context_del` | every thread |
| interpreter, `vm.c` | `program_stack`, `operand_stack`, `error` of each context | one per opcode; `func_call`, `iterate`, `vm_trycatch` | allocates variables, calls `sys.c`, ticks the GIL |
| collector, `vm.c`, `variable.c` | `all_variables`, `gc_state`, `visited` | `garbage_collect` at `VM_DST` and at the end of `run` | walks the stacks of all contexts |
| variables, `variable.c`; containers, `struct.c` | arrays, byte arrays, stacks, maps | push, pop, copy, sort, find, serialise | used by all |
| compiler, `compile.c` | none between calls | lex, parse, generate | makes what `run` interprets |
| serialisation, `serial.c`, `variable.c` | none | variable-length integers, values | messages, bytecode |
| built-ins, `sys.c`; files, `file.c`; shell, `interpret.c`; `util.c` | none of their own | | |
| scripts, `test/*.fg` | | mesh, sync, messenger, director | written in the language, above `sys.*` |

What is hard about it:

* **Interleaving.**  Threads run the script's callbacks under the GIL, which the
  interpreter gives away every hundred instructions; but queues, `num_threads`
  and `contexts` are also touched without it.
* **Order.**  Messages of one descriptor pass through a queue that one thread
  fills while another empties it and gives the GIL away in between.
* **Termination.**  `execute` must wait for threads that are still being made.
* **Memory.**  The collector runs in the middle of scripts and calls, and knows
  only some of the places that hold a variable.
* **Failure.**  `connect` and `pthread_create` fail, the other side closes.
* **Boundaries.**  Jumps count the bytes of numbers whose size depends on the
  jumps; arrays grow and shrink at halves and quarters; chains of a map collide.
* **Shared stacks.**  An operand stack and an `error` belong to all the runs of a
  context, and each run cleans up at its end what may be another's.

What makes each part correct:

* node: one server for each queue; nothing received is lost, repeated or
  reordered; everything sent is written; CONNECTED comes first.
* GIL: it excludes, and it is given away.
* life cycle: `execute` returns when the threads have gone, and not before.
* collector: nothing that is still needed is freed.
* lists: whatever a script does to one, it finds what it put there, whether it
  counts elements or asks for keys, and the memory behind is large enough.
* serialisation: what is written is read back, to its last byte and no further.
* compiler and interpreter: together they do what the statements mean; each call
  leaves one result, its own state is taken away, and its caller's variables and
  operands stay; what catches, catches only its own.

## Modules

**`Node`** is `node.c` with the life cycle of `vm.c`.  Thread 0 called
`execute`; threads 1, 2, ... are made by `start_thread`.  Each has a control
point `pc[t]`; `Holding` and `Outside` divide the control points by whether the
thread is between `gil_lock` and `gil_unlock`.  `threads`, `num_threads`, `len`
and `cell` are the C variables of those names (`len` and `cell` the length and
the memory of the array `bufs[use]`); `reg[t]` is a register: what the code does
without the GIL is split into its loads and its stores, and an increment is one
of each.  The stores of `array_add` come in either order, as the compiler may
have them.  Messages of a descriptor are numbered; `arrived`, `taken`,
`delivered`, `sent` and `written` say how far each stage has got.  The
interpreter is reduced to what scripts do to threads (`SwitchOut`, `SendNew`,
`SendMore`, `Connect`, `Listen`, `EndScript`).  The main thread holds the GIL from
the start, which is what `Gil` proves of the scripts it calls disciplined.

**`Channel`** is what a queue promises, without threads: messages accepted are
handed over in order, each once, and in the end all.  `Node` implements it with
`in <- taken` and `out <- delivered` (`Received`).

**`Gil`** has every `gil_lock` and `gil_unlock` of the program, the tick, and the
nesting of `execute_with`.  The mutex is released by any unlock, as a default
pthread mutex is.  `Prologue` is the number of instructions that the main script
executes before one that starts a thread, and `NestAnywhere` whether scripts use
`sys.run` while there are threads.

**`Collector`** is the collector, with one script that makes, names, stores,
passes, returns and drops variables, and gets a function's arguments by `sys.args`,
one action for each instruction, in the
order in which `compile.c` emits them.  A variable is a leaf or a list; a
`VAR_SRC` (the values of an assignment, a call or a return) is an entry of
`operands`.  `Careful` says of which hazards scripts beware.

**`ScriptList`** is a list as the author of a script sees it: a sequence and a
function from keys.  **`Lists`** is the same list as `struct.c` keeps it: an array
with its memory (`cells`, of which the first `length` are in use, as `ordered`) and
a hash table of chained buckets (`dic`), with one action for each thing that a
script does to a list: a literal (`push_list`), assignments (`list_put`), `+` and
`-` (`binary_op_lst`), and the methods `remove`, `insert` and `sort`.  The helpers
bear the names of the C functions (`ArraySet` is `array_set`); a loop over data is
a `Loop` of **`Loops`**, which applies one function for each turn.  `Lists` implements
`ScriptList` (`Implements`).  `Compar` is the comparison of `sys.c`, a difference that
wraps at `Half`; where a list holds a null pointer, which the code would dereference,
an action is guarded by `Numeric`, and `remove` by `Removable`: what lies beyond the end
ends the program, by the assertion or, with a count of 0, in `memmove`.  `Careless` lets scripts assign to an element for
which the array's memory is cut below its length.

**`Bytecode`** is what the compiler, the machine and serialisation share: values,
the instructions of `vm.h`, and the integers and strings of `serial.c`.  A byte of a
string is the string's name; all other bytes are numbers.  **`Serial`** is the wire
format of values (`variable.c`), and the `==` of the language.  Variables come in
levels, by how deep their lists, pairs and closures are nested: `Layer[n]` has those of
at most `n`, and each of `variable_serialize`, `variable_deserialize` and
`variable_compare` is a recursive function of the level, whose next value does one
variable and takes that of its parts from the level below.  `Depth` is the deepest
level.  The dic of a value is written as the sequence of its pairs, in the order of
its chains, and read by inserting them one after the other (`DicInserted` is
`dic_insert`, which has no case for a key that `default_hashor` does not know: a list,
boolean, pair or float ends the program).  So the dics of `Layer` have keys that can be
hashed (`Keyed`; functions are left out, as two of them in one chain cannot be
compared), no two of them equal.  `VariableNewList` is what `variable_new_list` does
with the elements it is given: it keeps all but the pairs.  A dic without keys is one from which all keys have been removed: such a dic finds
itself within any other.  If it is a null pointer, `variable_compare_dics` has the two
change places, and the other must have no keys either; asked both ways round, as in
`EqualBothWays`, the two cases have one answer.
**`Containers`** puts `Lists` and `Serial` together: the list that the
script has made is serialised, read back, and compared.  Its elements and keys stand
for variables, given by the constant `Meaning` (no pair is an element there, since a
literal has its pairs in the dic; those inside are any); **`MCContainers`** has the ones for TLC.

**`Compile`** is `compile.c` from the trees that its parser builds to the bytes:
an operator for each function that makes a node, and one for each `generate_*`.
Where a generator puts pieces of code together, it calls an operator of **`Layout`**,
to which the pieces are any code: the body of a loop behind its test and in front of
the jump back (`LoopCode`), a branch and the other branches (`BranchCode`), the second
operand of `and` and `or` (`EitherCode`), and the pieces that an instruction carries
inside it (`FunctionCode`, `IterationCode`, `TryCode`).  Lengths are computed there as
the code computes them, including the estimate of a loop's jump back and the order in
which jumps are sized; the code tries lengths until one is right, and `LoopJumps`
five of them, as `LoopJumpsFit` shows that the last of these is right.

**`Interp`** is the loop of `run` in `vm.c` and all that it calls: an action for
each instruction, and one for the end of each kind of run.  The C stack is
`frames`: one for each `run` in progress (a program, a call, the `where` and the
body of an iteration, a trial, a catcher), with its code, its `pc`, and what its
caller will do with it (`more`); `depth` and `level` note how many operands and states there were when it
started.  `operands` is `operand_stack`, `states` the
`named_variables` of each entry of `program_stack`, `error` is `context->error`.
Its parameters are the `Sessions`, with their bytecode, and `Equal`, which is
`variable_compare` in the runs.  A session is a file, or several inputs to the read-eval loop of `interpret.c`,
which keeps the context between them; what `vm_exit_message` does differs between
the two (`VmExit`).

**`Language`** is the reference for the two: it evaluates the same trees where they
stand, without code, stack or jumps, as README.txt and `test_syntax.fg` use the
language.  **`Scripts`** compiles the sessions, gives them to `Interp`, and states
what compiled code has; what all bytecode has (`StatePerCall`, `CallersKept`) is in
`Interp`.

The theorems are in **`GilProofs`**; **`NodeProofs`**; **`CollectorProofs`**;
**`ListProofs`**, which rests on **`StructProofs`** (arrays, hash tables and the sort)
and **`SerialProofs`** (integers and the wire format); and **`InterpProofs`** (the
machine, and the code that it shares with the compiler).
**`Induction`** has the facts about numbers, recursion and loops that they share.

Definitions called *a slip* in a comment are not part of the specifications: each
is a mistake that the code might have made, and the property it is meant for fails
when it takes the place of the definition after it.

## Runs

| run | shows | bounds |
|---|---|---|
| `node_client` | A client connection that stays open.  `OneHolder`: the GIL is held exactly where the code says.  `OneServer`: one thread for each queue.  `NoStrandedReceipt`, `ReceivedAll` (refines `Channel`, with liveness): received messages are called back in order, once, all.  `ConnectedFirst`.  `ActiveThreads`, `WaitsForThreads`, `Returns`: `num_threads` counts the threads, and `execute` returns when and only when they have gone. | 2 messages each way, 5 threads: enough for a queue of two, for a second sender or receiver after the first has left, and for both at once |
| `node_server` | A listening server, one peer that may close, one `pthread_create` that may fail.  `OneHolder`, `OneServer` and the order of messages (`ReceivedInOrder`) hold even then; the others do not, see below. | 2 messages in, 1 out, 5 threads, 1 close, 1 failure |
| `node_lost_send` | *Violation* of `AllSent`: a message is never written. | 2 sends |
| `node_teardown` | *Violation* of `WaitsForThreads`: `num_threads` loses an update and `execute` returns under a running thread. | 1 message, 1 close |
| `gil` | `MutualExclusion` and `GivesWay` for disciplined scripts, nested ones included. | 3 socket threads, `GIL_SWITCH` 2 instead of 100 |
| `gil_unlocked_main` | *Violation* of `MutualExclusion` by a main script that starts a thread at once. | 1 socket thread |
| `collector` | `NoDangling` for careful scripts: the names of callers, values on the operand stack, lists, cycles, the arguments that `sys.args` returns, a listener. | 3 variables, 1 name per function, calls 1 deep, 2 values per assignment |
| `collector_return` | *Violation* of `NoDangling`: a returned value is freed before the caller has it. | as above |
| `containers` | `Fits`: the elements are in the array's memory.  `KeysOnce`: a key is in its bucket, once.  `PartsOf`, `Copies`: slices and copies.  `Implements`: `Lists` refines `ScriptList`, so that each operation does to the list what its author expects and nothing else.  `RoundTrip`: what is serialised is read back, but for the order of the keys and the pairs that are elements.  `EqualBothWays`: two lists that `==` finds equal both ways round are equal. | elements 1 and 2, three keys of one bucket; lists of up to 7 equal elements (`MaxLength`), 3 mixed ones (`MaxMixed`; literals may be longer) |
| `containers_shrink` | *Violation* of `Fits`: assigning to an element near the start of a list cuts its memory. | 8 elements |
| `scripts` | `Evaluates`: after every input, the variables are what the statements mean.  `AtInstruction`: every jump lands on an instruction.  `StatePerCall`, `CallersKept`: a state for each call, and no call changes another's variables.  `OneResult`, `StackEmpty`: a call leaves one source of values, a program nothing.  `CatchesItsOwn`; `Terminates`. | 167 sessions, see below |
| `scripts_loop` | *Violation* of `OperandsKept`: a loop in a function drops what its caller has on the stack. | 1 session |

`GIL_SWITCH` only sets how long a thread keeps the lock, and the theorems hold
for all values; 2 is enough for a tick that is shared, lost and reset.
`QueueSize` 2 is the size that `array_add` gives a queue at its first message
(`struct.c:47`), so that it is never reallocated.  Deadlock is not checked in
`Node`, `Gil` and `Collector`: the program stops when `execute` has returned or
when nothing arrives any more.  It is checked in `Lists` and in `Interp`, where
only `Rest`, when the session is over, is a step without effect: a machine that
finds too few operands would stop elsewhere.

In `containers`, seven is the length at which an array has been doubled to 8 and to
16 cells and halved again on the way back; three keys of one bucket are a chain with
a first, a middle and a last element, and one of the keys is a number that is an
element as well.  A list has the memory of a longer one, or mixed elements, or keys,
in most combinations, but not all three at their bounds.  What is serialised for an
element and a key is on both sides of the boundaries of one and two bytes
(`MCMeaning`): nil, numbers, and a list of lists with a closure and with pairs, as
values and, at two depths, as elements.  `Depth` is 4
there, one more than the deepest of these, and 3 in `scripts`, whose constants are
closures at most.

The sessions of `scripts` are 21 written after README.txt and `test_syntax.fg`
(calls with several values, closures, methods, nested loops, comprehensions,
exceptions, errors, the read-eval loop), 108 combinations of nested `and` and `or`,
16 chains of `if` and `else`, and 22 scripts with conditions, loops and short
circuits whose code is padded to between 29 and 50 characters, so that each kind of
jump is met at lengths from below 63 to beyond 64, where a number takes a second
byte.  Each session runs deterministically; what varies is the script.

### Fairness

`FairSpec` assumes that the scheduler runs a thread that can go on (weak fairness
of its steps, also of those that wait for the GIL) and that scripts and callbacks
end (strong fairness of `EndScript`, as a script that only switches the GIL would
starve the rest).  A weakly fair lock suffices because each of the threads that
compete for it lets go for good after finitely many steps.  Nothing is assumed of
the network: messages arrive, and connections close, or not.

`Spec` of `Interp` assumes `WF_vars(Next)`: one thread interprets, and goes on as
long as it can.  `Terminates` needs no more, as its sessions use no sockets.

## Proofs

`GilProofs` proves, for any set of socket threads, any `GIL_SWITCH` and any
nesting, and assuming `Disciplined` (more than `GIL_SWITCH` instructions before
the first thread, no nesting while there are threads), that `Spec` implies
`[]TypeOK`, `[]MutualExclusion` and `[]GivesWay`.  Exclusion is not inductive: the
main thread starts without the lock.  The invariant says that it is then alone, and
that the tick has counted all it has executed of its prologue (`Counting`), so
that the tick must be up, and the lock taken, before the prologue ends.  The bound
on instructions follows from one between `ran` and `tick` (`RanBound`).

`NodeProofs` proves of `Node`, for any sets of client and peer descriptors, any
number of threads, messages, closed connections and failures of `pthread_create`,
any queue size and any width of the counter that exceeds the number of threads:

| theorem | what it says |
| --- | --- |
| `TypeCorrect` | `Spec => [](TypeOK /\ AtPoints)`: no thread takes from an empty queue, and each is at a point of its own routine |
| `GilHeld` | `Spec => []OneHolder`: the GIL excludes in `node.c` as in `Gil` |
| `OneServerPerQueue` | `Spec => []OneServer`: no queue is served by two threads |
| `NothingStranded` | if `pthread_create` does not fail (`MaxFailures = 0`), `Spec => []NoStrandedReceipt` |
| `HearsFirst` | `Spec => []ConnectedFirst` |
| `Ordered` | `Spec => ReceivedInOrder`: the readers, queues, table and servers implement `Channel` |

None of these is inductive.  The invariant has two layers.  `Inv` relates threads
to each other and to the table: a thread is at a point of its own routine
(`AtPoints`), is started by one thread only (`OneStarter`), and serves a queue
exactly as long as the table names it (`Named`, `Serves`); the last is what
`enqueue` relies on when it adds to the queue of a thread that it does not see.
`Order`, on top of it, says where the messages of a descriptor are: one thread
reads it (`OneReader`) and carries the message that it took last (`InHand`); the
RECV queue holds, in order, exactly the messages between the last callback and the
last message queued (`Chained`), and where the table names no thread there are
none (`Passed`).  A message is thus accounted for in the reader's hand, in the
queue, or in the call that is due, and each action moves it from one to the next:
that is the refinement of `Channel`.  Each part of the invariant has one lemma, with
one step of proof per action of `Node`.  `NothingStranded` needs two facts more:
no thread is `dead`, and a server that has left has left an empty queue.

The analogous statement for SEND queues is not a theorem: it is false, because
`sys_send2` works without the GIL (`node_lost_send`).

`NodeProofs` also has `CountsThreads` (`[]ActiveThreads`) and `Waits`
(`[]WaitsForThreads`), for any number of clients, threads and messages and any
failures of `pthread_create`, under the hypothesis `UnderGil`: no listening socket
and no connection that the other side closes.  This is where every thread is started
under the GIL; `socket_event` and `sys_socket_listen2` start theirs without it, and
`node_teardown` shows that the count then goes wrong.  Their invariant, on top of
`Inv`, says that what `start_thread` and `thread_wrapper` have loaded is
still what `num_threads` is (`Loaded`), that the counter is the number of threads
whose end has not been counted, and one more while a failure is being undone
(`Balanced`), and that a thread that does not run yet has one that is about to start
it (`Awaited`), which is why `context_del` cannot slip through in between.  The
actions are first reduced to a few `Kinds` of step that the count can tell apart.

`CollectorProofs` proves of `Collector`, for any number of variables, names, entries
and values, and any depth of calls:

| theorem | what it says |
| --- | --- |
| `CollectorTyped` | `Spec => [](TypeOK /\ Stacked)`, whatever scripts beware of: the entries of a function lie upon its caller's, and none is read past its end |
| `CollectorSafe` | if `Careful = Hazards`, `Spec => []NoDangling` |

Each element of `Hazards` is needed: without it TLC finds a variable freed (see
below).  `NoDangling` is not inductive.  What must be known besides: a VAR_SRC is
marked without its values, so nothing may wait in one below the entries of the
function that runs (`NoneWaits`); values are taken from the top one alone (`Unread`),
so that those not yet taken can be told from those that have names; a function's
arguments are named by its callers and stay so (`ArgsNamed`); the listener that a
thread holds is `GC_SAFE` (`HeldSafe`).  Then all that a script can reach starts
either from what the collector marks or from what the step has just put there.
Reachability is a recursive function over a set; `ReachIs` proves that it is the
least set that contains its roots and what they hold, and all else uses that.

`ListProofs` proves of `Lists` and `Containers`, for any elements, keys, hashes,
literals and lengths, any `Half`, and every operation with its loops:

| theorem | what it says |
| --- | --- |
| `ListsTyped` | `Spec => []TypeOK` |
| `ListsFit` | `Spec => []Fits`: no resize cuts off an element that is in use |
| `KeysAreOnce` | `Spec => []KeysOnce`: a key is in its bucket, once |
| `CopiesAreEqual` | `Spec => []Copies` |
| `PartsAreParts` | `Spec => []PartsOf`: slices, with negative lengths too |
| `ListsImplement` | `Spec => Implements`: every step is one of `ScriptList`, or none |
| `ListsReturn` | `Spec => []RoundTrip`, for any `Depth` and `Meaning` (no pair for an element, different and hashable keys): what is serialised is read back, but for what `RoundTrip` names |
| `ListsAreEqual` | `Spec => []EqualBothWays`: lists that are `==` both ways round are equal |

All assume `~Careless`: `array_set` cuts a list that it should leave alone, as
`containers_shrink` shows.  `ListsImplement` assumes also `Narrow(Values)`, that no two
elements differ by more than an `int32_t` holds: `compar` subtracts them, and beyond
that the sort is not one (`SortShuffles` says what remains true: it loses nothing).

The invariant is `IInv`: the array has its length within its memory, and each
chain of the dic has keys of its bucket, each once (`Tidy`).  It is inductive, but to
prove it of loops one must know what they compute.  So each function of `struct.c`
and `variable.c` has a lemma that says what it returns, in terms of the sequence that
an array *keeps* (`Keeps`) and the map that a dic shows; `Shows` joins the two, and a
`Loop` is done by `LoopKeeps` or `LoopsKeep` of `Induction` with the set of what may
have been reached after each turn.  `RemoveIs` and `UnionIs` do this for the chains,
`AddAppends`, `SetKeeps` and `RemoveShifts` for arrays.  The refinement is then one
lemma for each action.

The second part of `StructProofs` does the same for `heapsortfg`.  `SortShuffles`: each turn of its loops
exchanges two cells or carries one over the gap, so that what it returns is a
permutation.  `SortSorts`: the first loop makes all parents no smaller than their
children, from the last parent back to the root; while a value sinks, this holds
everywhere but at the gap, and there the grandparent stands in for the parent
(`Partly`); the second loop keeps it for the cells in front, and the cells behind are
in order and no smaller than those in front.

`ListsReturn` is `ReadsBack`, below, of the variable that the list is.
`ListsAreEqual` needs to know only what one comparison finds: equal elements in the
same places (`IntsCompare`), and for each key of the first list a value in the second
that is equal (`DicsCompare`).  Two dics of which each is within the other give the
same for every key (`WithinBoth`), and what a dic gives for a key does not depend on
the order of its chains.

`SerialProofs` is about the integers in the code and about values.  `IntegersReturn`:
for every `int32_t` but the least (whose `abs` is not defined) and whatever bytes
surround it, `serial_decode_int` returns what `serial_encode_int` wrote and stops where
that stopped, after as many bytes as `serial_encode_int_size` told the compiler when it
sized the jumps.  `ReadsBack`: for every variable of every level, wherever in whatever
stream its bytes lie, `variable_deserialize` returns it, with its dics turned round and
without the pairs among the elements of its lists (`Mirror`), and
the place after its last byte.  The numbers in it are those of `IntegersReturn`; a
list has no more elements or pairs than an `int32_t` can tell.  First, each recursion
by levels is shown to have its solution (`LayerIs`, `SerializedIs`, `DeserializedIs`,
...).  `Lies` says that a sequence is in the stream at a place; if the bytes of a list's
parts lie there one after the other, each part lies where the reading of the one before
has stopped (`LiesSplit`, `FlattenLies`), so that a loop that reads them gives them back
(`SequelReads`), and for a dic, whose keys all come back as they were and, being
different, are each inserted at the front, in the opposite order (`DicOfPairs`,
`DicReads`).  With that, one level is read if the level below is (`LevelReads`),
and so is every level (`EveryLevel`).

Induction is available only in a form that takes no operator as parameter:
`AllNumbers` says of a *set* of numbers that it is all of `Nat`, `RecursionExists`
that a recursion by a *function* has a solution, `LoopIs` and `FlattenIs` that the
definitions of the model are such solutions.

`InterpProofs` proves of `Interp`, for any bytecode and any `Equal`, that every run
finds at its end the state it began with (`StatesMatch`, the assertion of
`vm.c:1554`), and that no step changes the variables of a caller (`CallersStay`).
The model stops where the code would dereference a null pointer, so that nothing is
said of what comes after that.  The invariant (`Piled`) is the arithmetic of
`level`: a run with a state of its own is one above the run below, any other is level
with it, and the uppermost has as many states as there are; to be inductive it must
also say which kinds of run have a state, that the program is the lowest run and no
other, and that there is a state whenever something runs.  A step
does one of five things to the stack of runs: it goes on (`Goes`), starts a run
(`Calls`), ends one (`Ends`), replaces one by another on the same state (`Settles`),
or leaves all of them (`Exits`), and each action comes down to one of these.

The rest of `InterpProofs` is about compiler and machine together: for each operator of
`Layout`, that the machine finds the pieces where they have been put, whatever they are
and however long, as long as an `int32_t` can count them.  `Runs(code, at)` says that
the run in progress goes on, and that `code` lies in its program at `at`; the
conclusions are about `Next`, that is, about any step of the machine that begins there.
`LoopsTurn`: from its test a loop goes to its body or past its end, and from the end of
the body to the test.  `BranchesJoin`: from a condition to its branch or to the others,
and from the end of the branch past all others.  `EitherDecides`: to the second operand
or past it.  `FunctionsCarry`, `IterationsRun`, `TriesRun`: the function, iteration or
trial that results has the names, the condition and the code that were given, byte for
byte, and the run goes on at the first byte after them.  Two facts do most of the work.
`LoopJumpsFit`: the two jumps of a loop each count the bytes in which the other is
written; a greater number takes no fewer bytes (`SizeGrows`), so the lengths that are
tried only grow, they lie between 2 and 6, and the fifth is therefore right about
itself.  And `IntReads`, `CodeReads` and `LabelsRead`, from `SerialProofs`: the machine
reads a number, a piece of code or a list of names where it was written, whatever
lies around it.

Assumptions of the theorems are those of the modules' `ASSUME`s (types of the
constants) and the ones named here.

Only model-checked: the liveness properties (`Returns`, `Terminates`, and what
`ReceivedAll` adds to `Ordered`), as liveness is out of the prover's reach; and what
`Scripts` says of compiled code (`AtInstruction`, `StackEmpty`, `OneResult`,
`CatchesItsOwn`, `Evaluates`, its `TypeOK`).  These hold because of what the compiler
emits, not of any bytecode, and `Compile` and `Language` are recursive operators on
trees, of which the prover can unfold nothing: the theorems about `Layout` are one
step of what an induction over trees would need for `AtInstruction`, which `Scripts`
checks of whole programs.

## What the checks found

* `node_lost_send`: `sys_send2` (`node.c:412`) works on its queue without the GIL.
* `node_teardown`: `start_thread` (`node.c:119`) counts without the GIL when
  `socket_event` or `sys_socket_listen2` calls it.  For the same reason
  `ActiveThreads` and `Returns` fail as soon as a connection closes.
* `pthread_create` failing in `enqueue` leaves a queue that nobody serves:
  `ReceivedAll` and `NoStrandedReceipt` fail with `MaxFailures = 1`.
* `gil_unlocked_main`: `execute` never takes the GIL; with `NestAnywhere = TRUE`
  the unlock at the end of a nested `execute_with` breaks exclusion as well.
* `collector_return`; and without the other elements of `Careful`, `NoDangling`
  fails for a returned value that waits while another function is called, for the
  values of an assignment when another thread collects, for arguments that have no
  name and that the function gets by `sys.args` (`state->args`, `vm.c:456`, is a
  VAR_SRC, which is marked without its values), and for a listener whose name is
  used after `sys.connect` (`variable_push` makes it old).
* `containers_shrink`: `array_set` (`struct.c:93`) resizes to `index + 1`, and
  `list_resize` halves the memory if that is less than a quarter of it, although
  the list may be longer than the half.
* `scripts_loop`: the run of every loop body, condition, trial and catcher ends with
  `dst` (`vm.c:1557`), which drops a source of values from the top of the stack; if
  the run has left none, it is the caller's.

Other things that the code does, met while modelling; the modules have them as they
are, and the sessions of `scripts` keep clear of them where `Language` would differ:

* A `try` ends the run that it is in (`vm.c:1490`): statements after it are skipped.
* A `throw` in a function ends that function's run only (`vm.c:1489`); the caller is
  given nil and goes on, unless it is a loop (README.txt:150 promises that an
  exception can be thrown to a caller).
* A `return` inside two nested `for` loops is lost at the outer one.
* In `f(g(), h())`, and wherever a function returns nothing, `func_call` takes a
  source that is on top of the stack for its result (`vm.c:529`).
* A call in a `where` or as the value of a comprehension pushes a source that `dst`
  drops.
* After an error the read-eval loop keeps the states and the error of the calls that
  failed (`interpret.c:61`).
* `vm_call_src` forgets `state->args` (`vm.c:486`) without making it `GC_OLD`, as
  `program_state_del` would: the copy of each call's arguments is never collected.
* `variable_compare` asks for the keys of its first map only, so that `==` of maps is
  not symmetric (`EqualBothWays` says what remains true).
* `variable_new_list` adds no element that is a pair (`variable.c:188`), and all that
  `variable_deserialize` reads of a list goes through it: after `l[0] = 9:10`, `l` does
  not come back, although "serialize" is for "any variable, including a nested
  structure" (README.txt:103).  It takes the pair's value for a dic, which it drops.
* `dic_insert` ends the program for a key that is a list, a boolean, a pair or a float
  (`struct.c:506`).
* `l - nil` removes the key 0; `l.insert(x, n)` ignores `n` and appends;
  `variable_serialize` has no case for bytes; `abs(INT_MIN)` in `serial.c`.

## Not modelled

* `node.c`: framing of messages (one read is one message), `sys_disconnect` and
  reused descriptors.
* `Collector`: dictionaries, closures and numbers.
* `Compile`: the lexer, the choice among the rules of the grammar, imports, floats,
  `++`, and the notes of source lines (`VM_FIL`, `VM_LIN`).
* `Interp`: floats; the operators on strings, bits, and lists (the last are in
  `Lists`); division and remainder; `VM_INC` and `VM_PTX`; C functions and `sys`;
  the display of bytecode; the collector and the lock, which are in `Collector` and
  `Gil`.
* `struct.c`: searching, replacing and formatting of byte arrays.
* `variable.c`: conversion to text.
* The rest of `sys.c`, `file.c`, `util.c`: they read clocks, files and the terminal,
  or convert one value.
* The scripts (mesh, sync, messenger), written in the language.

`singleton->keepalive` is never set by the C sources here and is false.  Malloc is
assumed to succeed.

## Plan

What could be added next, in this order:

1. `Framing`: bytes of TCP into messages, `MAXLINE`, disconnect, reused
   descriptors, between `Channel` and `Node`.
2. C functions in `Interp`, and `Interp` composed with `Collector`:
   what is on the stacks during a call, with closures and dictionaries.
3. `Mesh`, `Sync`: the scripts, above `Channel`.
4. Proofs: the operands of `Interp` (`OneResult`, `StackEmpty`), for bytecode of which
   the discipline of the operand stack is assumed.
