--------------------------------- MODULE Gil ---------------------------------
(***************************************************************************)
(* The global interpreter lock: who interprets bytecode and touches the    *)
(* shared queues when, and what the mutex is worth.                        *)
(*                                                                         *)
(* Every gil_lock and gil_unlock of the program is here.  run gives the    *)
(* GIL away and takes it back when more than GIL_SWITCH instructions have  *)
(* ticked; a socket thread locks it to call back, to fiddle with the       *)
(* queues and to count itself out; context_del locks it to wait.  But      *)
(* execute does not take it before its first instruction, and              *)
(* execute_with unlocks it at its end, also when it is nested in a run by  *)
(* sys.run or sys.interpret.  The main thread therefore holds the GIL only *)
(* from its first switch on, and Prologue and NestAnywhere say which       *)
(* scripts are run.                                                        *)
(*                                                                         *)
(* The mutex is pthread's default one: an unlock releases it, whoever      *)
(* owns it and whether or not anybody does.                                *)
(***************************************************************************)
EXTENDS Integers

CONSTANTS Sockets,      (* socket threads                                  *)
          GIL_SWITCH,   (* "number of instructions before switching"       *)
          Prologue,     (* instructions that the main script executes, at  *)
                        (* its start and after each sys.run, before one    *)
                        (* that starts a thread                            *)
          NestAnywhere, (* scripts call sys.run and sys.interpret also in  *)
                        (* callbacks, and while there are socket threads   *)
          MaxNesting    (* bound: sys.run within sys.run                   *)

Main    == 0
Threads == {Main} \cup Sockets
None    == -1

ASSUME GilAssumption == /\ Sockets \subseteq Nat \ {0}
                        /\ GIL_SWITCH \in Nat /\ Prologue \in Nat
                        /\ NestAnywhere \in BOOLEAN /\ MaxNesting \in Nat

VARIABLES mutex,    (* the thread that locked the GIL last, None if free   *)
          tick,     (* context_shared.tick                                 *)
          pc,       (* control point of each thread                        *)
          depth,    (* execute_with's nested in each thread's run          *)
          before,   (* instructions left of the main script's prologue     *)
          ran       (* instructions executed since the last unlock         *)

vars == <<mutex, tick, pc, depth, before, ran>>

(* "next" is the top of run's loop, "execute" its switch on the opcode.    *)
Interpreting == {"next", "execute"}
PC == Interpreting \cup {"idle", "outside", "fiddling", "relock", "leave",
                         "del", "deleting", "gone"}

RanCap == GIL_SWITCH + 3   (* bound: ran counts no further                 *)

Goto(t, l) == pc' = [pc EXCEPT ![t] = l]
Lock(t) == mutex = None /\ mutex' = t
Unlock  == mutex' = None /\ ran' = 0

Alone == \A s \in Sockets : pc[s] = "idle"

Init == /\ mutex = None
        /\ tick = 0
        /\ pc = [t \in Threads |-> IF t = Main THEN "next" ELSE "idle"]
        /\ depth = [t \in Threads |-> 0]
        /\ before = Prologue
        /\ ran = 0

-----------------------------------------------------------------------------
(* run.                                                                    *)

(* A slip: the tick is compared after it is incremented, to one too many.  *)
TickLate(t) ==
    /\ pc[t] = "next"
    /\ tick <= GIL_SWITCH + 1
    /\ tick' = tick + 1
    /\ Goto(t, "execute")
    /\ UNCHANGED <<mutex, depth, before, ran>>

(* tick++.  If another thread interprets at the same time, one of two      *)
(* unordered increments may be lost.                                       *)
Tick(t) ==
    /\ pc[t] = "next"
    /\ tick <= GIL_SWITCH
    /\ \/ tick' = tick + 1
       \/ tick' = tick /\ \E u \in Threads \ {t} : pc[u] \in Interpreting
    /\ Goto(t, "execute")
    /\ UNCHANGED <<mutex, depth, before, ran>>

(* The tick is up; unlock ...                                              *)
Switch(t) ==
    /\ pc[t] = "next"
    /\ tick > GIL_SWITCH /\ tick' = 0
    /\ Unlock
    /\ Goto(t, "relock")
    /\ UNCHANGED <<depth, before>>

(* A slip: the thread goes on without waiting for the lock.                *)
RelockNot(t) ==
    /\ pc[t] = "relock"
    /\ Goto(t, "execute")
    /\ UNCHANGED <<mutex, tick, depth, before, ran>>

(* ... and lock.                                                           *)
Relock(t) ==
    /\ pc[t] = "relock"
    /\ Lock(t)
    /\ Goto(t, "execute")
    /\ UNCHANGED <<tick, depth, before, ran>>

(* The switch on the opcode.  The main script counts down its prologue.    *)
Execute(t) ==
    /\ pc[t] = "execute"
    /\ before' = IF t = Main /\ before > 0 THEN before - 1 ELSE before
    /\ ran' = IF ran < RanCap THEN ran + 1 ELSE ran

(* An instruction that does not concern threads.                           *)
Instruction(t) ==
    /\ Execute(t)
    /\ Goto(t, "next")
    /\ UNCHANGED <<mutex, tick, depth>>

(* sys.connect, sys.listen or sys.send: a new socket thread.               *)
StartThread(t, s) ==
    /\ Execute(t)
    /\ t = Main => before = 0 /\ depth[Main] = 0
    /\ pc[s] = "idle"
    /\ pc' = [pc EXCEPT ![t] = "next", ![s] = "outside"]
    /\ UNCHANGED <<mutex, tick, depth>>

(* sys_run, sys_interpret: execute_with within run ...                     *)
Nest(t) ==
    /\ Execute(t)
    /\ depth[t] < MaxNesting
    /\ NestAnywhere \/ Alone
    /\ depth' = [depth EXCEPT ![t] = @ + 1]
    /\ Goto(t, "next")
    /\ UNCHANGED <<mutex, tick>>

(* ... which unlocks the GIL when it ends, and the outer run goes on.      *)
EndNested(t) ==
    /\ pc[t] = "next" /\ depth[t] > 0
    /\ depth' = [depth EXCEPT ![t] = @ - 1]
    /\ before' = IF t = Main THEN Prologue ELSE before
    /\ Unlock
    /\ UNCHANGED <<tick, pc>>

(* execute_with ends the main script, node_callback a callback; either     *)
(* unlocks the GIL.                                                        *)
EndScript(t) ==
    /\ pc[t] = "next" /\ depth[t] = 0
    /\ Unlock
    /\ Goto(t, IF t = Main THEN "del" ELSE "outside")
    /\ UNCHANGED <<tick, depth, before>>

-----------------------------------------------------------------------------
(* Socket threads, and context_del.                                        *)

(* node_callback: lock the GIL to interpret a callback.                    *)
Callback(s) ==
    /\ pc[s] = "outside"
    /\ Lock(s)
    /\ Goto(s, "next")
    /\ UNCHANGED <<tick, depth, before, ran>>

(* socket_event before enqueue, incoming before dequeue: lock the GIL ...  *)
Fiddle(s) ==
    /\ pc[s] = "outside"
    /\ Lock(s)
    /\ Goto(s, "fiddling")
    /\ UNCHANGED <<tick, depth, before, ran>>

(* ... and unlock it after.                                                *)
EndFiddle(s) ==
    /\ pc[s] = "fiddling"
    /\ Unlock
    /\ Goto(s, "outside")
    /\ UNCHANGED <<tick, depth, before>>

(* start_thread, by socket_event or sys_socket_listen2 without the GIL, or *)
(* by enqueue with it.                                                     *)
Spawn(u, s) ==
    /\ pc[u] \in {"outside", "fiddling"}
    /\ pc[s] = "idle"
    /\ Goto(s, "outside")
    /\ UNCHANGED <<mutex, tick, depth, before, ran>>

(* thread_wrapper: lock, count the thread out ...                          *)
Wrap(s) ==
    /\ pc[s] = "outside"
    /\ Lock(s)
    /\ Goto(s, "leave")
    /\ UNCHANGED <<tick, depth, before, ran>>

(* ... and unlock.  The thread is gone; another may take its place.        *)
Leave(s) ==
    /\ pc[s] = "leave"
    /\ Unlock
    /\ Goto(s, "idle")
    /\ UNCHANGED <<tick, depth, before>>

(* context_del: lock, and unlock for good or to wait for threads.          *)
DelLock ==
    /\ pc[Main] = "del"
    /\ Lock(Main)
    /\ Goto(Main, "deleting")
    /\ UNCHANGED <<tick, depth, before, ran>>

DelUnlock ==
    /\ pc[Main] = "deleting"
    /\ Unlock
    /\ Goto(Main, IF Alone THEN "gone" ELSE "del")
    /\ UNCHANGED <<tick, depth, before>>

Interpret(t) == \/ Tick(t) \/ Switch(t) \/ Relock(t) \/ Instruction(t)
                \/ Nest(t) \/ EndNested(t) \/ EndScript(t)
                \/ \E s \in Sockets : StartThread(t, s)

Serve(s) == \/ Callback(s) \/ Fiddle(s) \/ EndFiddle(s) \/ Wrap(s) \/ Leave(s)
            \/ \E u \in Sockets : Spawn(u, s)

Next == \/ \E t \in Threads : Interpret(t)
        \/ \E s \in Sockets : Serve(s)
        \/ DelLock \/ DelUnlock

Spec == Init /\ [][Next]_vars

(* Scripts for which the GIL is a lock: the main script takes its first    *)
(* switch before it starts a thread.                                       *)
Disciplined == Prologue > GIL_SWITCH /\ ~NestAnywhere

-----------------------------------------------------------------------------
(* What the variables of vm.h:13-15 and the threads' control points hold.  *)
TypeOK == /\ mutex \in Threads \cup {None}
          /\ tick \in 0 .. GIL_SWITCH + 1
          /\ pc \in [Threads -> PC]
          /\ depth \in [Threads -> 0 .. MaxNesting]
          /\ before \in 0 .. Prologue
          /\ ran \in 0 .. RanCap

(* Threads that touch what the GIL is there to protect: bytecode           *)
(* interpretation with its variables, the queues of node.c, num_threads in *)
(* thread_wrapper and context_del.                                         *)
Inside(t) == pc[t] \in Interpreting \cup {"fiddling", "leave", "deleting"}

(* vm.h:15: "global interpreter lock".  Only one thread at a time          *)
(* interprets, fiddles with the queues, or counts threads under the lock.  *)
MutualExclusion == \A t, u \in Threads : Inside(t) /\ Inside(u) => t = u

(* A thread that interprets gives the others a chance after GIL_SWITCH + 2 *)
(* instructions at the latest (vm.c:1468 tests the tick before it counts,  *)
(* and executes one instruction on the tick that resets it), however many  *)
(* threads' callbacks share the one tick.                                  *)
GivesWay == ran <= GIL_SWITCH + 2
=============================================================================
