------------------------------ MODULE GilProofs ------------------------------
(***************************************************************************)
(* For every number of socket threads, every GIL_SWITCH and every depth of *)
(* nesting, the GIL is a lock for the scripts that Gil calls Disciplined.  *)
(***************************************************************************)
EXTENDS Gil, TLAPS

SocketPC == {"idle", "outside", "fiddling", "next", "execute", "relock", "leave"}
MainPC   == {"next", "execute", "relock", "del", "deleting", "gone"}

(* A socket thread that is inside owns the mutex, and does not nest.       *)
SocketOwns == \A s \in Sockets : /\ pc[s] \in SocketPC
                                 /\ depth[s] = 0
                                 /\ Inside(s) => mutex = s

(* The main thread owns it too, but for its prologue: then it is alone,    *)
(* and the tick has counted what it has executed of the prologue.          *)
Counting == /\ mutex = None /\ Alone
            /\ pc[Main] = "next" => tick + before >= Prologue
            /\ pc[Main] = "execute" => tick + before > Prologue
MainOwns == /\ pc[Main] \in MainPC
            /\ pc[Main] = "deleting" => mutex = Main
            /\ pc[Main] \in Interpreting => mutex = Main \/ Counting
            /\ depth[Main] > 0 => Alone

(* The tick bounds what the interpreting thread has run.                   *)
RanBound == \A t \in Threads : /\ pc[t] = "next" => ran <= tick + 1
                               /\ pc[t] = "execute" => ran <= tick
Resting == (\A t \in Threads : pc[t] \notin Interpreting) => ran = 0

IInv == TypeOK /\ SocketOwns /\ MainOwns /\ RanBound /\ Resting /\ GivesWay

(* What the assumption says of the identifiers of threads.                *)
LEMMA ConstantFacts ==
    /\ Main \in Threads /\ Main \notin Sockets /\ None \notin Threads
    /\ Sockets \subseteq Threads /\ Threads \subseteq Int
    /\ \A t \in Threads : t # Main => t \in Sockets
  BY GilAssumption DEF Main, None, Threads

(* The initial state satisfies the invariant.                              *)
LEMMA InitInv == Init => IInv
  BY ConstantFacts, GilAssumption
     DEF Init, IInv, TypeOK, SocketOwns, MainOwns, Counting, RanBound, Resting,
         GivesWay, Inside, Interpreting, PC, SocketPC, MainPC, Alone, RanCap

(* No two threads are inside in a state of the invariant.                  *)
LEMMA InvMutex == IInv => MutualExclusion
  BY ConstantFacts
     DEF IInv, TypeOK, SocketOwns, MainOwns, Counting, MutualExclusion, Inside,
         Interpreting, MainPC, SocketPC, Alone
(* Every step of a disciplined script's program keeps the invariant.  The  *)
(* discipline is needed where the main script starts a thread (step <1>8)  *)
(* and where a script nests (<1>5).                                        *)
LEMMA StepInv == ASSUME Disciplined PROVE IInv /\ [Next]_vars => IInv'
<1> SUFFICES ASSUME IInv, [Next]_vars PROVE IInv'
  OBVIOUS
<1> USE ConstantFacts, GilAssumption
        DEF IInv, TypeOK, SocketOwns, MainOwns, Counting, RanBound, Resting,
            GivesWay, Inside, Interpreting, PC, SocketPC, MainPC, Alone, RanCap,
            Disciplined, Goto, Lock, Unlock, Execute
<1>1. ASSUME NEW t \in Threads, Tick(t) PROVE IInv'
  BY <1>1 DEF Tick
<1>2. ASSUME NEW t \in Threads, Switch(t) PROVE IInv'
  BY <1>2 DEF Switch
<1>3. ASSUME NEW t \in Threads, Relock(t) PROVE IInv'
  BY <1>3 DEF Relock
<1>4. ASSUME NEW t \in Threads, Instruction(t) PROVE IInv'
  BY <1>4 DEF Instruction
<1>5. ASSUME NEW t \in Threads, Nest(t) PROVE IInv'
  BY <1>5 DEF Nest
<1>6. ASSUME NEW t \in Threads, EndNested(t) PROVE IInv'
  BY <1>6 DEF EndNested
<1>7. ASSUME NEW t \in Threads, EndScript(t) PROVE IInv'
  BY <1>7 DEF EndScript
<1>8. ASSUME NEW t \in Threads, NEW s \in Sockets, StartThread(t, s) PROVE IInv'
  BY <1>8 DEF StartThread
<1>9. ASSUME NEW s \in Sockets, Callback(s) PROVE IInv'
  BY <1>9 DEF Callback
<1>10. ASSUME NEW s \in Sockets, Fiddle(s) PROVE IInv'
  BY <1>10 DEF Fiddle
<1>11. ASSUME NEW s \in Sockets, EndFiddle(s) PROVE IInv'
  BY <1>11 DEF EndFiddle
<1>12. ASSUME NEW s \in Sockets, Wrap(s) PROVE IInv'
  BY <1>12 DEF Wrap
<1>13. ASSUME NEW s \in Sockets, Leave(s) PROVE IInv'
  BY <1>13 DEF Leave
<1>14. ASSUME NEW u \in Sockets, NEW s \in Sockets, Spawn(u, s) PROVE IInv'
  BY <1>14 DEF Spawn
<1>15. CASE DelLock
  BY <1>15 DEF DelLock
<1>16. CASE DelUnlock
  BY <1>16 DEF DelUnlock
<1>17. CASE UNCHANGED vars
  BY <1>17 DEF vars
<1> QED
  BY <1>1, <1>2, <1>3, <1>4, <1>5, <1>6, <1>7, <1>8, <1>9, <1>10, <1>11, <1>12, <1>13, <1>14, <1>15, <1>16, <1>17 DEF Next, Interpret, Serve

(* The invariant holds of every behaviour.                                 *)
LEMMA Invariant == ASSUME Disciplined PROVE Spec => []IInv
  BY InitInv, StepInv, PTL DEF Spec

(* Type correctness, for every number of threads and every GIL_SWITCH: the *)
(* tick of vm.h:14 never passes GIL_SWITCH + 1, so that it cannot overflow. *)
THEOREM TypeCorrect == ASSUME Disciplined PROVE Spec => []TypeOK
  <1>1. IInv => TypeOK
    BY DEF IInv
  <1> QED
    BY <1>1, Invariant, PTL

(* The lock of vm.h:15 is one, for every number of socket threads, if the  *)
(* main script has run more than GIL_SWITCH instructions before it starts  *)
(* the first of them and calls sys.run and sys.interpret only without any. *)
THEOREM GilExcludes == ASSUME Disciplined PROVE Spec => []MutualExclusion
  BY Invariant, InvMutex, PTL

(* run (vm.c:1468) lets the others have the GIL after GIL_SWITCH + 2       *)
(* instructions at the latest.                                             *)
THEOREM GilGivesWay == ASSUME Disciplined PROVE Spec => []GivesWay
  <1>1. IInv => GivesWay
    BY DEF IInv
  <1> QED
    BY <1>1, Invariant, PTL
=============================================================================
