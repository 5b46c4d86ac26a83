-------------------------------- MODULE Node ---------------------------------
(***************************************************************************)
(* The socket threads of node.c, the per-descriptor queues they serve, and *)
(* the part of vm.c that starts and buries them: the global interpreter    *)
(* lock (GIL), num_threads and context_del.                                *)
(*                                                                         *)
(* Thread 0 is the thread that called execute; threads 1, 2, ... are made  *)
(* by start_thread, in the order of their creation.  Each has a control    *)
(* point, pc[t].  A step of a thread that holds the GIL is one step of the *)
(* model as long as no other thread can see the middle of it; what the     *)
(* code touches without the GIL (num_threads, and the send queues in       *)
(* sys_send2) is split into its loads and stores.                          *)
(*                                                                         *)
(* The interpreter is abstracted to what it does to these threads: at any  *)
(* instruction a running script may switch the GIL, send, connect, listen  *)
(* or end.  Module Gil has the clock tick that decides when to switch, and *)
(* shows when the main thread really holds the GIL, as it does here.       *)
(***************************************************************************)
EXTENDS Integers, FiniteSets

CONSTANTS Clients,      (* descriptors that sys.connect makes              *)
          Peers,        (* descriptors that the listening server accepts   *)
          MaxThreads,   (* bound: threads made in one behaviour            *)
          MaxArrivals,  (* bound: messages that arrive on one descriptor   *)
          MaxSends,     (* bound: messages sent by scripts, in all         *)
          MaxCloses,    (* bound: connections that the other side closes   *)
          MaxFailures,  (* bound: pthread_create calls that fail           *)
          QueueSize,    (* cells of a queue, so that it is never realloc'd *)
          CounterMod    (* num_threads is an unsigned counter modulo this  *)

Fd      == Clients \cup Peers
Main    == 0
Workers == 1 .. MaxThreads
Threads == {Main} \cup Workers
None    == -1           (* a free GIL, a NULL entry of singleton->threads  *)

ASSUME NodeAssumption ==
    /\ Clients \cap Peers = {}
    /\ MaxThreads \in Nat /\ MaxArrivals \in Nat /\ MaxSends \in Nat
    /\ MaxCloses \in Nat /\ MaxFailures \in Nat
    /\ QueueSize \in Nat \ {0}
    /\ CounterMod \in Nat /\ CounterMod > MaxThreads

Use     == {"SEND", "RECV"}                          (* enum THREAD_USE    *)
Routine == {"listen", "connect", "callback", "incoming", "send"}
Event   == {"CONNECTED", "DISCONNECTED", "MESSAGED"} (* enum HAL_Event     *)

VARIABLES
    gil,          (* owner of the mutex, or None                           *)
    num_threads,  (* "number of active threads"                            *)
    threads,      (* [fd, use] -> worker, or None for NULL                 *)
    made,         (* workers made so far                                   *)
    pc,           (* control point of each thread                          *)
    ret,          (* where start_thread returns to                         *)
    reg,          (* a count that a thread has loaded and not yet stored   *)
    child,        (* the worker that a thread is starting, or adding to    *)
    routine,      (* start_routine of each worker                          *)
    fd,           (* descriptor of each worker                             *)
    event,        (* event of each worker                                  *)
    msg,          (* message in the hands of a thread, 0 when there is none *)
    cell,         (* memory of each worker's queue, thread->bufs[use]      *)
    len,          (* length of each worker's queue                         *)
    conn,         (* state of each connection                              *)
    arrived,      (* messages that have arrived on each descriptor         *)
    taken,        (* messages that socket_event has read                   *)
    delivered,    (* last message whose callback has been called           *)
    heard,        (* connection events whose callback has been called      *)
    sent,         (* messages that sys.send was called with                *)
    written,      (* last message that sys_send2 has written               *)
    failures,     (* pthread_create calls that failed                      *)
    torn          (* context_del has deleted all_variables                 *)

records  == <<made, routine, fd, event>>     (* struct node_thread         *)
starting == <<ret, reg, child>>              (* locals of start_thread     *)
queues   == <<threads, cell, len>>
sockets  == <<conn, arrived, taken>>
outcome  == <<delivered, heard, sent, written>>
life     == <<failures, torn>>
vars == <<gil, num_threads, pc, msg, records, starting, queues, sockets,
          outcome, life>>

-----------------------------------------------------------------------------
(* Control points.                                                         *)

(* Points at which a thread is between gil_lock and gil_unlock.            *)
Holding == {"run", "add", "addCell", "start", "unstart", "enqueued", "leave",
            "delCheck", "delSleep", "delWoken"}
(* Points at which it is not.                                              *)
Outside == {"unused", "made", "dead", "connect", "read", "startFree",
            "unstartFree", "enqueue", "dequeue", "call", "take", "shrink",
            "write", "forget", "wrap", "done", "relock", "del", "wait",
            "wake", "gone"}
PC == Holding \cup Outside

(* The first control point of a routine in its new thread.                 *)
Entry(r) == IF r = "listen"   THEN "read"
       ELSE IF r = "connect"  THEN "connect"
       ELSE IF r = "callback" THEN "call"
       ELSE IF r = "incoming" THEN "dequeue"
       ELSE                        "take"

Goto(t, l) == pc' = [pc EXCEPT ![t] = l]

LockAnyway(t) == gil' = t                      (* a slip: take it anyway    *)
Lock(t)   == gil = None /\ gil' = t
Unlock(t) == gil = t /\ gil' = None

(* num_threads++ and num_threads--, from the count that was loaded.        *)
Uncounted(n)   == n                            (* a slip: neither           *)
Incremented(n) == (n + 1) % CounterMod
Decremented(n) == (n + CounterMod - 1) % CounterMod

(* enqueue: no thread serves the queue of f.                               *)
Unasked(f, u)  == TRUE                         (* a slip: it is not asked   *)
NoThread(f, u) == threads[<<f, u>>] = None

(* dequeue: the queue of w has a message, or it has none.                  *)
Untested(w)   == TRUE                          (* a slip: it is not tested  *)
HasMessage(w) == len[w] > 0
NoMessage(w)  == len[w] = 0

(* dequeue: the message that is taken.                                     *)
Newest(w) == cell[w][len[w]]                   (* a slip: the last one      *)
Oldest(w) == cell[w][1]

(* list_remove of the first element: memmove of the rest, over what the    *)
(* length was when it was read.                                            *)
Shifted(w) ==
    [i \in 1 .. QueueSize |-> IF i < len[w] THEN cell[w][i + 1] ELSE cell[w][i]]

(* thread_del.                                                             *)
ThreadDel(w, u) == threads' = [threads EXCEPT ![<<fd[w], u>>] = None]

(* A thread that goes on at l after pthread_cond_signal.                   *)
GotoSignalling(t, l) ==
    pc' = [u \in Threads |-> IF u = t THEN l
                             ELSE IF u = Main /\ pc[u] = "wait" THEN "wake"
                             ELSE pc[u]]

(* Descriptors that a thread reads: a client its own, the server all that  *)
(* it has accepted.                                                        *)
Reads(w, f) == IF routine[w] = "listen" THEN f \in Peers ELSE f = fd[w]

Empty == [i \in 1 .. QueueSize |-> 0]

-----------------------------------------------------------------------------
Init ==
    /\ gil = Main
    /\ num_threads = 0
    /\ threads = [q \in Fd \X Use |-> None]
    /\ made = 0
    /\ pc  = [t \in Threads |-> IF t = Main THEN "run" ELSE "unused"]
    /\ ret = [t \in Threads |-> "run"]
    /\ reg = [t \in Threads |-> 0]
    /\ child = [t \in Threads |-> None]
    /\ routine = [w \in Workers |-> "callback"]
    /\ fd      = [w \in Workers |-> None]
    /\ event   = [w \in Workers |-> "MESSAGED"]
    /\ msg  = [t \in Threads |-> 0]
    /\ cell = [w \in Workers |-> Empty]
    /\ len  = [w \in Workers |-> 0]
    /\ conn = [f \in Fd |-> "none"]
    /\ arrived   = [f \in Fd |-> 0]
    /\ taken     = [f \in Fd |-> 0]
    /\ delivered = [f \in Fd |-> 0]
    /\ heard     = [f \in Fd |-> {}]
    /\ sent      = [f \in Fd |-> 0]
    /\ written   = [f \in Fd |-> 0]
    /\ failures  = 0
    /\ torn = FALSE

-----------------------------------------------------------------------------
(* Threads start ...                                                       *)

(* thread_new, and start_thread up to the load of num_threads++: thread t  *)
(* goes to l and will come back to r.                                      *)
NewThread(t, l, r, start_routine, f, e) ==
    LET new == made + 1 IN
    /\ made < MaxThreads
    /\ made' = new
    /\ routine' = [routine EXCEPT ![new] = start_routine]
    /\ fd'      = [fd EXCEPT ![new] = f]
    /\ event'   = [event EXCEPT ![new] = e]
    /\ pc'    = [pc EXCEPT ![t] = l, ![new] = "made"]
    /\ ret'   = [ret EXCEPT ![t] = r]
    /\ reg'   = [reg EXCEPT ![t] = num_threads]
    /\ child' = [child EXCEPT ![t] = new]

(* Forget the locals of start_thread, which are dead once it returns.      *)
EndStart(t) == /\ ret'   = [ret EXCEPT ![t] = "run"]
               /\ reg'   = [reg EXCEPT ![t] = 0]
               /\ child' = [child EXCEPT ![t] = None]

(* start_thread: the store of num_threads++, and pthread_create.           *)
StartThread(t) ==
    /\ pc[t] \in {"start", "startFree"}
    /\ num_threads' = Incremented(reg[t])
    /\ pc' = [pc EXCEPT ![t] = ret[t], ![child[t]] = Entry(routine[child[t]])]
    /\ EndStart(t)
    /\ UNCHANGED <<gil, msg, records, queues, sockets, outcome, life>>

(* start_thread when pthread_create fails: num_threads goes up, and then   *)
(* down again with a signal.                                               *)
FailToStart(t) ==
    /\ pc[t] \in {"start", "startFree"}
    /\ failures < MaxFailures
    /\ failures' = failures + 1
    /\ num_threads' = Incremented(reg[t])
    /\ reg' = [reg EXCEPT ![t] = Incremented(@)]
    /\ pc' = [pc EXCEPT ![t] = IF @ = "start" THEN "unstart" ELSE "unstartFree",
                        ![child[t]] = "dead"]
    /\ UNCHANGED <<gil, msg, records, ret, child, queues, sockets, outcome, torn>>

Unstart(t) ==
    /\ pc[t] \in {"unstart", "unstartFree"}
    /\ \E n \in {reg[t], num_threads} : num_threads' = Decremented(n)
    /\ GotoSignalling(t, ret[t])
    /\ EndStart(t)
    /\ UNCHANGED <<gil, msg, records, queues, sockets, outcome, life>>

(* ... and end: thread_wrapper counts the thread out and signals, under    *)
(* the GIL.                                                                *)
Wrap(w) ==
    /\ pc[w] = "wrap"
    /\ Lock(w)
    /\ reg' = [reg EXCEPT ![w] = num_threads]
    /\ Goto(w, "leave")
    /\ UNCHANGED <<num_threads, msg, records, ret, child, queues, sockets,
                   outcome, life>>

Leave(w) ==
    /\ pc[w] = "leave"
    /\ num_threads' = Decremented(reg[w])
    /\ reg' = [reg EXCEPT ![w] = 0]
    /\ GotoSignalling(w, "done")
    /\ Unlock(w)
    /\ UNCHANGED <<msg, records, ret, child, queues, sockets, outcome, life>>

-----------------------------------------------------------------------------
(* The interpreter, in the main thread and in callbacks.                   *)

(* run: the clock tick is up, so give the GIL away and take it back.       *)
SwitchOut(t) ==
    /\ pc[t] = "run"
    /\ Unlock(t)
    /\ Goto(t, "relock")
    /\ UNCHANGED <<num_threads, msg, records, starting, queues, sockets,
                   outcome, life>>

SwitchIn(t) ==
    /\ pc[t] = "relock"
    /\ Lock(t)
    /\ Goto(t, "run")
    /\ UNCHANGED <<num_threads, msg, records, starting, queues, sockets,
                   outcome, life>>

(* Where a thread goes when its script ends: the main thread from          *)
(* execute_with to context_del, the others from node_callback back to the  *)
(* routine that called it.                                                 *)
AfterScript(t) ==
         IF t = Main                THEN "del"
    ELSE IF routine[t] = "connect"  THEN "read"
    ELSE IF routine[t] = "incoming" THEN "dequeue"
    ELSE                                 "wrap"

EndScript(t) ==
    /\ pc[t] = "run"
    /\ Unlock(t)
    /\ msg' = [msg EXCEPT ![t] = 0]
    /\ Goto(t, AfterScript(t))
    /\ UNCHANGED <<num_threads, records, starting, queues, sockets, outcome,
                   life>>

(* sys_connect: a socket, and a thread to connect it.                      *)
Connect(t, f) ==
    /\ pc[t] = "run"
    /\ f \in Clients /\ conn[f] = "none"
    /\ conn' = [conn EXCEPT ![f] = "socket"]
    /\ NewThread(t, "start", "run", "connect", f, "MESSAGED")
    /\ UNCHANGED <<gil, num_threads, msg, queues, arrived, taken, outcome, life>>

(* sys_socket_listen: one server thread.                                   *)
Listen(t) ==
    /\ pc[t] = "run"
    /\ Peers # {} /\ \A w \in 1 .. made : routine[w] # "listen"
    /\ NewThread(t, "start", "run", "listen", None, "MESSAGED")
    /\ UNCHANGED <<gil, num_threads, msg, queues, sockets, outcome, life>>

(* sys_send and enqueue, when the descriptor has no sender: its thread is  *)
(* made with the message in its queue.                                     *)
SendNew(t, f) ==
    /\ pc[t] = "run"
    /\ conn[f] # "none" /\ sent[f] < MaxSends
    /\ NoThread(f, "SEND")
    /\ sent' = [sent EXCEPT ![f] = @ + 1]
    /\ NewThread(t, "start", "run", "send", f, "MESSAGED")
    /\ threads' = [threads EXCEPT ![<<f, "SEND">>] = made + 1]
    /\ cell' = [cell EXCEPT ![made + 1][1] = sent[f] + 1]
    /\ len'  = [len EXCEPT ![made + 1] = 1]
    /\ UNCHANGED <<gil, num_threads, msg, sockets, delivered, heard, written, life>>

(* sys_send and enqueue, when it has one: array_add to the queue that the  *)
(* sender serves without the GIL, up to the load of length++ ...           *)
SendMore(t, f) ==
    LET w == threads[<<f, "SEND">>] IN
    /\ pc[t] = "run"
    /\ conn[f] # "none" /\ sent[f] < MaxSends
    /\ w # None /\ len[w] < QueueSize
    /\ sent' = [sent EXCEPT ![f] = @ + 1]
    /\ child' = [child EXCEPT ![t] = w]
    /\ reg'   = [reg EXCEPT ![t] = len[w]]
    /\ Goto(t, "add")
    /\ UNCHANGED <<gil, num_threads, msg, records, ret, queues, sockets,
                   delivered, heard, written, life>>

(* ... and the stores of the message and of the length.  If the length     *)
(* comes first, the sender may see it before the message.                  *)
AddMore(t) ==
    LET w == child[t] IN
    /\ pc[t] = "add"
    /\ cell' = [cell EXCEPT ![w][reg[t] + 1] = sent[fd[w]]]
    /\ len'  = [len EXCEPT ![w] = reg[t] + 1]
    /\ EndStart(t)
    /\ Goto(t, "run")
    /\ UNCHANGED <<gil, num_threads, msg, records, threads, sockets, outcome, life>>

AddLength(t) ==
    /\ pc[t] = "add"
    /\ len' = [len EXCEPT ![child[t]] = reg[t] + 1]
    /\ Goto(t, "addCell")
    /\ UNCHANGED <<gil, num_threads, msg, records, starting, threads, cell, sockets,
                   outcome, life>>

AddCell(t) ==
    LET w == child[t] IN
    /\ pc[t] = "addCell"
    /\ cell' = [cell EXCEPT ![w][reg[t] + 1] = sent[fd[w]]]
    /\ EndStart(t)
    /\ Goto(t, "run")
    /\ UNCHANGED <<gil, num_threads, msg, records, threads, len, sockets, outcome,
                   life>>

Adding(t) == AddMore(t) \/ AddLength(t) \/ AddCell(t)

-----------------------------------------------------------------------------
(* Reading sockets.                                                        *)

(* sys_connect2: connect fails, and the thread ends ...                    *)
ConnectFails(w) ==
    /\ pc[w] = "connect"
    /\ Goto(w, "wrap")
    /\ UNCHANGED <<gil, num_threads, msg, records, starting, queues, sockets,
                   outcome, life>>

(* A slip: the CONNECTED call is left to a thread of its own, as the       *)
(* server leaves it, while this one goes to read.                          *)
ConnectSucceedsAside(w) ==
    /\ pc[w] = "connect"
    /\ conn' = [conn EXCEPT ![fd[w]] = "open"]
    /\ NewThread(w, "startFree", "read", "callback", fd[w], "CONNECTED")
    /\ UNCHANGED <<gil, num_threads, msg, queues, arrived, taken, outcome, life>>

(* ... or succeeds, and the thread makes the CONNECTED call itself.        *)
ConnectSucceeds(w) ==
    /\ pc[w] = "connect"
    /\ conn'  = [conn EXCEPT ![fd[w]] = "open"]
    /\ event' = [event EXCEPT ![w] = "CONNECTED"]
    /\ Goto(w, "call")
    /\ UNCHANGED <<gil, num_threads, msg, made, routine, fd, starting, queues,
                   arrived, taken, outcome, life>>

(* sys_socket_listen2: accept a connection, and start a thread for the     *)
(* CONNECTED call, all without the GIL.                                    *)
AcceptPeer(w, f) ==
    /\ pc[w] = "read" /\ routine[w] = "listen"
    /\ f \in Peers /\ conn[f] = "none"
    /\ conn' = [conn EXCEPT ![f] = "open"]
    /\ NewThread(w, "startFree", "read", "callback", f, "CONNECTED")
    /\ UNCHANGED <<gil, num_threads, msg, queues, arrived, taken, outcome, life>>

(* socket_event: read a message.                                           *)
ReadMessage(w, f) ==
    /\ pc[w] = "read" /\ Reads(w, f)
    /\ conn[f] \in {"open", "closed"} /\ taken[f] < arrived[f]
    /\ taken' = [taken EXCEPT ![f] = @ + 1]
    /\ msg'   = [msg EXCEPT ![w] = taken[f] + 1]
    /\ fd'    = [fd EXCEPT ![w] = f]
    /\ Goto(w, "enqueue")
    /\ UNCHANGED <<gil, num_threads, made, routine, event, starting, queues,
                   conn, arrived, outcome, life>>

(* socket_event: read meets the end of the connection.  A thread is        *)
(* started for the DISCONNECTED call, without the GIL, and the descriptor  *)
(* is read no more.                                                        *)
ReadEnd(w, f) ==
    /\ pc[w] = "read" /\ Reads(w, f)
    /\ conn[f] = "closed" /\ taken[f] = arrived[f]
    /\ conn' = [conn EXCEPT ![f] = "dropped"]
    /\ NewThread(w, "startFree", IF routine[w] = "listen" THEN "read" ELSE "wrap",
                 "callback", f, "DISCONNECTED")
    /\ UNCHANGED <<gil, num_threads, msg, queues, arrived, taken, outcome, life>>

(* socket_event and enqueue, under the GIL, when the descriptor has no     *)
(* RECV thread: one is made with the message in its queue.                 *)
EnqueueNew(w) ==
    LET f == fd[w] IN
    /\ pc[w] = "enqueue"
    /\ NoThread(f, "RECV")
    /\ Lock(w)
    /\ NewThread(w, "start", "enqueued", "incoming", f, "MESSAGED")
    /\ threads' = [threads EXCEPT ![<<f, "RECV">>] = made + 1]
    /\ cell' = [cell EXCEPT ![made + 1][1] = msg[w]]
    /\ len'  = [len EXCEPT ![made + 1] = 1]
    /\ msg'  = [msg EXCEPT ![w] = 0]
    /\ UNCHANGED <<num_threads, sockets, outcome, life>>

(* socket_event and enqueue, when it has one: array_add to its queue.      *)
EnqueueMore(w) ==
    LET r == threads[<<fd[w], "RECV">>] IN
    /\ pc[w] = "enqueue"
    /\ r # None /\ len[r] < QueueSize
    /\ Lock(w)
    /\ cell' = [cell EXCEPT ![r][len[r] + 1] = msg[w]]
    /\ len'  = [len EXCEPT ![r] = @ + 1]
    /\ msg'  = [msg EXCEPT ![w] = 0]
    /\ Goto(w, "enqueued")
    /\ UNCHANGED <<num_threads, records, starting, threads, sockets, outcome, life>>

(* socket_event: gil_unlock, and back to read.                             *)
Enqueued(w) ==
    /\ pc[w] = "enqueued"
    /\ Unlock(w)
    /\ Goto(w, "read")
    /\ UNCHANGED <<num_threads, msg, records, starting, queues, sockets,
                   outcome, life>>

-----------------------------------------------------------------------------
(* Serving the queues.                                                     *)

(* incoming and dequeue, under the GIL: take the next message ...          *)
Dequeue(w) ==
    /\ pc[w] = "dequeue" /\ gil = None
    /\ HasMessage(w)
    /\ msg'  = [msg EXCEPT ![w] = Oldest(w)]
    /\ cell' = [cell EXCEPT ![w] = Shifted(w)]
    /\ len'  = [len EXCEPT ![w] = @ - 1]
    /\ Goto(w, "call")
    /\ UNCHANGED <<gil, num_threads, records, starting, threads, sockets,
                   outcome, life>>

(* ... or find the queue empty and leave, by thread_del, under the same    *)
(* hold of the GIL.                                                        *)
DequeueLast(w) ==
    /\ pc[w] = "dequeue" /\ gil = None
    /\ NoMessage(w)
    /\ ThreadDel(w, "RECV")
    /\ Goto(w, "wrap")
    /\ UNCHANGED <<gil, num_threads, msg, records, starting, cell, len, sockets,
                   outcome, life>>

(* node_callback: under the GIL, call the listener's function for the      *)
(* event.                                                                  *)
Callback(w) ==
    LET f == fd[w] IN
    /\ pc[w] = "call"
    /\ Lock(w)
    /\ Goto(w, "run")
    /\ IF event[w] = "MESSAGED"
       THEN delivered' = [delivered EXCEPT ![f] = msg[w]] /\ UNCHANGED heard
       ELSE heard' = [heard EXCEPT ![f] = @ \cup {event[w]}] /\ UNCHANGED delivered
    /\ UNCHANGED <<num_threads, msg, records, starting, queues, sockets, sent,
                   written, life>>

(* sys_send2 and dequeue, without the GIL: take the next message up to the *)
(* memmove.  A NULL in the first cell ends the loop as an empty queue does. *)
TakeToSend(w) ==
    /\ pc[w] = "take" /\ HasMessage(w)
    /\ msg'  = [msg EXCEPT ![w] = Oldest(w)]
    /\ cell' = [cell EXCEPT ![w] = Shifted(w)]
    /\ reg'  = [reg EXCEPT ![w] = len[w]]
    /\ Goto(w, "shrink")
    /\ UNCHANGED <<gil, num_threads, records, ret, child, threads, len, sockets,
                   outcome, life>>

(* list_remove: length -= 1, from the length it had or has now.            *)
Shrink(w) ==
    /\ pc[w] = "shrink"
    /\ \E n \in {reg[w], len[w]} : len' = [len EXCEPT ![w] = n - 1]
    /\ reg' = [reg EXCEPT ![w] = 0]
    /\ Goto(w, IF msg[w] = 0 THEN "forget" ELSE "write")
    /\ UNCHANGED <<gil, num_threads, msg, records, ret, child, threads, cell,
                   sockets, outcome, life>>

WriteMessage(w) ==
    /\ pc[w] = "write"
    /\ written' = [written EXCEPT ![fd[w]] = msg[w]]
    /\ msg' = [msg EXCEPT ![w] = 0]
    /\ Goto(w, "take")
    /\ UNCHANGED <<gil, num_threads, records, starting, queues, sockets,
                   delivered, heard, sent, life>>

(* sys_send2: the queue was empty, so leave the loop ...                   *)
StopSending(w) ==
    /\ pc[w] = "take" /\ NoMessage(w)
    /\ Goto(w, "forget")
    /\ UNCHANGED <<gil, num_threads, msg, records, starting, queues, sockets,
                   outcome, life>>

(* ... and then, with nothing to keep the queue empty, thread_del.         *)
ForgetSender(w) ==
    /\ pc[w] = "forget"
    /\ ThreadDel(w, "SEND")
    /\ Goto(w, "wrap")
    /\ UNCHANGED <<gil, num_threads, msg, records, starting, cell, len, sockets,
                   outcome, life>>

-----------------------------------------------------------------------------
(* The end of the program: context_del, in the main thread.                *)

DelLock ==
    /\ pc[Main] = "del"
    /\ Lock(Main)
    /\ Goto(Main, "delCheck")
    /\ UNCHANGED <<num_threads, msg, records, starting, queues, sockets,
                   outcome, life>>

(* while (num_threads > 0): go to sleep, or return.                        *)
DelCheck ==
    /\ pc[Main] = "delCheck"
    /\ IF num_threads > 0 THEN Goto(Main, "delSleep") /\ UNCHANGED gil
                          ELSE Goto(Main, "gone") /\ Unlock(Main)
    /\ UNCHANGED <<num_threads, msg, records, starting, queues, sockets,
                   outcome, life>>

(* pthread_cond_wait: release the GIL and sleep, in one step ...           *)
DelSleep ==
    /\ pc[Main] = "delSleep"
    /\ Unlock(Main)
    /\ Goto(Main, "wait")
    /\ UNCHANGED <<num_threads, msg, records, starting, queues, sockets,
                   outcome, life>>

(* ... and take the GIL again once woken (by a signal; a spurious wakeup   *)
(* would do the same).                                                     *)
DelWake ==
    /\ pc[Main] = "wake"
    /\ Lock(Main)
    /\ Goto(Main, "delWoken")
    /\ UNCHANGED <<num_threads, msg, records, starting, queues, sockets,
                   outcome, life>>

(* The last remaining thread deletes all variables; the others wait on.    *)
DelWoken ==
    /\ pc[Main] = "delWoken"
    /\ torn' = (num_threads = 0)
    /\ IF num_threads = 0 THEN Goto(Main, "gone") /\ Unlock(Main)
                          ELSE Goto(Main, "delCheck") /\ UNCHANGED gil
    /\ UNCHANGED <<num_threads, msg, records, starting, queues, sockets,
                   outcome, failures>>

-----------------------------------------------------------------------------
(* The other side of the connections.                                      *)

Arrive(f) ==
    /\ conn[f] = "open" /\ arrived[f] < MaxArrivals
    /\ arrived' = [arrived EXCEPT ![f] = @ + 1]
    /\ UNCHANGED <<gil, num_threads, pc, msg, records, starting, queues, conn,
                   taken, outcome, life>>

Close(f) ==
    /\ conn[f] = "open"
    /\ Cardinality({g \in Fd : conn[g] \in {"closed", "dropped"}}) < MaxCloses
    /\ conn' = [conn EXCEPT ![f] = "closed"]
    /\ UNCHANGED <<gil, num_threads, pc, msg, records, starting, queues, arrived,
                   taken, outcome, life>>

-----------------------------------------------------------------------------
Script(t) == \/ SwitchOut(t) \/ EndScript(t) \/ Listen(t)
             \/ \E f \in Fd : Connect(t, f) \/ SendNew(t, f) \/ SendMore(t, f)

Reading(w) == \/ ConnectFails(w) \/ ConnectSucceeds(w)
              \/ \E f \in Fd : AcceptPeer(w, f) \/ ReadMessage(w, f) \/ ReadEnd(w, f)

(* The steps that a thread takes as soon as the scheduler, and the GIL,    *)
(* let it.                                                                 *)
Starting(t) == StartThread(t) \/ FailToStart(t) \/ Unstart(t)
Serving(w) == \/ EnqueueNew(w) \/ EnqueueMore(w) \/ Enqueued(w)
              \/ Dequeue(w) \/ DequeueLast(w) \/ Callback(w)
              \/ TakeToSend(w) \/ Shrink(w) \/ WriteMessage(w)
              \/ StopSending(w) \/ ForgetSender(w)
              \/ Wrap(w) \/ Leave(w)
Deleting == DelLock \/ DelCheck \/ DelSleep \/ DelWake \/ DelWoken

Next == \/ \E t \in Threads : Script(t) \/ Starting(t) \/ SwitchIn(t) \/ Adding(t)
        \/ \E w \in Workers : Reading(w) \/ Serving(w)
        \/ Deleting
        \/ \E f \in Fd : Arrive(f) \/ Close(f)

Spec == Init /\ [][Next]_vars

(* The scheduler runs every thread that can go on; scripts and callbacks   *)
(* end (a script that switches the GIL for ever is not a fair behaviour);  *)
(* connect and read return when there is something to return.  Nothing is  *)
(* assumed of the other side, nor that a script sends, connects or listens. *)
Fairness ==
    /\ \A t \in Threads : /\ WF_vars(Starting(t)) /\ WF_vars(SwitchIn(t))
                          /\ WF_vars(Adding(t)) /\ SF_vars(EndScript(t))
    /\ \A w \in Workers : /\ WF_vars(ConnectFails(w) \/ ConnectSucceeds(w))
                          /\ WF_vars(\E f \in Fd : ReadMessage(w, f) \/ ReadEnd(w, f))
                          /\ WF_vars(Serving(w))
    /\ WF_vars(Deleting)

FairSpec == Spec /\ Fairness

-----------------------------------------------------------------------------
TypeOK ==
    /\ gil \in Threads \cup {None}
    /\ num_threads \in 0 .. CounterMod - 1
    /\ threads \in [Fd \X Use -> Workers \cup {None}]
    /\ made \in 0 .. MaxThreads
    /\ pc \in [Threads -> PC]
    /\ ret \in [Threads -> {"run", "read", "wrap", "enqueued"}]
    /\ reg \in [Threads -> 0 .. CounterMod + QueueSize]
    /\ child \in [Threads -> Workers \cup {None}]
    /\ routine \in [Workers -> Routine]
    /\ fd \in [Workers -> Fd \cup {None}]
    /\ event \in [Workers -> Event]
    /\ msg \in [Threads -> Nat]
    /\ cell \in [Workers -> [1 .. QueueSize -> Nat]]
    /\ len \in [Workers -> 0 .. QueueSize]
    /\ conn \in [Fd -> {"none", "socket", "open", "closed", "dropped"}]
    /\ arrived \in [Fd -> Nat] /\ taken \in [Fd -> Nat]
    /\ delivered \in [Fd -> Nat] /\ heard \in [Fd -> SUBSET Event]
    /\ sent \in [Fd -> Nat] /\ written \in [Fd -> Nat]
    /\ failures \in 0 .. MaxFailures /\ torn \in BOOLEAN

(* The GIL is what vm.h:15 calls it: a thread between gil_lock and         *)
(* gil_unlock owns the mutex, so no two threads are there at once, and a   *)
(* thread that unlocks is the one that locked, through GIL switches,       *)
(* callbacks, context_del's wait and the unlock of execute_with.           *)
OneHolder == \A t \in Threads : pc[t] \in Holding <=> gil = t

(* A worker serves the queue of [fd, use] from the time that enqueue makes *)
(* it until thread_del, and the table names it: no two workers serve one   *)
(* queue, which is what keeps the callbacks of one descriptor, and the     *)
(* bytes of two messages written to it, from mixing.                       *)
Receiving(w) == \/ pc[w] = "dequeue"
                \/ /\ routine[w] = "incoming"
                   /\ pc[w] \in {"call", "run", "relock", "add", "addCell", "start", "unstart"}
Sending(w) == pc[w] \in {"take", "shrink", "write", "forget"}
OneServer ==
    \A w \in Workers : /\ Receiving(w) => threads[<<fd[w], "RECV">>] = w
                       /\ Sending(w) => threads[<<fd[w], "SEND">>] = w

(* A message is not left in a queue that nobody will serve: while a RECV   *)
(* queue is not empty, its worker is in the table and has not yet found    *)
(* the queue empty.  (incoming checks and leaves under one hold of the     *)
(* GIL; sys_send2, which does not, breaks this for SEND queues.)           *)
NoStranded(u) ==
    \A w \in 1 .. made :
        (routine[w] = IF u = "RECV" THEN "incoming" ELSE "send") /\ len[w] > 0
            => threads[<<fd[w], u>>] = w /\ pc[w] \notin {"wrap", "leave", "done", "dead"}
NoStrandedReceipt == NoStranded("RECV")

(* The messages of a descriptor reach the callback in the order in which   *)
(* they were read, none lost and none twice, and each of them in the end.  *)
Received == INSTANCE Channel WITH in <- taken, out <- delivered
ReceivedInOrder == Received!SafeSpec
ReceivedAll     == Received!Spec

(* A client's listener hears of the connection before its first message.   *)
ConnectedFirst ==
    \A f \in Clients : delivered[f] > 0 => "CONNECTED" \in heard[f]

(* sys_send2 sends "all outgoing messages for this socket" (node.c:416):   *)
(* when the last sender of a descriptor has gone, and no script is half    *)
(* way through a send, every message sent on it has been written.          *)
Alive(w) == pc[w] \notin {"unused", "dead", "done"}
AllSent ==
    \A f \in Fd :
        (/\ \A w \in Workers : routine[w] = "send" /\ fd[w] = f => ~Alive(w)
         /\ \A t \in Threads : pc[t] \notin {"add", "addCell"})
            => written[f] = sent[f]

(* num_threads is "number of active threads" (vm.h:17), whenever no thread *)
(* is between the load and the store of a change to it.                    *)
Counted(w) == Alive(w) /\ pc[w] # "made"
ActiveThreads ==
    (\A t \in Threads : pc[t] \notin {"start", "startFree", "unstart", "unstartFree", "leave"})
        => num_threads = Cardinality({w \in Workers : Counted(w)})

(* context_del waits "for spawned threads" (vm.c:171): execute returns,    *)
(* and all variables are deleted, only when every thread it knows of has   *)
(* counted itself out.                                                     *)
WaitsForThreads == pc[Main] = "gone" => \A w \in Workers : ~Alive(w)

(* ... and it does return once the last thread has gone.                   *)
Returns ==
    (pc[Main] \in {"del", "delCheck", "delSleep", "wait", "wake", "delWoken"}
        /\ \A w \in Workers : ~Alive(w)) ~> pc[Main] = "gone"
=============================================================================
