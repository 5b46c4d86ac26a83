------------------------------ MODULE NodeProofs -----------------------------
(***************************************************************************)
(* What Node promises for any number of descriptors, threads, messages,    *)
(* closed connections and failures of pthread_create.                      *)
(*                                                                         *)
(* The proofs rest on an inductive invariant in two layers. Inv says what  *)
(* the threads and the table are to each other:                            *)
(*                                                                         *)
(*   AtPoints    a thread is at a point of its own routine                 *)
(*   Unused      the identifiers of threads are used in order, once        *)
(*   ReturnsTo   start_thread returns to a point of its caller             *)
(*   OneStarter  a thread that does not run yet has one starter            *)
(*   OneHolder   the GIL is held at the points of Holding                  *)
(*   Subject     a thread has the descriptor that it works for             *)
(*   Named       the table names, for a queue, a server of that queue ...  *)
(*   Serves      ... and every server that has not left                    *)
(*   Shrinks     a length is lowered that was not zero                     *)
(*   Adds        a script adds to the queue of a sender, within its bound  *)
(*                                                                         *)
(* Order says where the messages of a descriptor are, on top of it:        *)
(*                                                                         *)
(*   Sides, OneReader    one thread reads each connection                  *)
(*   Events              an event is called back by its own kind of thread *)
(*   InHand              a reader carries the message that it took last    *)
(*   Passed, Chained     the RECV queue of a descriptor holds what lies    *)
(*                       between the last call and the last message queued *)
(*   Heard, HeardOf      a client is called before its reader reads        *)
(*                                                                         *)
(* Each part has a lemma that says that a step keeps it, with one step of  *)
(* proof per action of Node, and names the parts that it needs.            *)
(*                                                                         *)
(* The count of the threads comes last, with an invariant of its own.      *)
(***************************************************************************)
EXTENDS Node, FiniteSetTheorems, TLAPS

(* Control points of a script, and those before and after a routine.       *)
Scripting == {"run", "relock", "add", "addCell", "start", "unstart"}
Ends  == {"unused", "made", "dead", "wrap", "leave", "done"}
Points(r) == Ends \cup
          IF r = "listen"   THEN {"read", "enqueue", "enqueued", "start", "unstart",
                                  "startFree", "unstartFree"}
     ELSE IF r = "connect"  THEN {"connect", "call", "read", "enqueue", "enqueued",
                                  "startFree", "unstartFree"} \cup Scripting
     ELSE IF r = "callback" THEN {"call"} \cup Scripting
     ELSE IF r = "incoming" THEN {"dequeue", "call"} \cup Scripting
     ELSE                        {"take", "shrink", "write", "forget"}
MainPoints == Scripting \cup {"del", "delCheck", "delSleep", "wait", "wake",
                              "delWoken", "gone"}

Reader(r)   == r \in {"listen", "connect"}
Scripted(t) == t = Main \/ routine[t] \in {"connect", "callback", "incoming"}

(* A thread is at a point of its own routine, and start_thread returns to  *)
(* one.                                                                    *)
AtPoints == /\ pc[Main] \in MainPoints
            /\ \A w \in Workers : pc[w] \in Points(routine[w])
Unused   == \A w \in Workers : pc[w] = "unused" <=> w > made
ReturnsTo ==
    \A t \in Threads :
       /\ pc[t] \in {"start", "unstart"} =>
             \/ ret[t] = "run" /\ Scripted(t)
             \/ ret[t] = "enqueued" /\ t \in Workers /\ Reader(routine[t])
       /\ pc[t] \in {"startFree", "unstartFree"} => ret[t] \in {"read", "wrap"}

(* What a thread is about: every thread but the server has a descriptor,   *)
(* and the server has one while it carries a message.                      *)
Subject ==
    \A w \in Workers :
       pc[w] # "unused" /\ (routine[w] # "listen" \/ pc[w] = "enqueue")
          => fd[w] \in Fd

(* A thread that is made and does not run yet has one that starts it.      *)
Begins     == {"start", "startFree"}
OneStarter ==
    \A t \in Threads : pc[t] \in Begins =>
       /\ child[t] \in Workers /\ pc[child[t]] = "made"
       /\ \A u \in Threads \ {t} : pc[u] \in Begins => child[u] # child[t]

(* The table names, for each queue, its server until that has left, and    *)
(* nobody else.                                                            *)
Server(u) == IF u = "RECV" THEN "incoming" ELSE "send"
Left      == {"wrap", "leave", "done"}
Named ==
    \A f \in Fd, u \in Use, w \in Workers : threads[<<f, u>>] = w =>
       fd[w] = f /\ routine[w] = Server(u) /\ pc[w] \notin Left \cup {"unused"}
Serves ==
    \A w \in Workers, u \in Use :
       routine[w] = Server(u) /\ pc[w] \notin Left \cup {"unused", "dead"}
          => threads[<<fd[w], u>>] = w

(* A length that a thread has loaded, to store one less or one more of it. *)
Shrinks == \A w \in Workers : pc[w] = "shrink" => len[w] > 0 /\ reg[w] \in 1 .. QueueSize
Adds    == \A t \in Threads : pc[t] \in {"add", "addCell"} =>
              /\ child[t] \in Workers /\ pc[child[t]] # "unused"
              /\ routine[child[t]] = "send" /\ reg[t] < QueueSize

(* Where pthread_create does not fail, no thread is dead; and a RECV       *)
(* thread that has left has left an empty queue.                           *)
NoneDead  == \A w \in Workers : pc[w] # "dead"
LeftEmpty == \A w \in Workers : routine[w] = "incoming" /\ pc[w] \in Left => len[w] = 0

(* One thread reads each connection: the server those it has accepted, and *)
(* the thread of sys.connect its own.                                      *)
OneReader ==
    \A v, w \in Workers :
       /\ pc[v] # "unused" /\ pc[w] # "unused" /\ routine[v] = routine[w]
       /\ routine[w] = "listen" \/ (routine[w] = "connect" /\ fd[v] = fd[w])
       => v = w
Sides ==
    \A w \in Workers : pc[w] # "unused" =>
       /\ routine[w] = "connect" => fd[w] \in Clients /\ conn[fd[w]] # "none"
       /\ routine[w] = "listen" /\ pc[w] = "enqueue" => fd[w] \in Peers

(* What a thread is about to call back for.                                *)
Events ==
    \A w \in Workers : pc[w] # "unused" =>
       /\ routine[w] = "incoming" => event[w] = "MESSAGED"
       /\ routine[w] = "callback" => event[w] # "MESSAGED"
       /\ routine[w] = "connect" /\ pc[w] = "call" => event[w] = "CONNECTED"

(* The message that a reader carries to a queue is the last one it took.   *)
InHand ==
    \A w \in Workers :
       pc[w] = "enqueue" => msg[w] = taken[fd[w]] /\ taken[fd[w]] > 0

(* The messages of f that have reached a queue: all but the one in the     *)
(* hands of a reader.                                                      *)
Carries(w, f) == pc[w] = "enqueue" /\ fd[w] = f
Queued(f) == IF \E w \in Workers : Carries(w, f) THEN taken[f] - 1 ELSE taken[f]

(* A step queues the message that a reader carries, or leaves what was     *)
(* queued.                                                                 *)
Queues(f) ==
    /\ (\A w \in Workers : Carries(w, f) => pc'[w] = "enqueue")
          => Queued(f)' = Queued(f)
    /\ \A w \in Workers : Carries(w, f) /\ pc'[w] # "enqueue"
          => Queued(f)' = taken[f] /\ Queued(f) = taken[f] - 1

(* The messages between the last one delivered and the last one queued are *)
(* those of the queue, in order, after the one whose call is due.          *)
Due(f, r) == IF pc[r] = "call" THEN msg[r] ELSE delivered[f]
Passed  == \A f \in Fd : threads[<<f, "RECV">>] = None => delivered[f] = Queued(f)
Chained ==
    \A f \in Fd, r \in Workers : threads[<<f, "RECV">>] = r =>
       /\ pc[r] = "call" => msg[r] = delivered[f] + 1
       /\ Due(f, r) + len[r] = Queued(f)
       /\ \A i \in 1 .. QueueSize : i <= len[r] => cell[r][i] = Due(f, r) + i

(* The thread of sys.connect reads only after the CONNECTED call.          *)
Heard   == \A w \in Workers :
              routine[w] = "connect" /\ pc[w] \notin Ends \cup {"connect", "call"}
                 => "CONNECTED" \in heard[fd[w]]
HeardOf == \A f \in Clients : taken[f] > 0 => "CONNECTED" \in heard[f]

(* What the assumption says of the identifiers of threads and the bounds.  *)
LEMMA ConstantFacts ==
    /\ Main \in Threads /\ Main \notin Workers /\ None \notin Threads
    /\ Workers \subseteq Threads /\ Workers \subseteq Nat
    /\ Threads \subseteq Int
    /\ \A t \in Threads : t # Main => t \in Workers
    /\ MaxThreads \in Nat /\ QueueSize \in Nat /\ CounterMod \in Nat
    /\ QueueSize > 0 /\ CounterMod > MaxThreads
  BY NodeAssumption DEF Main, None, Threads, Workers

(* What NewThread does, thread by thread.                                  *)
Newborn(t, l, r, start_routine, f, e) ==
    LET new == made + 1 IN
    /\ new \in Workers /\ new # t /\ made' = new
    /\ pc[new] = "unused"
    /\ pc'[t] = l /\ pc'[new] = "made"
    /\ \A u \in Threads \ {t, new} : pc'[u] = pc[u]
    /\ routine'[new] = start_routine /\ fd'[new] = f /\ event'[new] = e
    /\ \A w \in Workers \ {new} :
          routine'[w] = routine[w] /\ fd'[w] = fd[w] /\ event'[w] = event[w]
    /\ ret'[t] = r /\ reg'[t] = num_threads /\ child'[t] = new
    /\ \A u \in Threads \ {t} :
          ret'[u] = ret[u] /\ reg'[u] = reg[u] /\ child'[u] = child[u]

(* NewThread makes the next thread, which nobody else is or starts.        *)
LEMMA NewbornThread ==
    ASSUME TypeOK, Unused, NEW t \in Threads, pc[t] # "unused",
           NEW l, NEW r, NEW s, NEW f, NEW e,
           NewThread(t, l, r, s, f, e)
    PROVE  Newborn(t, l, r, s, f, e)
<1>1. made + 1 \in Workers /\ made' = made + 1
  BY ConstantFacts DEF NewThread, TypeOK, Workers
<1>2. made + 1 # t /\ made + 1 \in Threads /\ pc[made + 1] = "unused"
  BY <1>1, ConstantFacts DEF TypeOK, Unused, Workers, Main
<1>3. /\ pc'[t] = l /\ pc'[made + 1] = "made"
      /\ \A u \in Threads \ {t, made + 1} : pc'[u] = pc[u]
  BY <1>2 DEF NewThread, TypeOK
<1>4. /\ routine'[made + 1] = s /\ fd'[made + 1] = f /\ event'[made + 1] = e
      /\ \A w \in Workers \ {made + 1} :
            routine'[w] = routine[w] /\ fd'[w] = fd[w] /\ event'[w] = event[w]
  BY <1>1 DEF NewThread, TypeOK
<1>5. /\ ret'[t] = r /\ reg'[t] = num_threads /\ child'[t] = made + 1
      /\ \A u \in Threads \ {t} :
            ret'[u] = ret[u] /\ reg'[u] = reg[u] /\ child'[u] = child[u]
  BY DEF NewThread, TypeOK
<1> QED
  BY <1>1, <1>2, <1>3, <1>4, <1>5 DEF Newborn

(* Each action that makes a thread calls NewThread.                        *)
LEMMA Newborns ==
    ASSUME TypeOK, Unused
    PROVE  /\ \A t \in Threads :
                 Listen(t) => Newborn(t, "start", "run", "listen", None, "MESSAGED")
           /\ \A t \in Threads, f \in Fd :
                 /\ Connect(t, f)
                       => Newborn(t, "start", "run", "connect", f, "MESSAGED")
                 /\ SendNew(t, f)
                       => Newborn(t, "start", "run", "send", f, "MESSAGED")
           /\ \A w \in Workers, f \in Fd :
                 /\ AcceptPeer(w, f) =>
                       Newborn(w, "startFree", "read", "callback", f, "CONNECTED")
                 /\ ReadEnd(w, f) =>
                       Newborn(w, "startFree",
                               IF routine[w] = "listen" THEN "read" ELSE "wrap",
                               "callback", f, "DISCONNECTED")
           /\ \A w \in Workers :
                 EnqueueNew(w) =>
                    Newborn(w, "start", "enqueued", "incoming", fd[w], "MESSAGED")
<1> USE ConstantFacts
<1>1. ASSUME NEW t \in Threads, Listen(t)
      PROVE  Newborn(t, "start", "run", "listen", None, "MESSAGED")
  BY <1>1, NewbornThread DEF Listen
<1>2. ASSUME NEW t \in Threads, NEW f \in Fd, Connect(t, f)
      PROVE  Newborn(t, "start", "run", "connect", f, "MESSAGED")
  BY <1>2, NewbornThread DEF Connect
<1>3. ASSUME NEW t \in Threads, NEW f \in Fd, SendNew(t, f)
      PROVE  Newborn(t, "start", "run", "send", f, "MESSAGED")
  BY <1>3, NewbornThread DEF SendNew
<1>4. ASSUME NEW w \in Workers, NEW f \in Fd, AcceptPeer(w, f)
      PROVE  Newborn(w, "startFree", "read", "callback", f, "CONNECTED")
  BY <1>4, NewbornThread DEF AcceptPeer
<1>5. ASSUME NEW w \in Workers, NEW f \in Fd, ReadEnd(w, f)
      PROVE  Newborn(w, "startFree",
                     IF routine[w] = "listen" THEN "read" ELSE "wrap",
                     "callback", f, "DISCONNECTED")
  BY <1>5, NewbornThread DEF ReadEnd
<1>6. ASSUME NEW w \in Workers, EnqueueNew(w)
      PROVE  Newborn(w, "start", "enqueued", "incoming", fd[w], "MESSAGED")
  BY <1>6, NewbornThread DEF EnqueueNew
<1> QED
  BY <1>1, <1>2, <1>3, <1>4, <1>5, <1>6

(* A thread starts at a point of its routine, without the GIL.             *)
LEMMA Entries ==
    \A r : Entry(r) \in Points(r) /\ Entry(r) \notin Ends /\ Entry(r) \notin Holding
  BY DEF Entry, Points, Ends, Holding, Scripting

(* What NewThread keeps of the types.                                      *)
LEMMA NewThreadTypes ==
    ASSUME TypeOK, NEW t \in Threads, NEW l \in PC,
           NEW r \in {"run", "read", "wrap", "enqueued"}, NEW s \in Routine,
           NEW f \in Fd \cup {None}, NEW e \in Event, NewThread(t, l, r, s, f, e)
    PROVE  /\ made' \in 0 .. MaxThreads /\ made + 1 \in Workers
           /\ routine' \in [Workers -> Routine]
           /\ fd' \in [Workers -> Fd \cup {None}]
           /\ event' \in [Workers -> Event]
           /\ pc' \in [Threads -> PC]
           /\ ret' \in [Threads -> {"run", "read", "wrap", "enqueued"}]
           /\ reg' \in [Threads -> 0 .. CounterMod + QueueSize]
           /\ child' \in [Threads -> Workers \cup {None}]
<1>1. /\ made' \in 0 .. MaxThreads /\ made' = made + 1 /\ made + 1 \in Workers
  BY ConstantFacts DEF NewThread, TypeOK, Workers
<1>2. /\ routine' \in [Workers -> Routine]
      /\ fd' \in [Workers -> Fd \cup {None}] /\ event' \in [Workers -> Event]
  BY <1>1 DEF NewThread, TypeOK
<1>3. pc' \in [Threads -> PC]
  BY <1>1 DEF NewThread, TypeOK, PC, Outside
<1>4. /\ ret' \in [Threads -> {"run", "read", "wrap", "enqueued"}]
      /\ child' \in [Threads -> Workers \cup {None}]
  BY <1>1 DEF NewThread, TypeOK
<1>5. reg' \in [Threads -> 0 .. CounterMod + QueueSize]
  BY ConstantFacts DEF NewThread, TypeOK
<1> QED
  BY <1>1, <1>2, <1>3, <1>4, <1>5

(* A queue that is shifted keeps its cells.                                *)
LEMMA Cells ==
    ASSUME TypeOK, NEW w \in Workers
    PROVE  Shifted(w) \in [1 .. QueueSize -> Nat]
<1>1. cell[w] \in [1 .. QueueSize -> Nat] /\ len[w] \in 0 .. QueueSize
  BY DEF TypeOK
<1>2. ASSUME NEW i \in 1 .. QueueSize
      PROVE  (IF i < len[w] THEN cell[w][i + 1] ELSE cell[w][i]) \in Nat
  BY <1>1, ConstantFacts
<1> QED
  BY <1>2 DEF Shifted

(* Counts stay within the width of the counter.                            *)
LEMMA Width ==
    \A n \in Int : /\ Incremented(n) \in 0 .. CounterMod - 1
                   /\ Decremented(n) \in 0 .. CounterMod - 1
  BY ConstantFacts DEF Incremented, Decremented

(* What has reached a queue depends on what was taken and who carries.     *)
LEMMA QueuedSame ==
    ASSUME NEW g \in Fd, taken' = taken,
           \A x \in Workers : Carries(x, g)' <=> Carries(x, g)
    PROVE  Queues(g)
<1>1. Queued(g)' = Queued(g)
  BY DEF Queued
<1>2. \A x \in Workers : Carries(x, g) => pc'[x] = "enqueue"
  BY DEF Carries
<1> QED
  BY <1>1, <1>2 DEF Queues

(* No two threads read one descriptor.                                     *)
LEMMA SameReader ==
    ASSUME Sides, OneReader, NEW f, NEW v \in Workers, NEW w \in Workers,
           pc[v] # "unused", Reader(routine[v]),
           routine[v] = "listen" => f \in Peers,
           routine[v] = "connect" => fd[v] = f,
           pc[w] # "unused", Reader(routine[w]),
           routine[w] = "listen" => f \in Peers,
           routine[w] = "connect" => fd[w] = f
    PROVE  v = w
<1>1. routine[v] = routine[w]
  BY NodeAssumption DEF Sides, Reader
<1> QED
  BY <1>1 DEF OneReader, Reader

(* No two threads carry messages of one descriptor.                        *)
LEMMA OneCarrier ==
    ASSUME AtPoints, Sides, OneReader, NEW f, NEW v \in Workers, NEW w \in Workers,
           Carries(v, f), Carries(w, f)
    PROVE  v = w
<1>1. ASSUME NEW x \in Workers, Carries(x, f)
      PROVE  /\ pc[x] # "unused" /\ Reader(routine[x])
             /\ routine[x] = "listen" => f \in Peers
             /\ routine[x] = "connect" => fd[x] = f
  BY <1>1 DEF AtPoints, Points, Ends, Scripting, Reader, Carries, Sides
<1> QED
  BY <1>1, SameReader

(* A queue that is one short of what was taken, and one longer.            *)
LEMMA OneMore ==
    \A a, b, c \in Nat : a + b = c - 1 => a + (b + 1) = c
  OBVIOUS

(* The cell after one that is below the last.                              *)
LEMMA NextCell ==
    \A q \in Nat : \A l \in 0 .. q, i \in 1 .. q :
        i <= l - 1 => i < l /\ i + 1 \in 1 .. q /\ i + 1 <= l
  OBVIOUS

(* A thread stays in its routine.                                          *)
LEMMA AtPointsStep ==
    ASSUME TypeOK, AtPoints, Unused, ReturnsTo, OneStarter, [Next]_vars
    PROVE  AtPoints'
<1> USE ConstantFacts DEF Goto, GotoSignalling, EndStart, records, starting,
        queues, sockets, outcome, life, AtPoints, Points, MainPoints,
        Scripting, Ends, Main, Threads
<1>0. /\ pc \in [Threads -> PC] /\ routine \in [Workers -> Routine]
      /\ made \in Nat
  BY DEF TypeOK
<1> USE <1>0
<1>1. ASSUME NEW t \in Threads, SwitchOut(t) PROVE AtPoints'
  BY <1>1 DEF SwitchOut
<1>2. ASSUME NEW t \in Threads, EndScript(t) PROVE AtPoints'
  <2>1. t = Main \/ routine[t] \in {"connect", "callback", "incoming"}
    BY <1>2 DEF EndScript
  <2> QED
    BY <1>2, <2>1 DEF EndScript, AfterScript
<1>3. ASSUME NEW t \in Threads, Listen(t) PROVE AtPoints'
  <2>1. Newborn(t, "start", "run", "listen", None, "MESSAGED")
    BY <1>3, Newborns
  <2>2. pc[t] = "run"
    BY <1>3 DEF Listen
  <2> QED
    BY <2>1, <2>2, SMTT(30) DEF Newborn
<1>4. ASSUME NEW t \in Threads, NEW f \in Fd, Connect(t, f) PROVE AtPoints'
  <2>1. Newborn(t, "start", "run", "connect", f, "MESSAGED")
    BY <1>4, Newborns
  <2>2. pc[t] = "run"
    BY <1>4 DEF Connect
  <2> QED
    BY <2>1, <2>2 DEF Newborn
<1>5. ASSUME NEW t \in Threads, NEW f \in Fd, SendNew(t, f) PROVE AtPoints'
  <2>1. Newborn(t, "start", "run", "send", f, "MESSAGED")
    BY <1>5, Newborns
  <2>2. pc[t] = "run"
    BY <1>5 DEF SendNew
  <2> QED
    BY <2>1, <2>2 DEF Newborn
<1>6. ASSUME NEW t \in Threads, NEW f \in Fd, SendMore(t, f) PROVE AtPoints'
  BY <1>6 DEF SendMore
<1>7. ASSUME NEW t \in Threads, StartThread(t) PROVE AtPoints'
  <2>1. /\ child[t] \in Workers /\ child[t] # t
        /\ pc'[t] = ret[t] /\ pc'[child[t]] = Entry(routine[child[t]])
        /\ \A u \in Threads \ {t, child[t]} : pc'[u] = pc[u]
        /\ routine' = routine
    BY <1>7 DEF StartThread, OneStarter, Begins, TypeOK
  <2>2. t = Main => ret[t] = "run"
    BY <1>7 DEF StartThread, ReturnsTo
  <2>3. t \in Workers => ret[t] \in Points(routine[t])
    BY <1>7 DEF StartThread, ReturnsTo, Scripted, Reader
  <2> QED
    BY <2>1, <2>2, <2>3, Entries
<1>8. ASSUME NEW t \in Threads, FailToStart(t) PROVE AtPoints'
  <2>1. /\ child[t] \in Workers /\ child[t] # t
        /\ pc'[t] = IF pc[t] = "start" THEN "unstart" ELSE "unstartFree"
        /\ pc'[child[t]] = "dead" /\ pc[t] \in {"start", "startFree"}
        /\ \A u \in Threads \ {t, child[t]} : pc'[u] = pc[u]
        /\ routine' = routine
    BY <1>8 DEF FailToStart, OneStarter, Begins
  <2> QED
    BY <2>1
<1>9. ASSUME NEW t \in Threads, Unstart(t) PROVE AtPoints'
  <2>1. t = Main => ret[t] = "run"
    BY <1>9 DEF Unstart, ReturnsTo
  <2>2. t \in Workers => ret[t] \in Points(routine[t])
    BY <1>9 DEF Unstart, ReturnsTo, Scripted, Reader
  <2> QED
    BY <1>9, <2>1, <2>2 DEF Unstart
<1>10. ASSUME NEW t \in Threads, SwitchIn(t) PROVE AtPoints'
  BY <1>10 DEF SwitchIn
<1>11. ASSUME NEW t \in Threads, AddMore(t) PROVE AtPoints'
  BY <1>11 DEF AddMore
<1>12. ASSUME NEW t \in Threads, AddLength(t) PROVE AtPoints'
  BY <1>12 DEF AddLength
<1>13. ASSUME NEW t \in Threads, AddCell(t) PROVE AtPoints'
  BY <1>13 DEF AddCell
<1>14. ASSUME NEW w \in Workers, ConnectFails(w) PROVE AtPoints'
  BY <1>14 DEF ConnectFails
<1>15. ASSUME NEW w \in Workers, ConnectSucceeds(w) PROVE AtPoints'
  BY <1>15 DEF ConnectSucceeds
<1>16. ASSUME NEW w \in Workers, NEW f \in Fd, AcceptPeer(w, f) PROVE AtPoints'
  <2>1. Newborn(w, "startFree", "read", "callback", f, "CONNECTED")
    BY <1>16, Newborns
  <2>2. pc[w] = "read" /\ routine[w] = "listen"
    BY <1>16 DEF AcceptPeer
  <2> QED
    BY <2>1, <2>2 DEF Newborn
<1>17. ASSUME NEW w \in Workers, NEW f \in Fd, ReadMessage(w, f)
       PROVE  AtPoints'
  BY <1>17 DEF ReadMessage
<1>18. ASSUME NEW w \in Workers, NEW f \in Fd, ReadEnd(w, f) PROVE AtPoints'
  <2>1. Newborn(w, "startFree",
                IF routine[w] = "listen" THEN "read" ELSE "wrap",
                "callback", f, "DISCONNECTED")
    BY <1>18, Newborns
  <2>2. pc[w] = "read"
    BY <1>18 DEF ReadEnd
  <2> QED
    BY <2>1, <2>2 DEF Newborn
<1>19. ASSUME NEW w \in Workers, EnqueueNew(w) PROVE AtPoints'
  <2>1. Newborn(w, "start", "enqueued", "incoming", fd[w], "MESSAGED")
    BY <1>19, Newborns
  <2>2. pc[w] = "enqueue"
    BY <1>19 DEF EnqueueNew
  <2> QED
    BY <2>1, <2>2 DEF Newborn
<1>20. ASSUME NEW w \in Workers, EnqueueMore(w) PROVE AtPoints'
  BY <1>20 DEF EnqueueMore
<1>21. ASSUME NEW w \in Workers, Enqueued(w) PROVE AtPoints'
  BY <1>21 DEF Enqueued
<1>22. ASSUME NEW w \in Workers, Dequeue(w) PROVE AtPoints'
  BY <1>22 DEF Dequeue
<1>23. ASSUME NEW w \in Workers, DequeueLast(w) PROVE AtPoints'
  BY <1>23 DEF DequeueLast
<1>24. ASSUME NEW w \in Workers, Callback(w) PROVE AtPoints'
  BY <1>24 DEF Callback
<1>25. ASSUME NEW w \in Workers, TakeToSend(w) PROVE AtPoints'
  BY <1>25 DEF TakeToSend
<1>26. ASSUME NEW w \in Workers, Shrink(w) PROVE AtPoints'
  BY <1>26 DEF Shrink
<1>27. ASSUME NEW w \in Workers, WriteMessage(w) PROVE AtPoints'
  BY <1>27 DEF WriteMessage
<1>28. ASSUME NEW w \in Workers, StopSending(w) PROVE AtPoints'
  BY <1>28 DEF StopSending
<1>29. ASSUME NEW w \in Workers, ForgetSender(w) PROVE AtPoints'
  BY <1>29 DEF ForgetSender
<1>30. ASSUME NEW w \in Workers, Wrap(w) PROVE AtPoints'
  BY <1>30 DEF Wrap
<1>31. ASSUME NEW w \in Workers, Leave(w) PROVE AtPoints'
  BY <1>31 DEF Leave
<1>32. CASE DelLock
  BY <1>32 DEF DelLock
<1>33. CASE DelCheck
  <2>1. CASE num_threads > 0
    BY <1>33, <2>1 DEF DelCheck
  <2>2. CASE ~(num_threads > 0)
    BY <1>33, <2>2 DEF DelCheck
  <2> QED
    BY <2>1, <2>2
<1>34. CASE DelSleep
  BY <1>34 DEF DelSleep
<1>35. CASE DelWake
  BY <1>35 DEF DelWake
<1>36. CASE DelWoken
  <2>1. CASE num_threads = 0
    BY <1>36, <2>1 DEF DelWoken
  <2>2. CASE ~(num_threads = 0)
    BY <1>36, <2>2 DEF DelWoken
  <2> QED
    BY <2>1, <2>2
<1>37. ASSUME NEW f \in Fd, Arrive(f) PROVE AtPoints'
  BY <1>37 DEF Arrive
<1>38. ASSUME NEW f \in Fd, Close(f) PROVE AtPoints'
  BY <1>38 DEF Close
<1>39. CASE UNCHANGED vars
  BY <1>39 DEF vars
<1> QED
  BY <1>1, <1>2, <1>3, <1>4, <1>5, <1>6, <1>7, <1>8, <1>9, <1>10, <1>11,
     <1>12, <1>13, <1>14, <1>15, <1>16, <1>17, <1>18, <1>19, <1>20, <1>21,
     <1>22, <1>23, <1>24, <1>25, <1>26, <1>27, <1>28, <1>29, <1>30, <1>31,
     <1>32, <1>33, <1>34, <1>35, <1>36, <1>37, <1>38, <1>39
     DEF Next, Script, Starting, Adding, Reading, Serving, Deleting

(* A thread is used once, when it is made.                                 *)
LEMMA UnusedStep ==
    ASSUME TypeOK, Unused, OneStarter, [Next]_vars
    PROVE  Unused'
<1> USE ConstantFacts DEF Goto, GotoSignalling, EndStart, records, starting,
        queues, sockets, outcome, life, Unused, Main, Threads, Workers
<1>0. /\ pc \in [Threads -> PC] /\ routine \in [Workers -> Routine]
      /\ made \in Nat
  BY SMTT(30) DEF TypeOK
<1> USE <1>0
<1>1. ASSUME NEW t \in Threads, SwitchOut(t) PROVE Unused'
  BY <1>1 DEF SwitchOut
<1>2. ASSUME NEW t \in Threads, EndScript(t) PROVE Unused'
  BY <1>2 DEF EndScript, AfterScript
<1>3. ASSUME NEW t \in Threads, Listen(t) PROVE Unused'
  <2>1. Newborn(t, "start", "run", "listen", None, "MESSAGED")
    BY <1>3, Newborns
  <2>2. pc[t] = "run"
    BY <1>3 DEF Listen
  <2> QED
    BY <2>1, <2>2, SMTT(30) DEF Newborn
<1>4. ASSUME NEW t \in Threads, NEW f \in Fd, Connect(t, f) PROVE Unused'
  <2>1. Newborn(t, "start", "run", "connect", f, "MESSAGED")
    BY <1>4, Newborns
  <2>2. pc[t] = "run"
    BY <1>4 DEF Connect
  <2> QED
    BY <2>1, <2>2 DEF Newborn
<1>5. ASSUME NEW t \in Threads, NEW f \in Fd, SendNew(t, f) PROVE Unused'
  <2>1. Newborn(t, "start", "run", "send", f, "MESSAGED")
    BY <1>5, Newborns
  <2>2. pc[t] = "run"
    BY <1>5 DEF SendNew
  <2> QED
    BY <2>1, <2>2 DEF Newborn
<1>6. ASSUME NEW t \in Threads, NEW f \in Fd, SendMore(t, f) PROVE Unused'
  BY <1>6 DEF SendMore
<1>7. ASSUME NEW t \in Threads, StartThread(t) PROVE Unused'
  <2>1. /\ child[t] \in Workers /\ child[t] # t
        /\ pc'[t] = ret[t] /\ pc'[child[t]] = Entry(routine[child[t]])
        /\ \A z \in Threads \ {t, child[t]} : pc'[z] = pc[z]
        /\ pc[t] \in {"start", "startFree"}
    BY <1>7 DEF StartThread, OneStarter, Begins, TypeOK
  <2>2. Entry(routine[child[t]]) # "unused" /\ ret[t] # "unused"
    BY Entries DEF Ends, TypeOK
  <2>3. pc[child[t]] = "made" /\ made' = made
    BY <1>7 DEF StartThread, OneStarter, Begins
  <2> QED
    BY <2>1, <2>2, <2>3
<1>8. ASSUME NEW t \in Threads, FailToStart(t) PROVE Unused'
  <2>1. /\ child[t] \in Workers /\ child[t] # t
        /\ pc'[t] = IF pc[t] = "start" THEN "unstart" ELSE "unstartFree"
        /\ pc'[child[t]] = "dead" /\ pc[t] \in {"start", "startFree"}
        /\ \A z \in Threads \ {t, child[t]} : pc'[z] = pc[z]
    BY <1>8 DEF FailToStart, OneStarter, Begins
  <2>2. pc[child[t]] = "made" /\ made' = made
    BY <1>8 DEF FailToStart, OneStarter, Begins
  <2> QED
    BY <2>1, <2>2
<1>9. ASSUME NEW t \in Threads, Unstart(t) PROVE Unused'
  <2>1. ret[t] # "unused"
    BY DEF TypeOK
  <2> QED
    BY <1>9, <2>1 DEF Unstart
<1>10. ASSUME NEW t \in Threads, SwitchIn(t) PROVE Unused'
  BY <1>10 DEF SwitchIn
<1>11. ASSUME NEW t \in Threads, AddMore(t) PROVE Unused'
  BY <1>11 DEF AddMore
<1>12. ASSUME NEW t \in Threads, AddLength(t) PROVE Unused'
  BY <1>12 DEF AddLength
<1>13. ASSUME NEW t \in Threads, AddCell(t) PROVE Unused'
  BY <1>13 DEF AddCell
<1>14. ASSUME NEW w \in Workers, ConnectFails(w) PROVE Unused'
  BY <1>14 DEF ConnectFails
<1>15. ASSUME NEW w \in Workers, ConnectSucceeds(w) PROVE Unused'
  BY <1>15 DEF ConnectSucceeds
<1>16. ASSUME NEW w \in Workers, NEW f \in Fd, AcceptPeer(w, f) PROVE Unused'
  <2>1. Newborn(w, "startFree", "read", "callback", f, "CONNECTED")
    BY <1>16, Newborns
  <2>2. pc[w] = "read" /\ routine[w] = "listen"
    BY <1>16 DEF AcceptPeer
  <2> QED
    BY <2>1, <2>2 DEF Newborn
<1>17. ASSUME NEW w \in Workers, NEW f \in Fd, ReadMessage(w, f) PROVE Unused'
  BY <1>17 DEF ReadMessage
<1>18. ASSUME NEW w \in Workers, NEW f \in Fd, ReadEnd(w, f) PROVE Unused'
  <2>1. Newborn(w, "startFree",
                IF routine[w] = "listen" THEN "read" ELSE "wrap",
                "callback", f, "DISCONNECTED")
    BY <1>18, Newborns
  <2>2. pc[w] = "read"
    BY <1>18 DEF ReadEnd
  <2> QED
    BY <2>1, <2>2 DEF Newborn
<1>19. ASSUME NEW w \in Workers, EnqueueNew(w) PROVE Unused'
  <2>1. Newborn(w, "start", "enqueued", "incoming", fd[w], "MESSAGED")
    BY <1>19, Newborns
  <2>2. pc[w] = "enqueue"
    BY <1>19 DEF EnqueueNew
  <2> QED
    BY <2>1, <2>2 DEF Newborn
<1>20. ASSUME NEW w \in Workers, EnqueueMore(w) PROVE Unused'
  BY <1>20 DEF EnqueueMore
<1>21. ASSUME NEW w \in Workers, Enqueued(w) PROVE Unused'
  BY <1>21 DEF Enqueued
<1>22. ASSUME NEW w \in Workers, Dequeue(w) PROVE Unused'
  BY <1>22 DEF Dequeue
<1>23. ASSUME NEW w \in Workers, DequeueLast(w) PROVE Unused'
  BY <1>23 DEF DequeueLast
<1>24. ASSUME NEW w \in Workers, Callback(w) PROVE Unused'
  BY <1>24 DEF Callback
<1>25. ASSUME NEW w \in Workers, TakeToSend(w) PROVE Unused'
  BY <1>25 DEF TakeToSend
<1>26. ASSUME NEW w \in Workers, Shrink(w) PROVE Unused'
  BY <1>26 DEF Shrink
<1>27. ASSUME NEW w \in Workers, WriteMessage(w) PROVE Unused'
  BY <1>27 DEF WriteMessage
<1>28. ASSUME NEW w \in Workers, StopSending(w) PROVE Unused'
  BY <1>28 DEF StopSending
<1>29. ASSUME NEW w \in Workers, ForgetSender(w) PROVE Unused'
  BY <1>29 DEF ForgetSender
<1>30. ASSUME NEW w \in Workers, Wrap(w) PROVE Unused'
  BY <1>30 DEF Wrap
<1>31. ASSUME NEW w \in Workers, Leave(w) PROVE Unused'
  BY <1>31 DEF Leave
<1>32. CASE DelLock
  BY <1>32 DEF DelLock
<1>33. CASE DelCheck
  <2>1. CASE num_threads > 0
    BY <1>33, <2>1 DEF DelCheck
  <2>2. CASE ~(num_threads > 0)
    BY <1>33, <2>2 DEF DelCheck
  <2> QED
    BY <2>1, <2>2
<1>34. CASE DelSleep
  BY <1>34 DEF DelSleep
<1>35. CASE DelWake
  BY <1>35 DEF DelWake
<1>36. CASE DelWoken
  <2>1. CASE num_threads = 0
    BY <1>36, <2>1 DEF DelWoken
  <2>2. CASE ~(num_threads = 0)
    BY <1>36, <2>2 DEF DelWoken
  <2> QED
    BY <2>1, <2>2
<1>37. ASSUME NEW f \in Fd, Arrive(f) PROVE Unused'
  BY <1>37 DEF Arrive
<1>38. ASSUME NEW f \in Fd, Close(f) PROVE Unused'
  BY <1>38 DEF Close
<1>39. CASE UNCHANGED vars
  BY <1>39 DEF vars
<1> QED
  BY <1>1, <1>2, <1>3, <1>4, <1>5, <1>6, <1>7, <1>8, <1>9, <1>10, <1>11,
     <1>12, <1>13, <1>14, <1>15, <1>16, <1>17, <1>18, <1>19, <1>20, <1>21,
     <1>22, <1>23, <1>24, <1>25, <1>26, <1>27, <1>28, <1>29, <1>30, <1>31,
     <1>32, <1>33, <1>34, <1>35, <1>36, <1>37, <1>38, <1>39
     DEF Next, Script, Starting, Adding, Reading, Serving, Deleting

(* start_thread returns to where it was called.                            *)
LEMMA ReturnsToStep ==
    ASSUME TypeOK, AtPoints, Unused, OneStarter, ReturnsTo, [Next]_vars
    PROVE  ReturnsTo'
<1> USE ConstantFacts DEF Goto, GotoSignalling, EndStart, records, starting,
        queues, sockets, outcome, life, ReturnsTo, Scripted, Reader, Threads
<1>0. /\ pc \in [Threads -> PC] /\ routine \in [Workers -> Routine]
      /\ made \in Nat
      /\ ret \in [Threads -> {"run", "read", "wrap", "enqueued"}]
  BY DEF TypeOK
<1> USE <1>0
<1>1. ASSUME NEW t \in Threads, SwitchOut(t) PROVE ReturnsTo'
  BY <1>1 DEF SwitchOut
<1>2. ASSUME NEW t \in Threads, EndScript(t) PROVE ReturnsTo'
  BY <1>2 DEF EndScript, AfterScript
<1>3. ASSUME NEW t \in Threads, Listen(t) PROVE ReturnsTo'
  <2>1. Newborn(t, "start", "run", "listen", None, "MESSAGED")
    BY <1>3, Newborns
  <2>2. /\ pc[t] = "run"
        /\ t \in Workers => routine[t] \in {"connect", "callback", "incoming"}
    BY <1>3 DEF Listen, AtPoints, Points, Scripting, Ends
  <2> QED
    BY <2>1, <2>2, SMTT(30) DEF Newborn
<1>4. ASSUME NEW t \in Threads, NEW f \in Fd, Connect(t, f) PROVE ReturnsTo'
  <2>1. Newborn(t, "start", "run", "connect", f, "MESSAGED")
    BY <1>4, Newborns
  <2>2. /\ pc[t] = "run"
        /\ t \in Workers => routine[t] \in {"connect", "callback", "incoming"}
    BY <1>4 DEF Connect, AtPoints, Points, Scripting, Ends
  <2> QED
    BY <2>1, <2>2 DEF Newborn
<1>5. ASSUME NEW t \in Threads, NEW f \in Fd, SendNew(t, f) PROVE ReturnsTo'
  <2>1. Newborn(t, "start", "run", "send", f, "MESSAGED")
    BY <1>5, Newborns
  <2>2. /\ pc[t] = "run"
        /\ t \in Workers => routine[t] \in {"connect", "callback", "incoming"}
    BY <1>5 DEF SendNew, AtPoints, Points, Scripting, Ends
  <2> QED
    BY <2>1, <2>2 DEF Newborn
<1>6. ASSUME NEW t \in Threads, NEW f \in Fd, SendMore(t, f) PROVE ReturnsTo'
  BY <1>6 DEF SendMore
<1>7. ASSUME NEW t \in Threads, StartThread(t) PROVE ReturnsTo'
  <2>1. /\ child[t] \in Workers /\ child[t] # t
        /\ pc'[t] = ret[t] /\ pc'[child[t]] = Entry(routine[child[t]])
        /\ \A z \in Threads \ {t, child[t]} : pc'[z] = pc[z]
        /\ pc[t] \in {"start", "startFree"}
    BY <1>7 DEF StartThread, OneStarter, Begins, TypeOK
  <2>2. /\ Entry(routine[child[t]]) \notin {"start", "unstart", "startFree", "unstartFree"}
        /\ ret[t] \notin {"start", "unstart", "startFree", "unstartFree"}
        /\ routine' = routine /\ ret' = [ret EXCEPT ![t] = "run"]
    BY <1>7 DEF StartThread, Entry
  <2> QED
    BY <2>1, <2>2
<1>8. ASSUME NEW t \in Threads, FailToStart(t) PROVE ReturnsTo'
  <2>1. /\ child[t] \in Workers /\ child[t] # t
        /\ pc'[t] = IF pc[t] = "start" THEN "unstart" ELSE "unstartFree"
        /\ pc'[child[t]] = "dead" /\ pc[t] \in {"start", "startFree"}
        /\ \A z \in Threads \ {t, child[t]} : pc'[z] = pc[z]
    BY <1>8 DEF FailToStart, OneStarter, Begins
  <2>2. routine' = routine /\ ret' = ret
    BY <1>8 DEF FailToStart
  <2> QED
    BY <2>1, <2>2
<1>9. ASSUME NEW t \in Threads, Unstart(t) PROVE ReturnsTo'
  BY <1>9 DEF Unstart
<1>10. ASSUME NEW t \in Threads, SwitchIn(t) PROVE ReturnsTo'
  BY <1>10 DEF SwitchIn
<1>11. ASSUME NEW t \in Threads, AddMore(t) PROVE ReturnsTo'
  BY <1>11 DEF AddMore
<1>12. ASSUME NEW t \in Threads, AddLength(t) PROVE ReturnsTo'
  BY <1>12 DEF AddLength
<1>13. ASSUME NEW t \in Threads, AddCell(t) PROVE ReturnsTo'
  BY <1>13 DEF AddCell
<1>14. ASSUME NEW w \in Workers, ConnectFails(w) PROVE ReturnsTo'
  BY <1>14 DEF ConnectFails
<1>15. ASSUME NEW w \in Workers, ConnectSucceeds(w) PROVE ReturnsTo'
  BY <1>15 DEF ConnectSucceeds
<1>16. ASSUME NEW w \in Workers, NEW f \in Fd, AcceptPeer(w, f)
       PROVE  ReturnsTo'
  <2>1. Newborn(w, "startFree", "read", "callback", f, "CONNECTED")
    BY <1>16, Newborns
  <2>2. pc[w] = "read" /\ routine[w] = "listen"
    BY <1>16 DEF AcceptPeer
  <2> QED
    BY <2>1, <2>2 DEF Newborn
<1>17. ASSUME NEW w \in Workers, NEW f \in Fd, ReadMessage(w, f)
       PROVE  ReturnsTo'
  BY <1>17 DEF ReadMessage
<1>18. ASSUME NEW w \in Workers, NEW f \in Fd, ReadEnd(w, f) PROVE ReturnsTo'
  <2>1. Newborn(w, "startFree",
                IF routine[w] = "listen" THEN "read" ELSE "wrap",
                "callback", f, "DISCONNECTED")
    BY <1>18, Newborns
  <2>2. pc[w] = "read"
    BY <1>18 DEF ReadEnd
  <2> QED
    BY <2>1, <2>2 DEF Newborn
<1>19. ASSUME NEW w \in Workers, EnqueueNew(w) PROVE ReturnsTo'
  <2>1. Newborn(w, "start", "enqueued", "incoming", fd[w], "MESSAGED")
    BY <1>19, Newborns
  <2>2. /\ pc[w] = "enqueue"
        /\ Reader(routine[w])
    BY <1>19 DEF EnqueueNew, AtPoints, Points, Scripting, Ends
  <2> QED
    BY <2>1, <2>2 DEF Newborn
<1>20. ASSUME NEW w \in Workers, EnqueueMore(w) PROVE ReturnsTo'
  BY <1>20 DEF EnqueueMore
<1>21. ASSUME NEW w \in Workers, Enqueued(w) PROVE ReturnsTo'
  BY <1>21 DEF Enqueued
<1>22. ASSUME NEW w \in Workers, Dequeue(w) PROVE ReturnsTo'
  BY <1>22 DEF Dequeue
<1>23. ASSUME NEW w \in Workers, DequeueLast(w) PROVE ReturnsTo'
  BY <1>23 DEF DequeueLast
<1>24. ASSUME NEW w \in Workers, Callback(w) PROVE ReturnsTo'
  BY <1>24 DEF Callback
<1>25. ASSUME NEW w \in Workers, TakeToSend(w) PROVE ReturnsTo'
  BY <1>25 DEF TakeToSend
<1>26. ASSUME NEW w \in Workers, Shrink(w) PROVE ReturnsTo'
  BY <1>26 DEF Shrink
<1>27. ASSUME NEW w \in Workers, WriteMessage(w) PROVE ReturnsTo'
  BY <1>27 DEF WriteMessage
<1>28. ASSUME NEW w \in Workers, StopSending(w) PROVE ReturnsTo'
  BY <1>28 DEF StopSending
<1>29. ASSUME NEW w \in Workers, ForgetSender(w) PROVE ReturnsTo'
  BY <1>29 DEF ForgetSender
<1>30. ASSUME NEW w \in Workers, Wrap(w) PROVE ReturnsTo'
  BY <1>30 DEF Wrap
<1>31. ASSUME NEW w \in Workers, Leave(w) PROVE ReturnsTo'
  BY <1>31 DEF Leave
<1>32. CASE DelLock
  BY <1>32 DEF DelLock
<1>33. CASE DelCheck
  <2>1. CASE num_threads > 0
    BY <1>33, <2>1 DEF DelCheck
  <2>2. CASE ~(num_threads > 0)
    BY <1>33, <2>2 DEF DelCheck
  <2> QED
    BY <2>1, <2>2
<1>34. CASE DelSleep
  BY <1>34 DEF DelSleep
<1>35. CASE DelWake
  BY <1>35 DEF DelWake
<1>36. CASE DelWoken
  <2>1. CASE num_threads = 0
    BY <1>36, <2>1 DEF DelWoken
  <2>2. CASE ~(num_threads = 0)
    BY <1>36, <2>2 DEF DelWoken
  <2> QED
    BY <2>1, <2>2
<1>37. ASSUME NEW f \in Fd, Arrive(f) PROVE ReturnsTo'
  BY <1>37 DEF Arrive
<1>38. ASSUME NEW f \in Fd, Close(f) PROVE ReturnsTo'
  BY <1>38 DEF Close
<1>39. CASE UNCHANGED vars
  BY <1>39 DEF vars
<1> QED
  BY <1>1, <1>2, <1>3, <1>4, <1>5, <1>6, <1>7, <1>8, <1>9, <1>10, <1>11,
     <1>12, <1>13, <1>14, <1>15, <1>16, <1>17, <1>18, <1>19, <1>20, <1>21,
     <1>22, <1>23, <1>24, <1>25, <1>26, <1>27, <1>28, <1>29, <1>30, <1>31,
     <1>32, <1>33, <1>34, <1>35, <1>36, <1>37, <1>38, <1>39
     DEF Next, Script, Starting, Adding, Reading, Serving, Deleting

(* A thread that is started is one that its starter has made, and no other *)
(* thread starts it.                                                       *)
LEMMA OneStarterStep ==
    ASSUME TypeOK, AtPoints, Unused, OneStarter, [Next]_vars
    PROVE  OneStarter'
<1> USE ConstantFacts DEF Goto, GotoSignalling, EndStart, records, starting,
        queues, sockets, outcome, life, OneStarter, Begins, Unused, Threads
<1>0. /\ pc \in [Threads -> PC] /\ routine \in [Workers -> Routine]
      /\ made \in Nat
      /\ ret \in [Threads -> {"run", "read", "wrap", "enqueued"}]
      /\ child \in [Threads -> Workers \cup {None}]
  BY DEF TypeOK
<1> USE <1>0
<1>1. ASSUME NEW t \in Threads, SwitchOut(t) PROVE OneStarter'
  BY <1>1 DEF SwitchOut
<1>2. ASSUME NEW t \in Threads, EndScript(t) PROVE OneStarter'
  BY <1>2 DEF EndScript, AfterScript
<1>3. ASSUME NEW t \in Threads, Listen(t) PROVE OneStarter'
  <2>1. Newborn(t, "start", "run", "listen", None, "MESSAGED")
    BY <1>3, Newborns
  <2>2. pc[t] = "run"
    BY <1>3 DEF Listen
  <2> QED
    BY <2>1, <2>2, SMTT(30) DEF Newborn
<1>4. ASSUME NEW t \in Threads, NEW f \in Fd, Connect(t, f) PROVE OneStarter'
  <2>1. Newborn(t, "start", "run", "connect", f, "MESSAGED")
    BY <1>4, Newborns
  <2>2. pc[t] = "run"
    BY <1>4 DEF Connect
  <2> QED
    BY <2>1, <2>2 DEF Newborn
<1>5. ASSUME NEW t \in Threads, NEW f \in Fd, SendNew(t, f) PROVE OneStarter'
  <2>1. Newborn(t, "start", "run", "send", f, "MESSAGED")
    BY <1>5, Newborns
  <2>2. pc[t] = "run"
    BY <1>5 DEF SendNew
  <2> QED
    BY <2>1, <2>2 DEF Newborn
<1>6. ASSUME NEW t \in Threads, NEW f \in Fd, SendMore(t, f) PROVE OneStarter'
  BY <1>6 DEF SendMore
<1>7. ASSUME NEW t \in Threads, StartThread(t) PROVE OneStarter'
  <2>1. /\ child[t] \in Workers /\ child[t] # t
        /\ child' = [child EXCEPT ![t] = None]
        /\ pc'[t] = ret[t] /\ pc'[child[t]] = Entry(routine[child[t]])
        /\ \A z \in Threads \ {t, child[t]} : pc'[z] = pc[z]
        /\ pc[t] \in {"start", "startFree"}
    BY <1>7 DEF StartThread, OneStarter, Begins, TypeOK
  <2>2. Entry(routine[child[t]]) \notin Begins /\ ret[t] \notin Begins
    BY DEF Entry
  <2> QED
    BY <2>1, <2>2
<1>8. ASSUME NEW t \in Threads, FailToStart(t) PROVE OneStarter'
  <2>1. /\ child[t] \in Workers /\ child[t] # t
        /\ pc'[t] = IF pc[t] = "start" THEN "unstart" ELSE "unstartFree"
        /\ pc'[child[t]] = "dead" /\ pc[t] \in {"start", "startFree"}
        /\ \A z \in Threads \ {t, child[t]} : pc'[z] = pc[z]
    BY <1>8 DEF FailToStart, OneStarter, Begins
  <2>2. child' = child
    BY <1>8 DEF FailToStart
  <2> QED
    BY <2>1, <2>2
<1>9. ASSUME NEW t \in Threads, Unstart(t) PROVE OneStarter'
  BY <1>9 DEF Unstart
<1>10. ASSUME NEW t \in Threads, SwitchIn(t) PROVE OneStarter'
  BY <1>10 DEF SwitchIn
<1>11. ASSUME NEW t \in Threads, AddMore(t) PROVE OneStarter'
  BY <1>11 DEF AddMore
<1>12. ASSUME NEW t \in Threads, AddLength(t) PROVE OneStarter'
  BY <1>12 DEF AddLength
<1>13. ASSUME NEW t \in Threads, AddCell(t) PROVE OneStarter'
  BY <1>13 DEF AddCell
<1>14. ASSUME NEW w \in Workers, ConnectFails(w) PROVE OneStarter'
  BY <1>14 DEF ConnectFails
<1>15. ASSUME NEW w \in Workers, ConnectSucceeds(w) PROVE OneStarter'
  BY <1>15 DEF ConnectSucceeds
<1>16. ASSUME NEW w \in Workers, NEW f \in Fd, AcceptPeer(w, f)
       PROVE  OneStarter'
  <2>1. Newborn(w, "startFree", "read", "callback", f, "CONNECTED")
    BY <1>16, Newborns
  <2>2. pc[w] = "read" /\ routine[w] = "listen"
    BY <1>16 DEF AcceptPeer
  <2> QED
    BY <2>1, <2>2 DEF Newborn
<1>17. ASSUME NEW w \in Workers, NEW f \in Fd, ReadMessage(w, f)
       PROVE  OneStarter'
  BY <1>17 DEF ReadMessage
<1>18. ASSUME NEW w \in Workers, NEW f \in Fd, ReadEnd(w, f) PROVE OneStarter'
  <2>1. Newborn(w, "startFree",
                IF routine[w] = "listen" THEN "read" ELSE "wrap",
                "callback", f, "DISCONNECTED")
    BY <1>18, Newborns
  <2>2. pc[w] = "read"
    BY <1>18 DEF ReadEnd
  <2> QED
    BY <2>1, <2>2 DEF Newborn
<1>19. ASSUME NEW w \in Workers, EnqueueNew(w) PROVE OneStarter'
  <2>1. Newborn(w, "start", "enqueued", "incoming", fd[w], "MESSAGED")
    BY <1>19, Newborns
  <2>2. pc[w] = "enqueue"
    BY <1>19 DEF EnqueueNew
  <2> QED
    BY <2>1, <2>2 DEF Newborn
<1>20. ASSUME NEW w \in Workers, EnqueueMore(w) PROVE OneStarter'
  BY <1>20 DEF EnqueueMore
<1>21. ASSUME NEW w \in Workers, Enqueued(w) PROVE OneStarter'
  BY <1>21 DEF Enqueued
<1>22. ASSUME NEW w \in Workers, Dequeue(w) PROVE OneStarter'
  BY <1>22 DEF Dequeue
<1>23. ASSUME NEW w \in Workers, DequeueLast(w) PROVE OneStarter'
  BY <1>23 DEF DequeueLast
<1>24. ASSUME NEW w \in Workers, Callback(w) PROVE OneStarter'
  BY <1>24 DEF Callback
<1>25. ASSUME NEW w \in Workers, TakeToSend(w) PROVE OneStarter'
  BY <1>25 DEF TakeToSend
<1>26. ASSUME NEW w \in Workers, Shrink(w) PROVE OneStarter'
  BY <1>26 DEF Shrink
<1>27. ASSUME NEW w \in Workers, WriteMessage(w) PROVE OneStarter'
  BY <1>27 DEF WriteMessage
<1>28. ASSUME NEW w \in Workers, StopSending(w) PROVE OneStarter'
  BY <1>28 DEF StopSending
<1>29. ASSUME NEW w \in Workers, ForgetSender(w) PROVE OneStarter'
  BY <1>29 DEF ForgetSender
<1>30. ASSUME NEW w \in Workers, Wrap(w) PROVE OneStarter'
  BY <1>30 DEF Wrap
<1>31. ASSUME NEW w \in Workers, Leave(w) PROVE OneStarter'
  BY <1>31 DEF Leave
<1>32. CASE DelLock
  BY <1>32 DEF DelLock
<1>33. CASE DelCheck
  <2>1. CASE num_threads > 0
    BY <1>33, <2>1 DEF DelCheck
  <2>2. CASE ~(num_threads > 0)
    BY <1>33, <2>2 DEF DelCheck
  <2> QED
    BY <2>1, <2>2
<1>34. CASE DelSleep
  BY <1>34 DEF DelSleep
<1>35. CASE DelWake
  BY <1>35 DEF DelWake
<1>36. CASE DelWoken
  <2>1. CASE num_threads = 0
    BY <1>36, <2>1 DEF DelWoken
  <2>2. CASE ~(num_threads = 0)
    BY <1>36, <2>2 DEF DelWoken
  <2> QED
    BY <2>1, <2>2
<1>37. ASSUME NEW f \in Fd, Arrive(f) PROVE OneStarter'
  BY <1>37 DEF Arrive
<1>38. ASSUME NEW f \in Fd, Close(f) PROVE OneStarter'
  BY <1>38 DEF Close
<1>39. CASE UNCHANGED vars
  BY <1>39 DEF vars
<1> QED
  BY <1>1, <1>2, <1>3, <1>4, <1>5, <1>6, <1>7, <1>8, <1>9, <1>10, <1>11,
     <1>12, <1>13, <1>14, <1>15, <1>16, <1>17, <1>18, <1>19, <1>20, <1>21,
     <1>22, <1>23, <1>24, <1>25, <1>26, <1>27, <1>28, <1>29, <1>30, <1>31,
     <1>32, <1>33, <1>34, <1>35, <1>36, <1>37, <1>38, <1>39
     DEF Next, Script, Starting, Adding, Reading, Serving, Deleting

(* The GIL is held at the points of Holding.                               *)
LEMMA HolderStep ==
    ASSUME TypeOK, AtPoints, Unused, ReturnsTo, OneStarter, OneHolder,
           [Next]_vars
    PROVE  OneHolder'
<1> USE ConstantFacts DEF Goto, GotoSignalling, EndStart, records, starting,
        queues, sockets, outcome, life, OneHolder, Holding, Lock, Unlock, Main,
        None, Threads, Workers
<1>0. /\ pc \in [Threads -> PC] /\ routine \in [Workers -> Routine]
      /\ made \in Nat
      /\ ret \in [Threads -> {"run", "read", "wrap", "enqueued"}]
  BY SMTT(30) DEF TypeOK
<1> USE <1>0
<1>1. ASSUME NEW t \in Threads, SwitchOut(t) PROVE OneHolder'
  BY <1>1 DEF SwitchOut
<1>2. ASSUME NEW t \in Threads, EndScript(t) PROVE OneHolder'
  BY <1>2 DEF EndScript, AfterScript
<1>3. ASSUME NEW t \in Threads, Listen(t) PROVE OneHolder'
  <2>1. Newborn(t, "start", "run", "listen", None, "MESSAGED")
    BY <1>3, Newborns
  <2>2. /\ pc[t] = "run"
        /\ gil' = gil
    BY <1>3 DEF Listen
  <2> QED
    BY <2>1, <2>2, SMTT(30) DEF Newborn
<1>4. ASSUME NEW t \in Threads, NEW f \in Fd, Connect(t, f) PROVE OneHolder'
  <2>1. Newborn(t, "start", "run", "connect", f, "MESSAGED")
    BY <1>4, Newborns
  <2>2. /\ pc[t] = "run"
        /\ gil' = gil
    BY <1>4 DEF Connect
  <2> QED
    BY <2>1, <2>2 DEF Newborn
<1>5. ASSUME NEW t \in Threads, NEW f \in Fd, SendNew(t, f) PROVE OneHolder'
  <2>1. Newborn(t, "start", "run", "send", f, "MESSAGED")
    BY <1>5, Newborns
  <2>2. /\ pc[t] = "run"
        /\ gil' = gil
    BY <1>5 DEF SendNew
  <2> QED
    BY <2>1, <2>2 DEF Newborn
<1>6. ASSUME NEW t \in Threads, NEW f \in Fd, SendMore(t, f) PROVE OneHolder'
  BY <1>6 DEF SendMore
<1>7. ASSUME NEW t \in Threads, StartThread(t) PROVE OneHolder'
  <2>1. /\ child[t] \in Workers /\ child[t] # t
        /\ pc'[t] = ret[t] /\ pc'[child[t]] = Entry(routine[child[t]])
        /\ \A z \in Threads \ {t, child[t]} : pc'[z] = pc[z]
        /\ pc[t] \in {"start", "startFree"}
    BY <1>7 DEF StartThread, OneStarter, Begins, TypeOK
  <2>2. /\ pc[t] = "start" => ret[t] \in {"run", "enqueued"}
        /\ pc[t] = "startFree" => ret[t] \in {"read", "wrap"}
        /\ Entry(routine[child[t]]) \notin Holding
        /\ pc[child[t]] = "made" /\ gil' = gil
    BY <1>7, Entries DEF StartThread, ReturnsTo, OneStarter, Begins
  <2> QED
    BY <2>1, <2>2
<1>8. ASSUME NEW t \in Threads, FailToStart(t) PROVE OneHolder'
  <2>1. /\ child[t] \in Workers /\ child[t] # t
        /\ pc'[t] = IF pc[t] = "start" THEN "unstart" ELSE "unstartFree"
        /\ pc'[child[t]] = "dead" /\ pc[t] \in {"start", "startFree"}
        /\ \A z \in Threads \ {t, child[t]} : pc'[z] = pc[z]
    BY <1>8 DEF FailToStart, OneStarter, Begins
  <2>2. pc[child[t]] = "made" /\ gil' = gil
    BY <1>8 DEF FailToStart, OneStarter, Begins
  <2> QED
    BY <2>1, <2>2
<1>9. ASSUME NEW t \in Threads, Unstart(t) PROVE OneHolder'
  <2>1. /\ pc[t] = "unstart" => ret[t] \in {"run", "enqueued"}
        /\ pc[t] = "unstartFree" => ret[t] \in {"read", "wrap"}
    BY <1>9 DEF Unstart, ReturnsTo
  <2> QED
    BY <1>9, <2>1 DEF Unstart
<1>10. ASSUME NEW t \in Threads, SwitchIn(t) PROVE OneHolder'
  BY <1>10 DEF SwitchIn
<1>11. ASSUME NEW t \in Threads, AddMore(t) PROVE OneHolder'
  BY <1>11 DEF AddMore
<1>12. ASSUME NEW t \in Threads, AddLength(t) PROVE OneHolder'
  BY <1>12 DEF AddLength
<1>13. ASSUME NEW t \in Threads, AddCell(t) PROVE OneHolder'
  BY <1>13 DEF AddCell
<1>14. ASSUME NEW w \in Workers, ConnectFails(w) PROVE OneHolder'
  BY <1>14 DEF ConnectFails
<1>15. ASSUME NEW w \in Workers, ConnectSucceeds(w) PROVE OneHolder'
  BY <1>15 DEF ConnectSucceeds
<1>16. ASSUME NEW w \in Workers, NEW f \in Fd, AcceptPeer(w, f)
       PROVE  OneHolder'
  <2>1. Newborn(w, "startFree", "read", "callback", f, "CONNECTED")
    BY <1>16, Newborns
  <2>2. /\ pc[w] = "read" /\ routine[w] = "listen"
        /\ gil' = gil
    BY <1>16 DEF AcceptPeer
  <2> QED
    BY <2>1, <2>2 DEF Newborn
<1>17. ASSUME NEW w \in Workers, NEW f \in Fd, ReadMessage(w, f)
       PROVE  OneHolder'
  BY <1>17 DEF ReadMessage
<1>18. ASSUME NEW w \in Workers, NEW f \in Fd, ReadEnd(w, f) PROVE OneHolder'
  <2>1. Newborn(w, "startFree",
                IF routine[w] = "listen" THEN "read" ELSE "wrap",
                "callback", f, "DISCONNECTED")
    BY <1>18, Newborns
  <2>2. /\ pc[w] = "read"
        /\ gil' = gil
    BY <1>18 DEF ReadEnd
  <2> QED
    BY <2>1, <2>2 DEF Newborn
<1>19. ASSUME NEW w \in Workers, EnqueueNew(w) PROVE OneHolder'
  <2>1. Newborn(w, "start", "enqueued", "incoming", fd[w], "MESSAGED")
    BY <1>19, Newborns
  <2>2. /\ pc[w] = "enqueue"
        /\ gil = None /\ gil' = w
    BY <1>19 DEF EnqueueNew
  <2> QED
    BY <2>1, <2>2 DEF Newborn
<1>20. ASSUME NEW w \in Workers, EnqueueMore(w) PROVE OneHolder'
  BY <1>20 DEF EnqueueMore
<1>21. ASSUME NEW w \in Workers, Enqueued(w) PROVE OneHolder'
  BY <1>21 DEF Enqueued
<1>22. ASSUME NEW w \in Workers, Dequeue(w) PROVE OneHolder'
  BY <1>22 DEF Dequeue
<1>23. ASSUME NEW w \in Workers, DequeueLast(w) PROVE OneHolder'
  BY <1>23 DEF DequeueLast
<1>24. ASSUME NEW w \in Workers, Callback(w) PROVE OneHolder'
  BY <1>24 DEF Callback
<1>25. ASSUME NEW w \in Workers, TakeToSend(w) PROVE OneHolder'
  BY <1>25 DEF TakeToSend
<1>26. ASSUME NEW w \in Workers, Shrink(w) PROVE OneHolder'
  BY <1>26 DEF Shrink
<1>27. ASSUME NEW w \in Workers, WriteMessage(w) PROVE OneHolder'
  BY <1>27 DEF WriteMessage
<1>28. ASSUME NEW w \in Workers, StopSending(w) PROVE OneHolder'
  BY <1>28 DEF StopSending
<1>29. ASSUME NEW w \in Workers, ForgetSender(w) PROVE OneHolder'
  BY <1>29 DEF ForgetSender
<1>30. ASSUME NEW w \in Workers, Wrap(w) PROVE OneHolder'
  BY <1>30 DEF Wrap
<1>31. ASSUME NEW w \in Workers, Leave(w) PROVE OneHolder'
  BY <1>31 DEF Leave
<1>32. CASE DelLock
  BY <1>32 DEF DelLock
<1>33. CASE DelCheck
  <2>1. CASE num_threads > 0
    BY <1>33, <2>1 DEF DelCheck
  <2>2. CASE ~(num_threads > 0)
    BY <1>33, <2>2 DEF DelCheck
  <2> QED
    BY <2>1, <2>2
<1>34. CASE DelSleep
  BY <1>34 DEF DelSleep
<1>35. CASE DelWake
  BY <1>35 DEF DelWake
<1>36. CASE DelWoken
  <2>1. CASE num_threads = 0
    BY <1>36, <2>1 DEF DelWoken
  <2>2. CASE ~(num_threads = 0)
    BY <1>36, <2>2 DEF DelWoken
  <2> QED
    BY <2>1, <2>2
<1>37. ASSUME NEW f \in Fd, Arrive(f) PROVE OneHolder'
  BY <1>37 DEF Arrive
<1>38. ASSUME NEW f \in Fd, Close(f) PROVE OneHolder'
  BY <1>38 DEF Close
<1>39. CASE UNCHANGED vars
  BY <1>39 DEF vars
<1> QED
  BY <1>1, <1>2, <1>3, <1>4, <1>5, <1>6, <1>7, <1>8, <1>9, <1>10, <1>11,
     <1>12, <1>13, <1>14, <1>15, <1>16, <1>17, <1>18, <1>19, <1>20, <1>21,
     <1>22, <1>23, <1>24, <1>25, <1>26, <1>27, <1>28, <1>29, <1>30, <1>31,
     <1>32, <1>33, <1>34, <1>35, <1>36, <1>37, <1>38, <1>39
     DEF Next, Script, Starting, Adding, Reading, Serving, Deleting

(* Threads have descriptors.                                               *)
LEMMA SubjectStep ==
    ASSUME TypeOK, AtPoints, Unused, ReturnsTo, OneStarter, Subject,
           [Next]_vars
    PROVE  Subject'
<1> USE ConstantFacts DEF Goto, GotoSignalling, EndStart, records, starting,
        queues, sockets, outcome, life, Subject, Threads
<1>0. /\ pc \in [Threads -> PC] /\ routine \in [Workers -> Routine]
      /\ made \in Nat
      /\ fd \in [Workers -> Fd \cup {None}]
  BY DEF TypeOK
<1> USE <1>0
<1>1. ASSUME NEW t \in Threads, SwitchOut(t) PROVE Subject'
  BY <1>1 DEF SwitchOut
<1>2. ASSUME NEW t \in Threads, EndScript(t) PROVE Subject'
  BY <1>2 DEF EndScript, AfterScript
<1>3. ASSUME NEW t \in Threads, Listen(t) PROVE Subject'
  <2>1. Newborn(t, "start", "run", "listen", None, "MESSAGED")
    BY <1>3, Newborns
  <2>2. pc[t] = "run"
    BY <1>3 DEF Listen
  <2> QED
    BY <2>1, <2>2, SMTT(30) DEF Newborn
<1>4. ASSUME NEW t \in Threads, NEW f \in Fd, Connect(t, f) PROVE Subject'
  <2>1. Newborn(t, "start", "run", "connect", f, "MESSAGED")
    BY <1>4, Newborns
  <2>2. pc[t] = "run"
    BY <1>4 DEF Connect
  <2> QED
    BY <2>1, <2>2 DEF Newborn
<1>5. ASSUME NEW t \in Threads, NEW f \in Fd, SendNew(t, f) PROVE Subject'
  <2>1. Newborn(t, "start", "run", "send", f, "MESSAGED")
    BY <1>5, Newborns
  <2>2. pc[t] = "run"
    BY <1>5 DEF SendNew
  <2> QED
    BY <2>1, <2>2 DEF Newborn
<1>6. ASSUME NEW t \in Threads, NEW f \in Fd, SendMore(t, f) PROVE Subject'
  BY <1>6 DEF SendMore
<1>7. ASSUME NEW t \in Threads, StartThread(t) PROVE Subject'
  <2>1. /\ child[t] \in Workers /\ child[t] # t
        /\ pc'[t] = ret[t] /\ pc'[child[t]] = Entry(routine[child[t]])
        /\ \A z \in Threads \ {t, child[t]} : pc'[z] = pc[z]
        /\ pc[t] \in {"start", "startFree"}
    BY <1>7 DEF StartThread, OneStarter, Begins, TypeOK
  <2>2. /\ Entry(routine[child[t]]) # "enqueue" /\ ret[t] # "enqueue"
        /\ pc[child[t]] = "made" /\ fd' = fd /\ routine' = routine
    BY <1>7 DEF StartThread, Entry, OneStarter, Begins, TypeOK
  <2> QED
    BY <2>1, <2>2
<1>8. ASSUME NEW t \in Threads, FailToStart(t) PROVE Subject'
  <2>1. /\ child[t] \in Workers /\ child[t] # t
        /\ pc'[t] = IF pc[t] = "start" THEN "unstart" ELSE "unstartFree"
        /\ pc'[child[t]] = "dead" /\ pc[t] \in {"start", "startFree"}
        /\ \A z \in Threads \ {t, child[t]} : pc'[z] = pc[z]
    BY <1>8 DEF FailToStart, OneStarter, Begins
  <2>2. pc[child[t]] = "made" /\ fd' = fd /\ routine' = routine
    BY <1>8 DEF FailToStart, OneStarter, Begins
  <2> QED
    BY <2>1, <2>2
<1>9. ASSUME NEW t \in Threads, Unstart(t) PROVE Subject'
  <2>1. ret[t] # "enqueue"
    BY DEF TypeOK
  <2> QED
    BY <1>9, <2>1 DEF Unstart
<1>10. ASSUME NEW t \in Threads, SwitchIn(t) PROVE Subject'
  BY <1>10 DEF SwitchIn
<1>11. ASSUME NEW t \in Threads, AddMore(t) PROVE Subject'
  BY <1>11 DEF AddMore
<1>12. ASSUME NEW t \in Threads, AddLength(t) PROVE Subject'
  BY <1>12 DEF AddLength
<1>13. ASSUME NEW t \in Threads, AddCell(t) PROVE Subject'
  BY <1>13 DEF AddCell
<1>14. ASSUME NEW w \in Workers, ConnectFails(w) PROVE Subject'
  BY <1>14 DEF ConnectFails
<1>15. ASSUME NEW w \in Workers, ConnectSucceeds(w) PROVE Subject'
  BY <1>15 DEF ConnectSucceeds
<1>16. ASSUME NEW w \in Workers, NEW f \in Fd, AcceptPeer(w, f) PROVE Subject'
  <2>1. Newborn(w, "startFree", "read", "callback", f, "CONNECTED")
    BY <1>16, Newborns
  <2>2. pc[w] = "read" /\ routine[w] = "listen"
    BY <1>16 DEF AcceptPeer
  <2> QED
    BY <2>1, <2>2 DEF Newborn
<1>17. ASSUME NEW w \in Workers, NEW f \in Fd, ReadMessage(w, f) PROVE Subject'
  BY <1>17 DEF ReadMessage
<1>18. ASSUME NEW w \in Workers, NEW f \in Fd, ReadEnd(w, f) PROVE Subject'
  <2>1. Newborn(w, "startFree",
                IF routine[w] = "listen" THEN "read" ELSE "wrap",
                "callback", f, "DISCONNECTED")
    BY <1>18, Newborns
  <2>2. pc[w] = "read"
    BY <1>18 DEF ReadEnd
  <2> QED
    BY <2>1, <2>2 DEF Newborn
<1>19. ASSUME NEW w \in Workers, EnqueueNew(w) PROVE Subject'
  <2>1. Newborn(w, "start", "enqueued", "incoming", fd[w], "MESSAGED")
    BY <1>19, Newborns
  <2>2. /\ pc[w] = "enqueue"
        /\ fd[w] \in Fd
    BY <1>19 DEF EnqueueNew
  <2> QED
    BY <2>1, <2>2 DEF Newborn
<1>20. ASSUME NEW w \in Workers, EnqueueMore(w) PROVE Subject'
  BY <1>20 DEF EnqueueMore
<1>21. ASSUME NEW w \in Workers, Enqueued(w) PROVE Subject'
  BY <1>21 DEF Enqueued
<1>22. ASSUME NEW w \in Workers, Dequeue(w) PROVE Subject'
  BY <1>22 DEF Dequeue
<1>23. ASSUME NEW w \in Workers, DequeueLast(w) PROVE Subject'
  BY <1>23 DEF DequeueLast
<1>24. ASSUME NEW w \in Workers, Callback(w) PROVE Subject'
  BY <1>24 DEF Callback
<1>25. ASSUME NEW w \in Workers, TakeToSend(w) PROVE Subject'
  BY <1>25 DEF TakeToSend
<1>26. ASSUME NEW w \in Workers, Shrink(w) PROVE Subject'
  BY <1>26 DEF Shrink
<1>27. ASSUME NEW w \in Workers, WriteMessage(w) PROVE Subject'
  BY <1>27 DEF WriteMessage
<1>28. ASSUME NEW w \in Workers, StopSending(w) PROVE Subject'
  BY <1>28 DEF StopSending
<1>29. ASSUME NEW w \in Workers, ForgetSender(w) PROVE Subject'
  BY <1>29 DEF ForgetSender
<1>30. ASSUME NEW w \in Workers, Wrap(w) PROVE Subject'
  BY <1>30 DEF Wrap
<1>31. ASSUME NEW w \in Workers, Leave(w) PROVE Subject'
  BY <1>31 DEF Leave
<1>32. CASE DelLock
  BY <1>32 DEF DelLock
<1>33. CASE DelCheck
  <2>1. CASE num_threads > 0
    BY <1>33, <2>1 DEF DelCheck
  <2>2. CASE ~(num_threads > 0)
    BY <1>33, <2>2 DEF DelCheck
  <2> QED
    BY <2>1, <2>2
<1>34. CASE DelSleep
  BY <1>34 DEF DelSleep
<1>35. CASE DelWake
  BY <1>35 DEF DelWake
<1>36. CASE DelWoken
  <2>1. CASE num_threads = 0
    BY <1>36, <2>1 DEF DelWoken
  <2>2. CASE ~(num_threads = 0)
    BY <1>36, <2>2 DEF DelWoken
  <2> QED
    BY <2>1, <2>2
<1>37. ASSUME NEW f \in Fd, Arrive(f) PROVE Subject'
  BY <1>37 DEF Arrive
<1>38. ASSUME NEW f \in Fd, Close(f) PROVE Subject'
  BY <1>38 DEF Close
<1>39. CASE UNCHANGED vars
  BY <1>39 DEF vars
<1> QED
  BY <1>1, <1>2, <1>3, <1>4, <1>5, <1>6, <1>7, <1>8, <1>9, <1>10, <1>11,
     <1>12, <1>13, <1>14, <1>15, <1>16, <1>17, <1>18, <1>19, <1>20, <1>21,
     <1>22, <1>23, <1>24, <1>25, <1>26, <1>27, <1>28, <1>29, <1>30, <1>31,
     <1>32, <1>33, <1>34, <1>35, <1>36, <1>37, <1>38, <1>39
     DEF Next, Script, Starting, Adding, Reading, Serving, Deleting

(* The table names servers.                                                *)
LEMMA NamedStep ==
    ASSUME TypeOK, AtPoints, Unused, ReturnsTo, OneStarter, Subject, Named,
           Serves, [Next]_vars
    PROVE  Named'
<1> USE ConstantFacts DEF Goto, GotoSignalling, EndStart, records, starting,
        queues, sockets, outcome, life, Server, Left, Main, Threads
<1>0. /\ pc \in [Threads -> PC] /\ routine \in [Workers -> Routine]
      /\ made \in Nat
      /\ fd \in [Workers -> Fd \cup {None}]
      /\ threads \in [Fd \X Use -> Workers \cup {None}]
  BY DEF TypeOK
<1> USE <1>0
<1> SUFFICES ASSUME NEW g \in Fd, NEW u \in Use, NEW v \in Workers,
                    threads'[<<g, u>>] = v
             PROVE  /\ fd'[v] = g /\ routine'[v] = Server(u)
                    /\ pc'[v] \notin Left \cup {"unused"}
  BY DEF Named
<1> DEFINE Goal == /\ fd'[v] = g /\ routine'[v] = Server(u)
                   /\ pc'[v] \notin Left \cup {"unused"}
<1>a. threads[<<g, u>>] = v =>
         fd[v] = g /\ routine[v] = Server(u) /\ pc[v] \notin Left \cup {"unused"}
  BY DEF Named
<1> USE <1>a
<1>1. ASSUME NEW t \in Threads, SwitchOut(t) PROVE Goal
  BY <1>1 DEF SwitchOut
<1>2. ASSUME NEW t \in Threads, EndScript(t) PROVE Goal
  <2>1. \/ AfterScript(t) \notin Left \cup {"unused", "dead"}
        \/ t \in Workers /\ routine[t] = "callback" /\ AfterScript(t) = "wrap"
    BY <1>2 DEF EndScript, AfterScript, AtPoints, Points, Scripting, Ends
  <2> QED
    BY <1>2, <2>1 DEF EndScript
<1>3. ASSUME NEW t \in Threads, Listen(t) PROVE Goal
  <2>1. Newborn(t, "start", "run", "listen", None, "MESSAGED")
    BY <1>3, Newborns
  <2>2. /\ pc[t] = "run"
        /\ threads' = threads
    BY <1>3 DEF Listen
  <2> QED
    BY <2>1, <2>2, SMTT(30) DEF Newborn, Use
<1>4. ASSUME NEW t \in Threads, NEW f \in Fd, Connect(t, f) PROVE Goal
  <2>1. Newborn(t, "start", "run", "connect", f, "MESSAGED")
    BY <1>4, Newborns
  <2>2. /\ pc[t] = "run"
        /\ threads' = threads
    BY <1>4 DEF Connect
  <2> QED
    BY <2>1, <2>2 DEF Newborn, Use
<1>5. ASSUME NEW t \in Threads, NEW f \in Fd, SendNew(t, f) PROVE Goal
  <2>1. Newborn(t, "start", "run", "send", f, "MESSAGED")
    BY <1>5, Newborns
  <2>2. /\ pc[t] = "run"
        /\ threads[<<f, "SEND">>] = None
        /\ threads' = [threads EXCEPT ![<<f, "SEND">>] = made + 1]
    BY <1>5 DEF SendNew, NoThread
  <2> QED
    BY <2>1, <2>2 DEF Newborn, Use
<1>6. ASSUME NEW t \in Threads, NEW f \in Fd, SendMore(t, f) PROVE Goal
  BY <1>6 DEF SendMore
<1>7. ASSUME NEW t \in Threads, StartThread(t) PROVE Goal
  <2>1. /\ child[t] \in Workers /\ child[t] # t
        /\ pc'[t] = ret[t] /\ pc'[child[t]] = Entry(routine[child[t]])
        /\ \A z \in Threads \ {t, child[t]} : pc'[z] = pc[z]
        /\ pc[t] \in {"start", "startFree"}
    BY <1>7 DEF StartThread, OneStarter, Begins, TypeOK
  <2>2. /\ Entry(routine[child[t]]) \notin Left \cup {"unused", "dead"}
        /\ pc[child[t]] = "made" /\ fd' = fd /\ routine' = routine
        /\ threads' = threads
        /\ \/ ret[t] \notin Left \cup {"unused", "dead"}
           \/ t \in Workers /\ Reader(routine[t]) /\ ret[t] = "wrap"
    BY <1>7 DEF StartThread, Entry, OneStarter, Begins, ReturnsTo, AtPoints,
       Points,
              Scripting, Ends, Reader, MainPoints
  <2> QED
    BY <2>1, <2>2 DEF Reader
<1>8. ASSUME NEW t \in Threads, FailToStart(t) PROVE Goal
  <2>1. /\ child[t] \in Workers /\ child[t] # t
        /\ pc'[t] = IF pc[t] = "start" THEN "unstart" ELSE "unstartFree"
        /\ pc'[child[t]] = "dead" /\ pc[t] \in {"start", "startFree"}
        /\ \A z \in Threads \ {t, child[t]} : pc'[z] = pc[z]
    BY <1>8 DEF FailToStart, OneStarter, Begins
  <2>2. /\ pc[child[t]] = "made" /\ fd' = fd /\ routine' = routine
        /\ threads' = threads
    BY <1>8 DEF FailToStart, OneStarter, Begins
  <2> QED
    BY <2>1, <2>2
<1>9. ASSUME NEW t \in Threads, Unstart(t) PROVE Goal
  <2>1. \/ ret[t] \notin Left \cup {"unused", "dead"}
        \/ t \in Workers /\ Reader(routine[t]) /\ ret[t] = "wrap"
    BY <1>9 DEF Unstart, ReturnsTo, AtPoints, Points, Scripting, Ends, Reader,
              MainPoints
  <2> QED
    BY <1>9, <2>1 DEF Unstart, Reader
<1>10. ASSUME NEW t \in Threads, SwitchIn(t) PROVE Goal
  BY <1>10 DEF SwitchIn
<1>11. ASSUME NEW t \in Threads, AddMore(t) PROVE Goal
  BY <1>11 DEF AddMore
<1>12. ASSUME NEW t \in Threads, AddLength(t) PROVE Goal
  BY <1>12 DEF AddLength
<1>13. ASSUME NEW t \in Threads, AddCell(t) PROVE Goal
  BY <1>13 DEF AddCell
<1>14. ASSUME NEW w \in Workers, ConnectFails(w) PROVE Goal
  <2>1. routine[w] = "connect"
    BY <1>14 DEF ConnectFails, AtPoints, Points, Scripting, Ends
  <2> QED
    BY <1>14, <2>1 DEF ConnectFails
<1>15. ASSUME NEW w \in Workers, ConnectSucceeds(w) PROVE Goal
  BY <1>15 DEF ConnectSucceeds
<1>16. ASSUME NEW w \in Workers, NEW f \in Fd, AcceptPeer(w, f) PROVE Goal
  <2>1. Newborn(w, "startFree", "read", "callback", f, "CONNECTED")
    BY <1>16, Newborns
  <2>2. /\ pc[w] = "read" /\ routine[w] = "listen"
        /\ threads' = threads
    BY <1>16 DEF AcceptPeer
  <2> QED
    BY <2>1, <2>2 DEF Newborn, Use
<1>17. ASSUME NEW w \in Workers, NEW f \in Fd, ReadMessage(w, f) PROVE Goal
  <2>1. Reader(routine[w])
    BY <1>17 DEF ReadMessage, AtPoints, Points, Scripting, Ends, Reader
  <2> QED
    BY <1>17, <2>1 DEF ReadMessage, Reader
<1>18. ASSUME NEW w \in Workers, NEW f \in Fd, ReadEnd(w, f) PROVE Goal
  <2>1. Newborn(w, "startFree",
                IF routine[w] = "listen" THEN "read" ELSE "wrap",
                "callback", f, "DISCONNECTED")
    BY <1>18, Newborns
  <2>2. /\ pc[w] = "read"
        /\ threads' = threads
    BY <1>18 DEF ReadEnd
  <2> QED
    BY <2>1, <2>2 DEF Newborn, Use
<1>19. ASSUME NEW w \in Workers, EnqueueNew(w) PROVE Goal
  <2>1. Newborn(w, "start", "enqueued", "incoming", fd[w], "MESSAGED")
    BY <1>19, Newborns
  <2>2. /\ pc[w] = "enqueue"
        /\ threads[<<fd[w], "RECV">>] = None /\ Reader(routine[w])
        /\ fd[w] \in Fd
        /\ threads' = [threads EXCEPT ![<<fd[w], "RECV">>] = made + 1]
    BY <1>19 DEF EnqueueNew, NoThread, AtPoints, Points, Scripting, Ends,
       Reader, Subject
  <2> QED
    BY <2>1, <2>2 DEF Newborn, Use
<1>20. ASSUME NEW w \in Workers, EnqueueMore(w) PROVE Goal
  BY <1>20 DEF EnqueueMore
<1>21. ASSUME NEW w \in Workers, Enqueued(w) PROVE Goal
  BY <1>21 DEF Enqueued
<1>22. ASSUME NEW w \in Workers, Dequeue(w) PROVE Goal
  BY <1>22 DEF Dequeue
<1>23. ASSUME NEW w \in Workers, DequeueLast(w) PROVE Goal
  <2>1. routine[w] = "incoming" /\ fd[w] \in Fd
    BY <1>23 DEF DequeueLast, AtPoints, Points, Scripting, Ends, Subject
  <2>2. threads[<<fd[w], "RECV">>] = w
    BY <1>23, <2>1 DEF DequeueLast, Serves, Use
  <2>3. /\ threads' = [threads EXCEPT ![<<fd[w], "RECV">>] = None]
        /\ pc' = [pc EXCEPT ![w] = "wrap"] /\ fd' = fd /\ routine' = routine
    BY <1>23 DEF DequeueLast, ThreadDel
  <2> QED
    BY <2>1, <2>2, <2>3 DEF Use
<1>24. ASSUME NEW w \in Workers, Callback(w) PROVE Goal
  BY <1>24 DEF Callback
<1>25. ASSUME NEW w \in Workers, TakeToSend(w) PROVE Goal
  BY <1>25 DEF TakeToSend
<1>26. ASSUME NEW w \in Workers, Shrink(w) PROVE Goal
  BY <1>26 DEF Shrink
<1>27. ASSUME NEW w \in Workers, WriteMessage(w) PROVE Goal
  BY <1>27 DEF WriteMessage
<1>28. ASSUME NEW w \in Workers, StopSending(w) PROVE Goal
  BY <1>28 DEF StopSending
<1>29. ASSUME NEW w \in Workers, ForgetSender(w) PROVE Goal
  <2>1. routine[w] = "send" /\ fd[w] \in Fd
    BY <1>29 DEF ForgetSender, AtPoints, Points, Scripting, Ends, Subject,
       Routine
  <2>2. threads[<<fd[w], "SEND">>] = w
    BY <1>29, <2>1 DEF ForgetSender, Serves, Use
  <2>3. /\ threads' = [threads EXCEPT ![<<fd[w], "SEND">>] = None]
        /\ pc' = [pc EXCEPT ![w] = "wrap"] /\ fd' = fd /\ routine' = routine
    BY <1>29 DEF ForgetSender, ThreadDel
  <2> QED
    BY <2>1, <2>2, <2>3 DEF Use
<1>30. ASSUME NEW w \in Workers, Wrap(w) PROVE Goal
  BY <1>30 DEF Wrap
<1>31. ASSUME NEW w \in Workers, Leave(w) PROVE Goal
  BY <1>31 DEF Leave
<1>32. ASSUME DelLock PROVE Goal
  BY <1>32 DEF DelLock
<1>33. ASSUME DelCheck PROVE Goal
  <2>1. CASE num_threads > 0
    BY <1>33, <2>1 DEF DelCheck
  <2>2. CASE ~(num_threads > 0)
    BY <1>33, <2>2 DEF DelCheck
  <2> QED
    BY <2>1, <2>2
<1>34. ASSUME DelSleep PROVE Goal
  BY <1>34 DEF DelSleep
<1>35. ASSUME DelWake PROVE Goal
  BY <1>35 DEF DelWake
<1>36. ASSUME DelWoken PROVE Goal
  <2>1. CASE num_threads = 0
    BY <1>36, <2>1 DEF DelWoken
  <2>2. CASE ~(num_threads = 0)
    BY <1>36, <2>2 DEF DelWoken
  <2> QED
    BY <2>1, <2>2
<1>37. ASSUME NEW f \in Fd, Arrive(f) PROVE Goal
  BY <1>37 DEF Arrive
<1>38. ASSUME NEW f \in Fd, Close(f) PROVE Goal
  BY <1>38 DEF Close
<1>39. ASSUME UNCHANGED vars PROVE Goal
  BY <1>39 DEF vars
<1> QED
  BY <1>1, <1>2, <1>3, <1>4, <1>5, <1>6, <1>7, <1>8, <1>9, <1>10, <1>11,
     <1>12, <1>13, <1>14, <1>15, <1>16, <1>17, <1>18, <1>19, <1>20, <1>21,
     <1>22, <1>23, <1>24, <1>25, <1>26, <1>27, <1>28, <1>29, <1>30, <1>31,
     <1>32, <1>33, <1>34, <1>35, <1>36, <1>37, <1>38, <1>39
     DEF Next, Script, Starting, Adding, Reading, Serving, Deleting

(* Servers are in the table.                                               *)
LEMMA ServesStep ==
    ASSUME TypeOK, AtPoints, Unused, ReturnsTo, OneStarter, Subject, Named,
           Serves, [Next]_vars
    PROVE  Serves'
<1> USE ConstantFacts DEF Goto, GotoSignalling, EndStart, records, starting,
        queues, sockets, outcome, life, Server, Left, Main, Threads
<1>0. /\ pc \in [Threads -> PC] /\ routine \in [Workers -> Routine]
      /\ made \in Nat
      /\ fd \in [Workers -> Fd \cup {None}]
      /\ threads \in [Fd \X Use -> Workers \cup {None}]
  BY DEF TypeOK
<1> USE <1>0
<1> SUFFICES ASSUME NEW v \in Workers, NEW u \in Use, routine'[v] = Server(u),
                    pc'[v] \notin Left \cup {"unused", "dead"}
             PROVE  threads'[<<fd'[v], u>>] = v
  BY DEF Serves
<1> DEFINE Goal == threads'[<<fd'[v], u>>] = v
<1>a. routine[v] = Server(u) /\ pc[v] \notin Left \cup {"unused", "dead"}
         => threads[<<fd[v], u>>] = v
  BY DEF Serves
<1> USE <1>a
<1>1. ASSUME NEW t \in Threads, SwitchOut(t) PROVE Goal
  BY <1>1 DEF SwitchOut
<1>2. ASSUME NEW t \in Threads, EndScript(t) PROVE Goal
  <2>1. \/ AfterScript(t) \notin Left \cup {"unused", "dead"}
        \/ t \in Workers /\ routine[t] = "callback" /\ AfterScript(t) = "wrap"
    BY <1>2 DEF EndScript, AfterScript, AtPoints, Points, Scripting, Ends
  <2> QED
    BY <1>2, <2>1 DEF EndScript
<1>3. ASSUME NEW t \in Threads, Listen(t) PROVE Goal
  <2>1. Newborn(t, "start", "run", "listen", None, "MESSAGED")
    BY <1>3, Newborns
  <2>2. /\ pc[t] = "run"
        /\ threads' = threads
    BY <1>3 DEF Listen
  <2> QED
    BY <2>1, <2>2, SMTT(30) DEF Newborn, Use
<1>4. ASSUME NEW t \in Threads, NEW f \in Fd, Connect(t, f) PROVE Goal
  <2>1. Newborn(t, "start", "run", "connect", f, "MESSAGED")
    BY <1>4, Newborns
  <2>2. /\ pc[t] = "run"
        /\ threads' = threads
    BY <1>4 DEF Connect
  <2> QED
    BY <2>1, <2>2 DEF Newborn, Use
<1>5. ASSUME NEW t \in Threads, NEW f \in Fd, SendNew(t, f) PROVE Goal
  <2>1. Newborn(t, "start", "run", "send", f, "MESSAGED")
    BY <1>5, Newborns
  <2>2. /\ pc[t] = "run"
        /\ threads[<<f, "SEND">>] = None
        /\ threads' = [threads EXCEPT ![<<f, "SEND">>] = made + 1]
    BY <1>5 DEF SendNew, NoThread
  <2> QED
    BY <2>1, <2>2 DEF Newborn, Use
<1>6. ASSUME NEW t \in Threads, NEW f \in Fd, SendMore(t, f) PROVE Goal
  BY <1>6 DEF SendMore
<1>7. ASSUME NEW t \in Threads, StartThread(t) PROVE Goal
  <2>1. /\ child[t] \in Workers /\ child[t] # t
        /\ pc'[t] = ret[t] /\ pc'[child[t]] = Entry(routine[child[t]])
        /\ \A z \in Threads \ {t, child[t]} : pc'[z] = pc[z]
        /\ pc[t] \in {"start", "startFree"}
    BY <1>7 DEF StartThread, OneStarter, Begins, TypeOK
  <2>2. /\ Entry(routine[child[t]]) \notin Left \cup {"unused", "dead"}
        /\ pc[child[t]] = "made" /\ fd' = fd /\ routine' = routine
        /\ threads' = threads
        /\ \/ ret[t] \notin Left \cup {"unused", "dead"}
           \/ t \in Workers /\ Reader(routine[t]) /\ ret[t] = "wrap"
    BY <1>7 DEF StartThread, Entry, OneStarter, Begins, ReturnsTo, AtPoints,
       Points,
              Scripting, Ends, Reader, MainPoints
  <2> QED
    BY <2>1, <2>2 DEF Reader
<1>8. ASSUME NEW t \in Threads, FailToStart(t) PROVE Goal
  <2>1. /\ child[t] \in Workers /\ child[t] # t
        /\ pc'[t] = IF pc[t] = "start" THEN "unstart" ELSE "unstartFree"
        /\ pc'[child[t]] = "dead" /\ pc[t] \in {"start", "startFree"}
        /\ \A z \in Threads \ {t, child[t]} : pc'[z] = pc[z]
    BY <1>8 DEF FailToStart, OneStarter, Begins
  <2>2. /\ pc[child[t]] = "made" /\ fd' = fd /\ routine' = routine
        /\ threads' = threads
    BY <1>8 DEF FailToStart, OneStarter, Begins
  <2> QED
    BY <2>1, <2>2
<1>9. ASSUME NEW t \in Threads, Unstart(t) PROVE Goal
  <2>1. \/ ret[t] \notin Left \cup {"unused", "dead"}
        \/ t \in Workers /\ Reader(routine[t]) /\ ret[t] = "wrap"
    BY <1>9 DEF Unstart, ReturnsTo, AtPoints, Points, Scripting, Ends, Reader,
              MainPoints
  <2> QED
    BY <1>9, <2>1 DEF Unstart, Reader
<1>10. ASSUME NEW t \in Threads, SwitchIn(t) PROVE Goal
  BY <1>10 DEF SwitchIn
<1>11. ASSUME NEW t \in Threads, AddMore(t) PROVE Goal
  BY <1>11 DEF AddMore
<1>12. ASSUME NEW t \in Threads, AddLength(t) PROVE Goal
  BY <1>12 DEF AddLength
<1>13. ASSUME NEW t \in Threads, AddCell(t) PROVE Goal
  BY <1>13 DEF AddCell
<1>14. ASSUME NEW w \in Workers, ConnectFails(w) PROVE Goal
  <2>1. routine[w] = "connect"
    BY <1>14 DEF ConnectFails, AtPoints, Points, Scripting, Ends
  <2> QED
    BY <1>14, <2>1 DEF ConnectFails
<1>15. ASSUME NEW w \in Workers, ConnectSucceeds(w) PROVE Goal
  BY <1>15 DEF ConnectSucceeds
<1>16. ASSUME NEW w \in Workers, NEW f \in Fd, AcceptPeer(w, f) PROVE Goal
  <2>1. Newborn(w, "startFree", "read", "callback", f, "CONNECTED")
    BY <1>16, Newborns
  <2>2. /\ pc[w] = "read" /\ routine[w] = "listen"
        /\ threads' = threads
    BY <1>16 DEF AcceptPeer
  <2> QED
    BY <2>1, <2>2 DEF Newborn, Use
<1>17. ASSUME NEW w \in Workers, NEW f \in Fd, ReadMessage(w, f) PROVE Goal
  <2>1. Reader(routine[w])
    BY <1>17 DEF ReadMessage, AtPoints, Points, Scripting, Ends, Reader
  <2> QED
    BY <1>17, <2>1 DEF ReadMessage, Reader
<1>18. ASSUME NEW w \in Workers, NEW f \in Fd, ReadEnd(w, f) PROVE Goal
  <2>1. Newborn(w, "startFree",
                IF routine[w] = "listen" THEN "read" ELSE "wrap",
                "callback", f, "DISCONNECTED")
    BY <1>18, Newborns
  <2>2. /\ pc[w] = "read"
        /\ threads' = threads
    BY <1>18 DEF ReadEnd
  <2> QED
    BY <2>1, <2>2 DEF Newborn, Use
<1>19. ASSUME NEW w \in Workers, EnqueueNew(w) PROVE Goal
  <2>1. Newborn(w, "start", "enqueued", "incoming", fd[w], "MESSAGED")
    BY <1>19, Newborns
  <2>2. /\ threads[<<fd[w], "RECV">>] = None /\ Reader(routine[w])
        /\ fd[w] \in Fd
        /\ threads' = [threads EXCEPT ![<<fd[w], "RECV">>] = made + 1]
    BY <1>19 DEF EnqueueNew, NoThread, AtPoints, Points, Scripting, Ends,
       Reader, Subject
  <2>3. CASE v = made + 1
    <3>1. fd'[v] = fd[w] /\ u = "RECV"
      BY <2>1, <2>3 DEF Newborn, Use
    <3> QED
      BY <2>2, <2>3, <3>1 DEF Use
  <2>4. CASE v # made + 1
    <3>1. /\ fd'[v] = fd[v] /\ routine[v] = Server(u)
          /\ pc[v] \notin Left \cup {"unused", "dead"}
      BY <2>1, <2>2, <2>4 DEF Newborn, Reader
    <3>2. threads[<<fd[v], u>>] = v /\ v # None
      BY <3>1, <1>a
    <3> QED
      BY <2>2, <3>1, <3>2
  <2> QED
    BY <2>3, <2>4
<1>20. ASSUME NEW w \in Workers, EnqueueMore(w) PROVE Goal
  BY <1>20 DEF EnqueueMore
<1>21. ASSUME NEW w \in Workers, Enqueued(w) PROVE Goal
  BY <1>21 DEF Enqueued
<1>22. ASSUME NEW w \in Workers, Dequeue(w) PROVE Goal
  BY <1>22 DEF Dequeue
<1>23. ASSUME NEW w \in Workers, DequeueLast(w) PROVE Goal
  <2>1. routine[w] = "incoming" /\ fd[w] \in Fd
    BY <1>23 DEF DequeueLast, AtPoints, Points, Scripting, Ends, Subject
  <2>2. threads[<<fd[w], "RECV">>] = w
    BY <1>23, <2>1 DEF DequeueLast, Serves, Use
  <2>3. /\ threads' = [threads EXCEPT ![<<fd[w], "RECV">>] = None]
        /\ pc' = [pc EXCEPT ![w] = "wrap"] /\ fd' = fd /\ routine' = routine
    BY <1>23 DEF DequeueLast, ThreadDel
  <2> QED
    BY <2>1, <2>2, <2>3 DEF Use
<1>24. ASSUME NEW w \in Workers, Callback(w) PROVE Goal
  BY <1>24 DEF Callback
<1>25. ASSUME NEW w \in Workers, TakeToSend(w) PROVE Goal
  BY <1>25 DEF TakeToSend
<1>26. ASSUME NEW w \in Workers, Shrink(w) PROVE Goal
  BY <1>26 DEF Shrink
<1>27. ASSUME NEW w \in Workers, WriteMessage(w) PROVE Goal
  BY <1>27 DEF WriteMessage
<1>28. ASSUME NEW w \in Workers, StopSending(w) PROVE Goal
  BY <1>28 DEF StopSending
<1>29. ASSUME NEW w \in Workers, ForgetSender(w) PROVE Goal
  <2>1. routine[w] = "send" /\ fd[w] \in Fd
    BY <1>29 DEF ForgetSender, AtPoints, Points, Scripting, Ends, Subject,
       Routine
  <2>2. threads[<<fd[w], "SEND">>] = w
    BY <1>29, <2>1 DEF ForgetSender, Serves, Use
  <2>3. /\ threads' = [threads EXCEPT ![<<fd[w], "SEND">>] = None]
        /\ pc' = [pc EXCEPT ![w] = "wrap"] /\ fd' = fd /\ routine' = routine
    BY <1>29 DEF ForgetSender, ThreadDel
  <2> QED
    BY <2>1, <2>2, <2>3 DEF Use
<1>30. ASSUME NEW w \in Workers, Wrap(w) PROVE Goal
  BY <1>30 DEF Wrap
<1>31. ASSUME NEW w \in Workers, Leave(w) PROVE Goal
  BY <1>31 DEF Leave
<1>32. ASSUME DelLock PROVE Goal
  BY <1>32 DEF DelLock
<1>33. ASSUME DelCheck PROVE Goal
  <2>1. CASE num_threads > 0
    BY <1>33, <2>1 DEF DelCheck
  <2>2. CASE ~(num_threads > 0)
    BY <1>33, <2>2 DEF DelCheck
  <2> QED
    BY <2>1, <2>2
<1>34. ASSUME DelSleep PROVE Goal
  BY <1>34 DEF DelSleep
<1>35. ASSUME DelWake PROVE Goal
  BY <1>35 DEF DelWake
<1>36. ASSUME DelWoken PROVE Goal
  <2>1. CASE num_threads = 0
    BY <1>36, <2>1 DEF DelWoken
  <2>2. CASE ~(num_threads = 0)
    BY <1>36, <2>2 DEF DelWoken
  <2> QED
    BY <2>1, <2>2
<1>37. ASSUME NEW f \in Fd, Arrive(f) PROVE Goal
  BY <1>37 DEF Arrive
<1>38. ASSUME NEW f \in Fd, Close(f) PROVE Goal
  BY <1>38 DEF Close
<1>39. ASSUME UNCHANGED vars PROVE Goal
  BY <1>39 DEF vars
<1> QED
  BY <1>1, <1>2, <1>3, <1>4, <1>5, <1>6, <1>7, <1>8, <1>9, <1>10, <1>11,
     <1>12, <1>13, <1>14, <1>15, <1>16, <1>17, <1>18, <1>19, <1>20, <1>21,
     <1>22, <1>23, <1>24, <1>25, <1>26, <1>27, <1>28, <1>29, <1>30, <1>31,
     <1>32, <1>33, <1>34, <1>35, <1>36, <1>37, <1>38, <1>39
     DEF Next, Script, Starting, Adding, Reading, Serving, Deleting

(* The sender takes from a queue that is not empty.                        *)
LEMMA ShrinksStep ==
    ASSUME TypeOK, AtPoints, Unused, ReturnsTo, OneStarter, Adds, Shrinks,
           [Next]_vars
    PROVE  Shrinks'
<1> USE ConstantFacts DEF Goto, GotoSignalling, EndStart, records, starting,
        queues, sockets, outcome, life, Main, Threads
<1>0. /\ pc \in [Threads -> PC] /\ routine \in [Workers -> Routine]
      /\ made \in Nat
      /\ len \in [Workers -> 0 .. QueueSize]
      /\ reg \in [Threads -> 0 .. CounterMod + QueueSize]
  BY DEF TypeOK
<1> USE <1>0
<1> SUFFICES ASSUME NEW v \in Workers, pc'[v] = "shrink"
             PROVE  len'[v] > 0 /\ reg'[v] \in 1 .. QueueSize
  BY DEF Shrinks
<1> DEFINE Goal == len'[v] > 0 /\ reg'[v] \in 1 .. QueueSize
<1>a. pc[v] = "shrink" => len[v] > 0 /\ reg[v] \in 1 .. QueueSize
  BY DEF Shrinks
<1> USE <1>a
<1>1. ASSUME NEW t \in Threads, SwitchOut(t) PROVE Goal
  BY <1>1 DEF SwitchOut
<1>2. ASSUME NEW t \in Threads, EndScript(t) PROVE Goal
  BY <1>2 DEF EndScript, AfterScript
<1>3. ASSUME NEW t \in Threads, Listen(t) PROVE Goal
  <2>1. Newborn(t, "start", "run", "listen", None, "MESSAGED")
    BY <1>3, Newborns
  <2>2. /\ pc[t] = "run"
        /\ len' = len
    BY <1>3 DEF Listen
  <2> QED
    BY <2>1, <2>2, SMTT(30) DEF Newborn
<1>4. ASSUME NEW t \in Threads, NEW f \in Fd, Connect(t, f) PROVE Goal
  <2>1. Newborn(t, "start", "run", "connect", f, "MESSAGED")
    BY <1>4, Newborns
  <2>2. /\ pc[t] = "run"
        /\ len' = len
    BY <1>4 DEF Connect
  <2> QED
    BY <2>1, <2>2 DEF Newborn
<1>5. ASSUME NEW t \in Threads, NEW f \in Fd, SendNew(t, f) PROVE Goal
  <2>1. Newborn(t, "start", "run", "send", f, "MESSAGED")
    BY <1>5, Newborns
  <2>2. /\ pc[t] = "run"
        /\ len' = [len EXCEPT ![made + 1] = 1]
    BY <1>5 DEF SendNew
  <2> QED
    BY <2>1, <2>2 DEF Newborn
<1>6. ASSUME NEW t \in Threads, NEW f \in Fd, SendMore(t, f) PROVE Goal
  BY <1>6 DEF SendMore
<1>7. ASSUME NEW t \in Threads, StartThread(t) PROVE Goal
  <2>1. /\ child[t] \in Workers /\ child[t] # t
        /\ pc'[t] = ret[t] /\ pc'[child[t]] = Entry(routine[child[t]])
        /\ \A z \in Threads \ {t, child[t]} : pc'[z] = pc[z]
        /\ pc[t] \in {"start", "startFree"}
    BY <1>7 DEF StartThread, OneStarter, Begins, TypeOK
  <2>2. /\ Entry(routine[child[t]]) # "shrink" /\ ret[t] # "shrink"
        /\ len' = len
        /\ \A x \in Threads \ {t} : reg'[x] = reg[x]
    BY <1>7 DEF StartThread, Entry, TypeOK
  <2> QED
    BY <2>1, <2>2
<1>8. ASSUME NEW t \in Threads, FailToStart(t) PROVE Goal
  <2>1. /\ child[t] \in Workers /\ child[t] # t
        /\ pc'[t] = IF pc[t] = "start" THEN "unstart" ELSE "unstartFree"
        /\ pc'[child[t]] = "dead" /\ pc[t] \in {"start", "startFree"}
        /\ \A z \in Threads \ {t, child[t]} : pc'[z] = pc[z]
    BY <1>8 DEF FailToStart, OneStarter, Begins
  <2>2. len' = len /\ \A x \in Threads \ {t} : reg'[x] = reg[x]
    BY <1>8 DEF FailToStart
  <2> QED
    BY <2>1, <2>2
<1>9. ASSUME NEW t \in Threads, Unstart(t) PROVE Goal
  <2>1. ret[t] # "shrink"
    BY <1>9 DEF Unstart, TypeOK
  <2> QED
    BY <1>9, <2>1 DEF Unstart
<1>10. ASSUME NEW t \in Threads, SwitchIn(t) PROVE Goal
  BY <1>10 DEF SwitchIn
<1>11. ASSUME NEW t \in Threads, AddMore(t) PROVE Goal
  BY <1>11 DEF AddMore
<1>12. ASSUME NEW t \in Threads, AddLength(t) PROVE Goal
  BY <1>12 DEF AddLength
<1>13. ASSUME NEW t \in Threads, AddCell(t) PROVE Goal
  BY <1>13 DEF AddCell
<1>14. ASSUME NEW w \in Workers, ConnectFails(w) PROVE Goal
  BY <1>14 DEF ConnectFails
<1>15. ASSUME NEW w \in Workers, ConnectSucceeds(w) PROVE Goal
  BY <1>15 DEF ConnectSucceeds
<1>16. ASSUME NEW w \in Workers, NEW f \in Fd, AcceptPeer(w, f) PROVE Goal
  <2>1. Newborn(w, "startFree", "read", "callback", f, "CONNECTED")
    BY <1>16, Newborns
  <2>2. /\ pc[w] = "read" /\ routine[w] = "listen"
        /\ len' = len
    BY <1>16 DEF AcceptPeer
  <2> QED
    BY <2>1, <2>2 DEF Newborn
<1>17. ASSUME NEW w \in Workers, NEW f \in Fd, ReadMessage(w, f) PROVE Goal
  BY <1>17 DEF ReadMessage
<1>18. ASSUME NEW w \in Workers, NEW f \in Fd, ReadEnd(w, f) PROVE Goal
  <2>1. Newborn(w, "startFree",
                IF routine[w] = "listen" THEN "read" ELSE "wrap",
                "callback", f, "DISCONNECTED")
    BY <1>18, Newborns
  <2>2. /\ pc[w] = "read"
        /\ len' = len
    BY <1>18 DEF ReadEnd
  <2> QED
    BY <2>1, <2>2 DEF Newborn
<1>19. ASSUME NEW w \in Workers, EnqueueNew(w) PROVE Goal
  <2>1. Newborn(w, "start", "enqueued", "incoming", fd[w], "MESSAGED")
    BY <1>19, Newborns
  <2>2. /\ pc[w] = "enqueue"
        /\ len' = [len EXCEPT ![made + 1] = 1]
    BY <1>19 DEF EnqueueNew
  <2> QED
    BY <2>1, <2>2 DEF Newborn
<1>20. ASSUME NEW w \in Workers, EnqueueMore(w) PROVE Goal
  BY <1>20 DEF EnqueueMore
<1>21. ASSUME NEW w \in Workers, Enqueued(w) PROVE Goal
  BY <1>21 DEF Enqueued
<1>22. ASSUME NEW w \in Workers, Dequeue(w) PROVE Goal
  BY <1>22 DEF Dequeue
<1>23. ASSUME NEW w \in Workers, DequeueLast(w) PROVE Goal
  BY <1>23 DEF DequeueLast
<1>24. ASSUME NEW w \in Workers, Callback(w) PROVE Goal
  BY <1>24 DEF Callback
<1>25. ASSUME NEW w \in Workers, TakeToSend(w) PROVE Goal
  BY <1>25 DEF TakeToSend, HasMessage
<1>26. ASSUME NEW w \in Workers, Shrink(w) PROVE Goal
  BY <1>26 DEF Shrink
<1>27. ASSUME NEW w \in Workers, WriteMessage(w) PROVE Goal
  BY <1>27 DEF WriteMessage
<1>28. ASSUME NEW w \in Workers, StopSending(w) PROVE Goal
  BY <1>28 DEF StopSending
<1>29. ASSUME NEW w \in Workers, ForgetSender(w) PROVE Goal
  BY <1>29 DEF ForgetSender
<1>30. ASSUME NEW w \in Workers, Wrap(w) PROVE Goal
  BY <1>30 DEF Wrap
<1>31. ASSUME NEW w \in Workers, Leave(w) PROVE Goal
  BY <1>31 DEF Leave
<1>32. ASSUME DelLock PROVE Goal
  BY <1>32 DEF DelLock
<1>33. ASSUME DelCheck PROVE Goal
  <2>1. CASE num_threads > 0
    BY <1>33, <2>1 DEF DelCheck
  <2>2. CASE ~(num_threads > 0)
    BY <1>33, <2>2 DEF DelCheck
  <2> QED
    BY <2>1, <2>2
<1>34. ASSUME DelSleep PROVE Goal
  BY <1>34 DEF DelSleep
<1>35. ASSUME DelWake PROVE Goal
  BY <1>35 DEF DelWake
<1>36. ASSUME DelWoken PROVE Goal
  <2>1. CASE num_threads = 0
    BY <1>36, <2>1 DEF DelWoken
  <2>2. CASE ~(num_threads = 0)
    BY <1>36, <2>2 DEF DelWoken
  <2> QED
    BY <2>1, <2>2
<1>37. ASSUME NEW f \in Fd, Arrive(f) PROVE Goal
  BY <1>37 DEF Arrive
<1>38. ASSUME NEW f \in Fd, Close(f) PROVE Goal
  BY <1>38 DEF Close
<1>39. ASSUME UNCHANGED vars PROVE Goal
  BY <1>39 DEF vars
<1> QED
  BY <1>1, <1>2, <1>3, <1>4, <1>5, <1>6, <1>7, <1>8, <1>9, <1>10, <1>11,
     <1>12, <1>13, <1>14, <1>15, <1>16, <1>17, <1>18, <1>19, <1>20, <1>21,
     <1>22, <1>23, <1>24, <1>25, <1>26, <1>27, <1>28, <1>29, <1>30, <1>31,
     <1>32, <1>33, <1>34, <1>35, <1>36, <1>37, <1>38, <1>39
     DEF Next, Script, Starting, Adding, Reading, Serving, Deleting

(* A script adds to the queue of a sender, below its last cell.            *)
LEMMA AddsStep ==
    ASSUME TypeOK, AtPoints, Unused, ReturnsTo, OneStarter, Named, Adds,
           [Next]_vars
    PROVE  Adds'
<1> USE ConstantFacts DEF Goto, GotoSignalling, EndStart, records, starting,
        queues, sockets, outcome, life, Main, Threads
<1>0. /\ pc \in [Threads -> PC] /\ routine \in [Workers -> Routine]
      /\ made \in Nat
      /\ len \in [Workers -> 0 .. QueueSize]
      /\ reg \in [Threads -> 0 .. CounterMod + QueueSize]
      /\ child \in [Threads -> Workers \cup {None}]
  BY DEF TypeOK
<1> USE <1>0
<1> SUFFICES ASSUME NEW v \in Threads, pc'[v] \in {"add", "addCell"}
             PROVE  /\ child'[v] \in Workers /\ pc'[child'[v]] # "unused"
                    /\ routine'[child'[v]] = "send" /\ reg'[v] < QueueSize
  BY DEF Adds
<1> DEFINE Goal == /\ child'[v] \in Workers /\ pc'[child'[v]] # "unused"
                   /\ routine'[child'[v]] = "send" /\ reg'[v] < QueueSize
<1>a. pc[v] \in {"add", "addCell"} =>
         /\ child[v] \in Workers /\ pc[child[v]] # "unused"
         /\ routine[child[v]] = "send" /\ reg[v] < QueueSize
  BY DEF Adds
<1> USE <1>a
<1>1. ASSUME NEW t \in Threads, SwitchOut(t) PROVE Goal
  BY <1>1 DEF SwitchOut
<1>2. ASSUME NEW t \in Threads, EndScript(t) PROVE Goal
  BY <1>2 DEF EndScript, AfterScript
<1>3. ASSUME NEW t \in Threads, Listen(t) PROVE Goal
  <2>1. Newborn(t, "start", "run", "listen", None, "MESSAGED")
    BY <1>3, Newborns
  <2>2. pc[t] = "run"
    BY <1>3 DEF Listen
  <2>3. /\ v # t /\ v # made + 1 /\ pc[v] \in {"add", "addCell"}
        /\ child'[v] = child[v] /\ reg'[v] = reg[v] /\ child[v] # made + 1
        /\ child[v] \in Workers /\ routine[child[v]] = "send"
        /\ reg[v] < QueueSize
    BY <2>1, <2>2 DEF Newborn
  <2>4. pc'[child[v]] # "unused"
    BY <2>1, <2>2, <2>3 DEF Newborn
  <2>5. routine'[child[v]] = "send"
    BY <2>1, <2>2, <2>3 DEF Newborn
  <2> QED
    BY <2>3, <2>4, <2>5
<1>4. ASSUME NEW t \in Threads, NEW f \in Fd, Connect(t, f) PROVE Goal
  <2>1. Newborn(t, "start", "run", "connect", f, "MESSAGED")
    BY <1>4, Newborns
  <2>2. pc[t] = "run"
    BY <1>4 DEF Connect
  <2>3. /\ v # t /\ v # made + 1 /\ pc[v] \in {"add", "addCell"}
        /\ child'[v] = child[v] /\ reg'[v] = reg[v] /\ child[v] # made + 1
        /\ child[v] \in Workers /\ routine[child[v]] = "send"
        /\ reg[v] < QueueSize
    BY <2>1, <2>2 DEF Newborn
  <2>4. pc'[child[v]] # "unused"
    BY <2>1, <2>2, <2>3 DEF Newborn
  <2>5. routine'[child[v]] = "send"
    BY <2>1, <2>2, <2>3 DEF Newborn
  <2> QED
    BY <2>3, <2>4, <2>5
<1>5. ASSUME NEW t \in Threads, NEW f \in Fd, SendNew(t, f) PROVE Goal
  <2>1. Newborn(t, "start", "run", "send", f, "MESSAGED")
    BY <1>5, Newborns
  <2>2. pc[t] = "run"
    BY <1>5 DEF SendNew
  <2>3. /\ v # t /\ v # made + 1 /\ pc[v] \in {"add", "addCell"}
        /\ child'[v] = child[v] /\ reg'[v] = reg[v] /\ child[v] # made + 1
        /\ child[v] \in Workers /\ routine[child[v]] = "send"
        /\ reg[v] < QueueSize
    BY <2>1, <2>2 DEF Newborn
  <2>4. pc'[child[v]] # "unused"
    BY <2>1, <2>2, <2>3 DEF Newborn
  <2>5. routine'[child[v]] = "send"
    BY <2>1, <2>2, <2>3 DEF Newborn
  <2> QED
    BY <2>3, <2>4, <2>5
<1>6. ASSUME NEW t \in Threads, NEW f \in Fd, SendMore(t, f) PROVE Goal
  <2>1. PICK x \in Workers : threads[<<f, "SEND">>] = x /\ len[x] < QueueSize
    BY <1>6 DEF SendMore, TypeOK, Use
  <2>2. pc[x] # "unused" /\ routine[x] = "send"
    <3>1. /\ "SEND" \in Use
          /\ \A y \in Use : threads[<<f, y>>] = x =>
                pc[x] \notin Left \cup {"unused"} /\ routine[x] = Server(y)
      BY DEF Use, Named
    <3> QED
      BY <2>1, <3>1 DEF Server
  <2>3. child' = [child EXCEPT ![t] = x] /\ reg' = [reg EXCEPT ![t] = len[x]]
        /\ pc[t] = "run" /\ pc' = [pc EXCEPT ![t] = "add"]
        /\ routine' = routine
    BY <1>6, <2>1 DEF SendMore
  <2> QED
    BY <2>1, <2>2, <2>3
<1>7. ASSUME NEW t \in Threads, StartThread(t) PROVE Goal
  <2>1. /\ child[t] \in Workers /\ child[t] # t
        /\ pc'[t] = ret[t] /\ pc'[child[t]] = Entry(routine[child[t]])
        /\ \A z \in Threads \ {t, child[t]} : pc'[z] = pc[z]
        /\ pc[t] \in {"start", "startFree"}
    BY <1>7 DEF StartThread, OneStarter, Begins, TypeOK
  <2>2. /\ Entry(routine[child[t]]) \notin {"add", "addCell", "unused"}
        /\ ret[t] \notin {"add", "addCell", "unused"} /\ routine' = routine
        /\ \A x \in Threads \ {t} : reg'[x] = reg[x] /\ child'[x] = child[x]
    BY <1>7 DEF StartThread, Entry, TypeOK
  <2>3. v # t /\ v # child[t] /\ pc[v] \in {"add", "addCell"}
    BY <2>1, <2>2
  <2>4. pc'[child[v]] # "unused"
    BY <2>1, <2>2, <2>3
  <2>5. child'[v] = child[v] /\ reg'[v] = reg[v]
    BY <2>2, <2>3
  <2> QED
    BY <2>2, <2>3, <2>4, <2>5
<1>8. ASSUME NEW t \in Threads, FailToStart(t) PROVE Goal
  <2>1. /\ child[t] \in Workers /\ child[t] # t
        /\ pc'[t] = IF pc[t] = "start" THEN "unstart" ELSE "unstartFree"
        /\ pc'[child[t]] = "dead" /\ pc[t] \in {"start", "startFree"}
        /\ \A z \in Threads \ {t, child[t]} : pc'[z] = pc[z]
    BY <1>8 DEF FailToStart, OneStarter, Begins
  <2>2. /\ routine' = routine
        /\ \A x \in Threads \ {t} : reg'[x] = reg[x] /\ child'[x] = child[x]
    BY <1>8 DEF FailToStart
  <2> QED
    BY <2>1, <2>2
<1>9. ASSUME NEW t \in Threads, Unstart(t) PROVE Goal
  <2>1. ret[t] \notin {"add", "addCell", "unused"}
    BY <1>9 DEF Unstart, TypeOK
  <2> QED
    BY <1>9, <2>1 DEF Unstart
<1>10. ASSUME NEW t \in Threads, SwitchIn(t) PROVE Goal
  BY <1>10 DEF SwitchIn
<1>11. ASSUME NEW t \in Threads, AddMore(t) PROVE Goal
  BY <1>11 DEF AddMore
<1>12. ASSUME NEW t \in Threads, AddLength(t) PROVE Goal
  BY <1>12 DEF AddLength
<1>13. ASSUME NEW t \in Threads, AddCell(t) PROVE Goal
  BY <1>13 DEF AddCell
<1>14. ASSUME NEW w \in Workers, ConnectFails(w) PROVE Goal
  BY <1>14 DEF ConnectFails
<1>15. ASSUME NEW w \in Workers, ConnectSucceeds(w) PROVE Goal
  BY <1>15 DEF ConnectSucceeds
<1>16. ASSUME NEW w \in Workers, NEW f \in Fd, AcceptPeer(w, f) PROVE Goal
  <2>1. Newborn(w, "startFree", "read", "callback", f, "CONNECTED")
    BY <1>16, Newborns
  <2>2. pc[w] = "read" /\ routine[w] = "listen"
    BY <1>16 DEF AcceptPeer
  <2>3. /\ v # w /\ v # made + 1 /\ pc[v] \in {"add", "addCell"}
        /\ child'[v] = child[v] /\ reg'[v] = reg[v] /\ child[v] # made + 1
        /\ child[v] \in Workers /\ routine[child[v]] = "send"
        /\ reg[v] < QueueSize
    BY <2>1, <2>2 DEF Newborn
  <2>4. pc'[child[v]] # "unused"
    BY <2>1, <2>2, <2>3 DEF Newborn
  <2>5. routine'[child[v]] = "send"
    BY <2>1, <2>2, <2>3 DEF Newborn
  <2> QED
    BY <2>3, <2>4, <2>5
<1>17. ASSUME NEW w \in Workers, NEW f \in Fd, ReadMessage(w, f) PROVE Goal
  BY <1>17 DEF ReadMessage
<1>18. ASSUME NEW w \in Workers, NEW f \in Fd, ReadEnd(w, f) PROVE Goal
  <2>1. Newborn(w, "startFree",
                IF routine[w] = "listen" THEN "read" ELSE "wrap",
                "callback", f, "DISCONNECTED")
    BY <1>18, Newborns
  <2>2. pc[w] = "read"
    BY <1>18 DEF ReadEnd
  <2>3. /\ v # w /\ v # made + 1 /\ pc[v] \in {"add", "addCell"}
        /\ child'[v] = child[v] /\ reg'[v] = reg[v] /\ child[v] # made + 1
        /\ child[v] \in Workers /\ routine[child[v]] = "send"
        /\ reg[v] < QueueSize
    BY <2>1, <2>2 DEF Newborn
  <2>4. pc'[child[v]] # "unused"
    BY <2>1, <2>2, <2>3 DEF Newborn
  <2>5. routine'[child[v]] = "send"
    BY <2>1, <2>2, <2>3 DEF Newborn
  <2> QED
    BY <2>3, <2>4, <2>5
<1>19. ASSUME NEW w \in Workers, EnqueueNew(w) PROVE Goal
  <2>1. Newborn(w, "start", "enqueued", "incoming", fd[w], "MESSAGED")
    BY <1>19, Newborns
  <2>2. pc[w] = "enqueue"
    BY <1>19 DEF EnqueueNew
  <2>3. /\ v # w /\ v # made + 1 /\ pc[v] \in {"add", "addCell"}
        /\ child'[v] = child[v] /\ reg'[v] = reg[v] /\ child[v] # made + 1
        /\ child[v] \in Workers /\ routine[child[v]] = "send"
        /\ reg[v] < QueueSize
    BY <2>1, <2>2 DEF Newborn
  <2>4. pc'[child[v]] # "unused"
    BY <2>1, <2>2, <2>3 DEF Newborn
  <2>5. routine'[child[v]] = "send"
    BY <2>1, <2>2, <2>3 DEF Newborn
  <2> QED
    BY <2>3, <2>4, <2>5
<1>20. ASSUME NEW w \in Workers, EnqueueMore(w) PROVE Goal
  BY <1>20 DEF EnqueueMore
<1>21. ASSUME NEW w \in Workers, Enqueued(w) PROVE Goal
  BY <1>21 DEF Enqueued
<1>22. ASSUME NEW w \in Workers, Dequeue(w) PROVE Goal
  BY <1>22 DEF Dequeue
<1>23. ASSUME NEW w \in Workers, DequeueLast(w) PROVE Goal
  BY <1>23 DEF DequeueLast
<1>24. ASSUME NEW w \in Workers, Callback(w) PROVE Goal
  BY <1>24 DEF Callback
<1>25. ASSUME NEW w \in Workers, TakeToSend(w) PROVE Goal
  BY <1>25 DEF TakeToSend
<1>26. ASSUME NEW w \in Workers, Shrink(w) PROVE Goal
  BY <1>26 DEF Shrink
<1>27. ASSUME NEW w \in Workers, WriteMessage(w) PROVE Goal
  BY <1>27 DEF WriteMessage
<1>28. ASSUME NEW w \in Workers, StopSending(w) PROVE Goal
  BY <1>28 DEF StopSending
<1>29. ASSUME NEW w \in Workers, ForgetSender(w) PROVE Goal
  BY <1>29 DEF ForgetSender
<1>30. ASSUME NEW w \in Workers, Wrap(w) PROVE Goal
  BY <1>30 DEF Wrap
<1>31. ASSUME NEW w \in Workers, Leave(w) PROVE Goal
  BY <1>31 DEF Leave
<1>32. ASSUME DelLock PROVE Goal
  BY <1>32 DEF DelLock
<1>33. ASSUME DelCheck PROVE Goal
  <2>1. CASE num_threads > 0
    BY <1>33, <2>1 DEF DelCheck
  <2>2. CASE ~(num_threads > 0)
    BY <1>33, <2>2 DEF DelCheck
  <2> QED
    BY <2>1, <2>2
<1>34. ASSUME DelSleep PROVE Goal
  BY <1>34 DEF DelSleep
<1>35. ASSUME DelWake PROVE Goal
  BY <1>35 DEF DelWake
<1>36. ASSUME DelWoken PROVE Goal
  <2>1. CASE num_threads = 0
    BY <1>36, <2>1 DEF DelWoken
  <2>2. CASE ~(num_threads = 0)
    BY <1>36, <2>2 DEF DelWoken
  <2> QED
    BY <2>1, <2>2
<1>37. ASSUME NEW f \in Fd, Arrive(f) PROVE Goal
  BY <1>37 DEF Arrive
<1>38. ASSUME NEW f \in Fd, Close(f) PROVE Goal
  BY <1>38 DEF Close
<1>39. ASSUME UNCHANGED vars PROVE Goal
  BY <1>39 DEF vars
<1> QED
  BY <1>1, <1>2, <1>3, <1>4, <1>5, <1>6, <1>7, <1>8, <1>9, <1>10, <1>11,
     <1>12, <1>13, <1>14, <1>15, <1>16, <1>17, <1>18, <1>19, <1>20, <1>21,
     <1>22, <1>23, <1>24, <1>25, <1>26, <1>27, <1>28, <1>29, <1>30, <1>31,
     <1>32, <1>33, <1>34, <1>35, <1>36, <1>37, <1>38, <1>39
     DEF Next, Script, Starting, Adding, Reading, Serving, Deleting

(* Every variable keeps its type.                                          *)
LEMMA TypeStep ==
    ASSUME TypeOK, AtPoints, Unused, ReturnsTo, OneStarter, Subject,
           Shrinks, Adds, [Next]_vars
    PROVE  TypeOK'
<1> USE ConstantFacts DEF records, starting, queues, sockets, outcome, life
<1>1. ASSUME NEW t \in Threads, SwitchOut(t) PROVE TypeOK'
  <2>1. gil' \in Threads \cup {None}
    BY <1>1 DEF SwitchOut, TypeOK, Unlock
  <2>2. pc' \in [Threads -> PC]
    BY <1>1 DEF SwitchOut, TypeOK, Goto, PC, Holding, Outside
  <2> QED
    BY <1>1, <2>1, <2>2 DEF SwitchOut, TypeOK, NewThread, EndStart, Goto,
       GotoSignalling
<1>2. ASSUME NEW t \in Threads, EndScript(t) PROVE TypeOK'
  <2>1. gil' \in Threads \cup {None}
    BY <1>2 DEF EndScript, TypeOK, Unlock
  <2>2. pc' \in [Threads -> PC]
    BY <1>2 DEF EndScript, TypeOK, Goto, AfterScript, PC, Holding, Outside
  <2>3. msg' \in [Threads -> Nat]
    BY <1>2 DEF EndScript, TypeOK
  <2> QED
    BY <1>2, <2>1, <2>2, <2>3 DEF EndScript, TypeOK, NewThread, EndStart, Goto,
       GotoSignalling
<1>3. ASSUME NEW t \in Threads, Listen(t) PROVE TypeOK'
  <2>0. /\ made' \in 0 .. MaxThreads /\ routine' \in [Workers -> Routine]
        /\ fd' \in [Workers -> Fd \cup {None}] /\ event' \in [Workers -> Event]
        /\ pc' \in [Threads -> PC]
        /\ ret' \in [Threads -> {"run", "read", "wrap", "enqueued"}]
        /\ reg' \in [Threads -> 0 .. CounterMod + QueueSize]
        /\ child' \in [Threads -> Workers \cup {None}]
        /\ made + 1 \in Workers
    BY <1>3, NewThreadTypes DEF Listen, PC, Holding, Outside, Routine, Event,
       Reader
  <2> QED
    BY <1>3, <2>0 DEF Listen, TypeOK
<1>4. ASSUME NEW t \in Threads, NEW f \in Fd, Connect(t, f) PROVE TypeOK'
  <2>0. /\ made' \in 0 .. MaxThreads /\ routine' \in [Workers -> Routine]
        /\ fd' \in [Workers -> Fd \cup {None}] /\ event' \in [Workers -> Event]
        /\ pc' \in [Threads -> PC]
        /\ ret' \in [Threads -> {"run", "read", "wrap", "enqueued"}]
        /\ reg' \in [Threads -> 0 .. CounterMod + QueueSize]
        /\ child' \in [Threads -> Workers \cup {None}]
        /\ made + 1 \in Workers
    BY <1>4, NewThreadTypes DEF Connect, PC, Holding, Outside, Routine, Event,
       Reader
  <2>1. conn' \in [Fd -> {"none", "socket", "open", "closed", "dropped"}]
    BY <1>4, <2>0 DEF Connect, TypeOK
  <2> QED
    BY <1>4, <2>0, <2>1 DEF Connect, TypeOK
<1>5. ASSUME NEW t \in Threads, NEW f \in Fd, SendNew(t, f) PROVE TypeOK'
  <2>0. /\ made' \in 0 .. MaxThreads /\ routine' \in [Workers -> Routine]
        /\ fd' \in [Workers -> Fd \cup {None}] /\ event' \in [Workers -> Event]
        /\ pc' \in [Threads -> PC]
        /\ ret' \in [Threads -> {"run", "read", "wrap", "enqueued"}]
        /\ reg' \in [Threads -> 0 .. CounterMod + QueueSize]
        /\ child' \in [Threads -> Workers \cup {None}]
        /\ made + 1 \in Workers
    BY <1>5, NewThreadTypes DEF SendNew, PC, Holding, Outside, Routine, Event,
       Reader
  <2>1. sent' \in [Fd -> Nat]
    <3>1. sent \in [Fd -> Nat]
      BY DEF TypeOK
    <3>2. sent' = [sent EXCEPT ![f] = sent[f] + 1]
      BY <1>5, <3>1 DEF SendNew, TypeOK
    <3>3. sent[f] + 1 \in Nat
      BY <3>1
    <3> QED
      BY <3>1, <3>2, <3>3
  <2>2. threads' \in [Fd \X Use -> Workers \cup {None}]
    BY <1>5, <2>0 DEF SendNew, TypeOK, Use
  <2>3. cell' \in [Workers -> [1 .. QueueSize -> Nat]]
    <3>1. cell \in [Workers -> [1 .. QueueSize -> Nat]]
      BY DEF TypeOK
    <3>2. cell' = [cell EXCEPT ![made + 1] = [cell[made + 1] EXCEPT ![1] = sent[f] + 1]]
      BY <1>5, <2>0, <3>1 DEF SendNew, TypeOK
    <3>3. sent[f] \in Nat
      BY <1>5, <2>0, <3>1 DEF SendNew, TypeOK
    <3>4. sent[f] + 1 \in Nat
      BY <3>3
    <3> QED
      BY <2>0, <3>1, <3>2, <3>3, <3>4
  <2>4. len' \in [Workers -> 0 .. QueueSize]
    BY <1>5, <2>0 DEF SendNew, TypeOK
  <2> QED
    BY <1>5, <2>0, <2>1, <2>2, <2>3, <2>4 DEF SendNew, TypeOK
<1>6. ASSUME NEW t \in Threads, NEW f \in Fd, SendMore(t, f) PROVE TypeOK'
  <2>1. sent' \in [Fd -> Nat]
    BY <1>6, SMTT(30) DEF SendMore, TypeOK
  <2>2. child' \in [Threads -> Workers \cup {None}]
    BY <1>6 DEF SendMore, TypeOK, Use
  <2>3. reg' \in [Threads -> 0 .. CounterMod + QueueSize]
    <3>1. reg \in [Threads -> 0 .. CounterMod + QueueSize]
      BY DEF TypeOK
    <3>2. reg' = [reg EXCEPT ![t] = len[threads[<<f, "SEND">>]]]
      BY <1>6, <3>1 DEF SendMore, TypeOK, Use
    <3>3. threads[<<f, "SEND">>] \in Workers
      BY <1>6, <3>1 DEF SendMore, TypeOK, Use
    <3>4. len[threads[<<f, "SEND">>]] \in 0 .. QueueSize
      BY <1>6, <3>1 DEF SendMore, TypeOK, Use
    <3>5. len[threads[<<f, "SEND">>]] \in 0 .. CounterMod + QueueSize
      BY <3>4, ConstantFacts
    <3> QED
      BY <3>1, <3>2, <3>3, <3>4, <3>5
  <2>4. pc' \in [Threads -> PC]
    BY <1>6 DEF SendMore, TypeOK, Goto, PC, Holding, Outside
  <2> QED
    BY <1>6, <2>1, <2>2, <2>3, <2>4 DEF SendMore, TypeOK, NewThread, EndStart,
       Goto, GotoSignalling
<1>7. ASSUME NEW t \in Threads, StartThread(t) PROVE TypeOK'
  <2>1. num_threads' \in 0 .. CounterMod - 1
    BY <1>7 DEF StartThread, TypeOK, Incremented
  <2>2. pc' \in [Threads -> PC]
    BY <1>7 DEF StartThread, TypeOK, Entry, PC, Holding, Outside
  <2>3. ret' \in [Threads -> {"run", "read", "wrap", "enqueued"}]
    BY <1>7 DEF StartThread, TypeOK, EndStart
  <2>4. reg' \in [Threads -> 0 .. CounterMod + QueueSize]
    BY <1>7 DEF StartThread, TypeOK, EndStart
  <2>5. child' \in [Threads -> Workers \cup {None}]
    BY <1>7 DEF StartThread, TypeOK, EndStart
  <2> QED
    BY <1>7, <2>1, <2>2, <2>3, <2>4, <2>5 DEF StartThread, TypeOK, NewThread,
       EndStart, Goto, GotoSignalling
<1>8. ASSUME NEW t \in Threads, FailToStart(t) PROVE TypeOK'
  <2>1. failures' \in 0 .. MaxFailures
    <3>1. failures \in 0 .. MaxFailures
      BY DEF TypeOK
    <3>2. failures' = failures + 1 /\ failures < MaxFailures
      BY <1>8, <3>1 DEF FailToStart, TypeOK
    <3>3. failures' \in 0 .. MaxFailures
      BY <3>1, <3>2, NodeAssumption
    <3> QED
      BY <3>1, <3>2, <3>3
  <2>2. num_threads' \in 0 .. CounterMod - 1
    BY <1>8 DEF FailToStart, TypeOK, Incremented
  <2>3. reg' \in [Threads -> 0 .. CounterMod + QueueSize]
    <3>1. reg \in [Threads -> 0 .. CounterMod + QueueSize]
      BY DEF TypeOK
    <3>2. reg' = [reg EXCEPT ![t] = Incremented(reg[t])]
      BY <1>8, <2>2, <3>1 DEF FailToStart, TypeOK
    <3>3. Incremented(reg[t]) \in 0 .. CounterMod - 1
      BY <1>8, <2>2, <3>1 DEF FailToStart, TypeOK
    <3> QED
      BY <2>2, <3>1, <3>2, <3>3
  <2>4. pc' \in [Threads -> PC]
    BY <1>8 DEF FailToStart, TypeOK, PC, Holding, Outside
  <2> QED
    BY <1>8, <2>1, <2>2, <2>3, <2>4 DEF FailToStart, TypeOK, NewThread,
       EndStart, Goto, GotoSignalling
<1>9. ASSUME NEW t \in Threads, Unstart(t) PROVE TypeOK'
  <2>1. num_threads' \in 0 .. CounterMod - 1
    BY <1>9 DEF Unstart, TypeOK, Decremented
  <2>2. pc' \in [Threads -> PC]
    BY <1>9 DEF Unstart, TypeOK, GotoSignalling, PC, Holding, Outside
  <2>3. ret' \in [Threads -> {"run", "read", "wrap", "enqueued"}]
    BY <1>9 DEF Unstart, TypeOK, EndStart
  <2>4. reg' \in [Threads -> 0 .. CounterMod + QueueSize]
    BY <1>9 DEF Unstart, TypeOK, EndStart
  <2>5. child' \in [Threads -> Workers \cup {None}]
    BY <1>9 DEF Unstart, TypeOK, EndStart
  <2> QED
    BY <1>9, <2>1, <2>2, <2>3, <2>4, <2>5 DEF Unstart, TypeOK, NewThread,
       EndStart, Goto, GotoSignalling
<1>10. ASSUME NEW t \in Threads, SwitchIn(t) PROVE TypeOK'
  <2>1. gil' \in Threads \cup {None}
    BY <1>10 DEF SwitchIn, TypeOK, Lock
  <2>2. pc' \in [Threads -> PC]
    BY <1>10 DEF SwitchIn, TypeOK, Goto, PC, Holding, Outside
  <2> QED
    BY <1>10, <2>1, <2>2 DEF SwitchIn, TypeOK, NewThread, EndStart, Goto,
       GotoSignalling
<1>11. ASSUME NEW t \in Threads, AddMore(t) PROVE TypeOK'
  <2>1. /\ child[t] \in Workers /\ fd[child[t]] \in Fd
        /\ reg[t] + 1 \in 1 .. QueueSize
    <3>1. /\ child[t] \in Workers /\ pc[child[t]] # "unused"
          /\ routine[child[t]] = "send" /\ reg[t] < QueueSize
      BY <1>11 DEF AddMore, Adds
    <3>2. fd[child[t]] \in Fd
      BY <3>1 DEF Subject
    <3>3. reg[t] \in Nat
      BY DEF TypeOK
    <3> QED
      BY <3>1, <3>2, <3>3
  <2>2. cell' \in [Workers -> [1 .. QueueSize -> Nat]]
    <3>1. cell \in [Workers -> [1 .. QueueSize -> Nat]]
      BY DEF TypeOK
    <3>2. cell' = [cell EXCEPT ![child[t]] = [cell[child[t]] EXCEPT ![reg[t] + 1] = sent[fd[child[t]]]]]
      BY <1>11, <2>1, <3>1 DEF AddMore, TypeOK
    <3>3. sent[fd[child[t]]] \in Nat
      BY <1>11, <2>1, <3>1 DEF AddMore, TypeOK
    <3> QED
      BY <2>1, <3>1, <3>2, <3>3
  <2>3. len' \in [Workers -> 0 .. QueueSize]
    <3>1. len \in [Workers -> 0 .. QueueSize]
      BY DEF TypeOK
    <3>2. len' = [len EXCEPT ![child[t]] = reg[t] + 1]
      BY <1>11, <2>1, <3>1 DEF AddMore, TypeOK
    <3>3. reg[t] + 1 \in 1 .. QueueSize
      BY <1>11, <2>1, <3>1 DEF AddMore, TypeOK
    <3> QED
      BY <2>1, <3>1, <3>2, <3>3
  <2>4. pc' \in [Threads -> PC]
    BY <1>11 DEF AddMore, TypeOK, Goto, PC, Holding, Outside
  <2>5. ret' \in [Threads -> {"run", "read", "wrap", "enqueued"}]
    BY <1>11 DEF AddMore, TypeOK, EndStart
  <2>6. reg' \in [Threads -> 0 .. CounterMod + QueueSize]
    BY <1>11 DEF AddMore, TypeOK, EndStart
  <2>7. child' \in [Threads -> Workers \cup {None}]
    BY <1>11 DEF AddMore, TypeOK, EndStart
  <2> QED
    BY <1>11, <2>2, <2>3, <2>4, <2>5, <2>6, <2>7 DEF AddMore, TypeOK,
       NewThread, EndStart, Goto, GotoSignalling
<1>12. ASSUME NEW t \in Threads, AddLength(t) PROVE TypeOK'
  <2>1. /\ child[t] \in Workers /\ fd[child[t]] \in Fd
        /\ reg[t] + 1 \in 1 .. QueueSize
    <3>1. /\ child[t] \in Workers /\ pc[child[t]] # "unused"
          /\ routine[child[t]] = "send" /\ reg[t] < QueueSize
      BY <1>12 DEF AddLength, Adds
    <3>2. fd[child[t]] \in Fd
      BY <3>1 DEF Subject
    <3>3. reg[t] \in Nat
      BY DEF TypeOK
    <3> QED
      BY <3>1, <3>2, <3>3
  <2>2. len' \in [Workers -> 0 .. QueueSize]
    <3>1. len \in [Workers -> 0 .. QueueSize]
      BY DEF TypeOK
    <3>2. len' = [len EXCEPT ![child[t]] = reg[t] + 1]
      BY <1>12, <2>1, <3>1 DEF AddLength, TypeOK
    <3>3. reg[t] + 1 \in 1 .. QueueSize
      BY <1>12, <2>1, <3>1 DEF AddLength, TypeOK
    <3> QED
      BY <2>1, <3>1, <3>2, <3>3
  <2>3. pc' \in [Threads -> PC]
    BY <1>12 DEF AddLength, TypeOK, Goto, PC, Holding, Outside
  <2> QED
    BY <1>12, <2>2, <2>3 DEF AddLength, TypeOK, NewThread, EndStart, Goto,
       GotoSignalling
<1>13. ASSUME NEW t \in Threads, AddCell(t) PROVE TypeOK'
  <2>1. /\ child[t] \in Workers /\ fd[child[t]] \in Fd
        /\ reg[t] + 1 \in 1 .. QueueSize
    <3>1. /\ child[t] \in Workers /\ pc[child[t]] # "unused"
          /\ routine[child[t]] = "send" /\ reg[t] < QueueSize
      BY <1>13 DEF AddCell, Adds
    <3>2. fd[child[t]] \in Fd
      BY <3>1 DEF Subject
    <3>3. reg[t] \in Nat
      BY DEF TypeOK
    <3> QED
      BY <3>1, <3>2, <3>3
  <2>2. cell' \in [Workers -> [1 .. QueueSize -> Nat]]
    <3>1. cell \in [Workers -> [1 .. QueueSize -> Nat]]
      BY DEF TypeOK
    <3>2. cell' = [cell EXCEPT ![child[t]] = [cell[child[t]] EXCEPT ![reg[t] + 1] = sent[fd[child[t]]]]]
      BY <1>13, <2>1, <3>1 DEF AddCell, TypeOK
    <3>3. sent[fd[child[t]]] \in Nat
      BY <1>13, <2>1, <3>1 DEF AddCell, TypeOK
    <3> QED
      BY <2>1, <3>1, <3>2, <3>3
  <2>3. pc' \in [Threads -> PC]
    BY <1>13 DEF AddCell, TypeOK, Goto, PC, Holding, Outside
  <2>4. ret' \in [Threads -> {"run", "read", "wrap", "enqueued"}]
    BY <1>13 DEF AddCell, TypeOK, EndStart
  <2>5. reg' \in [Threads -> 0 .. CounterMod + QueueSize]
    BY <1>13 DEF AddCell, TypeOK, EndStart
  <2>6. child' \in [Threads -> Workers \cup {None}]
    BY <1>13 DEF AddCell, TypeOK, EndStart
  <2> QED
    BY <1>13, <2>2, <2>3, <2>4, <2>5, <2>6 DEF AddCell, TypeOK, NewThread,
       EndStart, Goto, GotoSignalling
<1>14. ASSUME NEW w \in Workers, ConnectFails(w) PROVE TypeOK'
  <2>1. pc' \in [Threads -> PC]
    BY <1>14 DEF ConnectFails, TypeOK, Goto, PC, Holding, Outside
  <2> QED
    BY <1>14, <2>1 DEF ConnectFails, TypeOK, NewThread, EndStart, Goto,
       GotoSignalling
<1>15. ASSUME NEW w \in Workers, ConnectSucceeds(w) PROVE TypeOK'
  <2>1. conn' \in [Fd -> {"none", "socket", "open", "closed", "dropped"}]
    BY <1>15 DEF ConnectSucceeds, TypeOK
  <2>2. event' \in [Workers -> Event]
    BY <1>15 DEF ConnectSucceeds, TypeOK, Event
  <2>3. pc' \in [Threads -> PC]
    BY <1>15 DEF ConnectSucceeds, TypeOK, Goto, PC, Holding, Outside
  <2> QED
    BY <1>15, <2>1, <2>2, <2>3 DEF ConnectSucceeds, TypeOK, NewThread,
       EndStart, Goto, GotoSignalling
<1>16. ASSUME NEW w \in Workers, NEW f \in Fd, AcceptPeer(w, f) PROVE TypeOK'
  <2>0. /\ made' \in 0 .. MaxThreads /\ routine' \in [Workers -> Routine]
        /\ fd' \in [Workers -> Fd \cup {None}] /\ event' \in [Workers -> Event]
        /\ pc' \in [Threads -> PC]
        /\ ret' \in [Threads -> {"run", "read", "wrap", "enqueued"}]
        /\ reg' \in [Threads -> 0 .. CounterMod + QueueSize]
        /\ child' \in [Threads -> Workers \cup {None}]
        /\ made + 1 \in Workers
    BY <1>16, NewThreadTypes DEF AcceptPeer, PC, Holding, Outside, Routine,
       Event, Reader
  <2>1. conn' \in [Fd -> {"none", "socket", "open", "closed", "dropped"}]
    BY <1>16, <2>0 DEF AcceptPeer, TypeOK
  <2> QED
    BY <1>16, <2>0, <2>1 DEF AcceptPeer, TypeOK
<1>17. ASSUME NEW w \in Workers, NEW f \in Fd, ReadMessage(w, f) PROVE TypeOK'
  <2>1. taken' \in [Fd -> Nat]
    <3>1. taken \in [Fd -> Nat]
      BY DEF TypeOK
    <3>2. taken' = [taken EXCEPT ![f] = taken[f] + 1]
      BY <1>17, <3>1 DEF ReadMessage, TypeOK
    <3>3. taken[f] + 1 \in Nat
      BY <3>1
    <3> QED
      BY <3>1, <3>2, <3>3
  <2>2. msg' \in [Threads -> Nat]
    <3>1. msg \in [Threads -> Nat]
      BY DEF TypeOK
    <3>2. msg' = [msg EXCEPT ![w] = taken[f] + 1]
      BY <1>17, <3>1 DEF ReadMessage, TypeOK
    <3>3. taken[f] \in Nat
      BY <1>17, <3>1 DEF ReadMessage, TypeOK
    <3>4. taken[f] + 1 \in Nat
      BY <3>3
    <3> QED
      BY <3>1, <3>2, <3>3, <3>4
  <2>3. fd' \in [Workers -> Fd \cup {None}]
    BY <1>17 DEF ReadMessage, TypeOK
  <2>4. pc' \in [Threads -> PC]
    BY <1>17 DEF ReadMessage, TypeOK, Goto, PC, Holding, Outside
  <2> QED
    BY <1>17, <2>1, <2>2, <2>3, <2>4 DEF ReadMessage, TypeOK, NewThread,
       EndStart, Goto, GotoSignalling
<1>18. ASSUME NEW w \in Workers, NEW f \in Fd, ReadEnd(w, f) PROVE TypeOK'
  <2>0. /\ made' \in 0 .. MaxThreads /\ routine' \in [Workers -> Routine]
        /\ fd' \in [Workers -> Fd \cup {None}] /\ event' \in [Workers -> Event]
        /\ pc' \in [Threads -> PC]
        /\ ret' \in [Threads -> {"run", "read", "wrap", "enqueued"}]
        /\ reg' \in [Threads -> 0 .. CounterMod + QueueSize]
        /\ child' \in [Threads -> Workers \cup {None}]
        /\ made + 1 \in Workers
    BY <1>18, NewThreadTypes DEF ReadEnd, PC, Holding, Outside, Routine, Event,
       Reader
  <2>1. conn' \in [Fd -> {"none", "socket", "open", "closed", "dropped"}]
    BY <1>18, <2>0 DEF ReadEnd, TypeOK
  <2> QED
    BY <1>18, <2>0, <2>1 DEF ReadEnd, TypeOK
<1>19. ASSUME NEW w \in Workers, EnqueueNew(w) PROVE TypeOK'
  <2>0. /\ made' \in 0 .. MaxThreads /\ routine' \in [Workers -> Routine]
        /\ fd' \in [Workers -> Fd \cup {None}] /\ event' \in [Workers -> Event]
        /\ pc' \in [Threads -> PC]
        /\ ret' \in [Threads -> {"run", "read", "wrap", "enqueued"}]
        /\ reg' \in [Threads -> 0 .. CounterMod + QueueSize]
        /\ child' \in [Threads -> Workers \cup {None}]
        /\ made + 1 \in Workers
    BY <1>19, NewThreadTypes DEF EnqueueNew, PC, Holding, Outside, Routine,
       Event, Reader, AtPoints, Points, Scripting, Ends, Routine, Subject
  <2>1. gil' \in Threads \cup {None}
    BY <1>19, <2>0 DEF EnqueueNew, TypeOK, Lock
  <2>2. threads' \in [Fd \X Use -> Workers \cup {None}]
    BY <1>19, <2>0 DEF EnqueueNew, TypeOK, Use
  <2>3. cell' \in [Workers -> [1 .. QueueSize -> Nat]]
    BY <1>19, <2>0 DEF EnqueueNew, TypeOK
  <2>4. len' \in [Workers -> 0 .. QueueSize]
    BY <1>19, <2>0 DEF EnqueueNew, TypeOK
  <2>5. msg' \in [Threads -> Nat]
    BY <1>19, <2>0 DEF EnqueueNew, TypeOK
  <2> QED
    BY <1>19, <2>0, <2>1, <2>2, <2>3, <2>4, <2>5 DEF EnqueueNew, TypeOK
<1>20. ASSUME NEW w \in Workers, EnqueueMore(w) PROVE TypeOK'
  <2>1. gil' \in Threads \cup {None}
    BY <1>20 DEF EnqueueMore, TypeOK, Lock
  <2>2. cell' \in [Workers -> [1 .. QueueSize -> Nat]]
    BY <1>20 DEF EnqueueMore, TypeOK
  <2>3. len' \in [Workers -> 0 .. QueueSize]
    <3>1. len \in [Workers -> 0 .. QueueSize]
      BY DEF TypeOK
    <3>2. len' = [len EXCEPT ![threads[<<fd[w], "RECV">>]] = len[threads[<<fd[w], "RECV">>]] + 1]
      BY <1>20, <3>1 DEF EnqueueMore, TypeOK, Use, Subject
    <3>3. threads[<<fd[w], "RECV">>] \in Workers
      BY <1>20, <3>1 DEF EnqueueMore, TypeOK, Use, Subject
    <3>4. len[threads[<<fd[w], "RECV">>]] \in 0 .. QueueSize
      BY <1>20, <3>1 DEF EnqueueMore, TypeOK, Use, Subject
    <3>5. len[threads[<<fd[w], "RECV">>]] < QueueSize
      BY <1>20, <3>1 DEF EnqueueMore, TypeOK, Use, Subject
    <3>6. len[threads[<<fd[w], "RECV">>]] + 1 \in 0 .. QueueSize
      BY <3>4, <3>5, ConstantFacts
    <3> QED
      BY <3>1, <3>2, <3>3, <3>4, <3>5, <3>6
  <2>4. msg' \in [Threads -> Nat]
    BY <1>20 DEF EnqueueMore, TypeOK
  <2>5. pc' \in [Threads -> PC]
    BY <1>20 DEF EnqueueMore, TypeOK, Goto, PC, Holding, Outside
  <2> QED
    BY <1>20, <2>1, <2>2, <2>3, <2>4, <2>5 DEF EnqueueMore, TypeOK, NewThread,
       EndStart, Goto, GotoSignalling
<1>21. ASSUME NEW w \in Workers, Enqueued(w) PROVE TypeOK'
  <2>1. gil' \in Threads \cup {None}
    BY <1>21 DEF Enqueued, TypeOK, Unlock
  <2>2. pc' \in [Threads -> PC]
    BY <1>21 DEF Enqueued, TypeOK, Goto, PC, Holding, Outside
  <2> QED
    BY <1>21, <2>1, <2>2 DEF Enqueued, TypeOK, NewThread, EndStart, Goto,
       GotoSignalling
<1>22. ASSUME NEW w \in Workers, Dequeue(w) PROVE TypeOK'
  <2>1. msg' \in [Threads -> Nat]
    BY <1>22 DEF Dequeue, TypeOK, Oldest, HasMessage
  <2>2. cell' \in [Workers -> [1 .. QueueSize -> Nat]]
    <3>1. cell \in [Workers -> [1 .. QueueSize -> Nat]]
      BY DEF TypeOK
    <3>2. cell' = [cell EXCEPT ![w] = Shifted(w)]
      BY <1>22, Cells, <3>1 DEF Dequeue, TypeOK
    <3>3. Shifted(w) \in [1 .. QueueSize -> Nat]
      BY <1>22, Cells, <3>1 DEF Dequeue, TypeOK
    <3> QED
      BY <3>1, <3>2, <3>3
  <2>3. len' \in [Workers -> 0 .. QueueSize]
    BY <1>22, SMTT(30) DEF Dequeue, TypeOK, HasMessage
  <2>4. pc' \in [Threads -> PC]
    BY <1>22 DEF Dequeue, TypeOK, Goto, PC, Holding, Outside
  <2> QED
    BY <1>22, <2>1, <2>2, <2>3, <2>4 DEF Dequeue, TypeOK, NewThread, EndStart,
       Goto, GotoSignalling
<1>23. ASSUME NEW w \in Workers, DequeueLast(w) PROVE TypeOK'
  <2>1. threads' \in [Fd \X Use -> Workers \cup {None}]
    BY <1>23 DEF DequeueLast, TypeOK, ThreadDel, Use
  <2>2. pc' \in [Threads -> PC]
    BY <1>23 DEF DequeueLast, TypeOK, Goto, PC, Holding, Outside
  <2> QED
    BY <1>23, <2>1, <2>2 DEF DequeueLast, TypeOK, NewThread, EndStart, Goto,
       GotoSignalling
<1>24. ASSUME NEW w \in Workers, Callback(w) PROVE TypeOK'
  <2>1. gil' \in Threads \cup {None}
    BY <1>24 DEF Callback, TypeOK, Lock
  <2>2. delivered' \in [Fd -> Nat]
    <3>1. /\ delivered \in [Fd -> Nat] /\ msg[w] \in Nat
          /\ \/ delivered' = delivered
             \/ delivered' = [delivered EXCEPT ![fd[w]] = msg[w]]
      BY <1>24 DEF Callback, TypeOK
    <3> QED
      BY <3>1
  <2>3. heard' \in [Fd -> SUBSET Event]
    <3>1. /\ heard \in [Fd -> SUBSET Event] /\ event[w] \in Event
          /\ \/ heard' = heard
             \/ heard' = [heard EXCEPT ![fd[w]] = @ \cup {event[w]}]
      BY <1>24 DEF Callback, TypeOK
    <3> QED
      BY <3>1
  <2>4. pc' \in [Threads -> PC]
    BY <1>24 DEF Callback, TypeOK, Goto, PC, Holding, Outside
  <2> QED
    BY <1>24, <2>1, <2>2, <2>3, <2>4 DEF Callback, TypeOK, NewThread, EndStart,
       Goto, GotoSignalling
<1>25. ASSUME NEW w \in Workers, TakeToSend(w) PROVE TypeOK'
  <2>1. msg' \in [Threads -> Nat]
    BY <1>25 DEF TakeToSend, TypeOK, Oldest, HasMessage
  <2>2. cell' \in [Workers -> [1 .. QueueSize -> Nat]]
    <3>1. cell \in [Workers -> [1 .. QueueSize -> Nat]]
      BY DEF TypeOK
    <3>2. cell' = [cell EXCEPT ![w] = Shifted(w)]
      BY <1>25, Cells, <3>1 DEF TakeToSend, TypeOK
    <3>3. Shifted(w) \in [1 .. QueueSize -> Nat]
      BY <1>25, Cells, <3>1 DEF TakeToSend, TypeOK
    <3> QED
      BY <3>1, <3>2, <3>3
  <2>3. reg' \in [Threads -> 0 .. CounterMod + QueueSize]
    BY <1>25 DEF TakeToSend, TypeOK
  <2>4. pc' \in [Threads -> PC]
    BY <1>25 DEF TakeToSend, TypeOK, Goto, PC, Holding, Outside
  <2> QED
    BY <1>25, <2>1, <2>2, <2>3, <2>4 DEF TakeToSend, TypeOK, NewThread,
       EndStart, Goto, GotoSignalling
<1>26. ASSUME NEW w \in Workers, Shrink(w) PROVE TypeOK'
  <2>1. len' \in [Workers -> 0 .. QueueSize]
    BY <1>26, SMTT(30) DEF Shrink, TypeOK, Shrinks
  <2>2. reg' \in [Threads -> 0 .. CounterMod + QueueSize]
    BY <1>26 DEF Shrink, TypeOK
  <2>3. pc' \in [Threads -> PC]
    BY <1>26 DEF Shrink, TypeOK, Goto, PC, Holding, Outside
  <2> QED
    BY <1>26, <2>1, <2>2, <2>3 DEF Shrink, TypeOK, NewThread, EndStart, Goto,
       GotoSignalling
<1>27. ASSUME NEW w \in Workers, WriteMessage(w) PROVE TypeOK'
  <2>1. written' \in [Fd -> Nat]
    BY <1>27 DEF WriteMessage, TypeOK
  <2>2. msg' \in [Threads -> Nat]
    BY <1>27 DEF WriteMessage, TypeOK
  <2>3. pc' \in [Threads -> PC]
    BY <1>27 DEF WriteMessage, TypeOK, Goto, PC, Holding, Outside
  <2> QED
    BY <1>27, <2>1, <2>2, <2>3 DEF WriteMessage, TypeOK, NewThread, EndStart,
       Goto, GotoSignalling
<1>28. ASSUME NEW w \in Workers, StopSending(w) PROVE TypeOK'
  <2>1. pc' \in [Threads -> PC]
    BY <1>28 DEF StopSending, TypeOK, Goto, PC, Holding, Outside
  <2> QED
    BY <1>28, <2>1 DEF StopSending, TypeOK, NewThread, EndStart, Goto,
       GotoSignalling
<1>29. ASSUME NEW w \in Workers, ForgetSender(w) PROVE TypeOK'
  <2>1. threads' \in [Fd \X Use -> Workers \cup {None}]
    BY <1>29 DEF ForgetSender, TypeOK, ThreadDel, Use
  <2>2. pc' \in [Threads -> PC]
    BY <1>29 DEF ForgetSender, TypeOK, Goto, PC, Holding, Outside
  <2> QED
    BY <1>29, <2>1, <2>2 DEF ForgetSender, TypeOK, NewThread, EndStart, Goto,
       GotoSignalling
<1>30. ASSUME NEW w \in Workers, Wrap(w) PROVE TypeOK'
  <2>1. gil' \in Threads \cup {None}
    BY <1>30 DEF Wrap, TypeOK, Lock
  <2>2. reg' \in [Threads -> 0 .. CounterMod + QueueSize]
    BY <1>30 DEF Wrap, TypeOK
  <2>3. pc' \in [Threads -> PC]
    BY <1>30 DEF Wrap, TypeOK, Goto, PC, Holding, Outside
  <2> QED
    BY <1>30, <2>1, <2>2, <2>3 DEF Wrap, TypeOK, NewThread, EndStart, Goto,
       GotoSignalling
<1>31. ASSUME NEW w \in Workers, Leave(w) PROVE TypeOK'
  <2>1. gil' \in Threads \cup {None}
    BY <1>31 DEF Leave, TypeOK, Unlock
  <2>2. num_threads' \in 0 .. CounterMod - 1
    <3>1. reg[w] \in Int
      BY DEF TypeOK
    <3>2. num_threads' = Decremented(reg[w])
      BY <1>31, Width, <3>1 DEF Leave, TypeOK
    <3>3. Decremented(reg[w]) \in 0 .. CounterMod - 1
      BY <1>31, Width, <3>1 DEF Leave, TypeOK
    <3> QED
      BY <3>1, <3>2, <3>3
  <2>3. reg' \in [Threads -> 0 .. CounterMod + QueueSize]
    BY <1>31 DEF Leave, TypeOK
  <2>4. pc' \in [Threads -> PC]
    BY <1>31 DEF Leave, TypeOK, GotoSignalling, PC, Holding, Outside
  <2> QED
    BY <1>31, <2>1, <2>2, <2>3, <2>4 DEF Leave, TypeOK, NewThread, EndStart,
       Goto, GotoSignalling
<1>32. CASE DelLock
  <2>1. gil' \in Threads \cup {None}
    BY <1>32 DEF DelLock, TypeOK, Lock
  <2>2. pc' \in [Threads -> PC]
    BY <1>32 DEF DelLock, TypeOK, Goto, PC, Holding, Outside
  <2> QED
    BY <1>32, <2>1, <2>2 DEF DelLock, TypeOK, NewThread, EndStart, Goto,
       GotoSignalling
<1>33. CASE DelCheck
  <2>1. gil' \in Threads \cup {None}
    BY <1>33 DEF DelCheck, TypeOK, Unlock
  <2>2. pc' \in [Threads -> PC]
    BY <1>33 DEF DelCheck, TypeOK, Goto, PC, Holding, Outside
  <2> QED
    BY <1>33, <2>1, <2>2 DEF DelCheck, TypeOK, NewThread, EndStart, Goto,
       GotoSignalling
<1>34. CASE DelSleep
  <2>1. gil' \in Threads \cup {None}
    BY <1>34 DEF DelSleep, TypeOK, Unlock
  <2>2. pc' \in [Threads -> PC]
    BY <1>34 DEF DelSleep, TypeOK, Goto, PC, Holding, Outside
  <2> QED
    BY <1>34, <2>1, <2>2 DEF DelSleep, TypeOK, NewThread, EndStart, Goto,
       GotoSignalling
<1>35. CASE DelWake
  <2>1. gil' \in Threads \cup {None}
    BY <1>35 DEF DelWake, TypeOK, Lock
  <2>2. pc' \in [Threads -> PC]
    BY <1>35 DEF DelWake, TypeOK, Goto, PC, Holding, Outside
  <2> QED
    BY <1>35, <2>1, <2>2 DEF DelWake, TypeOK, NewThread, EndStart, Goto,
       GotoSignalling
<1>36. CASE DelWoken
  <2>1. gil' \in Threads \cup {None}
    BY <1>36 DEF DelWoken, TypeOK, Unlock
  <2>2. torn' \in BOOLEAN
    BY <1>36 DEF DelWoken, TypeOK
  <2>3. pc' \in [Threads -> PC]
    BY <1>36 DEF DelWoken, TypeOK, Goto, PC, Holding, Outside
  <2> QED
    BY <1>36, <2>1, <2>2, <2>3 DEF DelWoken, TypeOK, NewThread, EndStart, Goto,
       GotoSignalling
<1>37. ASSUME NEW f \in Fd, Arrive(f) PROVE TypeOK'
  <2>1. arrived' \in [Fd -> Nat]
    BY <1>37 DEF Arrive, TypeOK
  <2> QED
    BY <1>37, <2>1 DEF Arrive, TypeOK, NewThread, EndStart, Goto,
       GotoSignalling
<1>38. ASSUME NEW f \in Fd, Close(f) PROVE TypeOK'
  <2>1. conn' \in [Fd -> {"none", "socket", "open", "closed", "dropped"}]
    BY <1>38 DEF Close, TypeOK
  <2> QED
    BY <1>38, <2>1 DEF Close, TypeOK, NewThread, EndStart, Goto, GotoSignalling
<1>39. CASE UNCHANGED vars
  BY <1>39 DEF vars, TypeOK
<1> QED
  BY <1>1, <1>2, <1>3, <1>4, <1>5, <1>6, <1>7, <1>8, <1>9, <1>10, <1>11,
     <1>12, <1>13, <1>14, <1>15, <1>16, <1>17, <1>18, <1>19, <1>20, <1>21,
     <1>22, <1>23, <1>24, <1>25, <1>26, <1>27, <1>28, <1>29, <1>30, <1>31,
     <1>32, <1>33, <1>34, <1>35, <1>36, <1>37, <1>38, <1>39
     DEF Next, Script, Starting, Adding, Reading, Serving, Deleting

(* Where pthread_create does not fail, no thread is dead.                  *)
LEMMA AliveStep ==
    ASSUME MaxFailures = 0, TypeOK, Unused, ReturnsTo, OneStarter,
           NoneDead, [Next]_vars
    PROVE  NoneDead'
<1> USE ConstantFacts DEF Goto, GotoSignalling, EndStart, records, starting,
        queues, sockets, outcome, life, NoneDead, Threads
<1>0. /\ pc \in [Threads -> PC] /\ routine \in [Workers -> Routine]
      /\ made \in Nat
      /\ ret \in [Threads -> {"run", "read", "wrap", "enqueued"}]
  BY DEF TypeOK
<1> USE <1>0
<1>1. ASSUME NEW t \in Threads, SwitchOut(t) PROVE NoneDead'
  BY <1>1 DEF SwitchOut
<1>2. ASSUME NEW t \in Threads, EndScript(t) PROVE NoneDead'
  BY <1>2 DEF EndScript, AfterScript
<1>3. ASSUME NEW t \in Threads, Listen(t) PROVE NoneDead'
  <2>1. Newborn(t, "start", "run", "listen", None, "MESSAGED")
    BY <1>3, Newborns
  <2>2. pc[t] = "run"
    BY <1>3 DEF Listen
  <2> QED
    BY <2>1, <2>2, SMTT(30) DEF Newborn
<1>4. ASSUME NEW t \in Threads, NEW f \in Fd, Connect(t, f) PROVE NoneDead'
  <2>1. Newborn(t, "start", "run", "connect", f, "MESSAGED")
    BY <1>4, Newborns
  <2>2. pc[t] = "run"
    BY <1>4 DEF Connect
  <2> QED
    BY <2>1, <2>2 DEF Newborn
<1>5. ASSUME NEW t \in Threads, NEW f \in Fd, SendNew(t, f) PROVE NoneDead'
  <2>1. Newborn(t, "start", "run", "send", f, "MESSAGED")
    BY <1>5, Newborns
  <2>2. pc[t] = "run"
    BY <1>5 DEF SendNew
  <2> QED
    BY <2>1, <2>2 DEF Newborn
<1>6. ASSUME NEW t \in Threads, NEW f \in Fd, SendMore(t, f) PROVE NoneDead'
  BY <1>6 DEF SendMore
<1>7. ASSUME NEW t \in Threads, StartThread(t) PROVE NoneDead'
  <2>1. /\ child[t] \in Workers /\ child[t] # t
        /\ pc'[t] = ret[t] /\ pc'[child[t]] = Entry(routine[child[t]])
        /\ \A z \in Threads \ {t, child[t]} : pc'[z] = pc[z]
        /\ pc[t] \in {"start", "startFree"}
    BY <1>7 DEF StartThread, OneStarter, Begins, TypeOK
  <2>2. Entry(routine[child[t]]) # "dead" /\ ret[t] # "dead"
    BY <1>7 DEF StartThread, Entry, TypeOK
  <2> QED
    BY <2>1, <2>2
<1>8. ASSUME NEW t \in Threads, FailToStart(t) PROVE NoneDead'
  <2>1. failures \in 0 .. MaxFailures /\ failures < MaxFailures
    BY <1>8 DEF FailToStart, TypeOK
  <2> QED
    BY <2>1
<1>9. ASSUME NEW t \in Threads, Unstart(t) PROVE NoneDead'
  <2>1. ret[t] # "dead"
    BY DEF TypeOK
  <2> QED
    BY <1>9, <2>1 DEF Unstart
<1>10. ASSUME NEW t \in Threads, SwitchIn(t) PROVE NoneDead'
  BY <1>10 DEF SwitchIn
<1>11. ASSUME NEW t \in Threads, AddMore(t) PROVE NoneDead'
  BY <1>11 DEF AddMore
<1>12. ASSUME NEW t \in Threads, AddLength(t) PROVE NoneDead'
  BY <1>12 DEF AddLength
<1>13. ASSUME NEW t \in Threads, AddCell(t) PROVE NoneDead'
  BY <1>13 DEF AddCell
<1>14. ASSUME NEW w \in Workers, ConnectFails(w) PROVE NoneDead'
  BY <1>14 DEF ConnectFails
<1>15. ASSUME NEW w \in Workers, ConnectSucceeds(w) PROVE NoneDead'
  BY <1>15 DEF ConnectSucceeds
<1>16. ASSUME NEW w \in Workers, NEW f \in Fd, AcceptPeer(w, f) PROVE NoneDead'
  <2>1. Newborn(w, "startFree", "read", "callback", f, "CONNECTED")
    BY <1>16, Newborns
  <2>2. pc[w] = "read" /\ routine[w] = "listen"
    BY <1>16 DEF AcceptPeer
  <2> QED
    BY <2>1, <2>2 DEF Newborn
<1>17. ASSUME NEW w \in Workers, NEW f \in Fd, ReadMessage(w, f)
       PROVE  NoneDead'
  BY <1>17 DEF ReadMessage
<1>18. ASSUME NEW w \in Workers, NEW f \in Fd, ReadEnd(w, f) PROVE NoneDead'
  <2>1. Newborn(w, "startFree",
                IF routine[w] = "listen" THEN "read" ELSE "wrap",
                "callback", f, "DISCONNECTED")
    BY <1>18, Newborns
  <2>2. pc[w] = "read"
    BY <1>18 DEF ReadEnd
  <2> QED
    BY <2>1, <2>2 DEF Newborn
<1>19. ASSUME NEW w \in Workers, EnqueueNew(w) PROVE NoneDead'
  <2>1. Newborn(w, "start", "enqueued", "incoming", fd[w], "MESSAGED")
    BY <1>19, Newborns
  <2>2. pc[w] = "enqueue"
    BY <1>19 DEF EnqueueNew
  <2> QED
    BY <2>1, <2>2 DEF Newborn
<1>20. ASSUME NEW w \in Workers, EnqueueMore(w) PROVE NoneDead'
  BY <1>20 DEF EnqueueMore
<1>21. ASSUME NEW w \in Workers, Enqueued(w) PROVE NoneDead'
  BY <1>21 DEF Enqueued
<1>22. ASSUME NEW w \in Workers, Dequeue(w) PROVE NoneDead'
  BY <1>22 DEF Dequeue
<1>23. ASSUME NEW w \in Workers, DequeueLast(w) PROVE NoneDead'
  BY <1>23 DEF DequeueLast
<1>24. ASSUME NEW w \in Workers, Callback(w) PROVE NoneDead'
  BY <1>24 DEF Callback
<1>25. ASSUME NEW w \in Workers, TakeToSend(w) PROVE NoneDead'
  BY <1>25 DEF TakeToSend
<1>26. ASSUME NEW w \in Workers, Shrink(w) PROVE NoneDead'
  BY <1>26 DEF Shrink
<1>27. ASSUME NEW w \in Workers, WriteMessage(w) PROVE NoneDead'
  BY <1>27 DEF WriteMessage
<1>28. ASSUME NEW w \in Workers, StopSending(w) PROVE NoneDead'
  BY <1>28 DEF StopSending
<1>29. ASSUME NEW w \in Workers, ForgetSender(w) PROVE NoneDead'
  BY <1>29 DEF ForgetSender
<1>30. ASSUME NEW w \in Workers, Wrap(w) PROVE NoneDead'
  BY <1>30 DEF Wrap
<1>31. ASSUME NEW w \in Workers, Leave(w) PROVE NoneDead'
  BY <1>31 DEF Leave
<1>32. CASE DelLock
  BY <1>32 DEF DelLock
<1>33. CASE DelCheck
  <2>1. CASE num_threads > 0
    BY <1>33, <2>1 DEF DelCheck
  <2>2. CASE ~(num_threads > 0)
    BY <1>33, <2>2 DEF DelCheck
  <2> QED
    BY <2>1, <2>2
<1>34. CASE DelSleep
  BY <1>34 DEF DelSleep
<1>35. CASE DelWake
  BY <1>35 DEF DelWake
<1>36. CASE DelWoken
  <2>1. CASE num_threads = 0
    BY <1>36, <2>1 DEF DelWoken
  <2>2. CASE ~(num_threads = 0)
    BY <1>36, <2>2 DEF DelWoken
  <2> QED
    BY <2>1, <2>2
<1>37. ASSUME NEW f \in Fd, Arrive(f) PROVE NoneDead'
  BY <1>37 DEF Arrive
<1>38. ASSUME NEW f \in Fd, Close(f) PROVE NoneDead'
  BY <1>38 DEF Close
<1>39. CASE UNCHANGED vars
  BY <1>39 DEF vars
<1> QED
  BY <1>1, <1>2, <1>3, <1>4, <1>5, <1>6, <1>7, <1>8, <1>9, <1>10, <1>11,
     <1>12, <1>13, <1>14, <1>15, <1>16, <1>17, <1>18, <1>19, <1>20, <1>21,
     <1>22, <1>23, <1>24, <1>25, <1>26, <1>27, <1>28, <1>29, <1>30, <1>31,
     <1>32, <1>33, <1>34, <1>35, <1>36, <1>37, <1>38, <1>39
     DEF Next, Script, Starting, Adding, Reading, Serving, Deleting

(* The RECV thread that has left has left nothing.                         *)
LEMMA EmptyStep ==
    ASSUME TypeOK, AtPoints, Unused, ReturnsTo, OneStarter, Subject, Named, Adds,
           LeftEmpty, [Next]_vars
    PROVE  LeftEmpty'
<1> USE ConstantFacts DEF Goto, GotoSignalling, EndStart, records, starting,
        queues, sockets, outcome, life, Left, Main, Threads
<1>0. /\ pc \in [Threads -> PC] /\ routine \in [Workers -> Routine]
      /\ made \in Nat
      /\ len \in [Workers -> 0 .. QueueSize]
      /\ reg \in [Threads -> 0 .. CounterMod + QueueSize]
  BY DEF TypeOK
<1> USE <1>0
<1> SUFFICES ASSUME NEW v \in Workers, routine'[v] = "incoming", pc'[v] \in Left
             PROVE  len'[v] = 0
  BY DEF LeftEmpty
<1> DEFINE Goal == len'[v] = 0
<1>a. routine[v] = "incoming" /\ pc[v] \in Left => len[v] = 0
  BY DEF LeftEmpty
<1>b. \A u \in Use, f \in Fd : threads[<<f, u>>] = v => pc[v] \notin Left
  BY DEF Named
<1> USE <1>a
<1>1. ASSUME NEW t \in Threads, SwitchOut(t) PROVE Goal
  BY <1>1 DEF SwitchOut
<1>2. ASSUME NEW t \in Threads, EndScript(t) PROVE Goal
  <2>1. \/ AfterScript(t) \notin Left
        \/ t \in Workers /\ routine[t] = "callback"
    BY <1>2 DEF EndScript, AfterScript, AtPoints, Points, Scripting, Ends
  <2> QED
    BY <1>2, <2>1 DEF EndScript
<1>3. ASSUME NEW t \in Threads, Listen(t) PROVE Goal
  <2>1. Newborn(t, "start", "run", "listen", None, "MESSAGED")
    BY <1>3, Newborns
  <2>2. /\ pc[t] = "run"
        /\ len' = len
    BY <1>3 DEF Listen
  <2> QED
    BY <2>1, <2>2, SMTT(30) DEF Newborn
<1>4. ASSUME NEW t \in Threads, NEW f \in Fd, Connect(t, f) PROVE Goal
  <2>1. Newborn(t, "start", "run", "connect", f, "MESSAGED")
    BY <1>4, Newborns
  <2>2. /\ pc[t] = "run"
        /\ len' = len
    BY <1>4 DEF Connect
  <2> QED
    BY <2>1, <2>2 DEF Newborn
<1>5. ASSUME NEW t \in Threads, NEW f \in Fd, SendNew(t, f) PROVE Goal
  <2>1. Newborn(t, "start", "run", "send", f, "MESSAGED")
    BY <1>5, Newborns
  <2>2. /\ pc[t] = "run"
        /\ len' = [len EXCEPT ![made + 1] = 1]
    BY <1>5 DEF SendNew
  <2> QED
    BY <2>1, <2>2 DEF Newborn
<1>6. ASSUME NEW t \in Threads, NEW f \in Fd, SendMore(t, f) PROVE Goal
  BY <1>6 DEF SendMore
<1>7. ASSUME NEW t \in Threads, StartThread(t) PROVE Goal
  <2>1. /\ child[t] \in Workers /\ child[t] # t
        /\ pc'[t] = ret[t] /\ pc'[child[t]] = Entry(routine[child[t]])
        /\ \A z \in Threads \ {t, child[t]} : pc'[z] = pc[z]
        /\ pc[t] \in {"start", "startFree"}
    BY <1>7 DEF StartThread, OneStarter, Begins, TypeOK
  <2>2. /\ Entry(routine[child[t]]) \notin Left /\ len' = len
        /\ routine' = routine
        /\ \/ ret[t] \notin Left
           \/ t \in Workers /\ Reader(routine[t])
    BY <1>7 DEF StartThread, Entry, ReturnsTo, AtPoints, Points,
              Scripting, Ends, Reader, MainPoints
  <2> QED
    BY <2>1, <2>2 DEF Reader
<1>8. ASSUME NEW t \in Threads, FailToStart(t) PROVE Goal
  <2>1. /\ child[t] \in Workers /\ child[t] # t
        /\ pc'[t] = IF pc[t] = "start" THEN "unstart" ELSE "unstartFree"
        /\ pc'[child[t]] = "dead" /\ pc[t] \in {"start", "startFree"}
        /\ \A z \in Threads \ {t, child[t]} : pc'[z] = pc[z]
    BY <1>8 DEF FailToStart, OneStarter, Begins
  <2>2. len' = len /\ routine' = routine
    BY <1>8 DEF FailToStart
  <2> QED
    BY <2>1, <2>2
<1>9. ASSUME NEW t \in Threads, Unstart(t) PROVE Goal
  <2>1. \/ ret[t] \notin Left
        \/ t \in Workers /\ Reader(routine[t])
    BY <1>9 DEF Unstart, ReturnsTo, AtPoints, Points, Scripting, Ends, Reader,
              MainPoints
  <2> QED
    BY <1>9, <2>1 DEF Unstart, Reader
<1>10. ASSUME NEW t \in Threads, SwitchIn(t) PROVE Goal
  BY <1>10 DEF SwitchIn
<1>11. ASSUME NEW t \in Threads, AddMore(t) PROVE Goal
  <2>1. child[t] \in Workers /\ routine[child[t]] = "send"
    BY <1>11 DEF AddMore, Adds
  <2> QED
    BY <1>11, <2>1 DEF AddMore
<1>12. ASSUME NEW t \in Threads, AddLength(t) PROVE Goal
  <2>1. child[t] \in Workers /\ routine[child[t]] = "send"
    BY <1>12 DEF AddLength, Adds
  <2> QED
    BY <1>12, <2>1 DEF AddLength
<1>13. ASSUME NEW t \in Threads, AddCell(t) PROVE Goal
  BY <1>13 DEF AddCell
<1>14. ASSUME NEW w \in Workers, ConnectFails(w) PROVE Goal
  <2>1. routine[w] = "connect"
    BY <1>14 DEF ConnectFails, AtPoints, Points, Scripting, Ends
  <2> QED
    BY <1>14, <2>1 DEF ConnectFails
<1>15. ASSUME NEW w \in Workers, ConnectSucceeds(w) PROVE Goal
  BY <1>15 DEF ConnectSucceeds
<1>16. ASSUME NEW w \in Workers, NEW f \in Fd, AcceptPeer(w, f) PROVE Goal
  <2>1. Newborn(w, "startFree", "read", "callback", f, "CONNECTED")
    BY <1>16, Newborns
  <2>2. /\ pc[w] = "read" /\ routine[w] = "listen"
        /\ len' = len
    BY <1>16 DEF AcceptPeer
  <2> QED
    BY <2>1, <2>2 DEF Newborn
<1>17. ASSUME NEW w \in Workers, NEW f \in Fd, ReadMessage(w, f) PROVE Goal
  BY <1>17 DEF ReadMessage
<1>18. ASSUME NEW w \in Workers, NEW f \in Fd, ReadEnd(w, f) PROVE Goal
  <2>1. Newborn(w, "startFree",
                IF routine[w] = "listen" THEN "read" ELSE "wrap",
                "callback", f, "DISCONNECTED")
    BY <1>18, Newborns
  <2>2. /\ pc[w] = "read"
        /\ len' = len
    BY <1>18 DEF ReadEnd
  <2> QED
    BY <2>1, <2>2 DEF Newborn
<1>19. ASSUME NEW w \in Workers, EnqueueNew(w) PROVE Goal
  <2>1. Newborn(w, "start", "enqueued", "incoming", fd[w], "MESSAGED")
    BY <1>19, Newborns
  <2>2. /\ pc[w] = "enqueue"
        /\ len' = [len EXCEPT ![made + 1] = 1]
    BY <1>19 DEF EnqueueNew
  <2> QED
    BY <2>1, <2>2 DEF Newborn
<1>20. ASSUME NEW w \in Workers, EnqueueMore(w) PROVE Goal
  <2>1. fd[w] \in Fd
    BY <1>20 DEF EnqueueMore, Subject
  <2>2. v # threads[<<fd[w], "RECV">>] \/ pc[v] \notin Left
    BY <2>1, <1>b DEF Use
  <2> QED
    BY <1>20, <2>2 DEF EnqueueMore
<1>21. ASSUME NEW w \in Workers, Enqueued(w) PROVE Goal
  BY <1>21 DEF Enqueued
<1>22. ASSUME NEW w \in Workers, Dequeue(w) PROVE Goal
  BY <1>22 DEF Dequeue
<1>23. ASSUME NEW w \in Workers, DequeueLast(w) PROVE Goal
  BY <1>23 DEF DequeueLast, NoMessage
<1>24. ASSUME NEW w \in Workers, Callback(w) PROVE Goal
  BY <1>24 DEF Callback
<1>25. ASSUME NEW w \in Workers, TakeToSend(w) PROVE Goal
  BY <1>25 DEF TakeToSend
<1>26. ASSUME NEW w \in Workers, Shrink(w) PROVE Goal
  <2>1. routine[w] = "send"
    BY <1>26 DEF Shrink, AtPoints, Points, Scripting, Ends, Routine, TypeOK
  <2> QED
    BY <1>26, <2>1 DEF Shrink
<1>27. ASSUME NEW w \in Workers, WriteMessage(w) PROVE Goal
  BY <1>27 DEF WriteMessage
<1>28. ASSUME NEW w \in Workers, StopSending(w) PROVE Goal
  BY <1>28 DEF StopSending
<1>29. ASSUME NEW w \in Workers, ForgetSender(w) PROVE Goal
  <2>1. routine[w] = "send"
    BY <1>29 DEF ForgetSender, AtPoints, Points, Scripting, Ends, Routine,
       TypeOK
  <2> QED
    BY <1>29, <2>1 DEF ForgetSender
<1>30. ASSUME NEW w \in Workers, Wrap(w) PROVE Goal
  BY <1>30 DEF Wrap
<1>31. ASSUME NEW w \in Workers, Leave(w) PROVE Goal
  BY <1>31 DEF Leave
<1>32. ASSUME DelLock PROVE Goal
  BY <1>32 DEF DelLock
<1>33. ASSUME DelCheck PROVE Goal
  <2>1. CASE num_threads > 0
    BY <1>33, <2>1 DEF DelCheck
  <2>2. CASE ~(num_threads > 0)
    BY <1>33, <2>2 DEF DelCheck
  <2> QED
    BY <2>1, <2>2
<1>34. ASSUME DelSleep PROVE Goal
  BY <1>34 DEF DelSleep
<1>35. ASSUME DelWake PROVE Goal
  BY <1>35 DEF DelWake
<1>36. ASSUME DelWoken PROVE Goal
  <2>1. CASE num_threads = 0
    BY <1>36, <2>1 DEF DelWoken
  <2>2. CASE ~(num_threads = 0)
    BY <1>36, <2>2 DEF DelWoken
  <2> QED
    BY <2>1, <2>2
<1>37. ASSUME NEW f \in Fd, Arrive(f) PROVE Goal
  BY <1>37 DEF Arrive
<1>38. ASSUME NEW f \in Fd, Close(f) PROVE Goal
  BY <1>38 DEF Close
<1>39. ASSUME UNCHANGED vars PROVE Goal
  BY <1>39 DEF vars
<1> QED
  BY <1>1, <1>2, <1>3, <1>4, <1>5, <1>6, <1>7, <1>8, <1>9, <1>10, <1>11,
     <1>12, <1>13, <1>14, <1>15, <1>16, <1>17, <1>18, <1>19, <1>20, <1>21,
     <1>22, <1>23, <1>24, <1>25, <1>26, <1>27, <1>28, <1>29, <1>30, <1>31,
     <1>32, <1>33, <1>34, <1>35, <1>36, <1>37, <1>38, <1>39
     DEF Next, Script, Starting, Adding, Reading, Serving, Deleting

(* Clients and peers have readers of their own.                            *)
LEMMA SidesStep ==
    ASSUME TypeOK, AtPoints, Unused, ReturnsTo, OneStarter, Subject, Sides,
           [Next]_vars
    PROVE  Sides'
<1> USE ConstantFacts DEF Goto, GotoSignalling, EndStart, records, starting,
        queues, sockets, outcome, life, Fd, Main, Threads
<1>0. /\ pc \in [Threads -> PC] /\ routine \in [Workers -> Routine]
      /\ made \in Nat
      /\ fd \in [Workers -> Fd \cup {None}]
      /\ conn \in [Fd -> {"none", "socket", "open", "closed", "dropped"}]
  BY DEF TypeOK
<1> USE <1>0
<1> SUFFICES ASSUME NEW v \in Workers, pc'[v] # "unused"
             PROVE  /\ routine'[v] = "connect"
                          => fd'[v] \in Clients /\ conn'[fd'[v]] # "none"
                    /\ routine'[v] = "listen" /\ pc'[v] = "enqueue"
                          => fd'[v] \in Peers
  BY DEF Sides
<1> DEFINE Goal == /\ routine'[v] = "connect"
                         => fd'[v] \in Clients /\ conn'[fd'[v]] # "none"
                   /\ routine'[v] = "listen" /\ pc'[v] = "enqueue"
                         => fd'[v] \in Peers
<1>a. pc[v] # "unused" =>
         /\ routine[v] = "connect" => fd[v] \in Clients /\ conn[fd[v]] # "none"
         /\ routine[v] = "listen" /\ pc[v] = "enqueue" => fd[v] \in Peers
  BY DEF Sides
<1> USE <1>a
<1>1. ASSUME NEW t \in Threads, SwitchOut(t) PROVE Goal
  BY <1>1 DEF SwitchOut
<1>2. ASSUME NEW t \in Threads, EndScript(t) PROVE Goal
  BY <1>2 DEF EndScript, AfterScript
<1>3. ASSUME NEW t \in Threads, Listen(t) PROVE Goal
  <2>1. Newborn(t, "start", "run", "listen", None, "MESSAGED")
    BY <1>3, Newborns
  <2>2. /\ pc[t] = "run"
        /\ conn' = conn
    BY <1>3 DEF Listen
  <2> QED
    BY <2>1, <2>2, SMTT(30) DEF Newborn
<1>4. ASSUME NEW t \in Threads, NEW f \in Fd, Connect(t, f) PROVE Goal
  <2>1. Newborn(t, "start", "run", "connect", f, "MESSAGED")
    BY <1>4, Newborns
  <2>2. /\ pc[t] = "run"
        /\ conn' = [conn EXCEPT ![f] = "socket"] /\ f \in Clients
    BY <1>4 DEF Connect
  <2> QED
    BY <2>1, <2>2 DEF Newborn
<1>5. ASSUME NEW t \in Threads, NEW f \in Fd, SendNew(t, f) PROVE Goal
  <2>1. Newborn(t, "start", "run", "send", f, "MESSAGED")
    BY <1>5, Newborns
  <2>2. /\ pc[t] = "run"
        /\ conn' = conn
    BY <1>5 DEF SendNew
  <2> QED
    BY <2>1, <2>2 DEF Newborn
<1>6. ASSUME NEW t \in Threads, NEW f \in Fd, SendMore(t, f) PROVE Goal
  BY <1>6 DEF SendMore
<1>7. ASSUME NEW t \in Threads, StartThread(t) PROVE Goal
  <2>1. /\ child[t] \in Workers /\ child[t] # t
        /\ pc'[t] = ret[t] /\ pc'[child[t]] = Entry(routine[child[t]])
        /\ \A z \in Threads \ {t, child[t]} : pc'[z] = pc[z]
        /\ pc[t] \in {"start", "startFree"}
    BY <1>7 DEF StartThread, OneStarter, Begins, TypeOK
  <2>2. /\ Entry(routine[child[t]]) \notin {"enqueue", "unused"}
        /\ ret[t] \notin {"enqueue", "unused"}
        /\ pc[child[t]] = "made" /\ fd' = fd /\ routine' = routine
        /\ conn' = conn
    BY <1>7 DEF StartThread, Entry, OneStarter, Begins, TypeOK
  <2> QED
    BY <2>1, <2>2
<1>8. ASSUME NEW t \in Threads, FailToStart(t) PROVE Goal
  <2>1. /\ child[t] \in Workers /\ child[t] # t
        /\ pc'[t] = IF pc[t] = "start" THEN "unstart" ELSE "unstartFree"
        /\ pc'[child[t]] = "dead" /\ pc[t] \in {"start", "startFree"}
        /\ \A z \in Threads \ {t, child[t]} : pc'[z] = pc[z]
    BY <1>8 DEF FailToStart, OneStarter, Begins
  <2>2. /\ pc[child[t]] = "made" /\ fd' = fd /\ routine' = routine
        /\ conn' = conn
    BY <1>8 DEF FailToStart, OneStarter, Begins
  <2> QED
    BY <2>1, <2>2
<1>9. ASSUME NEW t \in Threads, Unstart(t) PROVE Goal
  <2>1. ret[t] \notin {"enqueue", "unused"}
    BY DEF TypeOK
  <2> QED
    BY <1>9, <2>1 DEF Unstart
<1>10. ASSUME NEW t \in Threads, SwitchIn(t) PROVE Goal
  BY <1>10 DEF SwitchIn
<1>11. ASSUME NEW t \in Threads, AddMore(t) PROVE Goal
  BY <1>11 DEF AddMore
<1>12. ASSUME NEW t \in Threads, AddLength(t) PROVE Goal
  BY <1>12 DEF AddLength
<1>13. ASSUME NEW t \in Threads, AddCell(t) PROVE Goal
  BY <1>13 DEF AddCell
<1>14. ASSUME NEW w \in Workers, ConnectFails(w) PROVE Goal
  BY <1>14 DEF ConnectFails
<1>15. ASSUME NEW w \in Workers, ConnectSucceeds(w) PROVE Goal
  BY <1>15 DEF ConnectSucceeds
<1>16. ASSUME NEW w \in Workers, NEW f \in Fd, AcceptPeer(w, f) PROVE Goal
  <2>1. Newborn(w, "startFree", "read", "callback", f, "CONNECTED")
    BY <1>16, Newborns
  <2>2. /\ pc[w] = "read" /\ routine[w] = "listen"
        /\ conn' = [conn EXCEPT ![f] = "open"] /\ f \in Peers
    BY <1>16 DEF AcceptPeer
  <2> QED
    BY <2>1, <2>2 DEF Newborn
<1>17. ASSUME NEW w \in Workers, NEW f \in Fd, ReadMessage(w, f) PROVE Goal
  <2>1. Reader(routine[w]) /\ (routine[w] = "listen" => f \in Peers)
        /\ (routine[w] # "listen" => f = fd[w])
    BY <1>17 DEF ReadMessage, AtPoints, Points, Scripting, Ends, Reader, Reads
  <2> QED
    BY <1>17, <2>1 DEF ReadMessage, Reader
<1>18. ASSUME NEW w \in Workers, NEW f \in Fd, ReadEnd(w, f) PROVE Goal
  <2>1. Newborn(w, "startFree",
                IF routine[w] = "listen" THEN "read" ELSE "wrap",
                "callback", f, "DISCONNECTED")
    BY <1>18, Newborns
  <2>2. /\ pc[w] = "read"
        /\ conn' = [conn EXCEPT ![f] = "dropped"]
    BY <1>18 DEF ReadEnd
  <2> QED
    BY <2>1, <2>2 DEF Newborn
<1>19. ASSUME NEW w \in Workers, EnqueueNew(w) PROVE Goal
  <2>1. Newborn(w, "start", "enqueued", "incoming", fd[w], "MESSAGED")
    BY <1>19, Newborns
  <2>2. /\ pc[w] = "enqueue"
        /\ conn' = conn
    BY <1>19 DEF EnqueueNew
  <2> QED
    BY <2>1, <2>2 DEF Newborn
<1>20. ASSUME NEW w \in Workers, EnqueueMore(w) PROVE Goal
  BY <1>20 DEF EnqueueMore
<1>21. ASSUME NEW w \in Workers, Enqueued(w) PROVE Goal
  BY <1>21 DEF Enqueued
<1>22. ASSUME NEW w \in Workers, Dequeue(w) PROVE Goal
  BY <1>22 DEF Dequeue
<1>23. ASSUME NEW w \in Workers, DequeueLast(w) PROVE Goal
  BY <1>23 DEF DequeueLast
<1>24. ASSUME NEW w \in Workers, Callback(w) PROVE Goal
  BY <1>24 DEF Callback
<1>25. ASSUME NEW w \in Workers, TakeToSend(w) PROVE Goal
  BY <1>25 DEF TakeToSend
<1>26. ASSUME NEW w \in Workers, Shrink(w) PROVE Goal
  BY <1>26 DEF Shrink
<1>27. ASSUME NEW w \in Workers, WriteMessage(w) PROVE Goal
  BY <1>27 DEF WriteMessage
<1>28. ASSUME NEW w \in Workers, StopSending(w) PROVE Goal
  BY <1>28 DEF StopSending
<1>29. ASSUME NEW w \in Workers, ForgetSender(w) PROVE Goal
  BY <1>29 DEF ForgetSender
<1>30. ASSUME NEW w \in Workers, Wrap(w) PROVE Goal
  BY <1>30 DEF Wrap
<1>31. ASSUME NEW w \in Workers, Leave(w) PROVE Goal
  BY <1>31 DEF Leave
<1>32. ASSUME DelLock PROVE Goal
  BY <1>32 DEF DelLock
<1>33. ASSUME DelCheck PROVE Goal
  <2>1. CASE num_threads > 0
    BY <1>33, <2>1 DEF DelCheck
  <2>2. CASE ~(num_threads > 0)
    BY <1>33, <2>2 DEF DelCheck
  <2> QED
    BY <2>1, <2>2
<1>34. ASSUME DelSleep PROVE Goal
  BY <1>34 DEF DelSleep
<1>35. ASSUME DelWake PROVE Goal
  BY <1>35 DEF DelWake
<1>36. ASSUME DelWoken PROVE Goal
  <2>1. CASE num_threads = 0
    BY <1>36, <2>1 DEF DelWoken
  <2>2. CASE ~(num_threads = 0)
    BY <1>36, <2>2 DEF DelWoken
  <2> QED
    BY <2>1, <2>2
<1>37. ASSUME NEW f \in Fd, Arrive(f) PROVE Goal
  BY <1>37 DEF Arrive
<1>38. ASSUME NEW f \in Fd, Close(f) PROVE Goal
  BY <1>38 DEF Close
<1>39. ASSUME UNCHANGED vars PROVE Goal
  BY <1>39 DEF vars
<1> QED
  BY <1>1, <1>2, <1>3, <1>4, <1>5, <1>6, <1>7, <1>8, <1>9, <1>10, <1>11,
     <1>12, <1>13, <1>14, <1>15, <1>16, <1>17, <1>18, <1>19, <1>20, <1>21,
     <1>22, <1>23, <1>24, <1>25, <1>26, <1>27, <1>28, <1>29, <1>30, <1>31,
     <1>32, <1>33, <1>34, <1>35, <1>36, <1>37, <1>38, <1>39
     DEF Next, Script, Starting, Adding, Reading, Serving, Deleting

(* One thread reads each connection.                                       *)
LEMMA OneReaderStep ==
    ASSUME TypeOK, AtPoints, Unused, ReturnsTo, OneStarter, Subject, Sides,
           OneReader, [Next]_vars
    PROVE  OneReader'
<1> USE ConstantFacts DEF Goto, GotoSignalling, EndStart, records, starting,
        queues, sockets, outcome, life, Main, Threads
<1>0. /\ pc \in [Threads -> PC] /\ routine \in [Workers -> Routine]
      /\ made \in Nat
      /\ fd \in [Workers -> Fd \cup {None}]
      /\ conn \in [Fd -> {"none", "socket", "open", "closed", "dropped"}]
  BY DEF TypeOK
<1> USE <1>0
<1> SUFFICES ASSUME NEW v \in Workers, NEW x \in Workers,
                    pc'[v] # "unused", pc'[x] # "unused", routine'[v] = routine'[x],
                    routine'[x] = "listen" \/ (routine'[x] = "connect" /\ fd'[v] = fd'[x])
             PROVE  v = x
  BY DEF OneReader
<1> DEFINE Goal == v = x
<1>a. /\ pc[v] # "unused" /\ pc[x] # "unused" /\ routine[v] = routine[x]
      /\ routine[x] = "listen" \/ (routine[x] = "connect" /\ fd[v] = fd[x])
      => v = x
  BY DEF OneReader
<1> USE <1>a
<1>1. ASSUME NEW t \in Threads, SwitchOut(t) PROVE Goal
  BY <1>1 DEF SwitchOut
<1>2. ASSUME NEW t \in Threads, EndScript(t) PROVE Goal
  BY <1>2 DEF EndScript, AfterScript
<1>3. ASSUME NEW t \in Threads, Listen(t) PROVE Goal
  <2>1. Newborn(t, "start", "run", "listen", None, "MESSAGED")
    BY <1>3, Newborns
  <2>2. /\ pc[t] = "run"
        /\ \A y \in Workers : pc[y] # "unused" => routine[y] # "listen"
    BY <1>3 DEF Listen, Unused, Workers
  <2>3. ASSUME NEW y \in Workers \ {made + 1}, pc'[y] # "unused", routine'[y] = "listen"
        PROVE  FALSE
    BY <2>1, <2>2, <2>3 DEF Newborn
  <2>4. CASE v # made + 1 /\ x # made + 1
    BY <2>1, <2>2, <2>4 DEF Newborn
  <2>5. routine'[made + 1] = "listen"
    BY <2>1 DEF Newborn
  <2>6. CASE v = made + 1 /\ x # made + 1
    BY <2>3, <2>5, <2>6
  <2>7. CASE v # made + 1 /\ x = made + 1
    BY <2>3, <2>5, <2>7
  <2> QED
    BY <2>4, <2>6, <2>7
<1>4. ASSUME NEW t \in Threads, NEW f \in Fd, Connect(t, f) PROVE Goal
  <2>1. Newborn(t, "start", "run", "connect", f, "MESSAGED")
    BY <1>4, Newborns
  <2>2. /\ pc[t] = "run"
        /\ \A y \in Workers : pc[y] # "unused" /\ routine[y] = "connect"
              => fd[y] # f
    BY <1>4 DEF Connect, Sides
  <2>3. ASSUME NEW y \in Workers \ {made + 1}, pc'[y] # "unused", routine'[y] = "connect", fd'[y] = f
        PROVE  FALSE
    BY <2>1, <2>2, <2>3 DEF Newborn
  <2>4. CASE v # made + 1 /\ x # made + 1
    BY <2>1, <2>2, <2>4 DEF Newborn
  <2>5. routine'[made + 1] = "connect" /\ fd'[made + 1] = f
    BY <2>1 DEF Newborn
  <2>6. CASE v = made + 1 /\ x # made + 1
    BY <2>3, <2>5, <2>6
  <2>7. CASE v # made + 1 /\ x = made + 1
    BY <2>3, <2>5, <2>7
  <2> QED
    BY <2>4, <2>6, <2>7
<1>5. ASSUME NEW t \in Threads, NEW f \in Fd, SendNew(t, f) PROVE Goal
  <2>1. Newborn(t, "start", "run", "send", f, "MESSAGED")
    BY <1>5, Newborns
  <2>2. pc[t] = "run"
    BY <1>5 DEF SendNew
  <2> QED
    BY <2>1, <2>2 DEF Newborn
<1>6. ASSUME NEW t \in Threads, NEW f \in Fd, SendMore(t, f) PROVE Goal
  BY <1>6 DEF SendMore
<1>7. ASSUME NEW t \in Threads, StartThread(t) PROVE Goal
  <2>1. /\ child[t] \in Workers /\ child[t] # t
        /\ pc'[t] = ret[t] /\ pc'[child[t]] = Entry(routine[child[t]])
        /\ \A z \in Threads \ {t, child[t]} : pc'[z] = pc[z]
        /\ pc[t] \in {"start", "startFree"}
    BY <1>7 DEF StartThread, OneStarter, Begins, TypeOK
  <2>2. /\ Entry(routine[child[t]]) \notin {"enqueue", "unused"}
        /\ ret[t] \notin {"enqueue", "unused"}
        /\ pc[child[t]] = "made" /\ fd' = fd /\ routine' = routine
        /\ TRUE
    BY <1>7 DEF StartThread, Entry, OneStarter, Begins, TypeOK
  <2> QED
    BY <2>1, <2>2
<1>8. ASSUME NEW t \in Threads, FailToStart(t) PROVE Goal
  <2>1. /\ child[t] \in Workers /\ child[t] # t
        /\ pc'[t] = IF pc[t] = "start" THEN "unstart" ELSE "unstartFree"
        /\ pc'[child[t]] = "dead" /\ pc[t] \in {"start", "startFree"}
        /\ \A z \in Threads \ {t, child[t]} : pc'[z] = pc[z]
    BY <1>8 DEF FailToStart, OneStarter, Begins
  <2>2. /\ pc[child[t]] = "made" /\ fd' = fd /\ routine' = routine
        /\ TRUE
    BY <1>8 DEF FailToStart, OneStarter, Begins
  <2> QED
    BY <2>1, <2>2
<1>9. ASSUME NEW t \in Threads, Unstart(t) PROVE Goal
  <2>1. ret[t] \notin {"enqueue", "unused"}
    BY DEF TypeOK
  <2> QED
    BY <1>9, <2>1 DEF Unstart
<1>10. ASSUME NEW t \in Threads, SwitchIn(t) PROVE Goal
  BY <1>10 DEF SwitchIn
<1>11. ASSUME NEW t \in Threads, AddMore(t) PROVE Goal
  BY <1>11 DEF AddMore
<1>12. ASSUME NEW t \in Threads, AddLength(t) PROVE Goal
  BY <1>12 DEF AddLength
<1>13. ASSUME NEW t \in Threads, AddCell(t) PROVE Goal
  BY <1>13 DEF AddCell
<1>14. ASSUME NEW w \in Workers, ConnectFails(w) PROVE Goal
  BY <1>14 DEF ConnectFails
<1>15. ASSUME NEW w \in Workers, ConnectSucceeds(w) PROVE Goal
  BY <1>15 DEF ConnectSucceeds
<1>16. ASSUME NEW w \in Workers, NEW f \in Fd, AcceptPeer(w, f) PROVE Goal
  <2>1. Newborn(w, "startFree", "read", "callback", f, "CONNECTED")
    BY <1>16, Newborns
  <2>2. pc[w] = "read" /\ routine[w] = "listen"
    BY <1>16 DEF AcceptPeer
  <2> QED
    BY <2>1, <2>2 DEF Newborn
<1>17. ASSUME NEW w \in Workers, NEW f \in Fd, ReadMessage(w, f) PROVE Goal
  <2>1. Reader(routine[w]) /\ (routine[w] # "listen" => f = fd[w])
    BY <1>17 DEF ReadMessage, AtPoints, Points, Scripting, Ends, Reader, Reads
  <2> QED
    BY <1>17, <2>1 DEF ReadMessage, Reader
<1>18. ASSUME NEW w \in Workers, NEW f \in Fd, ReadEnd(w, f) PROVE Goal
  <2>1. Newborn(w, "startFree",
                IF routine[w] = "listen" THEN "read" ELSE "wrap",
                "callback", f, "DISCONNECTED")
    BY <1>18, Newborns
  <2>2. pc[w] = "read"
    BY <1>18 DEF ReadEnd
  <2> QED
    BY <2>1, <2>2 DEF Newborn
<1>19. ASSUME NEW w \in Workers, EnqueueNew(w) PROVE Goal
  <2>1. Newborn(w, "start", "enqueued", "incoming", fd[w], "MESSAGED")
    BY <1>19, Newborns
  <2>2. pc[w] = "enqueue"
    BY <1>19 DEF EnqueueNew
  <2> QED
    BY <2>1, <2>2 DEF Newborn
<1>20. ASSUME NEW w \in Workers, EnqueueMore(w) PROVE Goal
  BY <1>20 DEF EnqueueMore
<1>21. ASSUME NEW w \in Workers, Enqueued(w) PROVE Goal
  BY <1>21 DEF Enqueued
<1>22. ASSUME NEW w \in Workers, Dequeue(w) PROVE Goal
  BY <1>22 DEF Dequeue
<1>23. ASSUME NEW w \in Workers, DequeueLast(w) PROVE Goal
  BY <1>23 DEF DequeueLast
<1>24. ASSUME NEW w \in Workers, Callback(w) PROVE Goal
  BY <1>24 DEF Callback
<1>25. ASSUME NEW w \in Workers, TakeToSend(w) PROVE Goal
  BY <1>25 DEF TakeToSend
<1>26. ASSUME NEW w \in Workers, Shrink(w) PROVE Goal
  BY <1>26 DEF Shrink
<1>27. ASSUME NEW w \in Workers, WriteMessage(w) PROVE Goal
  BY <1>27 DEF WriteMessage
<1>28. ASSUME NEW w \in Workers, StopSending(w) PROVE Goal
  BY <1>28 DEF StopSending
<1>29. ASSUME NEW w \in Workers, ForgetSender(w) PROVE Goal
  BY <1>29 DEF ForgetSender
<1>30. ASSUME NEW w \in Workers, Wrap(w) PROVE Goal
  BY <1>30 DEF Wrap
<1>31. ASSUME NEW w \in Workers, Leave(w) PROVE Goal
  BY <1>31 DEF Leave
<1>32. ASSUME DelLock PROVE Goal
  BY <1>32 DEF DelLock
<1>33. ASSUME DelCheck PROVE Goal
  <2>1. CASE num_threads > 0
    BY <1>33, <2>1 DEF DelCheck
  <2>2. CASE ~(num_threads > 0)
    BY <1>33, <2>2 DEF DelCheck
  <2> QED
    BY <2>1, <2>2
<1>34. ASSUME DelSleep PROVE Goal
  BY <1>34 DEF DelSleep
<1>35. ASSUME DelWake PROVE Goal
  BY <1>35 DEF DelWake
<1>36. ASSUME DelWoken PROVE Goal
  <2>1. CASE num_threads = 0
    BY <1>36, <2>1 DEF DelWoken
  <2>2. CASE ~(num_threads = 0)
    BY <1>36, <2>2 DEF DelWoken
  <2> QED
    BY <2>1, <2>2
<1>37. ASSUME NEW f \in Fd, Arrive(f) PROVE Goal
  BY <1>37 DEF Arrive
<1>38. ASSUME NEW f \in Fd, Close(f) PROVE Goal
  BY <1>38 DEF Close
<1>39. ASSUME UNCHANGED vars PROVE Goal
  BY <1>39 DEF vars
<1> QED
  BY <1>1, <1>2, <1>3, <1>4, <1>5, <1>6, <1>7, <1>8, <1>9, <1>10, <1>11,
     <1>12, <1>13, <1>14, <1>15, <1>16, <1>17, <1>18, <1>19, <1>20, <1>21,
     <1>22, <1>23, <1>24, <1>25, <1>26, <1>27, <1>28, <1>29, <1>30, <1>31,
     <1>32, <1>33, <1>34, <1>35, <1>36, <1>37, <1>38, <1>39
     DEF Next, Script, Starting, Adding, Reading, Serving, Deleting

(* Threads call back for their events.                                     *)
LEMMA EventsStep ==
    ASSUME TypeOK, AtPoints, Unused, ReturnsTo, OneStarter, Events,
           [Next]_vars
    PROVE  Events'
<1> USE ConstantFacts DEF Goto, GotoSignalling, EndStart, records, starting,
        queues, sockets, outcome, life, Events, Main, Threads
<1>0. /\ pc \in [Threads -> PC] /\ routine \in [Workers -> Routine]
      /\ made \in Nat
      /\ event \in [Workers -> Event]
  BY DEF TypeOK
<1> USE <1>0
<1>1. ASSUME NEW t \in Threads, SwitchOut(t) PROVE Events'
  BY <1>1 DEF SwitchOut
<1>2. ASSUME NEW t \in Threads, EndScript(t) PROVE Events'
  BY <1>2 DEF EndScript, AfterScript
<1>3. ASSUME NEW t \in Threads, Listen(t) PROVE Events'
  <2>1. Newborn(t, "start", "run", "listen", None, "MESSAGED")
    BY <1>3, Newborns
  <2>2. pc[t] = "run"
    BY <1>3 DEF Listen
  <2> QED
    BY <2>1, <2>2, SMTT(30) DEF Newborn
<1>4. ASSUME NEW t \in Threads, NEW f \in Fd, Connect(t, f) PROVE Events'
  <2>1. Newborn(t, "start", "run", "connect", f, "MESSAGED")
    BY <1>4, Newborns
  <2>2. pc[t] = "run"
    BY <1>4 DEF Connect
  <2> QED
    BY <2>1, <2>2 DEF Newborn
<1>5. ASSUME NEW t \in Threads, NEW f \in Fd, SendNew(t, f) PROVE Events'
  <2>1. Newborn(t, "start", "run", "send", f, "MESSAGED")
    BY <1>5, Newborns
  <2>2. pc[t] = "run"
    BY <1>5 DEF SendNew
  <2> QED
    BY <2>1, <2>2 DEF Newborn
<1>6. ASSUME NEW t \in Threads, NEW f \in Fd, SendMore(t, f) PROVE Events'
  BY <1>6 DEF SendMore
<1>7. ASSUME NEW t \in Threads, StartThread(t) PROVE Events'
  <2>1. /\ child[t] \in Workers /\ child[t] # t
        /\ pc'[t] = ret[t] /\ pc'[child[t]] = Entry(routine[child[t]])
        /\ \A z \in Threads \ {t, child[t]} : pc'[z] = pc[z]
        /\ pc[t] \in {"start", "startFree"}
    BY <1>7 DEF StartThread, OneStarter, Begins, TypeOK
  <2>2. /\ Entry(routine[child[t]]) # "unused"
        /\ ret[t] \notin {"call", "unused"}
        /\ routine[child[t]] = "connect" => Entry(routine[child[t]]) # "call"
        /\ pc[child[t]] = "made" /\ event' = event /\ routine' = routine
    BY <1>7 DEF StartThread, Entry, OneStarter, Begins, TypeOK
  <2> QED
    BY <2>1, <2>2
<1>8. ASSUME NEW t \in Threads, FailToStart(t) PROVE Events'
  <2>1. /\ child[t] \in Workers /\ child[t] # t
        /\ pc'[t] = IF pc[t] = "start" THEN "unstart" ELSE "unstartFree"
        /\ pc'[child[t]] = "dead" /\ pc[t] \in {"start", "startFree"}
        /\ \A z \in Threads \ {t, child[t]} : pc'[z] = pc[z]
    BY <1>8 DEF FailToStart, OneStarter, Begins
  <2>2. /\ pc[child[t]] = "made" /\ fd' = fd /\ routine' = routine
        /\ event' = event
    BY <1>8 DEF FailToStart, OneStarter, Begins
  <2> QED
    BY <2>1, <2>2
<1>9. ASSUME NEW t \in Threads, Unstart(t) PROVE Events'
  <2>1. ret[t] \notin {"call", "unused"}
    BY DEF TypeOK
  <2> QED
    BY <1>9, <2>1 DEF Unstart
<1>10. ASSUME NEW t \in Threads, SwitchIn(t) PROVE Events'
  BY <1>10 DEF SwitchIn
<1>11. ASSUME NEW t \in Threads, AddMore(t) PROVE Events'
  BY <1>11 DEF AddMore
<1>12. ASSUME NEW t \in Threads, AddLength(t) PROVE Events'
  BY <1>12 DEF AddLength
<1>13. ASSUME NEW t \in Threads, AddCell(t) PROVE Events'
  BY <1>13 DEF AddCell
<1>14. ASSUME NEW w \in Workers, ConnectFails(w) PROVE Events'
  BY <1>14 DEF ConnectFails
<1>15. ASSUME NEW w \in Workers, ConnectSucceeds(w) PROVE Events'
  <2>1. routine[w] = "connect"
    BY <1>15 DEF ConnectSucceeds, AtPoints, Points, Scripting, Ends
  <2> QED
    BY <1>15, <2>1 DEF ConnectSucceeds
<1>16. ASSUME NEW w \in Workers, NEW f \in Fd, AcceptPeer(w, f) PROVE Events'
  <2>1. Newborn(w, "startFree", "read", "callback", f, "CONNECTED")
    BY <1>16, Newborns
  <2>2. pc[w] = "read" /\ routine[w] = "listen"
    BY <1>16 DEF AcceptPeer
  <2> QED
    BY <2>1, <2>2 DEF Newborn
<1>17. ASSUME NEW w \in Workers, NEW f \in Fd, ReadMessage(w, f) PROVE Events'
  BY <1>17 DEF ReadMessage
<1>18. ASSUME NEW w \in Workers, NEW f \in Fd, ReadEnd(w, f) PROVE Events'
  <2>1. Newborn(w, "startFree",
                IF routine[w] = "listen" THEN "read" ELSE "wrap",
                "callback", f, "DISCONNECTED")
    BY <1>18, Newborns
  <2>2. pc[w] = "read"
    BY <1>18 DEF ReadEnd
  <2> QED
    BY <2>1, <2>2 DEF Newborn
<1>19. ASSUME NEW w \in Workers, EnqueueNew(w) PROVE Events'
  <2>1. Newborn(w, "start", "enqueued", "incoming", fd[w], "MESSAGED")
    BY <1>19, Newborns
  <2>2. pc[w] = "enqueue"
    BY <1>19 DEF EnqueueNew
  <2> QED
    BY <2>1, <2>2 DEF Newborn
<1>20. ASSUME NEW w \in Workers, EnqueueMore(w) PROVE Events'
  BY <1>20 DEF EnqueueMore
<1>21. ASSUME NEW w \in Workers, Enqueued(w) PROVE Events'
  BY <1>21 DEF Enqueued
<1>22. ASSUME NEW w \in Workers, Dequeue(w) PROVE Events'
  <2>1. routine[w] = "incoming"
    BY <1>22 DEF Dequeue, AtPoints, Points, Scripting, Ends
  <2> QED
    BY <1>22, <2>1 DEF Dequeue
<1>23. ASSUME NEW w \in Workers, DequeueLast(w) PROVE Events'
  BY <1>23 DEF DequeueLast
<1>24. ASSUME NEW w \in Workers, Callback(w) PROVE Events'
  BY <1>24 DEF Callback
<1>25. ASSUME NEW w \in Workers, TakeToSend(w) PROVE Events'
  BY <1>25 DEF TakeToSend
<1>26. ASSUME NEW w \in Workers, Shrink(w) PROVE Events'
  BY <1>26 DEF Shrink
<1>27. ASSUME NEW w \in Workers, WriteMessage(w) PROVE Events'
  BY <1>27 DEF WriteMessage
<1>28. ASSUME NEW w \in Workers, StopSending(w) PROVE Events'
  BY <1>28 DEF StopSending
<1>29. ASSUME NEW w \in Workers, ForgetSender(w) PROVE Events'
  BY <1>29 DEF ForgetSender
<1>30. ASSUME NEW w \in Workers, Wrap(w) PROVE Events'
  BY <1>30 DEF Wrap
<1>31. ASSUME NEW w \in Workers, Leave(w) PROVE Events'
  BY <1>31 DEF Leave
<1>32. CASE DelLock
  BY <1>32 DEF DelLock
<1>33. CASE DelCheck
  <2>1. CASE num_threads > 0
    BY <1>33, <2>1 DEF DelCheck
  <2>2. CASE ~(num_threads > 0)
    BY <1>33, <2>2 DEF DelCheck
  <2> QED
    BY <2>1, <2>2
<1>34. CASE DelSleep
  BY <1>34 DEF DelSleep
<1>35. CASE DelWake
  BY <1>35 DEF DelWake
<1>36. CASE DelWoken
  <2>1. CASE num_threads = 0
    BY <1>36, <2>1 DEF DelWoken
  <2>2. CASE ~(num_threads = 0)
    BY <1>36, <2>2 DEF DelWoken
  <2> QED
    BY <2>1, <2>2
<1>37. ASSUME NEW f \in Fd, Arrive(f) PROVE Events'
  BY <1>37 DEF Arrive
<1>38. ASSUME NEW f \in Fd, Close(f) PROVE Events'
  BY <1>38 DEF Close
<1>39. CASE UNCHANGED vars
  BY <1>39 DEF vars
<1> QED
  BY <1>1, <1>2, <1>3, <1>4, <1>5, <1>6, <1>7, <1>8, <1>9, <1>10, <1>11,
     <1>12, <1>13, <1>14, <1>15, <1>16, <1>17, <1>18, <1>19, <1>20, <1>21,
     <1>22, <1>23, <1>24, <1>25, <1>26, <1>27, <1>28, <1>29, <1>30, <1>31,
     <1>32, <1>33, <1>34, <1>35, <1>36, <1>37, <1>38, <1>39
     DEF Next, Script, Starting, Adding, Reading, Serving, Deleting

(* A reader carries the message that it took last.                         *)
LEMMA InHandStep ==
    ASSUME TypeOK, AtPoints, Unused, ReturnsTo, OneStarter, Subject, Sides,
           OneReader, InHand, [Next]_vars
    PROVE  InHand'
<1> USE ConstantFacts DEF Goto, GotoSignalling, EndStart, records, starting,
        queues, sockets, outcome, life, Main, Threads
<1>0. /\ pc \in [Threads -> PC] /\ routine \in [Workers -> Routine]
      /\ made \in Nat
      /\ fd \in [Workers -> Fd \cup {None}]
      /\ msg \in [Threads -> Nat] /\ taken \in [Fd -> Nat]
  BY DEF TypeOK
<1> USE <1>0
<1> SUFFICES ASSUME NEW v \in Workers, pc'[v] = "enqueue"
             PROVE  msg'[v] = taken'[fd'[v]] /\ taken'[fd'[v]] > 0
  BY DEF InHand
<1> DEFINE Goal == msg'[v] = taken'[fd'[v]] /\ taken'[fd'[v]] > 0
<1>a. pc[v] = "enqueue" => msg[v] = taken[fd[v]] /\ taken[fd[v]] > 0 /\ fd[v] \in Fd
  BY DEF InHand, Subject
<1> USE <1>a
<1>1. ASSUME NEW t \in Threads, SwitchOut(t) PROVE Goal
  BY <1>1 DEF SwitchOut
<1>2. ASSUME NEW t \in Threads, EndScript(t) PROVE Goal
  BY <1>2 DEF EndScript, AfterScript
<1>3. ASSUME NEW t \in Threads, Listen(t) PROVE Goal
  <2>1. Newborn(t, "start", "run", "listen", None, "MESSAGED")
    BY <1>3, Newborns
  <2>2. /\ pc[t] = "run"
        /\ msg' = msg /\ taken' = taken
    BY <1>3 DEF Listen
  <2> QED
    BY <2>1, <2>2, SMTT(30) DEF Newborn
<1>4. ASSUME NEW t \in Threads, NEW f \in Fd, Connect(t, f) PROVE Goal
  <2>1. Newborn(t, "start", "run", "connect", f, "MESSAGED")
    BY <1>4, Newborns
  <2>2. /\ pc[t] = "run"
        /\ msg' = msg /\ taken' = taken
    BY <1>4 DEF Connect
  <2> QED
    BY <2>1, <2>2 DEF Newborn
<1>5. ASSUME NEW t \in Threads, NEW f \in Fd, SendNew(t, f) PROVE Goal
  <2>1. Newborn(t, "start", "run", "send", f, "MESSAGED")
    BY <1>5, Newborns
  <2>2. /\ pc[t] = "run"
        /\ msg' = msg /\ taken' = taken
    BY <1>5 DEF SendNew
  <2> QED
    BY <2>1, <2>2 DEF Newborn
<1>6. ASSUME NEW t \in Threads, NEW f \in Fd, SendMore(t, f) PROVE Goal
  BY <1>6 DEF SendMore
<1>7. ASSUME NEW t \in Threads, StartThread(t) PROVE Goal
  <2>1. /\ child[t] \in Workers /\ child[t] # t
        /\ pc'[t] = ret[t] /\ pc'[child[t]] = Entry(routine[child[t]])
        /\ \A z \in Threads \ {t, child[t]} : pc'[z] = pc[z]
        /\ pc[t] \in {"start", "startFree"}
    BY <1>7 DEF StartThread, OneStarter, Begins, TypeOK
  <2>2. /\ Entry(routine[child[t]]) \notin {"enqueue", "unused"}
        /\ ret[t] \notin {"enqueue", "unused"}
        /\ pc[child[t]] = "made" /\ fd' = fd /\ routine' = routine
        /\ msg' = msg /\ taken' = taken
    BY <1>7 DEF StartThread, Entry, OneStarter, Begins, TypeOK
  <2> QED
    BY <2>1, <2>2
<1>8. ASSUME NEW t \in Threads, FailToStart(t) PROVE Goal
  <2>1. /\ child[t] \in Workers /\ child[t] # t
        /\ pc'[t] = IF pc[t] = "start" THEN "unstart" ELSE "unstartFree"
        /\ pc'[child[t]] = "dead" /\ pc[t] \in {"start", "startFree"}
        /\ \A z \in Threads \ {t, child[t]} : pc'[z] = pc[z]
    BY <1>8 DEF FailToStart, OneStarter, Begins
  <2>2. /\ pc[child[t]] = "made" /\ fd' = fd /\ routine' = routine
        /\ msg' = msg /\ taken' = taken
    BY <1>8 DEF FailToStart, OneStarter, Begins
  <2> QED
    BY <2>1, <2>2
<1>9. ASSUME NEW t \in Threads, Unstart(t) PROVE Goal
  <2>1. ret[t] \notin {"enqueue", "unused"}
    BY DEF TypeOK
  <2> QED
    BY <1>9, <2>1 DEF Unstart
<1>10. ASSUME NEW t \in Threads, SwitchIn(t) PROVE Goal
  BY <1>10 DEF SwitchIn
<1>11. ASSUME NEW t \in Threads, AddMore(t) PROVE Goal
  BY <1>11 DEF AddMore
<1>12. ASSUME NEW t \in Threads, AddLength(t) PROVE Goal
  BY <1>12 DEF AddLength
<1>13. ASSUME NEW t \in Threads, AddCell(t) PROVE Goal
  BY <1>13 DEF AddCell
<1>14. ASSUME NEW w \in Workers, ConnectFails(w) PROVE Goal
  BY <1>14 DEF ConnectFails
<1>15. ASSUME NEW w \in Workers, ConnectSucceeds(w) PROVE Goal
  BY <1>15 DEF ConnectSucceeds
<1>16. ASSUME NEW w \in Workers, NEW f \in Fd, AcceptPeer(w, f) PROVE Goal
  <2>1. Newborn(w, "startFree", "read", "callback", f, "CONNECTED")
    BY <1>16, Newborns
  <2>2. /\ pc[w] = "read" /\ routine[w] = "listen"
        /\ msg' = msg /\ taken' = taken
    BY <1>16 DEF AcceptPeer
  <2> QED
    BY <2>1, <2>2 DEF Newborn
<1>17. ASSUME NEW w \in Workers, NEW f \in Fd, ReadMessage(w, f) PROVE Goal
  <2>1. /\ pc[w] # "unused" /\ Reader(routine[w]) /\ (routine[w] = "listen"
              => f \in Peers)
        /\ (routine[w] = "connect" => fd[w] = f)
    BY <1>17 DEF ReadMessage, AtPoints, Points, Scripting, Ends, Reader, Reads
  <2>2. ASSUME NEW x \in Workers, Carries(x, f) PROVE x = w
    <3>1. /\ pc[x] # "unused" /\ Reader(routine[x])
          /\ (routine[x] = "listen" => f \in Peers)
          /\ (routine[x] = "connect" => fd[x] = f)
      BY <2>2 DEF AtPoints, Points, Ends, Scripting, Reader, Carries, Sides
    <3> QED
      BY <2>1, <3>1, SameReader
  <2>3. /\ taken' = [taken EXCEPT ![f] = taken[f] + 1]
        /\ fd' = [fd EXCEPT ![w] = f]
        /\ msg' = [msg EXCEPT ![w] = taken[f] + 1]
        /\ pc' = [pc EXCEPT ![w] = "enqueue"] /\ pc[w] = "read"
    BY <1>17 DEF ReadMessage, Goto
  <2>4. CASE v = w
    BY <2>3, <2>4
  <2>5. CASE v # w
    <3>1. pc[v] = "enqueue" /\ fd[v] # f
      BY <2>2, <2>3, <2>5 DEF Carries
    <3> QED
      BY <2>3, <2>5, <3>1
  <2> QED
    BY <2>4, <2>5
<1>18. ASSUME NEW w \in Workers, NEW f \in Fd, ReadEnd(w, f) PROVE Goal
  <2>1. Newborn(w, "startFree",
                IF routine[w] = "listen" THEN "read" ELSE "wrap",
                "callback", f, "DISCONNECTED")
    BY <1>18, Newborns
  <2>2. /\ pc[w] = "read"
        /\ msg' = msg /\ taken' = taken
    BY <1>18 DEF ReadEnd
  <2> QED
    BY <2>1, <2>2 DEF Newborn
<1>19. ASSUME NEW w \in Workers, EnqueueNew(w) PROVE Goal
  <2>1. Newborn(w, "start", "enqueued", "incoming", fd[w], "MESSAGED")
    BY <1>19, Newborns
  <2>2. /\ pc[w] = "enqueue"
        /\ msg' = [msg EXCEPT ![w] = 0] /\ taken' = taken
    BY <1>19 DEF EnqueueNew
  <2> QED
    BY <2>1, <2>2 DEF Newborn
<1>20. ASSUME NEW w \in Workers, EnqueueMore(w) PROVE Goal
  BY <1>20 DEF EnqueueMore
<1>21. ASSUME NEW w \in Workers, Enqueued(w) PROVE Goal
  BY <1>21 DEF Enqueued
<1>22. ASSUME NEW w \in Workers, Dequeue(w) PROVE Goal
  BY <1>22 DEF Dequeue
<1>23. ASSUME NEW w \in Workers, DequeueLast(w) PROVE Goal
  BY <1>23 DEF DequeueLast
<1>24. ASSUME NEW w \in Workers, Callback(w) PROVE Goal
  BY <1>24 DEF Callback
<1>25. ASSUME NEW w \in Workers, TakeToSend(w) PROVE Goal
  BY <1>25 DEF TakeToSend
<1>26. ASSUME NEW w \in Workers, Shrink(w) PROVE Goal
  BY <1>26 DEF Shrink
<1>27. ASSUME NEW w \in Workers, WriteMessage(w) PROVE Goal
  BY <1>27 DEF WriteMessage
<1>28. ASSUME NEW w \in Workers, StopSending(w) PROVE Goal
  BY <1>28 DEF StopSending
<1>29. ASSUME NEW w \in Workers, ForgetSender(w) PROVE Goal
  BY <1>29 DEF ForgetSender
<1>30. ASSUME NEW w \in Workers, Wrap(w) PROVE Goal
  BY <1>30 DEF Wrap
<1>31. ASSUME NEW w \in Workers, Leave(w) PROVE Goal
  BY <1>31 DEF Leave
<1>32. ASSUME DelLock PROVE Goal
  BY <1>32 DEF DelLock
<1>33. ASSUME DelCheck PROVE Goal
  <2>1. CASE num_threads > 0
    BY <1>33, <2>1 DEF DelCheck
  <2>2. CASE ~(num_threads > 0)
    BY <1>33, <2>2 DEF DelCheck
  <2> QED
    BY <2>1, <2>2
<1>34. ASSUME DelSleep PROVE Goal
  BY <1>34 DEF DelSleep
<1>35. ASSUME DelWake PROVE Goal
  BY <1>35 DEF DelWake
<1>36. ASSUME DelWoken PROVE Goal
  <2>1. CASE num_threads = 0
    BY <1>36, <2>1 DEF DelWoken
  <2>2. CASE ~(num_threads = 0)
    BY <1>36, <2>2 DEF DelWoken
  <2> QED
    BY <2>1, <2>2
<1>37. ASSUME NEW f \in Fd, Arrive(f) PROVE Goal
  BY <1>37 DEF Arrive
<1>38. ASSUME NEW f \in Fd, Close(f) PROVE Goal
  BY <1>38 DEF Close
<1>39. ASSUME UNCHANGED vars PROVE Goal
  BY <1>39 DEF vars
<1> QED
  BY <1>1, <1>2, <1>3, <1>4, <1>5, <1>6, <1>7, <1>8, <1>9, <1>10, <1>11,
     <1>12, <1>13, <1>14, <1>15, <1>16, <1>17, <1>18, <1>19, <1>20, <1>21,
     <1>22, <1>23, <1>24, <1>25, <1>26, <1>27, <1>28, <1>29, <1>30, <1>31,
     <1>32, <1>33, <1>34, <1>35, <1>36, <1>37, <1>38, <1>39
     DEF Next, Script, Starting, Adding, Reading, Serving, Deleting

(* What has reached a queue changes when a reader puts a message there.    *)
LEMMA QueuedStep ==
    ASSUME TypeOK, AtPoints, Unused, ReturnsTo, OneStarter, Subject, Sides,
           OneReader, [Next]_vars
    PROVE  \A g \in Fd : Queues(g)
<1> USE ConstantFacts DEF Goto, GotoSignalling, EndStart, records, starting,
        queues, sockets, outcome, life, Main, Threads
<1>0. /\ pc \in [Threads -> PC] /\ routine \in [Workers -> Routine]
      /\ made \in Nat
      /\ fd \in [Workers -> Fd \cup {None}]
      /\ msg \in [Threads -> Nat] /\ taken \in [Fd -> Nat]
  BY DEF TypeOK
<1> USE <1>0
<1> SUFFICES ASSUME NEW g \in Fd
             PROVE  Queues(g)
  OBVIOUS
<1>1. ASSUME NEW t \in Threads, SwitchOut(t) PROVE Queues(g)
  <2>1. taken' = taken /\ \A x \in Workers : Carries(x, g)' <=> Carries(x, g)
    BY <1>1 DEF SwitchOut, Carries
  <2> QED
    BY <2>1, QueuedSame
<1>2. ASSUME NEW t \in Threads, EndScript(t) PROVE Queues(g)
  <2>8. taken' = taken /\ \A x \in Workers : Carries(x, g)' <=> Carries(x, g)
    BY <1>2 DEF EndScript, AfterScript, Carries
  <2> QED
    BY <2>8, QueuedSame
<1>3. ASSUME NEW t \in Threads, Listen(t) PROVE Queues(g)
  <2>1. Newborn(t, "start", "run", "listen", None, "MESSAGED")
    BY <1>3, Newborns
  <2>2. /\ pc[t] = "run"
        /\ taken' = taken
    BY <1>3 DEF Listen
  <2>3. taken' = taken /\ \A x \in Workers : Carries(x, g)' <=> Carries(x, g)
    BY <2>1, <2>2 DEF Newborn, Carries
  <2> QED
    BY <2>3, QueuedSame
<1>4. ASSUME NEW t \in Threads, NEW f \in Fd, Connect(t, f) PROVE Queues(g)
  <2>1. Newborn(t, "start", "run", "connect", f, "MESSAGED")
    BY <1>4, Newborns
  <2>2. /\ pc[t] = "run"
        /\ taken' = taken
    BY <1>4 DEF Connect
  <2>3. taken' = taken /\ \A x \in Workers : Carries(x, g)' <=> Carries(x, g)
    BY <2>1, <2>2 DEF Newborn, Carries
  <2> QED
    BY <2>3, QueuedSame
<1>5. ASSUME NEW t \in Threads, NEW f \in Fd, SendNew(t, f) PROVE Queues(g)
  <2>1. Newborn(t, "start", "run", "send", f, "MESSAGED")
    BY <1>5, Newborns
  <2>2. /\ pc[t] = "run"
        /\ taken' = taken
    BY <1>5 DEF SendNew
  <2>3. taken' = taken /\ \A x \in Workers : Carries(x, g)' <=> Carries(x, g)
    BY <2>1, <2>2 DEF Newborn, Carries
  <2> QED
    BY <2>3, QueuedSame
<1>6. ASSUME NEW t \in Threads, NEW f \in Fd, SendMore(t, f) PROVE Queues(g)
  <2>1. taken' = taken /\ \A x \in Workers : Carries(x, g)' <=> Carries(x, g)
    BY <1>6 DEF SendMore, Carries
  <2> QED
    BY <2>1, QueuedSame
<1>7. ASSUME NEW t \in Threads, StartThread(t) PROVE Queues(g)
  <2>1. /\ child[t] \in Workers /\ child[t] # t
        /\ pc'[t] = ret[t] /\ pc'[child[t]] = Entry(routine[child[t]])
        /\ \A z \in Threads \ {t, child[t]} : pc'[z] = pc[z]
        /\ pc[t] \in {"start", "startFree"}
    BY <1>7 DEF StartThread, OneStarter, Begins, TypeOK
  <2>2. /\ Entry(routine[child[t]]) \notin {"enqueue", "unused"}
        /\ ret[t] \notin {"enqueue", "unused"}
        /\ pc[child[t]] = "made" /\ fd' = fd /\ routine' = routine
        /\ msg' = msg /\ taken' = taken
    BY <1>7 DEF StartThread, Entry, OneStarter, Begins, TypeOK
  <2>8. taken' = taken /\ \A x \in Workers : Carries(x, g)' <=> Carries(x, g)
    BY <2>1, <2>2 DEF Carries
  <2> QED
    BY <2>8, QueuedSame
<1>8. ASSUME NEW t \in Threads, FailToStart(t) PROVE Queues(g)
  <2>1. /\ child[t] \in Workers /\ child[t] # t
        /\ pc'[t] = IF pc[t] = "start" THEN "unstart" ELSE "unstartFree"
        /\ pc'[child[t]] = "dead" /\ pc[t] \in {"start", "startFree"}
        /\ \A z \in Threads \ {t, child[t]} : pc'[z] = pc[z]
    BY <1>8 DEF FailToStart, OneStarter, Begins
  <2>2. /\ pc[child[t]] = "made" /\ fd' = fd /\ routine' = routine
        /\ msg' = msg /\ taken' = taken
    BY <1>8 DEF FailToStart, OneStarter, Begins
  <2>8. taken' = taken /\ \A x \in Workers : Carries(x, g)' <=> Carries(x, g)
    BY <2>1, <2>2 DEF Carries
  <2> QED
    BY <2>8, QueuedSame
<1>9. ASSUME NEW t \in Threads, Unstart(t) PROVE Queues(g)
  <2>1. ret[t] \notin {"enqueue", "unused"}
    BY DEF TypeOK
  <2>8. taken' = taken /\ \A x \in Workers : Carries(x, g)' <=> Carries(x, g)
    BY <1>9, <2>1 DEF Unstart, Carries
  <2> QED
    BY <2>8, QueuedSame
<1>10. ASSUME NEW t \in Threads, SwitchIn(t) PROVE Queues(g)
  <2>1. taken' = taken /\ \A x \in Workers : Carries(x, g)' <=> Carries(x, g)
    BY <1>10 DEF SwitchIn, Carries
  <2> QED
    BY <2>1, QueuedSame
<1>11. ASSUME NEW t \in Threads, AddMore(t) PROVE Queues(g)
  <2>1. taken' = taken /\ \A x \in Workers : Carries(x, g)' <=> Carries(x, g)
    BY <1>11 DEF AddMore, Carries
  <2> QED
    BY <2>1, QueuedSame
<1>12. ASSUME NEW t \in Threads, AddLength(t) PROVE Queues(g)
  <2>1. taken' = taken /\ \A x \in Workers : Carries(x, g)' <=> Carries(x, g)
    BY <1>12 DEF AddLength, Carries
  <2> QED
    BY <2>1, QueuedSame
<1>13. ASSUME NEW t \in Threads, AddCell(t) PROVE Queues(g)
  <2>1. taken' = taken /\ \A x \in Workers : Carries(x, g)' <=> Carries(x, g)
    BY <1>13 DEF AddCell, Carries
  <2> QED
    BY <2>1, QueuedSame
<1>14. ASSUME NEW w \in Workers, ConnectFails(w) PROVE Queues(g)
  <2>1. taken' = taken /\ \A x \in Workers : Carries(x, g)' <=> Carries(x, g)
    BY <1>14 DEF ConnectFails, Carries
  <2> QED
    BY <2>1, QueuedSame
<1>15. ASSUME NEW w \in Workers, ConnectSucceeds(w) PROVE Queues(g)
  <2>1. taken' = taken /\ \A x \in Workers : Carries(x, g)' <=> Carries(x, g)
    BY <1>15 DEF ConnectSucceeds, Carries
  <2> QED
    BY <2>1, QueuedSame
<1>16. ASSUME NEW w \in Workers, NEW f \in Fd, AcceptPeer(w, f) PROVE Queues(g)
  <2>1. Newborn(w, "startFree", "read", "callback", f, "CONNECTED")
    BY <1>16, Newborns
  <2>2. /\ pc[w] = "read" /\ routine[w] = "listen"
        /\ taken' = taken
    BY <1>16 DEF AcceptPeer
  <2>3. taken' = taken /\ \A x \in Workers : Carries(x, g)' <=> Carries(x, g)
    BY <2>1, <2>2 DEF Newborn, Carries
  <2> QED
    BY <2>3, QueuedSame
<1>17. ASSUME NEW w \in Workers, NEW f \in Fd, ReadMessage(w, f)
       PROVE  Queues(g)
  <2>1. /\ pc[w] # "unused" /\ Reader(routine[w]) /\ (routine[w] = "listen"
              => f \in Peers)
        /\ (routine[w] = "connect" => fd[w] = f)
    BY <1>17 DEF ReadMessage, AtPoints, Points, Scripting, Ends, Reader, Reads
  <2>2. ASSUME NEW x \in Workers, Carries(x, f) PROVE x = w
    <3>1. /\ pc[x] # "unused" /\ Reader(routine[x])
          /\ (routine[x] = "listen" => f \in Peers)
          /\ (routine[x] = "connect" => fd[x] = f)
      BY <2>2 DEF AtPoints, Points, Ends, Scripting, Reader, Carries, Sides
    <3> QED
      BY <2>1, <3>1, SameReader
  <2>3. /\ taken' = [taken EXCEPT ![f] = taken[f] + 1]
        /\ fd' = [fd EXCEPT ![w] = f]
        /\ msg' = [msg EXCEPT ![w] = taken[f] + 1]
        /\ pc' = [pc EXCEPT ![w] = "enqueue"] /\ pc[w] = "read"
    BY <1>17 DEF ReadMessage, Goto
  <2>4. \A x \in Workers : Carries(x, g) => pc'[x] = "enqueue"
    BY <2>3 DEF Carries
  <2>5. Queued(g)' = Queued(g)
    <3>1. CASE g = f
      <4>1. Carries(w, g)' /\ ~Carries(w, g) /\ taken'[g] = taken[g] + 1
        BY <2>3, <3>1 DEF Carries
      <4>2. \A x \in Workers : ~Carries(x, g)
        BY <2>2, <3>1, <4>1
      <4> QED
        BY <4>1, <4>2 DEF Queued
    <3>2. CASE g # f
      <4>1. \A x \in Workers : Carries(x, g)' <=> Carries(x, g)
        BY <2>3, <3>2 DEF Carries
      <4>2. taken'[g] = taken[g]
        BY <2>3, <3>2
      <4> QED
        BY <4>1, <4>2 DEF Queued
    <3> QED
      BY <3>1, <3>2
  <2> QED
    BY <2>4, <2>5 DEF Queues
<1>18. ASSUME NEW w \in Workers, NEW f \in Fd, ReadEnd(w, f) PROVE Queues(g)
  <2>1. Newborn(w, "startFree",
                IF routine[w] = "listen" THEN "read" ELSE "wrap",
                "callback", f, "DISCONNECTED")
    BY <1>18, Newborns
  <2>2. /\ pc[w] = "read"
        /\ taken' = taken
    BY <1>18 DEF ReadEnd
  <2>3. taken' = taken /\ \A x \in Workers : Carries(x, g)' <=> Carries(x, g)
    BY <2>1, <2>2 DEF Newborn, Carries
  <2> QED
    BY <2>3, QueuedSame
<1>19. ASSUME NEW w \in Workers, EnqueueNew(w) PROVE Queues(g)
  <2>1. Newborn(w, "start", "enqueued", "incoming", fd[w], "MESSAGED")
    BY <1>19, Newborns
  <2>2. pc[w] = "enqueue" /\ taken' = taken
    BY <1>19 DEF EnqueueNew
  <2>3. \A x \in Workers \ {w} : Carries(x, g)' <=> Carries(x, g)
    BY <2>1, <2>2 DEF Newborn, Carries
  <2>4. ~Carries(w, g)'
    BY <2>1, <2>2 DEF Newborn, Carries
  <2>5. CASE Carries(w, g)
    <3>1. \A x \in Workers : ~Carries(x, g)'
      BY <2>3, <2>4, <2>5, OneCarrier
    <3>2. Queued(g)' = taken[g] /\ Queued(g) = taken[g] - 1
      BY <2>2, <2>5, <3>1 DEF Queued
    <3>3. pc'[w] # "enqueue"
      BY <2>1, <2>2 DEF Newborn
    <3> QED
      BY <2>2, <2>5, <3>2, <3>3 DEF Queues
  <2>6. CASE ~Carries(w, g)
    BY <2>2, <2>3, <2>4, <2>6, QueuedSame
  <2> QED
    BY <2>5, <2>6
<1>20. ASSUME NEW w \in Workers, EnqueueMore(w) PROVE Queues(g)
  <2>1. pc' = [pc EXCEPT ![w] = "enqueued"] /\ fd' = fd
    BY <1>20 DEF EnqueueMore
  <2>2. pc[w] = "enqueue" /\ taken' = taken
    BY <1>20 DEF EnqueueMore
  <2>3. \A x \in Workers \ {w} : Carries(x, g)' <=> Carries(x, g)
    BY <2>1, <2>2 DEF Newborn, Carries
  <2>4. ~Carries(w, g)'
    BY <2>1, <2>2 DEF Newborn, Carries
  <2>5. CASE Carries(w, g)
    <3>1. \A x \in Workers : ~Carries(x, g)'
      BY <2>3, <2>4, <2>5, OneCarrier
    <3>2. Queued(g)' = taken[g] /\ Queued(g) = taken[g] - 1
      BY <2>2, <2>5, <3>1 DEF Queued
    <3>3. pc'[w] # "enqueue"
      BY <2>1, <2>2 DEF Newborn
    <3> QED
      BY <2>2, <2>5, <3>2, <3>3 DEF Queues
  <2>6. CASE ~Carries(w, g)
    BY <2>2, <2>3, <2>4, <2>6, QueuedSame
  <2> QED
    BY <2>5, <2>6
<1>21. ASSUME NEW w \in Workers, Enqueued(w) PROVE Queues(g)
  <2>1. taken' = taken /\ \A x \in Workers : Carries(x, g)' <=> Carries(x, g)
    BY <1>21 DEF Enqueued, Carries
  <2> QED
    BY <2>1, QueuedSame
<1>22. ASSUME NEW w \in Workers, Dequeue(w) PROVE Queues(g)
  <2>1. taken' = taken /\ \A x \in Workers : Carries(x, g)' <=> Carries(x, g)
    BY <1>22 DEF Dequeue, Carries
  <2> QED
    BY <2>1, QueuedSame
<1>23. ASSUME NEW w \in Workers, DequeueLast(w) PROVE Queues(g)
  <2>1. taken' = taken /\ \A x \in Workers : Carries(x, g)' <=> Carries(x, g)
    BY <1>23 DEF DequeueLast, Carries
  <2> QED
    BY <2>1, QueuedSame
<1>24. ASSUME NEW w \in Workers, Callback(w) PROVE Queues(g)
  <2>1. taken' = taken /\ \A x \in Workers : Carries(x, g)' <=> Carries(x, g)
    BY <1>24 DEF Callback, Carries
  <2> QED
    BY <2>1, QueuedSame
<1>25. ASSUME NEW w \in Workers, TakeToSend(w) PROVE Queues(g)
  <2>1. taken' = taken /\ \A x \in Workers : Carries(x, g)' <=> Carries(x, g)
    BY <1>25 DEF TakeToSend, Carries
  <2> QED
    BY <2>1, QueuedSame
<1>26. ASSUME NEW w \in Workers, Shrink(w) PROVE Queues(g)
  <2>1. taken' = taken /\ \A x \in Workers : Carries(x, g)' <=> Carries(x, g)
    BY <1>26 DEF Shrink, Carries
  <2> QED
    BY <2>1, QueuedSame
<1>27. ASSUME NEW w \in Workers, WriteMessage(w) PROVE Queues(g)
  <2>1. taken' = taken /\ \A x \in Workers : Carries(x, g)' <=> Carries(x, g)
    BY <1>27 DEF WriteMessage, Carries
  <2> QED
    BY <2>1, QueuedSame
<1>28. ASSUME NEW w \in Workers, StopSending(w) PROVE Queues(g)
  <2>1. taken' = taken /\ \A x \in Workers : Carries(x, g)' <=> Carries(x, g)
    BY <1>28 DEF StopSending, Carries
  <2> QED
    BY <2>1, QueuedSame
<1>29. ASSUME NEW w \in Workers, ForgetSender(w) PROVE Queues(g)
  <2>1. taken' = taken /\ \A x \in Workers : Carries(x, g)' <=> Carries(x, g)
    BY <1>29 DEF ForgetSender, Carries
  <2> QED
    BY <2>1, QueuedSame
<1>30. ASSUME NEW w \in Workers, Wrap(w) PROVE Queues(g)
  <2>1. taken' = taken /\ \A x \in Workers : Carries(x, g)' <=> Carries(x, g)
    BY <1>30 DEF Wrap, Carries
  <2> QED
    BY <2>1, QueuedSame
<1>31. ASSUME NEW w \in Workers, Leave(w) PROVE Queues(g)
  <2>1. taken' = taken /\ \A x \in Workers : Carries(x, g)' <=> Carries(x, g)
    BY <1>31 DEF Leave, Carries
  <2> QED
    BY <2>1, QueuedSame
<1>32. CASE DelLock
  <2>1. taken' = taken /\ \A x \in Workers : Carries(x, g)' <=> Carries(x, g)
    BY <1>32 DEF DelLock, Carries
  <2> QED
    BY <2>1, QueuedSame
<1>33. CASE DelCheck
  <2>8. taken' = taken /\ \A x \in Workers : Carries(x, g)' <=> Carries(x, g)
    BY <1>33 DEF DelCheck, Carries
  <2> QED
    BY <2>8, QueuedSame
<1>34. CASE DelSleep
  <2>1. taken' = taken /\ \A x \in Workers : Carries(x, g)' <=> Carries(x, g)
    BY <1>34 DEF DelSleep, Carries
  <2> QED
    BY <2>1, QueuedSame
<1>35. CASE DelWake
  <2>1. taken' = taken /\ \A x \in Workers : Carries(x, g)' <=> Carries(x, g)
    BY <1>35 DEF DelWake, Carries
  <2> QED
    BY <2>1, QueuedSame
<1>36. CASE DelWoken
  <2>8. taken' = taken /\ \A x \in Workers : Carries(x, g)' <=> Carries(x, g)
    BY <1>36 DEF DelWoken, Carries
  <2> QED
    BY <2>8, QueuedSame
<1>37. ASSUME NEW f \in Fd, Arrive(f) PROVE Queues(g)
  <2>1. taken' = taken /\ \A x \in Workers : Carries(x, g)' <=> Carries(x, g)
    BY <1>37 DEF Arrive, Carries
  <2> QED
    BY <2>1, QueuedSame
<1>38. ASSUME NEW f \in Fd, Close(f) PROVE Queues(g)
  <2>1. taken' = taken /\ \A x \in Workers : Carries(x, g)' <=> Carries(x, g)
    BY <1>38 DEF Close, Carries
  <2> QED
    BY <2>1, QueuedSame
<1>39. CASE UNCHANGED vars
  BY <1>39, QueuedSame DEF vars, Carries
<1> QED
  BY <1>1, <1>2, <1>3, <1>4, <1>5, <1>6, <1>7, <1>8, <1>9, <1>10, <1>11,
     <1>12, <1>13, <1>14, <1>15, <1>16, <1>17, <1>18, <1>19, <1>20, <1>21,
     <1>22, <1>23, <1>24, <1>25, <1>26, <1>27, <1>28, <1>29, <1>30, <1>31,
     <1>32, <1>33, <1>34, <1>35, <1>36, <1>37, <1>38, <1>39
     DEF Next, Script, Starting, Adding, Reading, Serving, Deleting

(* The thread of sys.connect reads after the CONNECTED call.               *)
LEMMA HeardStep ==
    ASSUME TypeOK, AtPoints, Unused, ReturnsTo, OneStarter, Subject, Sides,
           Events, Heard, [Next]_vars
    PROVE  Heard'
<1> USE ConstantFacts DEF Goto, GotoSignalling, EndStart, records, starting,
        queues, sockets, outcome, life, Ends, Main, Threads
<1>0. /\ pc \in [Threads -> PC] /\ routine \in [Workers -> Routine]
      /\ made \in Nat
      /\ fd \in [Workers -> Fd \cup {None}]
      /\ heard \in [Fd -> SUBSET Event] /\ taken \in [Fd -> Nat]
  BY DEF TypeOK
<1> USE <1>0
<1> SUFFICES ASSUME NEW v \in Workers, routine'[v] = "connect",
                    pc'[v] \notin Ends \cup {"connect", "call"}
             PROVE  "CONNECTED" \in heard'[fd'[v]]
  BY DEF Heard
<1> DEFINE Goal == "CONNECTED" \in heard'[fd'[v]]
<1>a. routine[v] = "connect" /\ pc[v] \notin Ends \cup {"connect", "call"}
         => "CONNECTED" \in heard[fd[v]]
  BY DEF Heard
<1>b. pc[v] # "unused" /\ routine[v] # "listen" => fd[v] \in Fd
  BY DEF Subject
<1> USE <1>a, <1>b
<1>1. ASSUME NEW t \in Threads, SwitchOut(t) PROVE Goal
  BY <1>1 DEF SwitchOut
<1>2. ASSUME NEW t \in Threads, EndScript(t) PROVE Goal
  BY <1>2 DEF EndScript, AfterScript
<1>3. ASSUME NEW t \in Threads, Listen(t) PROVE Goal
  <2>1. Newborn(t, "start", "run", "listen", None, "MESSAGED")
    BY <1>3, Newborns
  <2>2. /\ pc[t] = "run"
        /\ heard' = heard /\ taken' = taken
    BY <1>3 DEF Listen
  <2> QED
    BY <2>1, <2>2, SMTT(30) DEF Newborn
<1>4. ASSUME NEW t \in Threads, NEW f \in Fd, Connect(t, f) PROVE Goal
  <2>1. Newborn(t, "start", "run", "connect", f, "MESSAGED")
    BY <1>4, Newborns
  <2>2. /\ pc[t] = "run"
        /\ heard' = heard /\ taken' = taken
    BY <1>4 DEF Connect
  <2> QED
    BY <2>1, <2>2 DEF Newborn
<1>5. ASSUME NEW t \in Threads, NEW f \in Fd, SendNew(t, f) PROVE Goal
  <2>1. Newborn(t, "start", "run", "send", f, "MESSAGED")
    BY <1>5, Newborns
  <2>2. /\ pc[t] = "run"
        /\ heard' = heard /\ taken' = taken
    BY <1>5 DEF SendNew
  <2> QED
    BY <2>1, <2>2 DEF Newborn
<1>6. ASSUME NEW t \in Threads, NEW f \in Fd, SendMore(t, f) PROVE Goal
  BY <1>6 DEF SendMore
<1>7. ASSUME NEW t \in Threads, StartThread(t) PROVE Goal
  <2>1. /\ child[t] \in Workers /\ child[t] # t
        /\ pc'[t] = ret[t] /\ pc'[child[t]] = Entry(routine[child[t]])
        /\ \A z \in Threads \ {t, child[t]} : pc'[z] = pc[z]
        /\ pc[t] \in {"start", "startFree"}
    BY <1>7 DEF StartThread, OneStarter, Begins, TypeOK
  <2>2. /\ routine[child[t]] = "connect"
              => Entry(routine[child[t]]) = "connect"
        /\ fd' = fd /\ routine' = routine /\ heard' = heard
    BY <1>7 DEF StartThread, Entry
  <2> QED
    BY <2>1, <2>2
<1>8. ASSUME NEW t \in Threads, FailToStart(t) PROVE Goal
  <2>1. /\ child[t] \in Workers /\ child[t] # t
        /\ pc'[t] = IF pc[t] = "start" THEN "unstart" ELSE "unstartFree"
        /\ pc'[child[t]] = "dead" /\ pc[t] \in {"start", "startFree"}
        /\ \A z \in Threads \ {t, child[t]} : pc'[z] = pc[z]
    BY <1>8 DEF FailToStart, OneStarter, Begins
  <2>2. fd' = fd /\ routine' = routine /\ heard' = heard
    BY <1>8 DEF FailToStart
  <2> QED
    BY <2>1, <2>2
<1>9. ASSUME NEW t \in Threads, Unstart(t) PROVE Goal
  BY <1>9 DEF Unstart
<1>10. ASSUME NEW t \in Threads, SwitchIn(t) PROVE Goal
  BY <1>10 DEF SwitchIn
<1>11. ASSUME NEW t \in Threads, AddMore(t) PROVE Goal
  BY <1>11 DEF AddMore
<1>12. ASSUME NEW t \in Threads, AddLength(t) PROVE Goal
  BY <1>12 DEF AddLength
<1>13. ASSUME NEW t \in Threads, AddCell(t) PROVE Goal
  BY <1>13 DEF AddCell
<1>14. ASSUME NEW w \in Workers, ConnectFails(w) PROVE Goal
  BY <1>14 DEF ConnectFails
<1>15. ASSUME NEW w \in Workers, ConnectSucceeds(w) PROVE Goal
  BY <1>15 DEF ConnectSucceeds
<1>16. ASSUME NEW w \in Workers, NEW f \in Fd, AcceptPeer(w, f) PROVE Goal
  <2>1. Newborn(w, "startFree", "read", "callback", f, "CONNECTED")
    BY <1>16, Newborns
  <2>2. /\ pc[w] = "read" /\ routine[w] = "listen"
        /\ heard' = heard /\ taken' = taken
    BY <1>16 DEF AcceptPeer
  <2> QED
    BY <2>1, <2>2 DEF Newborn
<1>17. ASSUME NEW w \in Workers, NEW f \in Fd, ReadMessage(w, f) PROVE Goal
  <2>1. routine[w] = "connect" => f = fd[w]
    BY <1>17 DEF ReadMessage, Reads
  <2> QED
    BY <1>17, <2>1 DEF ReadMessage
<1>18. ASSUME NEW w \in Workers, NEW f \in Fd, ReadEnd(w, f) PROVE Goal
  <2>1. Newborn(w, "startFree",
                IF routine[w] = "listen" THEN "read" ELSE "wrap",
                "callback", f, "DISCONNECTED")
    BY <1>18, Newborns
  <2>2. /\ pc[w] = "read"
        /\ heard' = heard /\ taken' = taken
    BY <1>18 DEF ReadEnd
  <2> QED
    BY <2>1, <2>2 DEF Newborn
<1>19. ASSUME NEW w \in Workers, EnqueueNew(w) PROVE Goal
  <2>1. Newborn(w, "start", "enqueued", "incoming", fd[w], "MESSAGED")
    BY <1>19, Newborns
  <2>2. /\ pc[w] = "enqueue"
        /\ heard' = heard /\ taken' = taken
    BY <1>19 DEF EnqueueNew
  <2> QED
    BY <2>1, <2>2 DEF Newborn
<1>20. ASSUME NEW w \in Workers, EnqueueMore(w) PROVE Goal
  BY <1>20 DEF EnqueueMore
<1>21. ASSUME NEW w \in Workers, Enqueued(w) PROVE Goal
  BY <1>21 DEF Enqueued
<1>22. ASSUME NEW w \in Workers, Dequeue(w) PROVE Goal
  <2>1. routine[w] = "incoming"
    BY <1>22 DEF Dequeue, AtPoints, Points, Scripting
  <2> QED
    BY <1>22, <2>1 DEF Dequeue
<1>23. ASSUME NEW w \in Workers, DequeueLast(w) PROVE Goal
  BY <1>23 DEF DequeueLast
<1>24. ASSUME NEW w \in Workers, Callback(w) PROVE Goal
  <2>1. /\ fd' = fd /\ routine' = routine /\ pc[w] = "call"
        /\ pc' = [pc EXCEPT ![w] = "run"]
        /\ \/ event[w] = "MESSAGED" /\ heard' = heard
           \/ /\ event[w] # "MESSAGED"
              /\ heard' = [heard EXCEPT ![fd[w]] = heard[fd[w]] \cup {event[w]}]
    BY <1>24 DEF Callback
  <2>2. CASE v = w
    <3>1. event[w] = "CONNECTED" /\ fd[w] \in Fd
      BY <2>1, <2>2 DEF Events
    <3> QED
      BY <2>1, <2>2, <3>1
  <2>3. CASE v # w
    <3>1. "CONNECTED" \in heard[fd[v]] /\ fd[v] \in Fd
      BY <2>1, <2>3
    <3> QED
      BY <2>1, <2>3, <3>1
  <2> QED
    BY <2>2, <2>3
<1>25. ASSUME NEW w \in Workers, TakeToSend(w) PROVE Goal
  BY <1>25 DEF TakeToSend
<1>26. ASSUME NEW w \in Workers, Shrink(w) PROVE Goal
  BY <1>26 DEF Shrink
<1>27. ASSUME NEW w \in Workers, WriteMessage(w) PROVE Goal
  BY <1>27 DEF WriteMessage
<1>28. ASSUME NEW w \in Workers, StopSending(w) PROVE Goal
  BY <1>28 DEF StopSending
<1>29. ASSUME NEW w \in Workers, ForgetSender(w) PROVE Goal
  BY <1>29 DEF ForgetSender
<1>30. ASSUME NEW w \in Workers, Wrap(w) PROVE Goal
  BY <1>30 DEF Wrap
<1>31. ASSUME NEW w \in Workers, Leave(w) PROVE Goal
  BY <1>31 DEF Leave
<1>32. ASSUME DelLock PROVE Goal
  BY <1>32 DEF DelLock
<1>33. ASSUME DelCheck PROVE Goal
  <2>1. CASE num_threads > 0
    BY <1>33, <2>1 DEF DelCheck
  <2>2. CASE ~(num_threads > 0)
    BY <1>33, <2>2 DEF DelCheck
  <2> QED
    BY <2>1, <2>2
<1>34. ASSUME DelSleep PROVE Goal
  BY <1>34 DEF DelSleep
<1>35. ASSUME DelWake PROVE Goal
  BY <1>35 DEF DelWake
<1>36. ASSUME DelWoken PROVE Goal
  <2>1. CASE num_threads = 0
    BY <1>36, <2>1 DEF DelWoken
  <2>2. CASE ~(num_threads = 0)
    BY <1>36, <2>2 DEF DelWoken
  <2> QED
    BY <2>1, <2>2
<1>37. ASSUME NEW f \in Fd, Arrive(f) PROVE Goal
  BY <1>37 DEF Arrive
<1>38. ASSUME NEW f \in Fd, Close(f) PROVE Goal
  BY <1>38 DEF Close
<1>39. ASSUME UNCHANGED vars PROVE Goal
  BY <1>39 DEF vars
<1> QED
  BY <1>1, <1>2, <1>3, <1>4, <1>5, <1>6, <1>7, <1>8, <1>9, <1>10, <1>11,
     <1>12, <1>13, <1>14, <1>15, <1>16, <1>17, <1>18, <1>19, <1>20, <1>21,
     <1>22, <1>23, <1>24, <1>25, <1>26, <1>27, <1>28, <1>29, <1>30, <1>31,
     <1>32, <1>33, <1>34, <1>35, <1>36, <1>37, <1>38, <1>39
     DEF Next, Script, Starting, Adding, Reading, Serving, Deleting

(* A message of a client is read after the CONNECTED call.                 *)
LEMMA HeardOfStep ==
    ASSUME TypeOK, AtPoints, Unused, ReturnsTo, OneStarter, Subject, Sides,
           Events, Heard, HeardOf, [Next]_vars
    PROVE  HeardOf'
<1> USE ConstantFacts DEF Goto, GotoSignalling, EndStart, records, starting,
        queues, sockets, outcome, life, Main, Threads
<1>0. /\ pc \in [Threads -> PC] /\ routine \in [Workers -> Routine]
      /\ made \in Nat
      /\ fd \in [Workers -> Fd \cup {None}]
      /\ heard \in [Fd -> SUBSET Event] /\ taken \in [Fd -> Nat]
  BY DEF TypeOK
<1> USE <1>0
<1> SUFFICES ASSUME NEW g \in Clients, taken'[g] > 0
             PROVE  "CONNECTED" \in heard'[g]
  BY DEF HeardOf
<1> DEFINE Goal == "CONNECTED" \in heard'[g]
<1>a. g \in Fd /\ (taken[g] > 0 => "CONNECTED" \in heard[g])
  BY DEF HeardOf, Fd
<1> USE <1>a
<1>1. ASSUME NEW t \in Threads, SwitchOut(t) PROVE Goal
  BY <1>1 DEF SwitchOut
<1>2. ASSUME NEW t \in Threads, EndScript(t) PROVE Goal
  BY <1>2 DEF EndScript, AfterScript
<1>3. ASSUME NEW t \in Threads, Listen(t) PROVE Goal
  <2>1. Newborn(t, "start", "run", "listen", None, "MESSAGED")
    BY <1>3, Newborns
  <2>2. /\ pc[t] = "run"
        /\ heard' = heard /\ taken' = taken
    BY <1>3 DEF Listen
  <2> QED
    BY <2>1, <2>2, SMTT(30) DEF Newborn
<1>4. ASSUME NEW t \in Threads, NEW f \in Fd, Connect(t, f) PROVE Goal
  <2>1. Newborn(t, "start", "run", "connect", f, "MESSAGED")
    BY <1>4, Newborns
  <2>2. /\ pc[t] = "run"
        /\ heard' = heard /\ taken' = taken
    BY <1>4 DEF Connect
  <2> QED
    BY <2>1, <2>2 DEF Newborn
<1>5. ASSUME NEW t \in Threads, NEW f \in Fd, SendNew(t, f) PROVE Goal
  <2>1. Newborn(t, "start", "run", "send", f, "MESSAGED")
    BY <1>5, Newborns
  <2>2. /\ pc[t] = "run"
        /\ heard' = heard /\ taken' = taken
    BY <1>5 DEF SendNew
  <2> QED
    BY <2>1, <2>2 DEF Newborn
<1>6. ASSUME NEW t \in Threads, NEW f \in Fd, SendMore(t, f) PROVE Goal
  BY <1>6 DEF SendMore
<1>7. ASSUME NEW t \in Threads, StartThread(t) PROVE Goal
  BY <1>7 DEF StartThread
<1>8. ASSUME NEW t \in Threads, FailToStart(t) PROVE Goal
  BY <1>8 DEF FailToStart
<1>9. ASSUME NEW t \in Threads, Unstart(t) PROVE Goal
  BY <1>9 DEF Unstart
<1>10. ASSUME NEW t \in Threads, SwitchIn(t) PROVE Goal
  BY <1>10 DEF SwitchIn
<1>11. ASSUME NEW t \in Threads, AddMore(t) PROVE Goal
  BY <1>11 DEF AddMore
<1>12. ASSUME NEW t \in Threads, AddLength(t) PROVE Goal
  BY <1>12 DEF AddLength
<1>13. ASSUME NEW t \in Threads, AddCell(t) PROVE Goal
  BY <1>13 DEF AddCell
<1>14. ASSUME NEW w \in Workers, ConnectFails(w) PROVE Goal
  BY <1>14 DEF ConnectFails
<1>15. ASSUME NEW w \in Workers, ConnectSucceeds(w) PROVE Goal
  BY <1>15 DEF ConnectSucceeds
<1>16. ASSUME NEW w \in Workers, NEW f \in Fd, AcceptPeer(w, f) PROVE Goal
  <2>1. Newborn(w, "startFree", "read", "callback", f, "CONNECTED")
    BY <1>16, Newborns
  <2>2. /\ pc[w] = "read" /\ routine[w] = "listen"
        /\ heard' = heard /\ taken' = taken
    BY <1>16 DEF AcceptPeer
  <2> QED
    BY <2>1, <2>2 DEF Newborn
<1>17. ASSUME NEW w \in Workers, NEW f \in Fd, ReadMessage(w, f) PROVE Goal
  <2>1. Reader(routine[w]) /\ pc[w] = "read" /\ (routine[w] = "listen" => f \in Peers)
        /\ (routine[w] # "listen" => f = fd[w]) /\ heard' = heard
        /\ taken' = [taken EXCEPT ![f] = taken[f] + 1]
    BY <1>17 DEF ReadMessage, AtPoints, Points, Scripting, Ends, Reader, Reads
  <2>2. CASE g = f
    <3>1. routine[w] = "connect" /\ fd[w] = g
      BY <2>1, <2>2, NodeAssumption DEF Reader
    <3> QED
      BY <2>1, <3>1 DEF Heard, Ends
  <2>3. CASE g # f
    BY <2>1, <2>3
  <2> QED
    BY <2>2, <2>3
<1>18. ASSUME NEW w \in Workers, NEW f \in Fd, ReadEnd(w, f) PROVE Goal
  <2>1. Newborn(w, "startFree",
                IF routine[w] = "listen" THEN "read" ELSE "wrap",
                "callback", f, "DISCONNECTED")
    BY <1>18, Newborns
  <2>2. /\ pc[w] = "read"
        /\ heard' = heard /\ taken' = taken
    BY <1>18 DEF ReadEnd
  <2> QED
    BY <2>1, <2>2 DEF Newborn
<1>19. ASSUME NEW w \in Workers, EnqueueNew(w) PROVE Goal
  <2>1. Newborn(w, "start", "enqueued", "incoming", fd[w], "MESSAGED")
    BY <1>19, Newborns
  <2>2. /\ pc[w] = "enqueue"
        /\ heard' = heard /\ taken' = taken
    BY <1>19 DEF EnqueueNew
  <2> QED
    BY <2>1, <2>2 DEF Newborn
<1>20. ASSUME NEW w \in Workers, EnqueueMore(w) PROVE Goal
  BY <1>20 DEF EnqueueMore
<1>21. ASSUME NEW w \in Workers, Enqueued(w) PROVE Goal
  BY <1>21 DEF Enqueued
<1>22. ASSUME NEW w \in Workers, Dequeue(w) PROVE Goal
  BY <1>22 DEF Dequeue
<1>23. ASSUME NEW w \in Workers, DequeueLast(w) PROVE Goal
  BY <1>23 DEF DequeueLast
<1>24. ASSUME NEW w \in Workers, Callback(w) PROVE Goal
  BY <1>24 DEF Callback
<1>25. ASSUME NEW w \in Workers, TakeToSend(w) PROVE Goal
  BY <1>25 DEF TakeToSend
<1>26. ASSUME NEW w \in Workers, Shrink(w) PROVE Goal
  BY <1>26 DEF Shrink
<1>27. ASSUME NEW w \in Workers, WriteMessage(w) PROVE Goal
  BY <1>27 DEF WriteMessage
<1>28. ASSUME NEW w \in Workers, StopSending(w) PROVE Goal
  BY <1>28 DEF StopSending
<1>29. ASSUME NEW w \in Workers, ForgetSender(w) PROVE Goal
  BY <1>29 DEF ForgetSender
<1>30. ASSUME NEW w \in Workers, Wrap(w) PROVE Goal
  BY <1>30 DEF Wrap
<1>31. ASSUME NEW w \in Workers, Leave(w) PROVE Goal
  BY <1>31 DEF Leave
<1>32. ASSUME DelLock PROVE Goal
  BY <1>32 DEF DelLock
<1>33. ASSUME DelCheck PROVE Goal
  <2>1. CASE num_threads > 0
    BY <1>33, <2>1 DEF DelCheck
  <2>2. CASE ~(num_threads > 0)
    BY <1>33, <2>2 DEF DelCheck
  <2> QED
    BY <2>1, <2>2
<1>34. ASSUME DelSleep PROVE Goal
  BY <1>34 DEF DelSleep
<1>35. ASSUME DelWake PROVE Goal
  BY <1>35 DEF DelWake
<1>36. ASSUME DelWoken PROVE Goal
  <2>1. CASE num_threads = 0
    BY <1>36, <2>1 DEF DelWoken
  <2>2. CASE ~(num_threads = 0)
    BY <1>36, <2>2 DEF DelWoken
  <2> QED
    BY <2>1, <2>2
<1>37. ASSUME NEW f \in Fd, Arrive(f) PROVE Goal
  BY <1>37 DEF Arrive
<1>38. ASSUME NEW f \in Fd, Close(f) PROVE Goal
  BY <1>38 DEF Close
<1>39. ASSUME UNCHANGED vars PROVE Goal
  BY <1>39 DEF vars
<1> QED
  BY <1>1, <1>2, <1>3, <1>4, <1>5, <1>6, <1>7, <1>8, <1>9, <1>10, <1>11,
     <1>12, <1>13, <1>14, <1>15, <1>16, <1>17, <1>18, <1>19, <1>20, <1>21,
     <1>22, <1>23, <1>24, <1>25, <1>26, <1>27, <1>28, <1>29, <1>30, <1>31,
     <1>32, <1>33, <1>34, <1>35, <1>36, <1>37, <1>38, <1>39
     DEF Next, Script, Starting, Adding, Reading, Serving, Deleting

(* A descriptor without a RECV thread has no message left to deliver.      *)
LEMMA PassedStep ==
    ASSUME TypeOK, AtPoints, Unused, ReturnsTo, OneStarter, Subject, Named,
           Serves, Events, Passed, Chained, \A g \in Fd : Queues(g),
           [Next]_vars
    PROVE  Passed'
<1> USE ConstantFacts DEF Goto, GotoSignalling, EndStart, records, starting,
        queues, sockets, outcome, life, Main, Threads
<1>0. /\ pc \in [Threads -> PC] /\ routine \in [Workers -> Routine]
      /\ made \in Nat
      /\ fd \in [Workers -> Fd \cup {None}]
      /\ threads \in [Fd \X Use -> Workers \cup {None}]
      /\ msg \in [Threads -> Nat] /\ len \in [Workers -> 0 .. QueueSize]
      /\ delivered \in [Fd -> Nat] /\ taken \in [Fd -> Nat]
  BY DEF TypeOK
<1> USE <1>0
<1> SUFFICES ASSUME NEW g \in Fd, threads'[<<g, "RECV">>] = None
             PROVE  delivered'[g] = Queued(g)'
  BY DEF Passed
<1> DEFINE Goal == delivered'[g] = Queued(g)'
<1>a. threads[<<g, "RECV">>] = None => delivered[g] = Queued(g)
  BY DEF Passed
<1>q. (\A x \in Workers : pc[x] = "enqueue" /\ fd[x] = g => pc'[x] = "enqueue")
         => Queued(g)' = Queued(g)
  BY DEF Queues, Carries
<1>1. ASSUME NEW t \in Threads, SwitchOut(t) PROVE Goal
  BY <1>1, <1>a, <1>q DEF SwitchOut
<1>2. ASSUME NEW t \in Threads, EndScript(t) PROVE Goal
  BY <1>2, <1>a, <1>q DEF EndScript, AfterScript
<1>3. ASSUME NEW t \in Threads, Listen(t) PROVE Goal
  <2>1. Newborn(t, "start", "run", "listen", None, "MESSAGED")
    BY <1>3, Newborns
  <2>2. /\ pc[t] = "run"
        /\ threads' = threads /\ delivered' = delivered
    BY <1>3 DEF Listen
  <2> QED
    BY <2>1, <2>2, <1>a, <1>q, SMTT(30) DEF Newborn, Use
<1>4. ASSUME NEW t \in Threads, NEW f \in Fd, Connect(t, f) PROVE Goal
  <2>1. Newborn(t, "start", "run", "connect", f, "MESSAGED")
    BY <1>4, Newborns
  <2>2. /\ pc[t] = "run"
        /\ threads' = threads /\ delivered' = delivered
    BY <1>4 DEF Connect
  <2> QED
    BY <2>1, <2>2, <1>a, <1>q DEF Newborn, Use
<1>5. ASSUME NEW t \in Threads, NEW f \in Fd, SendNew(t, f) PROVE Goal
  <2>1. Newborn(t, "start", "run", "send", f, "MESSAGED")
    BY <1>5, Newborns
  <2>2. /\ pc[t] = "run"
        /\ threads' = [threads EXCEPT ![<<f, "SEND">>] = made + 1]
        /\ delivered' = delivered
    BY <1>5 DEF SendNew
  <2> QED
    BY <2>1, <2>2, <1>a, <1>q DEF Newborn, Use
<1>6. ASSUME NEW t \in Threads, NEW f \in Fd, SendMore(t, f) PROVE Goal
  BY <1>6, <1>a, <1>q DEF SendMore
<1>7. ASSUME NEW t \in Threads, StartThread(t) PROVE Goal
  <2>1. /\ child[t] \in Workers /\ child[t] # t
        /\ pc'[t] = ret[t] /\ pc'[child[t]] = Entry(routine[child[t]])
        /\ \A z \in Threads \ {t, child[t]} : pc'[z] = pc[z]
        /\ pc[t] \in {"start", "startFree"}
    BY <1>7 DEF StartThread, OneStarter, Begins, TypeOK
  <2>2. /\ Entry(routine[child[t]]) \notin {"enqueue", "unused"}
        /\ ret[t] \notin {"enqueue", "unused"}
        /\ pc[child[t]] = "made" /\ fd' = fd /\ routine' = routine
        /\ delivered' = delivered /\ threads' = threads
    BY <1>7 DEF StartThread, Entry, OneStarter, Begins, TypeOK
  <2> QED
    BY <2>1, <2>2, <1>a, <1>q
<1>8. ASSUME NEW t \in Threads, FailToStart(t) PROVE Goal
  <2>1. /\ child[t] \in Workers /\ child[t] # t
        /\ pc'[t] = IF pc[t] = "start" THEN "unstart" ELSE "unstartFree"
        /\ pc'[child[t]] = "dead" /\ pc[t] \in {"start", "startFree"}
        /\ \A z \in Threads \ {t, child[t]} : pc'[z] = pc[z]
    BY <1>8 DEF FailToStart, OneStarter, Begins
  <2>2. /\ pc[child[t]] = "made" /\ fd' = fd /\ routine' = routine
        /\ delivered' = delivered /\ threads' = threads
    BY <1>8 DEF FailToStart, OneStarter, Begins
  <2> QED
    BY <2>1, <2>2, <1>a, <1>q
<1>9. ASSUME NEW t \in Threads, Unstart(t) PROVE Goal
  <2>1. ret[t] \notin {"enqueue", "unused"}
    BY DEF TypeOK
  <2> QED
    BY <1>9, <1>a, <1>q, <2>1 DEF Unstart
<1>10. ASSUME NEW t \in Threads, SwitchIn(t) PROVE Goal
  BY <1>10, <1>a, <1>q DEF SwitchIn
<1>11. ASSUME NEW t \in Threads, AddMore(t) PROVE Goal
  BY <1>11, <1>a, <1>q DEF AddMore
<1>12. ASSUME NEW t \in Threads, AddLength(t) PROVE Goal
  BY <1>12, <1>a, <1>q DEF AddLength
<1>13. ASSUME NEW t \in Threads, AddCell(t) PROVE Goal
  BY <1>13, <1>a, <1>q DEF AddCell
<1>14. ASSUME NEW w \in Workers, ConnectFails(w) PROVE Goal
  BY <1>14, <1>a, <1>q DEF ConnectFails
<1>15. ASSUME NEW w \in Workers, ConnectSucceeds(w) PROVE Goal
  BY <1>15, <1>a, <1>q DEF ConnectSucceeds
<1>16. ASSUME NEW w \in Workers, NEW f \in Fd, AcceptPeer(w, f) PROVE Goal
  <2>1. Newborn(w, "startFree", "read", "callback", f, "CONNECTED")
    BY <1>16, Newborns
  <2>2. /\ pc[w] = "read" /\ routine[w] = "listen"
        /\ threads' = threads /\ delivered' = delivered
    BY <1>16 DEF AcceptPeer
  <2> QED
    BY <2>1, <2>2, <1>a, <1>q DEF Newborn, Use
<1>17. ASSUME NEW w \in Workers, NEW f \in Fd, ReadMessage(w, f) PROVE Goal
  BY <1>17, <1>a, <1>q DEF ReadMessage
<1>18. ASSUME NEW w \in Workers, NEW f \in Fd, ReadEnd(w, f) PROVE Goal
  <2>1. Newborn(w, "startFree",
                IF routine[w] = "listen" THEN "read" ELSE "wrap",
                "callback", f, "DISCONNECTED")
    BY <1>18, Newborns
  <2>2. /\ pc[w] = "read"
        /\ threads' = threads /\ delivered' = delivered
    BY <1>18 DEF ReadEnd
  <2> QED
    BY <2>1, <2>2, <1>a, <1>q DEF Newborn, Use
<1>19. ASSUME NEW w \in Workers, EnqueueNew(w) PROVE Goal
  <2>1. Newborn(w, "start", "enqueued", "incoming", fd[w], "MESSAGED")
    BY <1>19, Newborns
  <2>2. /\ pc[w] = "enqueue"
        /\ threads' = [threads EXCEPT ![<<fd[w], "RECV">>] = made + 1]
        /\ delivered' = delivered /\ fd[w] \in Fd
    BY <1>19 DEF EnqueueNew, Subject
  <2> QED
    BY <2>1, <2>2, <1>a, <1>q DEF Newborn, Use
<1>20. ASSUME NEW w \in Workers, EnqueueMore(w) PROVE Goal
  <2>1. g # fd[w]
    BY <1>20 DEF EnqueueMore
  <2> QED
    BY <1>20, <1>a, <1>q, <2>1 DEF EnqueueMore
<1>21. ASSUME NEW w \in Workers, Enqueued(w) PROVE Goal
  BY <1>21, <1>a, <1>q DEF Enqueued
<1>22. ASSUME NEW w \in Workers, Dequeue(w) PROVE Goal
  BY <1>22, <1>a, <1>q DEF Dequeue
<1>23. ASSUME NEW w \in Workers, DequeueLast(w) PROVE Goal
  <2>1. routine[w] = "incoming" /\ fd[w] \in Fd
    BY <1>23 DEF DequeueLast, AtPoints, Points, Scripting, Ends, Subject
  <2>2. threads[<<fd[w], "RECV">>] = w
    BY <1>23, <2>1 DEF DequeueLast, Serves, Server, Left, Use
  <2>3. delivered[fd[w]] + len[w] = Queued(fd[w]) /\ len[w] = 0
    BY <1>23, <2>1, <2>2 DEF DequeueLast, NoMessage, Chained, Due
  <2>4. /\ threads' = [threads EXCEPT ![<<fd[w], "RECV">>] = None]
        /\ delivered' = delivered
        /\ pc' = [pc EXCEPT ![w] = "wrap"] /\ pc[w] = "dequeue"
    BY <1>23 DEF DequeueLast, ThreadDel
  <2>5. Queued(g)' = Queued(g)
    BY <2>4, <1>q
  <2>6. CASE g = fd[w]
    BY <2>1, <2>3, <2>4, <2>5, <2>6
  <2>7. CASE g # fd[w]
    BY <1>a, <2>1, <2>4, <2>5, <2>7 DEF Use
  <2> QED
    BY <2>6, <2>7
<1>24. ASSUME NEW w \in Workers, Callback(w) PROVE Goal
  <2>1. event[w] = "MESSAGED" => fd[w] # g
    <3>1. SUFFICES ASSUME event[w] = "MESSAGED" PROVE fd[w] # g
      OBVIOUS
    <3>2. routine[w] = "incoming"
      BY <1>24, <3>1 DEF Callback, AtPoints, Points, Scripting, Ends, Events
    <3>3. threads[<<fd[w], "RECV">>] = w
      BY <1>24, <3>2 DEF Callback, Serves, Server, Left, Use
    <3>4. threads' = threads /\ w # None
      BY <1>24 DEF Callback
    <3> QED
      BY <3>3, <3>4
  <2> QED
    BY <1>24, <1>a, <1>q, <2>1 DEF Callback
<1>25. ASSUME NEW w \in Workers, TakeToSend(w) PROVE Goal
  BY <1>25, <1>a, <1>q DEF TakeToSend
<1>26. ASSUME NEW w \in Workers, Shrink(w) PROVE Goal
  BY <1>26, <1>a, <1>q DEF Shrink
<1>27. ASSUME NEW w \in Workers, WriteMessage(w) PROVE Goal
  BY <1>27, <1>a, <1>q DEF WriteMessage
<1>28. ASSUME NEW w \in Workers, StopSending(w) PROVE Goal
  BY <1>28, <1>a, <1>q DEF StopSending
<1>29. ASSUME NEW w \in Workers, ForgetSender(w) PROVE Goal
  BY <1>29, <1>a, <1>q DEF ForgetSender, ThreadDel
<1>30. ASSUME NEW w \in Workers, Wrap(w) PROVE Goal
  BY <1>30, <1>a, <1>q DEF Wrap
<1>31. ASSUME NEW w \in Workers, Leave(w) PROVE Goal
  BY <1>31, <1>a, <1>q DEF Leave
<1>32. ASSUME DelLock PROVE Goal
  BY <1>32, <1>a, <1>q DEF DelLock
<1>33. ASSUME DelCheck PROVE Goal
  <2>1. CASE num_threads > 0
    BY <1>33, <1>a, <1>q, <2>1 DEF DelCheck
  <2>2. CASE ~(num_threads > 0)
    BY <1>33, <1>a, <1>q, <2>2 DEF DelCheck
  <2> QED
    BY <2>1, <2>2
<1>34. ASSUME DelSleep PROVE Goal
  BY <1>34, <1>a, <1>q DEF DelSleep
<1>35. ASSUME DelWake PROVE Goal
  BY <1>35, <1>a, <1>q DEF DelWake
<1>36. ASSUME DelWoken PROVE Goal
  <2>1. CASE num_threads = 0
    BY <1>36, <1>a, <1>q, <2>1 DEF DelWoken
  <2>2. CASE ~(num_threads = 0)
    BY <1>36, <1>a, <1>q, <2>2 DEF DelWoken
  <2> QED
    BY <2>1, <2>2
<1>37. ASSUME NEW f \in Fd, Arrive(f) PROVE Goal
  BY <1>37, <1>a, <1>q DEF Arrive
<1>38. ASSUME NEW f \in Fd, Close(f) PROVE Goal
  BY <1>38, <1>a, <1>q DEF Close
<1>39. ASSUME UNCHANGED vars PROVE Goal
  BY <1>39, <1>a, <1>q DEF vars, Carries
<1> QED
  BY <1>1, <1>2, <1>3, <1>4, <1>5, <1>6, <1>7, <1>8, <1>9, <1>10, <1>11,
     <1>12, <1>13, <1>14, <1>15, <1>16, <1>17, <1>18, <1>19, <1>20, <1>21,
     <1>22, <1>23, <1>24, <1>25, <1>26, <1>27, <1>28, <1>29, <1>30, <1>31,
     <1>32, <1>33, <1>34, <1>35, <1>36, <1>37, <1>38, <1>39
     DEF Next, Script, Starting, Adding, Reading, Serving, Deleting

(* The RECV queue of a descriptor holds what has come and is not           *)
(* delivered, in order.                                                    *)
LEMMA ChainedStep ==
    ASSUME TypeOK, AtPoints, Unused, ReturnsTo, OneStarter, Subject, Named,
           Serves, Adds, Sides, OneReader, Events, InHand, Passed, Chained,
           \A g \in Fd : Queues(g), [Next]_vars
    PROVE  Chained'
<1> USE ConstantFacts DEF Goto, GotoSignalling, EndStart, records, starting,
        queues, sockets, outcome, life, Main, Threads
<1>0. /\ pc \in [Threads -> PC] /\ routine \in [Workers -> Routine]
      /\ made \in Nat
      /\ fd \in [Workers -> Fd \cup {None}]
      /\ threads \in [Fd \X Use -> Workers \cup {None}]
      /\ msg \in [Threads -> Nat] /\ len \in [Workers -> 0 .. QueueSize]
      /\ delivered \in [Fd -> Nat] /\ taken \in [Fd -> Nat]
      /\ cell \in [Workers -> [1 .. QueueSize -> Nat]]
  BY DEF TypeOK
<1> USE <1>0
<1> SUFFICES ASSUME NEW g \in Fd, NEW v \in Workers, threads'[<<g, "RECV">>] = v
             PROVE  /\ pc'[v] = "call" => msg'[v] = delivered'[g] + 1
                    /\ Due(g, v)' + len'[v] = Queued(g)'
                    /\ \A i \in 1 .. QueueSize :
                          i <= len'[v] => cell'[v][i] = Due(g, v)' + i
  BY DEF Chained
<1> DEFINE Goal == /\ pc'[v] = "call" => msg'[v] = delivered'[g] + 1
                   /\ Due(g, v)' + len'[v] = Queued(g)'
                   /\ \A i \in 1 .. QueueSize :
                         i <= len'[v] => cell'[v][i] = Due(g, v)' + i
           Still == /\ threads[<<g, "RECV">>] = v /\ Queued(g)' = Queued(g)
                    /\ pc'[v] = "call" <=> pc[v] = "call"
                    /\ pc[v] = "call" => msg'[v] = msg[v]
                    /\ delivered'[g] = delivered[g]
                    /\ len'[v] = len[v] /\ cell'[v] = cell[v]
<1>u. Server("RECV") = "incoming" /\ "RECV" \in Use
  BY DEF Server, Use
<1>n. \A y \in Use : threads[<<g, y>>] = v =>
         fd[v] = g /\ routine[v] = Server(y) /\ pc[v] \notin Left \cup {"unused"}
  BY DEF Named
<1>a. threads[<<g, "RECV">>] = v =>
         fd[v] = g /\ routine[v] = "incoming" /\ pc[v] \notin Left \cup {"unused"}
  BY <1>u, <1>n
<1>c. threads[<<g, "RECV">>] = v =>
         /\ pc[v] = "call" => msg[v] = delivered[g] + 1
         /\ Due(g, v) + len[v] = Queued(g)
         /\ \A i \in 1 .. QueueSize : i <= len[v] => cell[v][i] = Due(g, v) + i
  BY DEF Chained
<1>b. Still => Goal
  BY <1>c DEF Due
<1>q. (\A x \in Workers : pc[x] = "enqueue" /\ fd[x] = g => pc'[x] = "enqueue")
         => Queued(g)' = Queued(g)
  BY DEF Queues, Carries
<1>e. \A x \in Workers : pc[x] = "enqueue" /\ fd[x] = g /\ pc'[x] # "enqueue"
         => Queued(g)' = taken[g] /\ Queued(g) = taken[g] - 1
  BY DEF Queues, Carries
<1> HIDE DEF Goal, Still
<1>1. ASSUME NEW t \in Threads, SwitchOut(t) PROVE Goal
  <2>1. Still
    BY <1>1, <1>a, <1>q DEF SwitchOut, Still
  <2> QED
    BY <2>1, <1>b
<1>2. ASSUME NEW t \in Threads, EndScript(t) PROVE Goal
  <2>1. Still
    BY <1>2, <1>a, <1>q DEF EndScript, AfterScript, Still
  <2> QED
    BY <2>1, <1>b
<1>3. ASSUME NEW t \in Threads, Listen(t) PROVE Goal
  <2>1. Newborn(t, "start", "run", "listen", None, "MESSAGED")
    BY <1>3, Newborns
  <2>2. /\ pc[t] = "run"
        /\ threads' = threads /\ len' = len /\ cell' = cell /\ msg' = msg
        /\ delivered' = delivered
    BY <1>3 DEF Listen
  <2>3. Still
    BY <2>1, <2>2, <1>a, <1>q DEF Newborn, Still
  <2> QED
    BY <2>3, <1>b
<1>4. ASSUME NEW t \in Threads, NEW f \in Fd, Connect(t, f) PROVE Goal
  <2>1. Newborn(t, "start", "run", "connect", f, "MESSAGED")
    BY <1>4, Newborns
  <2>2. /\ pc[t] = "run"
        /\ threads' = threads /\ len' = len /\ cell' = cell /\ msg' = msg
        /\ delivered' = delivered
    BY <1>4 DEF Connect
  <2>3. Still
    BY <2>1, <2>2, <1>a, <1>q DEF Newborn, Still
  <2> QED
    BY <2>3, <1>b
<1>5. ASSUME NEW t \in Threads, NEW f \in Fd, SendNew(t, f) PROVE Goal
  <2>1. Newborn(t, "start", "run", "send", f, "MESSAGED")
    BY <1>5, Newborns
  <2>2. /\ pc[t] = "run"
        /\ threads' = [threads EXCEPT ![<<f, "SEND">>] = made + 1]
        /\ len' = [len EXCEPT ![made + 1] = 1] /\ msg' = msg
        /\ delivered' = delivered
        /\ \A x \in Workers \ {made + 1} : cell'[x] = cell[x]
    BY <1>5 DEF SendNew
  <2>3. threads[<<g, "RECV">>] = v /\ v # made + 1
    BY <2>1, <2>2, <1>a DEF Newborn, Use
  <2>4. Queued(g)' = Queued(g)
    BY <2>1, <2>2, <1>q DEF Newborn
  <2>5. pc'[v] = pc[v] \/ v = t
    BY <2>1, <2>3 DEF Newborn
  <2>6. pc'[v] = "call" <=> pc[v] = "call"
    BY <2>1, <2>2, <2>5 DEF Newborn
  <2>7. Still
    BY <2>2, <2>3, <2>4, <2>6 DEF Still
  <2> QED
    BY <2>7, <1>b
<1>6. ASSUME NEW t \in Threads, NEW f \in Fd, SendMore(t, f) PROVE Goal
  <2>1. Still
    BY <1>6, <1>a, <1>q DEF SendMore, Still
  <2> QED
    BY <2>1, <1>b
<1>7. ASSUME NEW t \in Threads, StartThread(t) PROVE Goal
  <2>1. /\ child[t] \in Workers /\ child[t] # t
        /\ pc'[t] = ret[t] /\ pc'[child[t]] = Entry(routine[child[t]])
        /\ \A z \in Threads \ {t, child[t]} : pc'[z] = pc[z]
        /\ pc[t] \in {"start", "startFree"}
    BY <1>7 DEF StartThread, OneStarter, Begins, TypeOK
  <2>2. /\ Entry(routine[child[t]]) \notin {"enqueue", "unused"}
        /\ ret[t] \notin {"enqueue", "unused"}
        /\ pc[child[t]] = "made" /\ fd' = fd /\ routine' = routine
        /\ len' = len /\ cell' = cell /\ msg' = msg /\ delivered' = delivered
        /\ threads' = threads
    BY <1>7 DEF StartThread, Entry, OneStarter, Begins, TypeOK
  <2>3. routine[child[t]] = "incoming" => Entry(routine[child[t]]) = "dequeue"
    BY DEF Entry
  <2>4. ret[t] # "call"
    BY DEF TypeOK
  <2>5. Still
    BY <2>1, <2>2, <2>3, <2>4, <1>a, <1>q DEF Still
  <2> QED
    BY <2>5, <1>b
<1>8. ASSUME NEW t \in Threads, FailToStart(t) PROVE Goal
  <2>1. /\ child[t] \in Workers /\ child[t] # t
        /\ pc'[t] = IF pc[t] = "start" THEN "unstart" ELSE "unstartFree"
        /\ pc'[child[t]] = "dead" /\ pc[t] \in {"start", "startFree"}
        /\ \A z \in Threads \ {t, child[t]} : pc'[z] = pc[z]
    BY <1>8 DEF FailToStart, OneStarter, Begins
  <2>2. /\ pc[child[t]] = "made" /\ fd' = fd /\ routine' = routine
        /\ len' = len /\ cell' = cell /\ msg' = msg /\ delivered' = delivered
        /\ threads' = threads
    BY <1>8 DEF FailToStart, OneStarter, Begins
  <2>3. Still
    BY <2>1, <2>2, <1>a, <1>q DEF Still
  <2> QED
    BY <2>3, <1>b
<1>9. ASSUME NEW t \in Threads, Unstart(t) PROVE Goal
  <2>1. ret[t] \notin {"enqueue", "unused", "call"}
    BY DEF TypeOK
  <2>2. Still
    BY <1>9, <2>1, <1>a, <1>q DEF Unstart, Still
  <2> QED
    BY <2>2, <1>b
<1>10. ASSUME NEW t \in Threads, SwitchIn(t) PROVE Goal
  <2>1. Still
    BY <1>10, <1>a, <1>q DEF SwitchIn, Still
  <2> QED
    BY <2>1, <1>b
<1>11. ASSUME NEW t \in Threads, AddMore(t) PROVE Goal
  <2>1. child[t] \in Workers /\ routine[child[t]] = "send"
    BY <1>11 DEF AddMore, Adds
  <2>2. Still
    BY <1>11, <2>1, <1>a, <1>q DEF AddMore, Still
  <2> QED
    BY <2>2, <1>b
<1>12. ASSUME NEW t \in Threads, AddLength(t) PROVE Goal
  <2>1. child[t] \in Workers /\ routine[child[t]] = "send"
    BY <1>12 DEF AddLength, Adds
  <2>2. Still
    BY <1>12, <2>1, <1>a, <1>q DEF AddLength, Still
  <2> QED
    BY <2>2, <1>b
<1>13. ASSUME NEW t \in Threads, AddCell(t) PROVE Goal
  <2>1. child[t] \in Workers /\ routine[child[t]] = "send"
    BY <1>13 DEF AddCell, Adds
  <2>2. Still
    BY <1>13, <2>1, <1>a, <1>q DEF AddCell, Still
  <2> QED
    BY <2>2, <1>b
<1>14. ASSUME NEW w \in Workers, ConnectFails(w) PROVE Goal
  <2>1. Still
    BY <1>14, <1>a, <1>q DEF ConnectFails, Still
  <2> QED
    BY <2>1, <1>b
<1>15. ASSUME NEW w \in Workers, ConnectSucceeds(w) PROVE Goal
  <2>1. routine[w] = "connect"
    BY <1>15 DEF ConnectSucceeds, AtPoints, Points, Scripting, Ends, Routine,
       TypeOK
  <2>2. Still
    BY <1>15, <2>1, <1>a, <1>q DEF ConnectSucceeds, Still
  <2> QED
    BY <2>2, <1>b
<1>16. ASSUME NEW w \in Workers, NEW f \in Fd, AcceptPeer(w, f) PROVE Goal
  <2>1. Newborn(w, "startFree", "read", "callback", f, "CONNECTED")
    BY <1>16, Newborns
  <2>2. /\ pc[w] = "read" /\ routine[w] = "listen"
        /\ threads' = threads /\ len' = len /\ cell' = cell /\ msg' = msg
        /\ delivered' = delivered
    BY <1>16 DEF AcceptPeer
  <2>3. Still
    BY <2>1, <2>2, <1>a, <1>q DEF Newborn, Still
  <2> QED
    BY <2>3, <1>b
<1>17. ASSUME NEW w \in Workers, NEW f \in Fd, ReadMessage(w, f) PROVE Goal
  <2>1. Reader(routine[w]) /\ pc[w] = "read"
    BY <1>17 DEF ReadMessage, AtPoints, Points, Scripting, Ends, Reader
  <2>2. Still
    BY <1>17, <2>1, <1>a, <1>q DEF ReadMessage, Reader, Still
  <2> QED
    BY <2>2, <1>b
<1>18. ASSUME NEW w \in Workers, NEW f \in Fd, ReadEnd(w, f) PROVE Goal
  <2>1. Newborn(w, "startFree",
                IF routine[w] = "listen" THEN "read" ELSE "wrap",
                "callback", f, "DISCONNECTED")
    BY <1>18, Newborns
  <2>2. /\ pc[w] = "read"
        /\ threads' = threads /\ len' = len /\ cell' = cell /\ msg' = msg
        /\ delivered' = delivered
    BY <1>18 DEF ReadEnd
  <2>3. Still
    BY <2>1, <2>2, <1>a, <1>q DEF Newborn, Still
  <2> QED
    BY <2>3, <1>b
<1>19. ASSUME NEW w \in Workers, EnqueueNew(w) PROVE Goal
  <2>1. Newborn(w, "start", "enqueued", "incoming", fd[w], "MESSAGED")
    BY <1>19, Newborns
  <2>2. /\ pc[w] = "enqueue" /\ fd[w] \in Fd
        /\ threads[<<fd[w], "RECV">>] = None
        /\ threads' = [threads EXCEPT ![<<fd[w], "RECV">>] = made + 1]
        /\ delivered' = delivered /\ len' = [len EXCEPT ![made + 1] = 1]
        /\ cell' = [cell EXCEPT ![made + 1] = [cell[made + 1] EXCEPT ![1] = msg[w]]]
        /\ msg' = [msg EXCEPT ![w] = 0]
    BY <1>19 DEF EnqueueNew, NoThread, Subject
  <2>3. CASE g = fd[w]
    <3>1. v = made + 1 /\ pc'[v] = "made" /\ v \in Workers
      BY <2>1, <2>2, <2>3 DEF Newborn, Use
    <3>2. pc'[w] # "enqueue"
      BY <2>1 DEF Newborn
    <3>3. Queued(g)' = taken[g] /\ delivered[g] = taken[g] - 1
      BY <2>2, <2>3, <3>2, <1>e DEF Passed
    <3>4. Due(g, v)' = delivered[g] /\ len'[v] = 1
      BY <2>2, <3>1 DEF Due
    <3>5. cell'[v][1] = taken[g]
      BY <2>2, <2>3, <3>1 DEF InHand
    <3>6. delivered[g] \in Nat /\ delivered[g] + 1 = taken[g]
      BY <3>3
    <3>7. Due(g, v)' + len'[v] = Queued(g)'
      BY <3>3, <3>4, <3>6
    <3>8. ASSUME NEW i \in 1 .. QueueSize, i <= len'[v]
          PROVE  cell'[v][i] = Due(g, v)' + i
      <4>1. i = 1
        BY <3>4, <3>8
      <4> QED
        BY <4>1, <3>4, <3>5, <3>6
    <3> QED
      BY <3>1, <3>7, <3>8 DEF Goal
  <2>4. CASE g # fd[w]
    <3>1. threads[<<g, "RECV">>] = v
      BY <2>2, <2>4 DEF Use
    <3>2. v # made + 1 /\ v # w
      BY <2>1, <2>2, <2>4, <3>1, <1>a DEF Newborn
    <3>3. pc'[v] = pc[v]
      BY <2>1, <3>2 DEF Newborn
    <3>4. msg'[v] = msg[v] /\ len'[v] = len[v] /\ cell'[v] = cell[v]
      BY <2>2, <3>2
    <3>5. Queued(g)' = Queued(g)
      BY <2>1, <2>2, <2>4, <1>q DEF Newborn
    <3>6. Still
      BY <2>2, <3>1, <3>3, <3>4, <3>5 DEF Still
    <3> QED
      BY <3>6, <1>b
  <2> QED
    BY <2>3, <2>4
<1>20. ASSUME NEW w \in Workers, EnqueueMore(w) PROVE Goal
  <2> DEFINE r == threads[<<fd[w], "RECV">>]
  <2>1. /\ pc[w] = "enqueue" /\ fd[w] \in Fd /\ r # None /\ len[r] < QueueSize
        /\ pc' = [pc EXCEPT ![w] = "enqueued"]
        /\ threads' = threads /\ delivered' = delivered
        /\ len' = [len EXCEPT ![r] = len[r] + 1]
        /\ cell' = [cell EXCEPT ![r] = [cell[r] EXCEPT ![len[r] + 1] = msg[w]]]
        /\ msg' = [msg EXCEPT ![w] = 0]
    BY <1>20 DEF EnqueueMore, Subject
  <2>2. threads[<<g, "RECV">>] = v /\ v # w
    BY <2>1, <1>20, <1>a DEF AtPoints, Points, Scripting, Ends
  <2>3. CASE g = fd[w]
    <3>1. v = r /\ pc'[v] = pc[v] /\ msg'[v] = msg[v] /\ delivered'[g] = delivered[g]
      BY <2>1, <2>2, <2>3
    <3>2. Queued(g)' = taken[g] /\ Queued(g) = taken[g] - 1 /\ msg[w] = taken[g]
      BY <2>1, <2>3, <1>e DEF InHand
    <3>3. PICK n \in Nat : Due(g, v)' = n /\ Due(g, v) = n
      BY <3>1 DEF Due
    <3>4. len'[v] = len[v] + 1 /\ len[v] + 1 \in 1 .. QueueSize /\ len[v] \in Nat
      <4>1. len'[v] = len[v] + 1 /\ len[v] < QueueSize
        BY <2>1, <3>1
      <4>2. len[v] \in 0 .. QueueSize
        OBVIOUS
      <4> QED
        BY <4>1, <4>2
    <3>5. n + len[v] = taken[g] - 1 /\ taken[g] \in Nat
      BY <2>2, <3>2, <3>3, <1>c
    <3>6. n + len'[v] = taken[g]
      <4>1. n \in Nat /\ len[v] \in Nat /\ taken[g] \in Nat
        BY <3>3, <3>4, <3>5
      <4>2. \A b, c \in Nat : n + b = c - 1 => n + (b + 1) = c
        BY <4>1, OneMore, Zenon
      <4>3. \A c \in Nat : n + len[v] = c - 1 => n + (len[v] + 1) = c
        BY <4>1, <4>2, Zenon
      <4>4. n + len[v] = taken[g] - 1 => n + (len[v] + 1) = taken[g]
        BY <4>1, <4>3, Zenon
      <4>5. n + (len[v] + 1) = taken[g]
        BY <3>5, <4>4, Zenon
      <4> QED
        BY <3>4, <4>5
    <3>7. cell'[v] = [cell[v] EXCEPT ![len[v] + 1] = taken[g]]
      BY <2>1, <3>1, <3>2
    <3>8. ASSUME NEW i \in 1 .. QueueSize, i <= len'[v]
          PROVE  cell'[v][i] = n + i
      <4>1. CASE i = len[v] + 1
        <5>1. cell'[v][i] = taken[g]
          <6>1. cell[v] \in [1 .. QueueSize -> Nat]
            OBVIOUS
          <6> QED
            BY <3>4, <3>7, <4>1, <6>1
        <5>2. n + i = taken[g]
          BY <3>6, <4>1, <3>4
        <5> QED
          BY <5>1, <5>2
      <4>2. CASE i # len[v] + 1
        <5>1. i <= len[v] /\ cell'[v][i] = cell[v][i]
          BY <3>4, <3>7, <3>8, <4>2
        <5>2. cell[v][i] = Due(g, v) + i
          BY <2>2, <5>1, <1>c
        <5> QED
          BY <3>3, <5>1, <5>2
      <4> QED
        BY <4>1, <4>2
    <3>9. pc'[v] = "call" => msg'[v] = delivered'[g] + 1
      BY <2>2, <3>1, <1>c
    <3> QED
      BY <3>2, <3>3, <3>6, <3>8, <3>9 DEF Goal
  <2>4. CASE g # fd[w]
    <3>1. r \in Workers /\ fd[r] = fd[w]
      <4>1. PICK x \in Workers : threads[<<fd[w], "RECV">>] = x
        BY <2>1 DEF Use
      <4>2. fd[x] = fd[w]
        BY <2>1, <4>1 DEF Named, Use
      <4> QED
        BY <4>1, <4>2
    <3>2. v # r
      BY <2>2, <2>4, <3>1, <1>a
    <3>3. Queued(g)' = Queued(g)
      BY <2>1, <2>4, <1>q
    <3>4. Still
      BY <2>1, <2>2, <3>2, <3>3 DEF Still
    <3> QED
      BY <3>4, <1>b
  <2> QED
    BY <2>3, <2>4
<1>21. ASSUME NEW w \in Workers, Enqueued(w) PROVE Goal
  <2>1. Still
    BY <1>21, <1>a, <1>q DEF Enqueued, Still
  <2> QED
    BY <2>1, <1>b
<1>22. ASSUME NEW w \in Workers, Dequeue(w) PROVE Goal
  <2>1. /\ msg' = [msg EXCEPT ![w] = cell[w][1]]
        /\ cell' = [cell EXCEPT ![w] = Shifted(w)]
        /\ len' = [len EXCEPT ![w] = len[w] - 1]
        /\ pc' = [pc EXCEPT ![w] = "call"]
        /\ pc[w] = "dequeue" /\ len[w] > 0
        /\ threads' = threads /\ delivered' = delivered
    BY <1>22 DEF Dequeue, Oldest, HasMessage
  <2>2. threads[<<g, "RECV">>] = v /\ Queued(g)' = Queued(g)
    BY <2>1, <1>q
  <2>3. CASE v = w
    <3>1. /\ delivered[g] + len[w] = Queued(g) /\ 1 \in 1 .. QueueSize
          /\ \A i \in 1 .. QueueSize : i <= len[w]
                => cell[w][i] = delivered[g] + i
      BY <2>1, <2>2, <2>3, <1>c DEF Due
    <3>2. cell[w][1] = delivered[g] + 1 /\ delivered[g] \in Nat /\ len[w] \in 0 .. QueueSize
      BY <2>1, <3>1
    <3>3. pc'[w] = "call" /\ msg'[w] = delivered[g] + 1 /\ len'[w] = len[w] - 1
      BY <2>1, <3>2
    <3>4. Due(g, v)' = delivered[g] + 1
      BY <2>3, <3>3 DEF Due
    <3>5. ASSUME NEW i \in 1 .. QueueSize, i <= len'[w]
          PROVE  cell'[w][i] = Due(g, v)' + i
      <4>1. i < len[w] /\ i + 1 \in 1 .. QueueSize /\ i + 1 <= len[w]
        <5>1. i <= len[w] - 1 /\ len[w] \in 0 .. QueueSize
          BY <3>2, <3>3, <3>5
        <5> QED
          BY <5>1, NextCell
      <4>2. cell'[w][i] = cell[w][i + 1]
        BY <2>1, <4>1 DEF Shifted
      <4>3. cell[w][i + 1] = delivered[g] + (i + 1)
        BY <3>1, <4>1
      <4> QED
        BY <3>2, <3>4, <4>2, <4>3
    <3> QED
      BY <2>1, <2>2, <2>3, <3>1, <3>2, <3>3, <3>4, <3>5 DEF Goal
  <2>4. CASE v # w
    <3>1. Still
      BY <2>1, <2>2, <2>4 DEF Still
    <3> QED
      BY <3>1, <1>b
  <2> QED
    BY <2>3, <2>4
<1>23. ASSUME NEW w \in Workers, DequeueLast(w) PROVE Goal
  <2>1. routine[w] = "incoming" /\ fd[w] \in Fd
    BY <1>23 DEF DequeueLast, AtPoints, Points, Scripting, Ends, Subject
  <2>2. threads[<<fd[w], "RECV">>] = w
    BY <1>23, <2>1 DEF DequeueLast, Serves, Server, Left, Use
  <2>3. threads' = [threads EXCEPT ![<<fd[w], "RECV">>] = None]
    BY <1>23 DEF DequeueLast, ThreadDel
  <2>4. g # fd[w]
    BY <2>1, <2>3 DEF Use
  <2>5. threads[<<g, "RECV">>] = v
    BY <2>1, <2>3, <2>4 DEF Use
  <2>6. Still
    BY <1>23, <1>a, <1>q, <2>4, <2>5 DEF DequeueLast, Still
  <2> QED
    BY <2>6, <1>b
<1>24. ASSUME NEW w \in Workers, Callback(w) PROVE Goal
  <2>1. /\ threads' = threads /\ len' = len /\ cell' = cell /\ msg' = msg
        /\ pc[w] = "call" /\ pc' = [pc EXCEPT ![w] = "run"]
        /\ \/ event[w] = "MESSAGED" /\ delivered' = [delivered EXCEPT ![fd[w]] = msg[w]]
           \/ event[w] # "MESSAGED" /\ delivered' = delivered
    BY <1>24 DEF Callback
  <2>2. threads[<<g, "RECV">>] = v /\ Queued(g)' = Queued(g)
    BY <2>1, <1>q
  <2>3. event[w] = "MESSAGED" => threads[<<fd[w], "RECV">>] = w
    <3>1. SUFFICES ASSUME event[w] = "MESSAGED" PROVE threads[<<fd[w], "RECV">>] = w
      OBVIOUS
    <3>2. routine[w] = "incoming"
      BY <2>1, <3>1 DEF AtPoints, Points, Scripting, Ends, Events
    <3> QED
      BY <2>1, <3>2 DEF Serves, Server, Left, Use
  <2>4. CASE v = w
    <3>1. event[w] = "MESSAGED" /\ fd[w] = g
      BY <2>1, <2>2, <2>4, <1>a DEF Events
    <3>2. /\ delivered'[g] = msg[w] /\ pc'[w] = "run"
          /\ Due(g, w) = msg[w]
      BY <2>1, <3>1 DEF Due
    <3>3. Due(g, v)' = Due(g, v)
      BY <2>4, <3>2 DEF Due
    <3> QED
      BY <2>1, <2>2, <2>4, <3>2, <3>3, <1>c DEF Goal
  <2>5. CASE v # w
    <3>1. delivered'[g] = delivered[g]
      BY <2>1, <2>2, <2>3, <2>5
    <3>2. Still
      BY <2>1, <2>2, <2>5, <3>1 DEF Still
    <3> QED
      BY <3>2, <1>b
  <2> QED
    BY <2>4, <2>5
<1>25. ASSUME NEW w \in Workers, TakeToSend(w) PROVE Goal
  <2>1. routine[w] = "send"
    BY <1>25 DEF TakeToSend, AtPoints, Points, Scripting, Ends, Routine, TypeOK
  <2>2. Still
    BY <1>25, <2>1, <1>a, <1>q DEF TakeToSend, Still
  <2> QED
    BY <2>2, <1>b
<1>26. ASSUME NEW w \in Workers, Shrink(w) PROVE Goal
  <2>1. routine[w] = "send"
    BY <1>26 DEF Shrink, AtPoints, Points, Scripting, Ends, Routine, TypeOK
  <2>2. Still
    BY <1>26, <2>1, <1>a, <1>q DEF Shrink, Still
  <2> QED
    BY <2>2, <1>b
<1>27. ASSUME NEW w \in Workers, WriteMessage(w) PROVE Goal
  <2>1. routine[w] = "send"
    BY <1>27 DEF WriteMessage, AtPoints, Points, Scripting, Ends, Routine,
       TypeOK
  <2>2. Still
    BY <1>27, <2>1, <1>a, <1>q DEF WriteMessage, Still
  <2> QED
    BY <2>2, <1>b
<1>28. ASSUME NEW w \in Workers, StopSending(w) PROVE Goal
  <2>1. Still
    BY <1>28, <1>a, <1>q DEF StopSending, Still
  <2> QED
    BY <2>1, <1>b
<1>29. ASSUME NEW w \in Workers, ForgetSender(w) PROVE Goal
  <2>1. Still
    BY <1>29, <1>a, <1>q DEF ForgetSender, ThreadDel, Still
  <2> QED
    BY <2>1, <1>b
<1>30. ASSUME NEW w \in Workers, Wrap(w) PROVE Goal
  <2>1. Still
    BY <1>30, <1>a, <1>q DEF Wrap, Still
  <2> QED
    BY <2>1, <1>b
<1>31. ASSUME NEW w \in Workers, Leave(w) PROVE Goal
  <2>1. Still
    BY <1>31, <1>a, <1>q DEF Leave, Still
  <2> QED
    BY <2>1, <1>b
<1>32. ASSUME DelLock PROVE Goal
  <2>1. Still
    BY <1>32, <1>a, <1>q DEF DelLock, Still
  <2> QED
    BY <2>1, <1>b
<1>33. ASSUME DelCheck PROVE Goal
  <2>1. Still
    BY <1>33, <1>a, <1>q DEF DelCheck, Still
  <2> QED
    BY <2>1, <1>b
<1>34. ASSUME DelSleep PROVE Goal
  <2>1. Still
    BY <1>34, <1>a, <1>q DEF DelSleep, Still
  <2> QED
    BY <2>1, <1>b
<1>35. ASSUME DelWake PROVE Goal
  <2>1. Still
    BY <1>35, <1>a, <1>q DEF DelWake, Still
  <2> QED
    BY <2>1, <1>b
<1>36. ASSUME DelWoken PROVE Goal
  <2>1. Still
    BY <1>36, <1>a, <1>q DEF DelWoken, Still
  <2> QED
    BY <2>1, <1>b
<1>37. ASSUME NEW f \in Fd, Arrive(f) PROVE Goal
  <2>1. Still
    BY <1>37, <1>a, <1>q DEF Arrive, Still
  <2> QED
    BY <2>1, <1>b
<1>38. ASSUME NEW f \in Fd, Close(f) PROVE Goal
  <2>1. Still
    BY <1>38, <1>a, <1>q DEF Close, Still
  <2> QED
    BY <2>1, <1>b
<1>39. ASSUME UNCHANGED vars PROVE Goal
  <2>1. Still
    BY <1>39, <1>a, <1>q DEF vars, Still
  <2> QED
    BY <2>1, <1>b
<1> QED
  BY <1>1, <1>2, <1>3, <1>4, <1>5, <1>6, <1>7, <1>8, <1>9, <1>10, <1>11,
     <1>12, <1>13, <1>14, <1>15, <1>16, <1>17, <1>18, <1>19, <1>20, <1>21,
     <1>22, <1>23, <1>24, <1>25, <1>26, <1>27, <1>28, <1>29, <1>30, <1>31,
     <1>32, <1>33, <1>34, <1>35, <1>36, <1>37, <1>38, <1>39
     DEF Next, Script, Starting, Adding, Reading, Serving, Deleting, Goal

-----------------------------------------------------------------------------
(* The inductive invariants: what holds of the threads and the table, and  *)
(* on top of it what holds of the messages of a descriptor.                *)
Inv == /\ TypeOK /\ AtPoints /\ Unused /\ ReturnsTo /\ OneStarter /\ OneHolder
       /\ Subject /\ Named /\ Serves /\ Shrinks /\ Adds
Order == /\ Sides /\ OneReader /\ Events /\ InHand
         /\ Passed /\ Chained /\ Heard /\ HeardOf

(* Both hold when the main thread starts to run, alone.                    *)
LEMMA InvInit == Init => Inv
<1> SUFFICES ASSUME Init PROVE Inv
  OBVIOUS
<1> USE ConstantFacts
<1>1. TypeOK
  <2>1. /\ cell = [w \in Workers |-> Empty]
        /\ Empty \in [1 .. QueueSize -> Nat]
    BY DEF Init, Empty
  <2>2. /\ gil \in Threads \cup {None} /\ num_threads \in 0 .. CounterMod - 1
        /\ made \in 0 .. MaxThreads /\ failures \in 0 .. MaxFailures
    BY NodeAssumption DEF Init
  <2>3. threads \in [Fd \X Use -> Workers \cup {None}]
    BY DEF Init
  <2>4. /\ pc \in [Threads -> PC]
        /\ ret \in [Threads -> {"run", "read", "wrap", "enqueued"}]
    BY DEF Init, PC, Holding, Outside
  <2>5. /\ reg \in [Threads -> 0 .. CounterMod + QueueSize]
        /\ child \in [Threads -> Workers \cup {None}]
    BY DEF Init
  <2>6. /\ routine \in [Workers -> Routine]
        /\ fd \in [Workers -> Fd \cup {None}]
        /\ event \in [Workers -> Event]
    BY DEF Init, Routine, Event
  <2>7. /\ msg \in [Threads -> Nat] /\ len \in [Workers -> 0 .. QueueSize]
    BY DEF Init
  <2>8. /\ conn \in [Fd -> {"none", "socket", "open", "closed", "dropped"}]
        /\ arrived \in [Fd -> Nat]
        /\ taken \in [Fd -> Nat] /\ delivered \in [Fd -> Nat]
        /\ heard \in [Fd -> SUBSET Event] /\ sent \in [Fd -> Nat]
        /\ written \in [Fd -> Nat] /\ torn \in BOOLEAN
    BY NodeAssumption DEF Init
  <2> QED
    BY <2>1, <2>2, <2>3, <2>4, <2>5, <2>6, <2>7, <2>8 DEF TypeOK
<1>2. \A w \in Workers : pc[w] = "unused" /\ w > made /\ w # Main
  BY DEF Init, Workers, Main
<1>3. pc[Main] = "run" /\ gil = Main
  BY DEF Init
<1>4. AtPoints /\ Unused /\ Subject /\ Shrinks
  BY <1>2, <1>3 DEF AtPoints, Unused, Subject, Shrinks, Points, Ends,
     MainPoints, Scripting
<1>5. ReturnsTo /\ OneStarter /\ Adds
  BY <1>2, <1>3 DEF ReturnsTo, OneStarter, Adds, Begins
<1>6. OneHolder
  BY <1>2, <1>3 DEF OneHolder, Holding
<1>7. Named
  BY DEF Init, Named
<1>8. Serves
  BY <1>2 DEF Serves
<1> QED
  BY <1>1, <1>4, <1>5, <1>6, <1>7, <1>8 DEF Inv

(* No message has been read then, and no client has heard of anything.     *)
LEMMA OrderInit == Init => Order
<1> SUFFICES ASSUME Init PROVE Order
  OBVIOUS
<1> USE ConstantFacts
<1>1. \A w \in Workers : pc[w] = "unused"
  BY DEF Init, Main
<1>2. Sides /\ OneReader /\ Events /\ InHand /\ Heard
  BY <1>1 DEF Sides, OneReader, Events, InHand, Heard, Ends
<1>3. Passed
  <2>1. \A f \in Fd : Queued(f) = taken[f]
    BY <1>1 DEF Queued, Carries
  <2> QED
    BY <2>1 DEF Init, Passed
<1>4. Chained
  BY DEF Init, Chained, Use
<1>5. HeardOf
  BY DEF Init, HeardOf, Fd
<1> QED
  BY <1>2, <1>3, <1>4, <1>5 DEF Order

(* Every step keeps them.                                                  *)
LEMMA InvStep == Inv /\ [Next]_vars => Inv'
  BY TypeStep, AtPointsStep, UnusedStep, ReturnsToStep, OneStarterStep,
     HolderStep, SubjectStep, NamedStep, ServesStep, ShrinksStep, AddsStep DEF Inv

(* The messages stay in order, on the strength of what holds of threads.   *)
LEMMA OrderStep == Inv /\ Order /\ [Next]_vars => Order'
<1> SUFFICES ASSUME Inv, Order, [Next]_vars PROVE Order'
  OBVIOUS
<1> USE DEF Inv, Order
<1>1. \A g \in Fd : Queues(g)
  BY QueuedStep
<1>2. Sides' /\ OneReader' /\ Events' /\ InHand'
  BY SidesStep, OneReaderStep, EventsStep, InHandStep
<1>3. Passed' /\ Chained'
  BY <1>1, PassedStep, ChainedStep
<1>4. Heard' /\ HeardOf'
  BY HeardStep, HeardOfStep
<1> QED
  BY <1>2, <1>3, <1>4

(* So they hold of every state that Node reaches.                          *)
LEMMA InvCorrect == Spec => []Inv
  BY InvInit, InvStep, PTL DEF Spec

(* The second by way of the first.                                         *)
LEMMA OrderCorrect == Spec => []Order
  BY InvInit, InvStep, OrderInit, OrderStep, PTL DEF Spec

(* What is delivered has been taken.                                       *)
LEMMA DeliveredTaken ==
    ASSUME Inv, Order, NEW f \in Fd
    PROVE  /\ delivered[f] <= taken[f]
           /\ \A w \in Workers : threads[<<f, "RECV">>] = w /\ pc[w] = "call"
                 => msg[w] = delivered[f] + 1 /\ msg[w] <= taken[f]
<1>1. delivered[f] \in Nat /\ taken[f] \in Nat /\ Queued(f) <= taken[f]
  BY DEF Inv, TypeOK, Queued
<1>2. ASSUME NEW w \in Workers, threads[<<f, "RECV">>] = w
      PROVE  /\ delivered[f] <= taken[f]
             /\ pc[w] = "call"
                   => msg[w] = delivered[f] + 1 /\ msg[w] <= taken[f]
  <2>1. PICK d : d = Due(f, w)
    OBVIOUS
  <2>2. d + len[w] = Queued(f) /\ (pc[w] = "call" => msg[w] = delivered[f] + 1)
    BY <1>2, <2>1 DEF Order, Chained
  <2>3. /\ len[w] \in Nat
        /\ pc[w] = "call" => d = msg[w]
        /\ pc[w] # "call" => d = delivered[f]
    BY <2>1, ConstantFacts DEF Due, Inv, TypeOK
  <2>4. d \in Nat /\ d + len[w] <= taken[f]
    BY <1>1, <2>2, <2>3
  <2>5. d <= taken[f]
    BY <1>1, <2>3, <2>4
  <2> QED
    BY <1>1, <2>2, <2>3, <2>5
<1>3. CASE threads[<<f, "RECV">>] = None
  <2>1. delivered[f] = Queued(f)
    BY <1>3 DEF Order, Passed
  <2>2. ~ \E w \in Workers : threads[<<f, "RECV">>] = w
    BY <1>3, ConstantFacts
  <2> QED
    BY <1>1, <2>1, <2>2
<1>4. CASE threads[<<f, "RECV">>] \in Workers
  BY <1>2, <1>4
<1> QED
  BY <1>3, <1>4 DEF Inv, TypeOK, Use

(* Every step is a step of the channel, or changes nothing there.          *)
LEMMA ChannelStep ==
    ASSUME Inv, Order, [Next]_vars
    PROVE  [Received!Next]_(Received!chan)
<1> USE ConstantFacts DEF outcome, sockets
<1>1. ASSUME NEW t \in Threads, SwitchOut(t)
      PROVE  [Received!Next]_(Received!chan)
  BY <1>1 DEF SwitchOut, Received!chan
<1>2. ASSUME NEW t \in Threads, EndScript(t)
      PROVE  [Received!Next]_(Received!chan)
  BY <1>2 DEF EndScript, Received!chan
<1>3. ASSUME NEW t \in Threads, Listen(t) PROVE [Received!Next]_(Received!chan)
  BY <1>3 DEF Listen, Received!chan
<1>4. ASSUME NEW t \in Threads, NEW f \in Fd, Connect(t, f)
      PROVE  [Received!Next]_(Received!chan)
  BY <1>4 DEF Connect, Received!chan
<1>5. ASSUME NEW t \in Threads, NEW f \in Fd, SendNew(t, f)
      PROVE  [Received!Next]_(Received!chan)
  BY <1>5 DEF SendNew, Received!chan
<1>6. ASSUME NEW t \in Threads, NEW f \in Fd, SendMore(t, f)
      PROVE  [Received!Next]_(Received!chan)
  BY <1>6 DEF SendMore, Received!chan
<1>7. ASSUME NEW t \in Threads, StartThread(t)
      PROVE  [Received!Next]_(Received!chan)
  BY <1>7 DEF StartThread, Received!chan
<1>8. ASSUME NEW t \in Threads, FailToStart(t)
      PROVE  [Received!Next]_(Received!chan)
  BY <1>8 DEF FailToStart, Received!chan
<1>9. ASSUME NEW t \in Threads, Unstart(t)
      PROVE  [Received!Next]_(Received!chan)
  BY <1>9 DEF Unstart, Received!chan
<1>10. ASSUME NEW t \in Threads, SwitchIn(t)
       PROVE  [Received!Next]_(Received!chan)
  BY <1>10 DEF SwitchIn, Received!chan
<1>11. ASSUME NEW t \in Threads, AddMore(t)
       PROVE  [Received!Next]_(Received!chan)
  BY <1>11 DEF AddMore, Received!chan
<1>12. ASSUME NEW t \in Threads, AddLength(t)
       PROVE  [Received!Next]_(Received!chan)
  BY <1>12 DEF AddLength, Received!chan
<1>13. ASSUME NEW t \in Threads, AddCell(t)
       PROVE  [Received!Next]_(Received!chan)
  BY <1>13 DEF AddCell, Received!chan
<1>14. ASSUME NEW w \in Workers, ConnectFails(w)
       PROVE  [Received!Next]_(Received!chan)
  BY <1>14 DEF ConnectFails, Received!chan
<1>15. ASSUME NEW w \in Workers, ConnectSucceeds(w)
       PROVE  [Received!Next]_(Received!chan)
  BY <1>15 DEF ConnectSucceeds, Received!chan
<1>16. ASSUME NEW w \in Workers, NEW f \in Fd, AcceptPeer(w, f)
       PROVE  [Received!Next]_(Received!chan)
  BY <1>16 DEF AcceptPeer, Received!chan
<1>17. ASSUME NEW w \in Workers, NEW f \in Fd, ReadMessage(w, f)
       PROVE  [Received!Next]_(Received!chan)
  <2>1. /\ taken' = [taken EXCEPT ![f] = taken[f] + 1]
        /\ delivered' = delivered
    BY <1>17 DEF ReadMessage
  <2>2. Received!Accept(f)
    BY <2>1 DEF Received!Accept
  <2> QED
    BY <2>2 DEF Received!Next
<1>18. ASSUME NEW w \in Workers, NEW f \in Fd, ReadEnd(w, f)
       PROVE  [Received!Next]_(Received!chan)
  BY <1>18 DEF ReadEnd, Received!chan
<1>19. ASSUME NEW w \in Workers, EnqueueNew(w)
       PROVE  [Received!Next]_(Received!chan)
  BY <1>19 DEF EnqueueNew, Received!chan
<1>20. ASSUME NEW w \in Workers, EnqueueMore(w)
       PROVE  [Received!Next]_(Received!chan)
  BY <1>20 DEF EnqueueMore, Received!chan
<1>21. ASSUME NEW w \in Workers, Enqueued(w)
       PROVE  [Received!Next]_(Received!chan)
  BY <1>21 DEF Enqueued, Received!chan
<1>22. ASSUME NEW w \in Workers, Dequeue(w)
       PROVE  [Received!Next]_(Received!chan)
  BY <1>22 DEF Dequeue, Received!chan
<1>23. ASSUME NEW w \in Workers, DequeueLast(w)
       PROVE  [Received!Next]_(Received!chan)
  BY <1>23 DEF DequeueLast, Received!chan
<1>24. ASSUME NEW w \in Workers, Callback(w)
       PROVE  [Received!Next]_(Received!chan)
  <2>1. /\ taken' = taken /\ pc[w] = "call"
        /\ \/ event[w] = "MESSAGED" /\ delivered' = [delivered EXCEPT ![fd[w]] = msg[w]]
           \/ event[w] # "MESSAGED" /\ delivered' = delivered
    BY <1>24 DEF Callback
  <2>2. CASE event[w] = "MESSAGED"
    <3>1. routine[w] = "incoming" /\ fd[w] \in Fd
      BY <2>1, <2>2 DEF Inv, Order, AtPoints, Points, Scripting, Ends, Events,
         Subject
    <3>2. threads[<<fd[w], "RECV">>] = w
      BY <2>1, <3>1 DEF Inv, Serves, Server, Left, Use
    <3>3. msg[w] = delivered[fd[w]] + 1 /\ msg[w] <= taken[fd[w]]
      BY <2>1, <3>1, <3>2, DeliveredTaken
    <3>4. delivered[fd[w]] \in Nat /\ taken[fd[w]] \in Nat
      BY <3>1 DEF Inv, TypeOK
    <3>5. delivered[fd[w]] < taken[fd[w]]
      BY <3>3, <3>4
    <3>6. Received!HandOver(fd[w])
      BY <2>1, <2>2, <3>3, <3>5 DEF Received!HandOver
    <3> QED
      BY <3>1, <3>6 DEF Received!Next
  <2>3. CASE event[w] # "MESSAGED"
    BY <2>1, <2>3 DEF Received!chan
  <2> QED
    BY <2>2, <2>3
<1>25. ASSUME NEW w \in Workers, TakeToSend(w)
       PROVE  [Received!Next]_(Received!chan)
  BY <1>25 DEF TakeToSend, Received!chan
<1>26. ASSUME NEW w \in Workers, Shrink(w)
       PROVE  [Received!Next]_(Received!chan)
  BY <1>26 DEF Shrink, Received!chan
<1>27. ASSUME NEW w \in Workers, WriteMessage(w)
       PROVE  [Received!Next]_(Received!chan)
  BY <1>27 DEF WriteMessage, Received!chan
<1>28. ASSUME NEW w \in Workers, StopSending(w)
       PROVE  [Received!Next]_(Received!chan)
  BY <1>28 DEF StopSending, Received!chan
<1>29. ASSUME NEW w \in Workers, ForgetSender(w)
       PROVE  [Received!Next]_(Received!chan)
  BY <1>29 DEF ForgetSender, Received!chan
<1>30. ASSUME NEW w \in Workers, Wrap(w) PROVE [Received!Next]_(Received!chan)
  BY <1>30 DEF Wrap, Received!chan
<1>31. ASSUME NEW w \in Workers, Leave(w) PROVE [Received!Next]_(Received!chan)
  BY <1>31 DEF Leave, Received!chan
<1>32. CASE DelLock
  BY <1>32 DEF DelLock, Received!chan
<1>33. CASE DelCheck
  BY <1>33 DEF DelCheck, Received!chan
<1>34. CASE DelSleep
  BY <1>34 DEF DelSleep, Received!chan
<1>35. CASE DelWake
  BY <1>35 DEF DelWake, Received!chan
<1>36. CASE DelWoken
  BY <1>36 DEF DelWoken, Received!chan
<1>37. ASSUME NEW f \in Fd, Arrive(f) PROVE [Received!Next]_(Received!chan)
  BY <1>37 DEF Arrive, Received!chan
<1>38. ASSUME NEW f \in Fd, Close(f) PROVE [Received!Next]_(Received!chan)
  BY <1>38 DEF Close, Received!chan
<1>39. CASE UNCHANGED vars
  BY <1>39 DEF vars, Received!chan
<1> QED
  BY <1>1, <1>2, <1>3, <1>4, <1>5, <1>6, <1>7, <1>8, <1>9, <1>10, <1>11,
     <1>12, <1>13, <1>14, <1>15, <1>16, <1>17, <1>18, <1>19, <1>20, <1>21,
     <1>22, <1>23, <1>24, <1>25, <1>26, <1>27, <1>28, <1>29, <1>30, <1>31,
     <1>32, <1>33, <1>34, <1>35, <1>36, <1>37, <1>38, <1>39
     DEF Next, Script, Starting, Adding, Reading, Serving, Deleting

-----------------------------------------------------------------------------
(* Every variable has its type, no thread takes from an empty queue (the   *)
(* code does not ask before it dequeues), and no thread is ever told to go *)
(* where its routine has no code: each is at a point of the routine that   *)
(* pthread_create was given, and start_thread returns to one.              *)
THEOREM TypeCorrect == Spec => [](TypeOK /\ AtPoints)
<1>1. Inv => TypeOK /\ AtPoints
  BY DEF Inv
<1> QED
  BY <1>1, InvCorrect, PTL

(* The GIL excludes: at every point between gil_lock and gil_unlock the    *)
(* thread owns the mutex, however many threads there are.                  *)
THEOREM GilHeld == Spec => []OneHolder
<1>1. Inv => OneHolder
  BY DEF Inv
<1> QED
  BY <1>1, InvCorrect, PTL

(* No two workers serve one queue: the table that enqueue consults names   *)
(* each worker that is at work on one.                                     *)
THEOREM OneServerPerQueue == Spec => []OneServer
<1>1. Inv => OneServer
  <2> SUFFICES ASSUME Inv, NEW w \in Workers
               PROVE  /\ Receiving(w) => threads[<<fd[w], "RECV">>] = w
                      /\ Sending(w) => threads[<<fd[w], "SEND">>] = w
    BY DEF OneServer
  <2>0. routine[w] \in Routine /\ pc[w] \in Points(routine[w])
    BY DEF Inv, TypeOK, AtPoints
  <2>1. ASSUME Receiving(w) PROVE threads[<<fd[w], "RECV">>] = w
    <3>1. routine[w] = "incoming" /\ pc[w] \notin Left \cup {"unused", "dead"}
      BY <2>0, <2>1 DEF Receiving, Points, Ends, Scripting, Left
    <3> QED
      BY <3>1 DEF Inv, Serves, Server, Use
  <2>2. ASSUME Sending(w) PROVE threads[<<fd[w], "SEND">>] = w
    <3>1. routine[w] = "send" /\ pc[w] \notin Left \cup {"unused", "dead"}
      BY <2>0, <2>2 DEF Sending, Points, Ends, Scripting, Left, Routine
    <3> QED
      BY <3>1 DEF Inv, Serves, Server, Use
  <2> QED
    BY <2>1, <2>2
<1> QED
  BY <1>1, InvCorrect, PTL

(* Where pthread_create does not fail, a message that was put in a RECV    *)
(* queue is not left there: the worker that incoming runs in checks and    *)
(* leaves under one hold of the GIL, so it never leaves a queue behind.    *)
THEOREM NothingStranded ==
    ASSUME MaxFailures = 0
    PROVE  Spec => []NoStrandedReceipt
<1>1. Init => NoneDead /\ LeftEmpty
  <2>1. Init => \A w \in Workers : pc[w] = "unused"
    BY ConstantFacts DEF Init, Main
  <2> QED
    BY <2>1 DEF NoneDead, LeftEmpty, Left
<1>2. Inv /\ NoneDead /\ LeftEmpty /\ [Next]_vars => NoneDead' /\ LeftEmpty'
  BY AliveStep, EmptyStep DEF Inv
<1>3. Inv /\ NoneDead /\ LeftEmpty => NoStrandedReceipt
  <2> SUFFICES ASSUME Inv, NoneDead, LeftEmpty, NEW w \in 1 .. made,
                      routine[w] = "incoming", len[w] > 0
               PROVE  /\ threads[<<fd[w], "RECV">>] = w
                      /\ pc[w] \notin {"wrap", "leave", "done", "dead"}
    BY DEF NoStrandedReceipt, NoStranded
  <2>1. w \in Workers /\ pc[w] # "unused"
    BY ConstantFacts DEF Inv, TypeOK, Unused, Workers
  <2>2. pc[w] \notin {"wrap", "leave", "done", "dead"}
    BY <2>1 DEF NoneDead, LeftEmpty, Left
  <2>3. threads[<<fd[w], "RECV">>] = w
    BY <2>1, <2>2 DEF Inv, Serves, Server, Left, Use
  <2> QED
    BY <2>2, <2>3
<1> QED
  BY <1>1, <1>2, <1>3, InvCorrect, PTL DEF Spec

(* A client hears of its connection before its first message.              *)
THEOREM HearsFirst == Spec => []ConnectedFirst
<1>1. Inv /\ Order => ConnectedFirst
  <2> SUFFICES ASSUME Inv, Order, NEW f \in Clients, delivered[f] > 0
               PROVE  "CONNECTED" \in heard[f]
    BY DEF ConnectedFirst
  <2>1. f \in Fd
    BY DEF Fd
  <2>2. delivered[f] <= taken[f]
    BY <2>1, DeliveredTaken
  <2>3. delivered[f] \in Nat /\ taken[f] \in Nat
    BY <2>1 DEF Inv, TypeOK
  <2>4. taken[f] > 0
    BY <2>2, <2>3
  <2> QED
    BY <2>4 DEF Order, HeardOf
<1> QED
  BY <1>1, InvCorrect, OrderCorrect, PTL

(* The RECV queues, the threads that serve them and the table implement    *)
(* the channel of Channel: on every descriptor, callbacks are made for the *)
(* messages in the order in which they were read, each of them once.       *)
THEOREM Ordered == Spec => ReceivedInOrder
<1>1. Init => Received!Init
  BY DEF Init, Received!Init
<1>2. ASSUME Inv, Order, Inv', Order', [Next]_vars
      PROVE  [Received!Next]_(Received!chan)
  BY <1>2, ChannelStep
<1> QED
  BY <1>1, <1>2, InvCorrect, OrderCorrect, PTL DEF Spec, ReceivedInOrder,
     Received!SafeSpec

-----------------------------------------------------------------------------
(* num_threads counts the threads, and context_del waits for all of them,  *)
(* where no thread is started without the GIL: socket_event does that when *)
(* a connection ends, and sys_socket_listen2 when it accepts one.          *)

UnderGil == Peers = {} /\ MaxCloses = 0

(* The threads that are counted, and what start_thread and thread_wrapper  *)
(* have loaded under the GIL and not yet stored.                           *)
Going     == {w \in Workers : Counted(w)}
StaysOpen == \A f \in Fd : conn[f] \notin {"closed", "dropped"}
Locked    == \A t \in Threads : pc[t] \notin {"startFree", "unstartFree"}
Loaded    == \A t \in Threads : pc[t] \in {"start", "unstart", "leave"} => reg[t] = num_threads

(* While a failed start_thread has still to count down again, one more.    *)
Failing  == \E t \in Threads : pc[t] = "unstart"
Balanced == num_threads = Cardinality(Going) + IF Failing THEN 1 ELSE 0

(* A thread that does not run yet has one that starts it.                  *)
Awaited  == \A w \in Workers : pc[w] = "made" =>
               \E t \in Threads : pc[t] = "start" /\ child[t] = w

CountInv == StaysOpen /\ Locked /\ Loaded /\ Balanced /\ Awaited /\ WaitsForThreads

-----------------------------------------------------------------------------
(* What a step is to the count of threads.                                 *)

Idle    == {"unused", "made", "dead", "done", "gone"}
Calm    == PC \ (Idle \cup {"start", "unstart", "startFree", "unstartFree", "leave"})
Others(A) == \A u \in Threads \ A :
                /\ pc'[u] = pc[u] \/ (u = Main /\ pc[u] = "wait" /\ pc'[u] = "wake")
                /\ reg'[u] = reg[u] /\ child'[u] = child[u]

Rests == num_threads' = num_threads /\ Others({})

(* A thread goes on, and if that is context_del's, it may return.          *)
Moves(t) == /\ pc[t] \in Calm /\ num_threads' = num_threads /\ Others({t})
            /\ \/ pc'[t] \in Calm
               \/ pc'[t] = "gone" /\ t = Main /\ pc[t] \in Holding /\ num_threads = 0

(* thread_new under the GIL.                                               *)
Bears(t) == \E w \in Workers \ {t} :
               /\ pc[t] \in Calm /\ pc[w] = "unused" /\ num_threads' = num_threads
               /\ pc'[t] = "start" /\ pc'[w] = "made"
               /\ reg'[t] = num_threads /\ child'[t] = w /\ Others({t, w})

(* The new thread runs, or pthread_create has failed.                      *)
Starts(t) == LET w == child[t] IN
             /\ w \in Workers \ {t} /\ pc[t] = "start" /\ pc[w] = "made"
             /\ num_threads' = Incremented(reg[t])
             /\ pc'[t] \in Calm /\ pc'[w] \in Calm /\ Others({t, w})
Fails(t) == LET w == child[t] IN
            /\ w \in Workers \ {t} /\ pc[t] = "start" /\ pc[w] = "made"
            /\ num_threads' = Incremented(reg[t])
            /\ pc'[t] = "unstart" /\ pc'[w] = "dead" /\ reg'[t] = Incremented(reg[t])
            /\ Others({t, w})
Undoes(t) == /\ pc[t] = "unstart" /\ pc'[t] \in Calm /\ Others({t})
             /\ num_threads' \in {Decremented(reg[t]), Decremented(num_threads)}

(* thread_wrapper.                                                         *)
Prepares(t) == /\ pc[t] \in Calm /\ pc'[t] = "leave" /\ Others({t})
             /\ num_threads' = num_threads /\ reg'[t] = num_threads
Departs(t) == /\ pc[t] = "leave" /\ pc'[t] = "done" /\ Others({t})
            /\ num_threads' = Decremented(reg[t])

Kinds == \/ Rests
         \/ \E t \in Threads : Moves(t) \/ Bears(t) \/ Starts(t) \/ Fails(t) \/ Undoes(t)
         \/ \E w \in Workers : Prepares(w) \/ Departs(w)

LEMMA Idleness ==
    /\ Calm \cap Idle = {} /\ "run" \in Calm /\ "wrap" \in Calm /\ "wait" \in Calm /\ "wake" \in Calm
    /\ Calm \cap {"start", "unstart", "startFree", "unstartFree", "leave"} = {}
    /\ \A r : Entry(r) \in Calm
  BY DEF Calm, Idle, PC, Holding, Outside, Entry

LEMMA StepKind ==
    ASSUME UnderGil, Inv, StaysOpen, Locked, [Next]_vars
    PROVE  Kinds /\ StaysOpen'
<1> USE ConstantFacts DEF Inv
<1>0. /\ pc \in [Threads -> PC] /\ reg \in [Threads -> 0 .. CounterMod + QueueSize]
      /\ child \in [Threads -> Workers \cup {None}]
      /\ conn \in [Fd -> {"none", "socket", "open", "closed", "dropped"}]
      /\ routine \in [Workers -> Routine]
  BY DEF TypeOK
<1> USE <1>0
(* A thread that goes from p to l, and changes no more than its reg.       *)
<1>a. ASSUME NEW t \in Threads, pc[t] \in Calm, NEW l \in Calm, Goto(t, l), NEW r, NEW c,
             \/ UNCHANGED reg
             \/ reg' = [reg EXCEPT ![t] = r],
             \/ UNCHANGED child
             \/ child' = [child EXCEPT ![t] = c],
             UNCHANGED <<num_threads, conn>>
      PROVE  Kinds /\ StaysOpen'
  BY <1>a DEF Goto, Kinds, Moves, Others, StaysOpen
<1>b. ASSUME NEW t \in Threads, pc[t] \in Calm, NEW s, NEW f, NEW e, NEW r,
             Newborn(t, "start", r, s, f, e), UNCHANGED num_threads,
             \/ UNCHANGED conn
             \/ \E g \in Fd : conn' = [conn EXCEPT ![g] = "socket"]
      PROVE  Kinds /\ StaysOpen'
  <2>1. Bears(t)
    BY <1>b DEF Newborn, Bears, Others
  <2>2. StaysOpen'
    BY <1>b DEF StaysOpen
  <2> QED
    BY <2>1, <2>2 DEF Kinds
<1> USE DEF starting, queues, sockets, outcome, life, records
<1>1. ASSUME NEW t \in Threads, SwitchOut(t) PROVE Kinds /\ StaysOpen'
  BY <1>1, <1>a, Idleness DEF SwitchOut, Calm, PC, Outside, Idle
<1>2. ASSUME NEW t \in Threads, EndScript(t) PROVE Kinds /\ StaysOpen'
  <2>1. AfterScript(t) \in Calm
    BY DEF AfterScript, Calm, PC, Outside, Idle
  <2> QED
    BY <1>2, <2>1, <1>a, Idleness DEF EndScript
<1>3. ASSUME NEW t \in Threads, Listen(t) PROVE Kinds /\ StaysOpen'
  BY <1>3 DEF Listen, UnderGil
<1>4. ASSUME NEW t \in Threads, NEW f \in Fd, Connect(t, f) PROVE Kinds /\ StaysOpen'
  <2>1. Newborn(t, "start", "run", "connect", f, "MESSAGED")
    BY <1>4, Newborns
  <2>2. pc[t] = "run" /\ UNCHANGED num_threads /\ conn' = [conn EXCEPT ![f] = "socket"]
    BY <1>4 DEF Connect
  <2> QED
    BY <1>b, <2>1, <2>2, Idleness
<1>5. ASSUME NEW t \in Threads, NEW f \in Fd, SendNew(t, f) PROVE Kinds /\ StaysOpen'
  <2>1. Newborn(t, "start", "run", "send", f, "MESSAGED")
    BY <1>5, Newborns
  <2>2. pc[t] = "run" /\ UNCHANGED num_threads /\ UNCHANGED conn
    BY <1>5 DEF SendNew
  <2> QED
    BY <1>b, <2>1, <2>2, Idleness
<1>6. ASSUME NEW t \in Threads, NEW f \in Fd, SendMore(t, f) PROVE Kinds /\ StaysOpen'
  <2>1. /\ pc[t] = "run" /\ Goto(t, "add") /\ UNCHANGED <<num_threads, conn>>
        /\ child' = [child EXCEPT ![t] = threads[<<f, "SEND">>]]
        /\ reg'   = [reg EXCEPT ![t] = len[threads[<<f, "SEND">>]]]
    BY <1>6 DEF SendMore
  <2>2. "add" \in Calm
    BY DEF Calm, PC, Holding, Idle
  <2> QED
    BY <1>a, <2>1, <2>2, Idleness
<1>7. ASSUME NEW t \in Threads, StartThread(t) PROVE Kinds /\ StaysOpen'
  <2>1. /\ pc[t] = "start" /\ num_threads' = Incremented(reg[t])
        /\ pc' = [pc EXCEPT ![t] = ret[t], ![child[t]] = Entry(routine[child[t]])]
        /\ EndStart(t) /\ UNCHANGED conn
    BY <1>7 DEF StartThread, Locked
  <2>2. child[t] \in Workers /\ pc[child[t]] = "made" /\ child[t] # t
    BY <2>1 DEF OneStarter, Begins
  <2>3. ret[t] \in Calm
    <3>1. ret[t] \in {"run", "enqueued"}
      BY <2>1 DEF ReturnsTo
    <3> QED
      BY <3>1 DEF Calm, PC, Holding, Idle
  <2>4. Starts(t)
    BY <2>1, <2>2, <2>3, Idleness DEF Starts, Others, EndStart
  <2> QED
    BY <2>1, <2>4 DEF Kinds, StaysOpen
<1>8. ASSUME NEW t \in Threads, FailToStart(t) PROVE Kinds /\ StaysOpen'
  <2>1. /\ pc[t] = "start" /\ num_threads' = Incremented(reg[t])
        /\ pc' = [pc EXCEPT ![t] = "unstart", ![child[t]] = "dead"]
        /\ reg' = [reg EXCEPT ![t] = Incremented(@)] /\ UNCHANGED child /\ UNCHANGED conn
    BY <1>8 DEF FailToStart, Locked
  <2>2. child[t] \in Workers /\ pc[child[t]] = "made" /\ child[t] # t
    BY <2>1 DEF OneStarter, Begins
  <2>4. Fails(t)
    BY <2>1, <2>2 DEF Fails, Others
  <2> QED
    BY <2>1, <2>4 DEF Kinds, StaysOpen
<1>9. ASSUME NEW t \in Threads, Unstart(t) PROVE Kinds /\ StaysOpen'
  <2>1. /\ pc[t] = "unstart" /\ num_threads' \in {Decremented(reg[t]), Decremented(num_threads)}
        /\ GotoSignalling(t, ret[t]) /\ EndStart(t) /\ UNCHANGED conn
    BY <1>9 DEF Unstart, Locked
  <2>2. ret[t] \in Calm
    <3>1. ret[t] \in {"run", "enqueued"}
      BY <2>1 DEF ReturnsTo
    <3> QED
      BY <3>1 DEF Calm, PC, Holding, Idle
  <2>3. Undoes(t)
    BY <2>1, <2>2 DEF Undoes, Others, EndStart, GotoSignalling
  <2> QED
    BY <2>1, <2>3 DEF Kinds, StaysOpen
<1>10. ASSUME NEW t \in Threads, SwitchIn(t) PROVE Kinds /\ StaysOpen'
  BY <1>10, <1>a, Idleness DEF SwitchIn, Calm, PC, Outside, Idle
<1>11. ASSUME NEW t \in Threads, Adding(t) PROVE Kinds /\ StaysOpen'
  <2>1. "add" \in Calm /\ "addCell" \in Calm
    BY DEF Calm, PC, Holding, Idle
  <2>2. CASE AddMore(t)
    BY <1>a, <2>1, <2>2, Idleness DEF AddMore, EndStart
  <2>3. CASE AddLength(t)
    BY <1>a, <2>1, <2>3 DEF AddLength
  <2>4. CASE AddCell(t)
    BY <1>a, <2>1, <2>4, Idleness DEF AddCell, EndStart
  <2> QED
    BY <1>11, <2>2, <2>3, <2>4 DEF Adding
<1>12. {"connect", "call", "read", "enqueue", "enqueued", "dequeue", "take", "shrink",
        "write", "forget", "wrap", "del", "delCheck", "delSleep", "wait", "wake", "delWoken"} \subseteq Calm
  BY DEF Calm, PC, Holding, Outside, Idle
<1>13. ASSUME NEW w \in Workers, Reading(w) PROVE Kinds /\ StaysOpen'
  <2>1. CASE ConnectFails(w)
    BY <1>a, <1>12, <2>1 DEF ConnectFails
  <2>2. CASE ConnectSucceeds(w)
    <3>1. /\ pc[w] = "connect" /\ Goto(w, "call") /\ conn' = [conn EXCEPT ![fd[w]] = "open"]
          /\ UNCHANGED <<num_threads, reg, child>>
      BY <2>2 DEF ConnectSucceeds
    <3> QED
      BY <1>12, <3>1 DEF Goto, Kinds, Moves, Others, StaysOpen
  <2>3. ASSUME NEW f \in Fd, AcceptPeer(w, f) PROVE FALSE
    BY <2>3 DEF AcceptPeer, UnderGil
  <2>4. ASSUME NEW f \in Fd, ReadMessage(w, f) PROVE Kinds /\ StaysOpen'
    BY <1>a, <1>12, <2>4 DEF ReadMessage
  <2>5. ASSUME NEW f \in Fd, ReadEnd(w, f) PROVE FALSE
    BY <2>5 DEF ReadEnd, StaysOpen
  <2> QED
    BY <1>13, <2>1, <2>2, <2>3, <2>4, <2>5 DEF Reading
<1>14. ASSUME NEW w \in Workers, Serving(w) PROVE Kinds /\ StaysOpen'
  <2>1. CASE EnqueueNew(w)
    <3>1. Newborn(w, "start", "enqueued", "incoming", fd[w], "MESSAGED")
      BY <2>1, Newborns
    <3>2. pc[w] = "enqueue" /\ UNCHANGED num_threads /\ UNCHANGED conn
      BY <2>1 DEF EnqueueNew
    <3> QED
      BY <1>b, <1>12, <3>1, <3>2
  <2>2. CASE EnqueueMore(w)
    BY <1>a, <1>12, <2>2 DEF EnqueueMore
  <2>3. CASE Enqueued(w)
    BY <1>a, <1>12, <2>3 DEF Enqueued
  <2>4. CASE Dequeue(w)
    BY <1>a, <1>12, <2>4 DEF Dequeue
  <2>5. CASE DequeueLast(w)
    BY <1>a, <1>12, <2>5 DEF DequeueLast
  <2>6. CASE Callback(w)
    BY <1>a, <1>12, <2>6, Idleness DEF Callback
  <2>7. CASE TakeToSend(w)
    BY <1>a, <1>12, <2>7 DEF TakeToSend
  <2>8. CASE Shrink(w)
    <3>1. /\ pc[w] = "shrink" /\ reg' = [reg EXCEPT ![w] = 0] /\ UNCHANGED <<num_threads, child, conn>>
          /\ Goto(w, IF msg[w] = 0 THEN "forget" ELSE "write")
      BY <2>8 DEF Shrink
    <3> QED
      BY <1>a, <1>12, <3>1
  <2>9. CASE WriteMessage(w)
    BY <1>a, <1>12, <2>9 DEF WriteMessage
  <2>10. CASE StopSending(w)
    BY <1>a, <1>12, <2>10 DEF StopSending
  <2>11. CASE ForgetSender(w)
    BY <1>a, <1>12, <2>11 DEF ForgetSender
  <2>12. CASE Wrap(w)
    <3>1. Prepares(w)
      BY <1>12, <2>12 DEF Wrap, Prepares, Others, Goto
    <3> QED
      BY <2>12, <3>1 DEF Kinds, Wrap, StaysOpen
  <2>13. CASE Leave(w)
    <3>1. Departs(w)
      BY <2>13 DEF Leave, Departs, Others, GotoSignalling
    <3> QED
      BY <2>13, <3>1 DEF Kinds, Leave, StaysOpen
  <2> QED
    BY <1>14, <2>1, <2>2, <2>3, <2>4, <2>5, <2>6, <2>7, <2>8, <2>9, <2>10, <2>11, <2>12, <2>13 DEF Serving
<1>15. CASE Deleting
  <2>1. CASE DelLock
    BY <1>a, <1>12, <2>1 DEF DelLock
  <2>2. CASE DelCheck
    <3>1. CASE num_threads > 0
      BY <1>a, <1>12, <2>2, <3>1 DEF DelCheck
    <3>2. CASE ~(num_threads > 0)
      <4>1. num_threads = 0 /\ pc[Main] \in Holding
        BY <2>2, <3>2 DEF TypeOK, DelCheck, Holding
      <4>2. Moves(Main)
        BY <1>12, <2>2, <3>2, <4>1 DEF DelCheck, Moves, Others, Goto
      <4> QED
        BY <2>2, <4>2 DEF Kinds, DelCheck, StaysOpen
    <3> QED
      BY <3>1, <3>2
  <2>3. CASE DelSleep
    BY <1>a, <1>12, <2>3 DEF DelSleep
  <2>4. CASE DelWake
    BY <1>a, <1>12, <2>4 DEF DelWake
  <2>5. CASE DelWoken
    <3>1. CASE num_threads = 0
      <4>1. Moves(Main)
        BY <1>12, <2>5, <3>1 DEF DelWoken, Moves, Others, Goto, Holding
      <4> QED
        BY <2>5, <4>1 DEF Kinds, DelWoken, StaysOpen
    <3>2. CASE ~(num_threads = 0)
      BY <1>a, <1>12, <2>5, <3>2 DEF DelWoken
    <3> QED
      BY <3>1, <3>2
  <2> QED
    BY <1>15, <2>1, <2>2, <2>3, <2>4, <2>5 DEF Deleting
<1>16. ASSUME NEW f \in Fd, Arrive(f) PROVE Kinds /\ StaysOpen'
  BY <1>16 DEF Arrive, Kinds, Rests, Others, StaysOpen
<1>17. ASSUME NEW f \in Fd, Close(f) PROVE FALSE
  <2>1. {g \in Fd : conn[g] \in {"closed", "dropped"}} = {}
    BY DEF StaysOpen
  <2>2. Cardinality({}) = 0
    BY FS_EmptySet
  <2> QED
    BY <1>17, <2>1, <2>2 DEF Close, UnderGil
<1>18. CASE UNCHANGED vars
  BY <1>18 DEF vars, Kinds, Rests, Others, StaysOpen
<1> QED
  BY <1>1, <1>2, <1>3, <1>4, <1>5, <1>6, <1>7, <1>8, <1>9, <1>10, <1>11, <1>13, <1>14, <1>15, <1>16,
     <1>17, <1>18 DEF Next, Script, Starting

-----------------------------------------------------------------------------
(* A count that is within the width goes up and down by one.               *)
LEMMA ByOne ==
    /\ \A n \in Nat : n + 1 < CounterMod => Incremented(n) = n + 1
    /\ \A n \in Nat : n > 0 /\ n < CounterMod => Decremented(n) = n - 1
<1>1. ASSUME NEW n \in Nat, n + 1 < CounterMod PROVE Incremented(n) = n + 1
  BY <1>1, ConstantFacts DEF Incremented
<1>2. ASSUME NEW n \in Nat, n > 0, n < CounterMod PROVE Decremented(n) = n - 1
  BY <1>2, ConstantFacts DEF Decremented
<1> QED
  BY <1>1, <1>2

LEMMA GoingIs ==
    /\ IsFiniteSet(Going) /\ Cardinality(Going) \in 0 .. MaxThreads
    /\ \A w \in Workers \ Going : /\ Cardinality(Going \cup {w}) = Cardinality(Going) + 1
                                  /\ Cardinality(Going) + 1 <= MaxThreads
    /\ \A w \in Going : /\ Cardinality(Going \ {w}) = Cardinality(Going) - 1
                        /\ Cardinality(Going) > 0
<1> USE ConstantFacts
<1>1. IsFiniteSet(Workers) /\ Cardinality(Workers) = MaxThreads
  BY FS_Interval DEF Workers
<1>2. ASSUME NEW S \in SUBSET Workers
      PROVE  IsFiniteSet(S) /\ Cardinality(S) \in Nat /\ Cardinality(S) <= MaxThreads
  BY <1>1, FS_Subset, FS_CardinalityType
<1>3. IsFiniteSet(Going) /\ Cardinality(Going) \in 0 .. MaxThreads
  BY <1>2 DEF Going
<1>4. ASSUME NEW w \in Workers \ Going
      PROVE  /\ Cardinality(Going \cup {w}) = Cardinality(Going) + 1
             /\ Cardinality(Going) + 1 <= MaxThreads
  <2>1. Going \cup {w} \in SUBSET Workers
    BY DEF Going
  <2>2. Cardinality(Going \cup {w}) = Cardinality(Going) + 1
    BY <1>3, FS_AddElement
  <2> QED
    BY <1>2, <2>1, <2>2
<1>5. ASSUME NEW w \in Going
      PROVE  Cardinality(Going \ {w}) = Cardinality(Going) - 1 /\ Cardinality(Going) > 0
  <2>1. Cardinality(Going \ {w}) = Cardinality(Going) - 1
    BY <1>3, FS_RemoveElement
  <2>2. Cardinality(Going \ {w}) \in Nat
    BY <1>2 DEF Going
  <2> QED
    BY <1>3, <2>1, <2>2
<1> QED
  BY <1>3, <1>4, <1>5

(* Who is counted after a step.                                            *)
LEMMA Same ==
    ASSUME \A w \in Workers : pc'[w] \in {"unused", "dead", "done", "made"}
                          <=> pc[w] \in {"unused", "dead", "done", "made"}
    PROVE  Going' = Going
  BY DEF Going, Counted, Alive

LEMMA BalancedStep ==
    ASSUME Inv, Inv', Loaded, Balanced, Kinds
    PROVE  Balanced'
<1> USE ConstantFacts
<1>0. /\ \A t, u \in Threads : pc[t] \in Holding /\ pc[u] \in Holding => t = u
      /\ \A t, u \in Threads : pc'[t] \in Holding /\ pc'[u] \in Holding => t = u
  BY DEF Inv, OneHolder
<1>a. "unstart" \in Holding /\ "start" \in Holding /\ "leave" \in Holding
  BY DEF Holding
<1>b. /\ \A l \in Calm : l \notin {"unused", "dead", "done", "made", "unstart", "start", "leave"}
  BY DEF Calm, Idle
<1>c. num_threads \in Nat /\ num_threads < CounterMod /\ Cardinality(Going) \in Nat
  BY GoingIs DEF Inv, TypeOK
<1>1. CASE Rests
  <2>1. Going' = Going
    BY <1>1, Same DEF Rests, Others
  <2>2. Failing' <=> Failing
    BY <1>1 DEF Failing, Rests, Others
  <2> QED
    BY <1>1, <2>1, <2>2 DEF Balanced, Rests
<1>2. ASSUME NEW t \in Threads, Moves(t) PROVE Balanced'
  <2>1. Going' = Going
    BY <1>2, <1>b, Same DEF Moves, Others
  <2>2. Failing' <=> Failing
    BY <1>2, <1>b DEF Failing, Moves, Others
  <2> QED
    BY <1>2, <2>1, <2>2 DEF Balanced, Moves
<1>3. ASSUME NEW t \in Threads, Bears(t) PROVE Balanced'
  <2>1. PICK w \in Workers \ {t} :
           /\ pc[t] \in Calm /\ pc[w] = "unused" /\ num_threads' = num_threads
           /\ pc'[t] = "start" /\ pc'[w] = "made" /\ Others({t, w})
    BY <1>3 DEF Bears
  <2>2. Going' = Going
    BY <1>b, <2>1, Same DEF Others
  <2>3. Failing' <=> Failing
    BY <1>b, <2>1 DEF Failing, Others
  <2> QED
    BY <2>1, <2>2, <2>3 DEF Balanced
<1>4. ASSUME NEW t \in Threads, Starts(t) PROVE Balanced'
  <2>1. PICK w \in Workers \ {t} :
           /\ pc[t] = "start" /\ pc[w] = "made" /\ num_threads' = Incremented(reg[t])
           /\ pc'[t] \in Calm /\ pc'[w] \in Calm /\ Others({t, w})
    BY <1>4 DEF Starts
  <2>2. ~Failing /\ ~Failing'
    <3>1. ~Failing
      BY <1>0, <1>a, <2>1 DEF Failing
    <3> QED
      BY <1>b, <2>1, <3>1 DEF Failing, Others
  <2>3. w \in Workers \ Going /\ Going' = Going \cup {w}
    <3>1. w \notin Going
      BY <2>1 DEF Going, Counted
    <3>2. \A x \in Workers \ {w} : Counted(x)' <=> Counted(x)
      BY <1>b, <2>1 DEF Counted, Alive, Others
    <3>3. Counted(w)'
      BY <1>b, <2>1 DEF Counted, Alive
    <3> QED
      BY <2>1, <3>1, <3>2, <3>3 DEF Going
  <2>4. Cardinality(Going') = Cardinality(Going) + 1 /\ Cardinality(Going) + 1 < CounterMod
    BY <1>c, <2>3, GoingIs
  <2>5. reg[t] = Cardinality(Going)
    BY <1>c, <2>1, <2>2 DEF Loaded, Balanced
  <2>6. num_threads' = Cardinality(Going) + 1
    BY <1>c, <2>1, <2>4, <2>5, ByOne
  <2>7. Balanced' <=> num_threads' = Cardinality(Going') + 0
    BY <2>2 DEF Balanced
  <2> QED
    BY <1>c, <2>4, <2>6, <2>7
<1>5. ASSUME NEW t \in Threads, Fails(t) PROVE Balanced'
  <2>1. PICK w \in Workers \ {t} :
           /\ pc[t] = "start" /\ pc[w] = "made" /\ num_threads' = Incremented(reg[t])
           /\ pc'[t] = "unstart" /\ pc'[w] = "dead" /\ Others({t, w})
    BY <1>5 DEF Fails
  <2>2. ~Failing /\ Failing'
    BY <1>0, <1>a, <2>1 DEF Failing
  <2>3. w \in Workers \ Going /\ Going' = Going
    BY <2>1, Same DEF Others, Going, Counted
  <2>4. Cardinality(Going) + 1 < CounterMod
    <3>1. Cardinality(Going) + 1 <= MaxThreads
      BY <2>3, GoingIs
    <3> QED
      BY <1>c, <3>1
  <2>5. reg[t] = Cardinality(Going)
    BY <1>c, <2>1, <2>2 DEF Loaded, Balanced
  <2>6. num_threads' = Cardinality(Going) + 1
    BY <1>c, <2>1, <2>4, <2>5, ByOne
  <2> QED
    BY <2>2, <2>3, <2>6 DEF Balanced
<1>6. ASSUME NEW t \in Threads, Undoes(t) PROVE Balanced'
  <2>1. /\ pc[t] = "unstart" /\ pc'[t] \in Calm /\ Others({t})
        /\ num_threads' \in {Decremented(reg[t]), Decremented(num_threads)}
    BY <1>6 DEF Undoes
  <2>2. Failing /\ ~Failing'
    <3>1. Failing
      BY <2>1 DEF Failing
    <3>2. \A u \in Threads \ {t} : pc[u] # "unstart"
      BY <1>0, <1>a, <2>1
    <3> QED
      BY <1>b, <2>1, <3>1, <3>2 DEF Failing, Others
  <2>3. Going' = Going
    BY <1>b, <2>1, Same DEF Others
  <2>4. num_threads = Cardinality(Going) + 1 /\ reg[t] = num_threads
    BY <2>1, <2>2 DEF Balanced, Loaded
  <2>5. num_threads' = num_threads - 1
    BY <1>c, <2>1, <2>4, ByOne
  <2>6. Balanced' <=> num_threads' = Cardinality(Going') + 0
    BY <2>2 DEF Balanced
  <2> QED
    BY <1>c, <2>3, <2>4, <2>5, <2>6
<1>7. ASSUME NEW t \in Workers, Prepares(t) PROVE Balanced'
  <2>1. Going' = Going
    BY <1>7, <1>b, Same DEF Prepares, Others
  <2>2. Failing' <=> Failing
    BY <1>7, <1>b DEF Failing, Prepares, Others
  <2> QED
    BY <1>7, <2>1, <2>2 DEF Balanced, Prepares
<1>8. ASSUME NEW w \in Workers, Departs(w) PROVE Balanced'
  <2>1. /\ pc[w] = "leave" /\ pc'[w] = "done" /\ Others({w}) /\ num_threads' = Decremented(reg[w])
        /\ w \in Threads
    BY <1>8 DEF Departs
  <2>2. ~Failing /\ ~Failing'
    <3>1. \A u \in Threads : pc[u] # "unstart"
      BY <1>0, <1>a, <2>1
    <3> QED
      BY <2>1, <3>1 DEF Failing, Others
  <2>3. w \in Going /\ Going' = Going \ {w}
    <3>1. w \in Going
      BY <2>1 DEF Going, Counted, Alive
    <3>2. \A x \in Workers \ {w} : Counted(x)' <=> Counted(x)
      BY <2>1 DEF Counted, Alive, Others
    <3>3. ~Counted(w)'
      BY <2>1 DEF Counted, Alive
    <3> QED
      BY <3>1, <3>2, <3>3 DEF Going
  <2>4. Cardinality(Going') = Cardinality(Going) - 1 /\ Cardinality(Going) > 0
    BY <2>3, GoingIs
  <2>5. num_threads = Cardinality(Going) /\ reg[w] = num_threads
    BY <1>c, <2>1, <2>2 DEF Loaded, Balanced
  <2>6. num_threads' = num_threads - 1
    BY <1>c, <2>1, <2>4, <2>5, ByOne
  <2>7. Balanced' <=> num_threads' = Cardinality(Going') + 0
    BY <2>2 DEF Balanced
  <2> QED
    BY <1>c, <2>4, <2>5, <2>6, <2>7
<1> QED
  BY <1>1, <1>2, <1>3, <1>4, <1>5, <1>6, <1>7, <1>8 DEF Kinds

(* What one thread has loaded, nobody else changes: it holds the GIL.      *)
LEMMA LoadedStep ==
    ASSUME Inv, Inv', Locked, Loaded, Awaited, Kinds
    PROVE  Loaded' /\ Locked' /\ Awaited'
<1> USE ConstantFacts
<1>0. /\ \A t, u \in Threads : pc[t] \in Holding /\ pc[u] \in Holding => t = u
      /\ \A t, u \in Threads : pc'[t] \in Holding /\ pc'[u] \in Holding => t = u
  BY DEF Inv, OneHolder
<1>a. "unstart" \in Holding /\ "start" \in Holding /\ "leave" \in Holding
  BY DEF Holding
<1>b. \A l \in Calm \cup {"gone"} :
         l \notin {"unused", "dead", "done", "made", "unstart", "start", "startFree", "unstartFree", "leave"}
  BY DEF Calm, Idle
<1>c. \A t \in Threads : pc[t] = "start" =>
         \A u \in Threads \ {t} : pc[u] = "start" => child[u] # child[t]
  BY DEF Inv, OneStarter, Begins
<1>1. CASE Rests
  <2>1. Loaded' /\ Locked'
    BY <1>1, <1>b DEF Rests, Others, Loaded, Locked
  <2>2. Awaited'
    BY <1>1, <1>b DEF Rests, Others, Awaited
  <2> QED
    BY <2>1, <2>2
<1>2. ASSUME NEW t \in Threads, Moves(t) PROVE Loaded' /\ Locked' /\ Awaited'
  <2>1. /\ num_threads' = num_threads /\ pc[t] \in Calm /\ pc'[t] \in Calm \cup {"gone"} /\ Others({t})
    BY <1>2 DEF Moves
  <2>2. Loaded' /\ Locked'
    BY <1>b, <2>1 DEF Others, Loaded, Locked
  <2>3. Awaited'
    BY <1>b, <2>1 DEF Others, Awaited
  <2> QED
    BY <2>2, <2>3
<1>3. ASSUME NEW t \in Threads, Bears(t) PROVE Loaded' /\ Locked' /\ Awaited'
  <2>1. PICK w \in Workers \ {t} :
           /\ pc[t] \in Calm /\ pc[w] = "unused" /\ num_threads' = num_threads
           /\ pc'[t] = "start" /\ pc'[w] = "made"
           /\ reg'[t] = num_threads /\ child'[t] = w /\ Others({t, w})
    BY <1>3 DEF Bears
  <2>2. Loaded' /\ Locked'
    BY <1>b, <2>1 DEF Others, Loaded, Locked
  <2>3. Awaited'
    <3> SUFFICES ASSUME NEW x \in Workers, pc'[x] = "made"
                 PROVE  \E u \in Threads : pc'[u] = "start" /\ child'[u] = x
      BY DEF Awaited
    <3>1. CASE x = w
      BY <2>1, <3>1
    <3>2. CASE x # w
      <4>1. x # t /\ pc[x] = "made"
        BY <2>1, <3>2 DEF Others
      <4>2. PICK u \in Threads : pc[u] = "start" /\ child[u] = x
        BY <4>1 DEF Awaited
      <4>3. u \notin {t, w}
        BY <1>b, <2>1, <4>2
      <4> QED
        BY <2>1, <4>2, <4>3 DEF Others
    <3> QED
      BY <3>1, <3>2
  <2> QED
    BY <2>2, <2>3
(* A thread that was being started is no longer.                           *)
<1>d. ASSUME NEW t \in Threads, child[t] \in Workers \ {t}, pc[t] = "start", pc[child[t]] = "made",
             pc'[t] \in Calm \cup {"unstart"}, pc'[child[t]] \in Calm \cup {"dead"}, Others({t, child[t]}),
             pc'[t] = "unstart" => reg'[t] = num_threads'
      PROVE  Loaded' /\ Locked' /\ Awaited'
  <2> DEFINE w == child[t]
  <2>1. \A u \in Threads \ {t} : pc[u] \notin Holding
    BY <1>0, <1>a, <1>d
  <2>2. Loaded'
    <3> SUFFICES ASSUME NEW u \in Threads, pc'[u] \in {"start", "unstart", "leave"}
                 PROVE  reg'[u] = num_threads'
      BY DEF Loaded
    <3>1. u = t
      BY <1>a, <1>b, <1>d, <2>1 DEF Others
    <3> QED
      BY <1>b, <1>d, <3>1
  <2>3. Locked'
    BY <1>b, <1>d DEF Locked, Others
  <2>4. Awaited'
    <3> SUFFICES ASSUME NEW x \in Workers, pc'[x] = "made"
                 PROVE  \E u \in Threads : pc'[u] = "start" /\ child'[u] = x
      BY DEF Awaited
    <3>1. x # w /\ x # t
      BY <1>b, <1>d
    <3>2. pc[x] = "made"
      BY <1>d, <3>1 DEF Others
    <3>3. PICK u \in Threads : pc[u] = "start" /\ child[u] = x
      BY <3>2 DEF Awaited
    <3>4. u = t
      BY <1>a, <2>1, <3>3
    <3> QED
      BY <3>1, <3>3, <3>4
  <2> QED
    BY <2>2, <2>3, <2>4
<1>4. ASSUME NEW t \in Threads, Starts(t) PROVE Loaded' /\ Locked' /\ Awaited'
  BY <1>4, <1>b, <1>d DEF Starts
<1>5. ASSUME NEW t \in Threads, Fails(t) PROVE Loaded' /\ Locked' /\ Awaited'
  BY <1>5, <1>d DEF Fails
(* A thread that counts down has the GIL, and nobody is being started.     *)
<1>e. ASSUME NEW t \in Threads, pc[t] \in {"unstart", "leave"}, pc'[t] \in Calm \cup {"done"}, Others({t})
      PROVE  Loaded' /\ Locked' /\ Awaited'
  <2>1. \A u \in Threads \ {t} : pc[u] \notin Holding
    BY <1>0, <1>a, <1>e
  <2>2. \A u \in Threads : pc'[u] \notin {"start", "unstart", "leave"}
    BY <1>a, <1>b, <1>e, <2>1 DEF Others
  <2>3. Loaded' /\ Locked'
    BY <1>b, <1>e, <2>2 DEF Loaded, Locked, Others
  <2>4. \A x \in Workers : pc[x] # "made"
    BY <1>a, <1>e, <2>1 DEF Awaited
  <2>5. Awaited'
    BY <1>b, <1>e, <2>4 DEF Awaited, Others
  <2> QED
    BY <2>3, <2>5
<1>6. ASSUME NEW t \in Threads, Undoes(t) PROVE Loaded' /\ Locked' /\ Awaited'
  BY <1>6, <1>e DEF Undoes
<1>7. ASSUME NEW w \in Workers, Prepares(w) PROVE Loaded' /\ Locked' /\ Awaited'
  <2>1. Loaded' /\ Locked'
    BY <1>7, <1>b DEF Prepares, Others, Loaded, Locked
  <2>2. Awaited'
    BY <1>7, <1>b DEF Prepares, Others, Awaited
  <2> QED
    BY <2>1, <2>2
<1>8. ASSUME NEW w \in Workers, Departs(w) PROVE Loaded' /\ Locked' /\ Awaited'
  BY <1>8, <1>e DEF Departs
<1> QED
  BY <1>1, <1>2, <1>3, <1>4, <1>5, <1>6, <1>7, <1>8 DEF Kinds

(* context_del returns only when nobody is left who could go on, and       *)
(* nobody is.                                                              *)
LEMMA WaitsStep ==
    ASSUME Inv, Balanced, Awaited, WaitsForThreads, Kinds
    PROVE  WaitsForThreads'
<1> USE ConstantFacts
<1>0. \A t, u \in Threads : pc[t] \in Holding /\ pc[u] \in Holding => t = u
  BY DEF Inv, OneHolder
<1>a. "unstart" \in Holding /\ "start" \in Holding /\ "gone" \notin Calm
  BY DEF Holding, Calm, Idle
<1>b. \A w \in Workers : ~Alive(w) => pc[w] \in {"unused", "dead", "done"}
  BY DEF Alive
<1>c. \A l \in Calm : l \notin {"unused", "dead", "done", "gone"}
  BY DEF Calm, Idle
<1> SUFFICES ASSUME pc'[Main] = "gone" PROVE \A w \in Workers : ~Alive(w)'
  BY DEF WaitsForThreads
<1>1. CASE pc[Main] = "gone"
  <2>1. \A t \in Threads : pc[t] \in {"unused", "dead", "done", "gone"}
    BY <1>1, <1>b DEF WaitsForThreads
  <2>2. Rests
    BY <2>1, <1>c, Zenon DEF Kinds, Moves, Bears, Starts, Fails, Undoes, Prepares, Departs
  <2>3. \A w \in Workers : pc'[w] = pc[w]
    BY <2>2 DEF Rests, Others
  <2> QED
    BY <1>1, <2>3 DEF WaitsForThreads, Alive
<1>2. CASE pc[Main] # "gone"
  <2>1. Moves(Main) /\ num_threads = 0 /\ pc[Main] \in Holding
    <3>1. ~Rests
      BY <1>2 DEF Rests, Others
    <3>2. PICK t \in Threads : Moves(t) \/ Bears(t) \/ Starts(t) \/ Fails(t) \/ Undoes(t) \/ Prepares(t) \/ Departs(t)
      BY <3>1 DEF Kinds
    <3>3. t = Main
      <4>1. SUFFICES ASSUME t # Main PROVE FALSE
        OBVIOUS
      <4>2. \A A : Main \notin A /\ Others(A) => pc'[Main] # "gone"
        BY <1>2 DEF Others
      <4>3. CASE Bears(t)
        BY <1>2, <4>1, <4>3 DEF Bears, Others
      <4> QED
        BY <3>2, <4>1, <4>2, <4>3 DEF Moves, Starts, Fails, Undoes, Prepares, Departs
    <3> QED
      BY <1>c, <3>2, <3>3 DEF Moves, Bears, Starts, Fails, Undoes, Prepares, Departs
  <2>2. \A u \in Workers : pc[u] \notin Holding /\ pc'[u] = pc[u]
    BY <1>0, <2>1 DEF Moves, Others
  <2>3. ~Failing
    <3>1. pc[Main] # "unstart"
      BY <2>1 DEF Moves, Calm
    <3> QED
      BY <1>a, <2>2, <3>1 DEF Failing
  <2>4. Cardinality(Going) = 0
    BY <2>1, <2>3, GoingIs DEF Balanced
  <2>5. Going = {}
    BY <2>4, GoingIs, FS_EmptySet
  <2>6. \A w \in Workers : pc[w] # "made"
    <3>1. pc[Main] # "start"
      BY <2>1 DEF Moves, Calm
    <3> QED
      BY <1>a, <2>2, <3>1 DEF Awaited
  <2> QED
    BY <2>2, <2>5, <2>6 DEF Going, Counted, Alive
<1> QED
  BY <1>1, <1>2

LEMMA CountInit == Init => CountInv
<1> SUFFICES ASSUME Init PROVE CountInv
  OBVIOUS
<1> USE ConstantFacts
<1>1. \A w \in Workers : pc[w] = "unused"
  BY DEF Init
<1>2. pc[Main] = "run" /\ num_threads = 0
  BY DEF Init
<1>3. Going = {} /\ Cardinality({}) = 0
  BY <1>1, FS_EmptySet DEF Going, Counted, Alive
<1>4. \A t \in Threads : pc[t] \in {"unused", "run"}
  BY <1>1, <1>2
<1>5. Balanced /\ Loaded /\ Locked /\ Awaited /\ WaitsForThreads
  BY <1>1, <1>2, <1>3, <1>4 DEF Balanced, Failing, Loaded, Locked, Awaited, WaitsForThreads
<1>6. StaysOpen
  BY DEF Init, StaysOpen
<1> QED
  BY <1>5, <1>6 DEF CountInv

LEMMA CountCorrect ==
    ASSUME UnderGil
    PROVE  Spec => [](Inv /\ CountInv)
<1>1. Inv /\ Inv' /\ CountInv /\ [Next]_vars => CountInv'
  BY StepKind, BalancedStep, LoadedStep, WaitsStep DEF CountInv
<1> QED
  BY <1>1, InvCorrect, CountInit, PTL DEF Spec

(* vm.h:17: num_threads is the "number of active threads" whenever nobody  *)
(* is between the load and the store of a change to it, however many       *)
(* threads start, end or fail to start.                                    *)
THEOREM CountsThreads ==
    ASSUME UnderGil
    PROVE  Spec => []ActiveThreads
<1>1. CountInv => ActiveThreads
  <2> SUFFICES ASSUME CountInv,
                      \A t \in Threads : pc[t] \notin {"start", "startFree", "unstart", "unstartFree", "leave"}
               PROVE  num_threads = Cardinality({w \in Workers : Counted(w)})
    BY DEF ActiveThreads
  <2>1. ~Failing
    BY DEF Failing
  <2>2. num_threads = Cardinality(Going) + 0 /\ Cardinality(Going) \in Nat
    BY <2>1, ConstantFacts, GoingIs DEF CountInv, Balanced
  <2> QED
    BY <2>2 DEF Going
<1> QED
  BY <1>1, CountCorrect, PTL

(* vm.c:171: context_del waits "for spawned threads".  execute returns,    *)
(* and deletes all variables, only when no thread is left that could use   *)
(* them.                                                                   *)
THEOREM Waits ==
    ASSUME UnderGil
    PROVE  Spec => []WaitsForThreads
<1>1. CountInv => WaitsForThreads
  BY DEF CountInv
<1> QED
  BY <1>1, CountCorrect, PTL
=============================================================================
