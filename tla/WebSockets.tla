----------------------------- MODULE WebSockets -----------------------------
(***************************************************************************)
(* The web sockets of src/software/src/web_sockets.cpp: two threads share  *)
(* a list of watched clients and a queue of messages.  The main loop       *)
(* produces messages, watches the clients and starts the worker; the HTTP  *)
(* server's thread accepts clients and runs the worker, which sends.       *)
(*                                                                         *)
(* A critical section is one step.  The two that take a second mutex       *)
(* inside (checkActiveClients, updateDebugState) hold the first one over   *)
(* several steps.  The age of the last pong is not kept: any client may    *)
(* be taken for dead at any check.                                         *)
(***************************************************************************)
EXTENDS Naturals, Sequences, FiniteSets

CONSTANTS
  Fds,         \* socket descriptors, reused by the network stack
  Buffers,     \* payload buffers malloc can return
  MaxClients,  \* MAX_WEB_SOCKET_CLIENTS
  MaxQueue,    \* MAX_WEB_SOCKET_WORK_ITEMS_IN_QUEUE
  MaxPending,  \* bound: control packets on their way to the HTTP thread
  NoFd, NoBuffer  \* no descriptor, no buffer

ASSUME QueueAssumption ==
  /\ IsFiniteSet(Fds)
  /\ MaxClients \in Nat \ {0}
  /\ MaxQueue \in Nat \ {0}
  /\ MaxPending \in Nat
  /\ NoFd \notin Fds /\ NoBuffer \notin Buffers

VARIABLES
  session,       \* what httpd_ws_get_fd_info says of a descriptor
  keepAlive,     \* the descriptors in keep_alive_fds
  queue,         \* work_queue
  allocated,     \* buffers that are not free
  workerActive,  \* worker_active
  overdue,       \* last_worker_run is more than 20 s ago
  pending,       \* runs of work() the HTTP thread has still to begin
  keepAliveLock, queueLock,  \* holders of the mutexes, between steps
  main, http     \* program counter and locals of the two threads

vars == <<session, keepAlive, queue, allocated, workerActive, overdue, pending,
          keepAliveLock, queueLock, main, http>>
socketVars == <<session, keepAlive>>
queueVars == <<queue, allocated>>
workerVars == <<workerActive, overdue, pending>>
lockVars == <<keepAliveLock, queueLock>>

None == "none"
Idle == [pc |-> "idle", fd |-> NoFd, fds |-> {}, buf |-> NoBuffer]

\* A thread at a step, with its other locals kept or given up.
At(thread, pc) == [thread EXCEPT !.pc = pc]

Init ==
  /\ session = [f \in Fds |-> "invalid"]
  /\ keepAlive = {} /\ queue = <<>> /\ allocated = {}
  /\ workerActive = FALSE /\ overdue = FALSE /\ pending = 0
  /\ keepAliveLock = None /\ queueLock = None
  /\ main = Idle /\ http = Idle

MayLockKeepAlive(t) == keepAliveLock \in {None, t}
MayLockQueue(t) == queueLock \in {None, t}

---------------------------------------------------------------------------
(* The queue.                                                              *)

BuffersOf(q) == {q[i].buf : i \in DOMAIN q} \ {NoBuffer}

\* cleanUpQueue: the items in front that no client waits for any more.
Addressed(q) == {i \in DOMAIN q : q[i].fds # {}}
CleanedUp(q) ==
  IF Addressed(q) = {} THEN <<>>
  ELSE LET first == CHOOSE i \in Addressed(q) : \A j \in Addressed(q) : i <= j
       IN  SubSeq(q, first, Len(q))

\* queueFull cleans up only a full queue.
\* Variant: one item more than the queue may have.
FullOneLater(q) == Len(q) > MaxQueue
Full(q) == Len(q) >= MaxQueue
Room(q) == IF Full(q) THEN CleanedUp(q) ELSE q

\* Variant: a dropped message keeps its buffer.
DroppedNotFreed(buf) == {}
\* A message for a queue that stays full is freed at once.
Dropped(buf) == {buf}

Push(fds, buf) ==
  LET room  == Room(queue)
      freed == BuffersOf(queue) \ BuffersOf(room)
  IN  IF Full(room)
      THEN /\ queue' = room
           /\ allocated' = (allocated \ freed) \ Dropped(buf)
      ELSE /\ queue' = Append(room, [fds |-> fds, buf |-> buf])
           /\ allocated' = allocated \ freed

\* keepAliveRemove, second half.
WithoutFd(q, fd) == [i \in DOMAIN q |-> [q[i] EXCEPT !.fds = @ \ {fd}]]

---------------------------------------------------------------------------
(* The main loop: tasks.                                                   *)

\* triggerHttpThread: worker_active is set before the worker is queued.
TriggerWorker ==
  /\ main.pc = "idle" /\ ~workerActive
  /\ workerActive' = TRUE /\ overdue' = FALSE
  /\ main' = At(main, "enqueue")
  /\ UNCHANGED <<socketVars, queueVars, pending, lockVars, http>>

\* httpd_queue_work: the control packet arrives, or is lost unseen ...
QueueWork(arrives) ==
  /\ main.pc = "enqueue"
  /\ arrives => pending < MaxPending
  /\ pending' = IF arrives THEN pending + 1 ELSE pending
  /\ main' = Idle
  /\ UNCHANGED <<socketVars, queueVars, workerActive, overdue, lockVars, http>>

\* ... or cannot be sent.
QueueWorkFails ==
  /\ main.pc = "enqueue"
  /\ workerActive' = FALSE
  /\ main' = Idle
  /\ UNCHANGED <<socketVars, queueVars, overdue, pending, lockVars, http>>

\* The clock: 20 s since the worker was started.
WorkerOverdue ==
  /\ workerActive /\ ~overdue
  /\ overdue' = TRUE
  /\ UNCHANGED <<socketVars, queueVars, workerActive, pending, lockVars, main, http>>

\* triggerHttpThread with a worker that does not come back: forget it ...
\* Variant: a worker that does not come back is waited for.
NeverTimedOut == FALSE
TimedOut == workerActive /\ overdue

ResetWorker ==
  /\ main.pc = "idle" /\ TimedOut
  /\ workerActive' = FALSE /\ overdue' = FALSE
  /\ main' = At(main, "clear")
  /\ UNCHANGED <<socketVars, queueVars, pending, lockVars, http>>

\* ... and its work.
ClearQueue ==
  /\ main.pc = "clear" /\ MayLockQueue("main")
  /\ queue' = <<>> /\ allocated' = allocated \ BuffersOf(queue)
  /\ main' = Idle
  /\ UNCHANGED <<socketVars, workerVars, lockVars, http>>

\* sendToAll and sendToAllOwned: haveActiveClient, then the payload is copied.
\* The owned one (next = "recheck") looks for clients again.
BeginBroadcast(next) ==
  /\ main.pc = "idle" /\ MayLockKeepAlive("main")
  /\ keepAlive # {}
  /\ \E b \in Buffers \ allocated :
       /\ allocated' = allocated \cup {b}
       /\ main' = [Idle EXCEPT !.pc = next, !.buf = b]
  /\ UNCHANGED <<socketVars, queue, workerVars, lockVars, http>>

RecheckClients ==
  /\ main.pc = "recheck" /\ MayLockKeepAlive("main")
  /\ IF keepAlive = {}
     THEN main' = Idle /\ allocated' = allocated \ {main.buf}
     ELSE main' = At(main, "copy") /\ UNCHANGED allocated
  /\ UNCHANGED <<socketVars, queue, workerVars, lockVars, http>>

\* pingActiveClients: a message without payload.
BeginPing ==
  /\ main.pc = "idle" /\ MayLockKeepAlive("main")
  /\ keepAlive # {}
  /\ main' = At(main, "copy")
  /\ UNCHANGED <<socketVars, queueVars, workerVars, lockVars, http>>

\* "Copy over to not hold both mutexes at the same time."
CopyFds ==
  /\ main.pc = "copy" /\ MayLockKeepAlive("main")
  /\ main' = [main EXCEPT !.pc = "push", !.fds = keepAlive]
  /\ UNCHANGED <<socketVars, queueVars, workerVars, lockVars, http>>

PushBroadcast ==
  /\ main.pc = "push" /\ MayLockQueue("main")
  /\ Push(main.fds, main.buf)
  /\ main' = Idle
  /\ UNCHANGED <<socketVars, workerVars, lockVars, http>>

\* checkActiveClients holds keep_alive_mutex until it has looked at every client.
BeginCheck ==
  /\ main.pc = "idle" /\ MayLockKeepAlive("main")
  /\ keepAliveLock' = "main"
  /\ main' = [Idle EXCEPT !.pc = "check", !.fds = keepAlive]
  /\ UNCHANGED <<socketVars, queueVars, workerVars, queueLock, http>>

ClientAlive(f) ==
  /\ main.pc = "check" /\ f \in main.fds
  /\ session[f] = "ws"
  /\ main' = [main EXCEPT !.fds = @ \ {f}]
  /\ UNCHANGED <<socketVars, queueVars, workerVars, lockVars, http>>

\* keepAliveCloseDead, in four parts: unwatch, forget its messages, spare a
\* plain HTTP connection, delete the session.
ClientDead(f) ==
  /\ main.pc = "check" /\ f \in main.fds
  /\ keepAlive' = keepAlive \ {f}
  /\ main' = [main EXCEPT !.pc = "forget", !.fd = f, !.fds = @ \ {f}]
  /\ UNCHANGED <<session, queueVars, workerVars, lockVars, http>>

ForgetDead ==
  /\ main.pc = "forget" /\ MayLockQueue("main")
  /\ queue' = WithoutFd(queue, main.fd)
  /\ main' = At(main, "spare")
  /\ UNCHANGED <<socketVars, allocated, workerVars, lockVars, http>>

SpareHttp ==
  /\ main.pc = "spare"
  /\ main' = At(main, IF session[main.fd] = "http" THEN "check" ELSE "delete")
  /\ UNCHANGED <<socketVars, queueVars, workerVars, lockVars, http>>

DeleteSession ==
  /\ main.pc = "delete"
  /\ session' = [session EXCEPT ![main.fd] = "invalid"]
  /\ main' = At(main, "check")
  /\ UNCHANGED <<keepAlive, queueVars, workerVars, lockVars, http>>

EndCheck ==
  /\ main.pc = "check" /\ main.fds = {}
  /\ keepAliveLock' = None
  /\ main' = Idle
  /\ UNCHANGED <<socketVars, queueVars, workerVars, queueLock, http>>

---------------------------------------------------------------------------
(* The HTTP server's thread: connections.                                  *)

Accept(f) ==
  /\ http.pc = "idle" /\ session[f] = "invalid"
  /\ session' = [session EXCEPT ![f] = "http"]
  /\ UNCHANGED <<keepAlive, queueVars, workerVars, lockVars, main, http>>

\* A connection that ends without a close frame.
Disconnect(f) ==
  /\ http.pc = "idle" /\ session[f] # "invalid"
  /\ session' = [session EXCEPT ![f] = "invalid"]
  /\ UNCHANGED <<keepAlive, queueVars, workerVars, lockVars, main, http>>

\* ws_handler: haveFreeSlot, then the handshake.
Handshake(f) ==
  /\ http.pc = "idle" /\ session[f] = "http"
  /\ MayLockKeepAlive("http") /\ Cardinality(keepAlive) < MaxClients
  /\ session' = [session EXCEPT ![f] = "ws"]
  /\ http' = [Idle EXCEPT !.pc = "add", !.fd = f]
  /\ UNCHANGED <<keepAlive, queueVars, workerVars, lockVars, main>>

\* keepAliveAdd: a reused descriptor may still be in the list.
\* Variant: the last slot of the list is not used.
WatchedOneLess(fds, f) ==
  IF Cardinality(fds) + 1 < MaxClients THEN fds \cup {f} ELSE fds
Watched(fds, f) == IF Cardinality(fds) < MaxClients THEN fds \cup {f} ELSE fds

AddClient ==
  /\ http.pc = "add" /\ MayLockKeepAlive("http")
  /\ keepAlive' = Watched(keepAlive, http.fd)
  /\ http' = At(http, "greet")
  /\ UNCHANGED <<session, queueVars, workerVars, lockVars, main>>

\* The first message to a client: all states (sendToClient).
Greet ==
  /\ http.pc = "greet"
  /\ \/ /\ session[http.fd] = "ws"
        /\ \E b \in Buffers \ allocated :
             /\ allocated' = allocated \cup {b}
             /\ http' = [http EXCEPT !.pc = "greeting", !.buf = b]
     \/ /\ session[http.fd] # "ws" \/ Buffers = allocated
        /\ http' = Idle
        /\ UNCHANGED allocated
  /\ UNCHANGED <<socketVars, queue, workerVars, lockVars, main>>

PushGreeting ==
  /\ http.pc = "greeting" /\ MayLockQueue("http")
  /\ Push({http.fd}, http.buf)
  /\ http' = Idle
  /\ UNCHANGED <<socketVars, workerVars, lockVars, main>>

\* A close frame: keepAliveRemove; the server then ends the session.
CloseFrame(f) ==
  /\ http.pc = "idle" /\ session[f] = "ws" /\ MayLockKeepAlive("http")
  /\ keepAlive' = keepAlive \ {f}
  /\ http' = [Idle EXCEPT !.pc = "closed", !.fd = f]
  /\ UNCHANGED <<session, queueVars, workerVars, lockVars, main>>

ForgetClosed ==
  /\ http.pc = "closed" /\ MayLockQueue("http")
  /\ queue' = WithoutFd(queue, http.fd)
  /\ session' = [session EXCEPT ![http.fd] = "invalid"]
  /\ http' = Idle
  /\ UNCHANGED <<keepAlive, allocated, workerVars, lockVars, main>>

\* /info/ws_trigger, updateDebugState: the mutexes in the other order.
DebugLocksQueue ==
  /\ http.pc = "idle" /\ MayLockQueue("http")
  /\ queueLock' = "http"
  /\ http' = At(Idle, "debug")
  /\ UNCHANGED <<socketVars, queueVars, workerVars, keepAliveLock, main>>

DebugStateUpdated ==
  /\ http.pc = "debug" /\ MayLockKeepAlive("http")
  /\ queueLock' = None
  /\ http' = Idle
  /\ UNCHANGED <<socketVars, queueVars, workerVars, keepAliveLock, main>>

---------------------------------------------------------------------------
(* The HTTP server's thread: the worker (work).                            *)

StartWork ==
  /\ http.pc = "idle" /\ pending > 0
  /\ pending' = pending - 1
  /\ http' = At(Idle, "work")
  /\ UNCHANGED <<socketVars, queueVars, workerActive, overdue, lockVars, main>>

\* haveWork moves the front item to the worker.
AfterPop(q) == Tail(q)

HaveWork ==
  /\ http.pc = "work" /\ MayLockQueue("http") /\ queue # <<>>
  /\ http' = [Idle EXCEPT !.pc = "send", !.fds = Head(queue).fds, !.buf = Head(queue).buf]
  /\ queue' = AfterPop(queue)
  /\ UNCHANGED <<socketVars, allocated, workerVars, lockVars, main>>

NoMoreWork ==
  /\ http.pc = "work" /\ MayLockQueue("http") /\ queue = <<>>
  /\ http' = At(Idle, "done")
  /\ UNCHANGED <<socketVars, queueVars, workerVars, lockVars, main>>

WorkerDone ==
  /\ http.pc = "done"
  /\ workerActive' = FALSE
  /\ http' = Idle
  /\ UNCHANGED <<socketVars, queueVars, overdue, pending, lockVars, main>>

\* A frame is sent, or the descriptor is no web socket any more.
Sent(f) ==
  /\ http.pc = "send" /\ f \in http.fds
  /\ http' = [http EXCEPT !.fds = @ \ {f}]
  /\ UNCHANGED <<socketVars, queueVars, workerVars, lockVars, main>>

\* A send that fails: keepAliveCloseDead.
SendFails(f) ==
  /\ http.pc = "send" /\ f \in http.fds /\ session[f] = "ws"
  /\ MayLockKeepAlive("http")
  /\ keepAlive' = keepAlive \ {f}
  /\ http' = [http EXCEPT !.pc = "forget", !.fd = f, !.fds = @ \ {f}]
  /\ UNCHANGED <<session, queueVars, workerVars, lockVars, main>>

CloseAfterSend ==
  /\ http.pc = "forget" /\ MayLockQueue("http")
  /\ queue' = WithoutFd(queue, http.fd)
  /\ session' = [session EXCEPT ![http.fd] = IF @ = "http" THEN @ ELSE "invalid"]
  /\ http' = At(http, "send")
  /\ UNCHANGED <<keepAlive, allocated, workerVars, lockVars, main>>

\* clear_ws_work_item
ItemSent ==
  /\ http.pc = "send" /\ http.fds = {}
  /\ allocated' = allocated \ {http.buf}
  /\ http' = At(Idle, "work")
  /\ UNCHANGED <<socketVars, queue, workerVars, lockVars, main>>

---------------------------------------------------------------------------
Checking ==
  \/ BeginCheck \/ ForgetDead \/ SpareHttp \/ DeleteSession \/ EndCheck
  \/ \E f \in Fds : ClientAlive(f) \/ ClientDead(f)

MainTask ==
  \/ TriggerWorker \/ (\E arrives \in BOOLEAN : QueueWork(arrives)) \/ QueueWorkFails
  \/ ResetWorker \/ ClearQueue
  \/ BeginBroadcast("copy") \/ BeginBroadcast("recheck") \/ RecheckClients
  \/ BeginPing \/ CopyFds \/ PushBroadcast
  \/ Checking

Connection ==
  \/ \E f \in Fds : Accept(f) \/ Disconnect(f) \/ Handshake(f) \/ CloseFrame(f)
  \/ AddClient \/ Greet \/ PushGreeting \/ ForgetClosed

Worker ==
  \/ StartWork \/ HaveWork \/ NoMoreWork \/ WorkerDone
  \/ \E f \in Fds : Sent(f) \/ SendFails(f)
  \/ CloseAfterSend \/ ItemSent

Next == MainTask \/ WorkerOverdue \/ Connection \/ Worker

Spec == Init /\ [][Next]_vars

\* The same with somebody who opens the debug page.
DebugNext == Next \/ DebugLocksQueue \/ DebugStateUpdated
DebugSpec == Init /\ [][DebugNext]_vars

---------------------------------------------------------------------------
(* Properties.                                                             *)

Item == [fds : SUBSET Fds, buf : Buffers \cup {NoBuffer}]
Local(pcs) == [pc : pcs, fd : Fds \cup {NoFd}, fds : SUBSET Fds, buf : Buffers \cup {NoBuffer}]

SocketTypes ==
  /\ session \in [Fds -> {"invalid", "http", "ws"}]
  /\ keepAlive \subseteq Fds /\ Cardinality(keepAlive) <= MaxClients
QueueTypes ==
  /\ queue \in Seq(Item) /\ Len(queue) <= MaxQueue
  /\ allocated \subseteq Buffers
WorkerTypes ==
  /\ workerActive \in BOOLEAN /\ overdue \in BOOLEAN
  /\ pending \in 0..MaxPending
LockTypes == keepAliveLock \in {None, "main"} /\ queueLock \in {None, "http"}
MainTypes ==
  main \in Local({"idle", "enqueue", "clear", "recheck", "copy", "push",
                  "check", "forget", "spare", "delete"})
HttpTypes ==
  http \in Local({"idle", "add", "greet", "greeting", "closed", "debug",
                  "work", "send", "forget", "done"})

\* Types; the queue and the list of clients keep their limits.
TypeOK ==
  SocketTypes /\ QueueTypes /\ WorkerTypes /\ LockTypes /\ MainTypes /\ HttpTypes

\* Every payload buffer belongs to exactly one of the producers, the items of
\* the queue and the worker: none leaks, is freed twice or used after free,
\* however the reset of a slow worker, full queues and closed clients
\* interleave (sendToAll, haveWork, triggerHttpThread, clear_ws_work_item).
EveryBufferHasOneOwner ==
  /\ allocated = (BuffersOf(queue) \cup {main.buf, http.buf}) \ {NoBuffer}
  /\ main.buf # NoBuffer => main.buf # http.buf
  /\ \A i \in DOMAIN queue : queue[i].buf # NoBuffer =>
       /\ queue[i].buf \notin {main.buf, http.buf}
       /\ \A j \in DOMAIN queue : queue[i].buf = queue[j].buf => i = j

\* Every open web socket is watched, except while one of the threads is
\* adding or closing it.  Nobody would notice that an unwatched client is
\* dead, and the worker would wait for it for ever (web_sockets.cpp:275-284).
OpenSocketIsWatched ==
  \A f \in Fds : session[f] = "ws" =>
    \/ f \in keepAlive
    \/ main.fd = f /\ main.pc \in {"forget", "spare", "delete"}
    \/ http.fd = f /\ http.pc \in {"add", "closed", "forget"}

\* The two threads never wait for each other's mutex: a thread that needs
\* both copies the clients first, "to not hold both mutexes at the same time"
\* (web_sockets.cpp:308, 401, 428).  A check of the clients and the debug page
\* do hold both, in different orders.
NoMutualWait ==
  ~ /\ main.pc = "forget" /\ ~MayLockQueue("main")
    /\ http.pc = "debug" /\ ~MayLockKeepAlive("http")

---------------------------------------------------------------------------
(* Fairness: both threads run on and get a mutex they wait for; every task *)
(* of the main loop comes round; the HTTP thread reads its control socket. *)
(* A start is not for ever refused, but every start may be lost.           *)
MainProceeds == main.pc # "idle" /\ MainTask
HttpProceeds == http.pc # "idle" /\ (Connection \/ Worker)

Fairness ==
  /\ WF_vars(MainProceeds) /\ SF_vars(HttpProceeds)
  /\ SF_vars(TriggerWorker) /\ SF_vars(ResetWorker)
  /\ SF_vars(\E arrives \in BOOLEAN : QueueWork(arrives))
  /\ SF_vars(StartWork) /\ WF_vars(WorkerOverdue)

FairSpec == Spec /\ Fairness

\* Every buffer is freed in the end, even if every start of the worker is lost
\* on the control socket (the comment in triggerHttpThread).
BuffersReturn ==
  \A b \in Buffers : b \in allocated ~> b \notin allocated
=============================================================================
