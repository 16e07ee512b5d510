-------------------------- MODULE WebSocketsProofs --------------------------
(***************************************************************************)
(* For every number of clients, buffers and queue items: the types of the  *)
(* web sockets, one owner for every payload buffer, and no open socket     *)
(* that nobody watches.                                                    *)
(***************************************************************************)
EXTENDS WebSockets, SequenceTheorems, FiniteSetTheorems, WellFoundedInduction, TLAPS

---------------------------------------------------------------------------
(* The queue as data.                                                      *)

LessThan == {p \in Nat \X Nat : p[1] < p[2]}

(* A set of natural numbers that is not empty has a least element.         *)
LEMMA Least ==
  ASSUME NEW S \in SUBSET Nat, S # {}
  PROVE  \E i \in S : \A j \in S : i <= j
<1>1. IsWellFoundedOn(LessThan, Nat)  BY NatLessThanWellFounded DEF OpToRel, LessThan
<1>2. PICK i \in S : \A j \in S : ~ (<<j, i>> \in LessThan)  BY <1>1, WFMin
<1>3. \A j \in S : ~(j < i)  BY <1>2 DEF LessThan
<1> QED  BY <1>3

\* s is q without its first k items.
Suffix(s, q, k) ==
  /\ s \in Seq(Item) /\ Len(s) = Len(q) - k
  /\ \A i \in 1..Len(s) : s[i] = q[i + k]

(* cleanUpQueue only drops items from the front.                           *)
LEMMA CleanedUpIsSuffix ==
  ASSUME NEW q \in Seq(Item)
  PROVE  \E k \in 0..Len(q) : Suffix(CleanedUp(q), q, k)
<1>1. CASE Addressed(q) = {}
  <2>1. CleanedUp(q) = <<>>  BY <1>1 DEF CleanedUp
  <2> QED  BY <2>1, EmptySeq, LenProperties DEF Suffix
<1>2. CASE Addressed(q) # {}
  <2> DEFINE least(i) == \A j \in Addressed(q) : i <= j
             first == CHOOSE i \in Addressed(q) : least(i)
  <2>1. Addressed(q) \subseteq 1..Len(q)  BY LenProperties DEF Addressed
  <2>2. Addressed(q) \in SUBSET Nat  BY <2>1
  <2>3. \E i \in Addressed(q) : least(i)  BY <1>2, <2>2, Least
  <2>4. first \in Addressed(q)  BY <2>3
  <2>5. first \in 1..Len(q)  BY <2>1, <2>4
  <2>6. CleanedUp(q) = SubSeq(q, first, Len(q))  BY <1>2 DEF CleanedUp
  <2> HIDE DEF first
  <2>7. \A i \in first..Len(q) : q[i] \in Item  BY <2>5, ElementOfSeq, LenProperties
  <2>8. Len(q) \in Int /\ first \in Int  BY <2>5, LenProperties
  <2>9. /\ SubSeq(q, first, Len(q)) \in Seq(Item)
        /\ Len(SubSeq(q, first, Len(q))) = IF first <= Len(q) THEN Len(q) - first + 1 ELSE 0
        /\ \A i \in 1..(Len(q) - first + 1) : SubSeq(q, first, Len(q))[i] = q[first + i - 1]
     BY <2>7, <2>8, SubSeqProperties
  <2>10. Suffix(CleanedUp(q), q, first - 1)  BY <2>5, <2>6, <2>8, <2>9 DEF Suffix
  <2> QED  BY <2>5, <2>8, <2>10
<1> QED  BY <1>1, <1>2

(* queueFull only drops items from the front.                              *)
LEMMA RoomIsSuffix ==
  ASSUME NEW q \in Seq(Item)
  PROVE  \E k \in 0..Len(q) : Suffix(Room(q), q, k)
<1>1. CASE Full(q)  BY <1>1, CleanedUpIsSuffix DEF Room
<1>2. CASE ~Full(q)
  <2>1. Len(q) \in Nat  BY LenProperties
  <2>2. Suffix(q, q, 0)  BY <2>1 DEF Suffix
  <2> QED  BY <1>2, <2>1, <2>2 DEF Room
<1> QED  BY <1>1, <1>2

\* EveryBufferHasOneOwner, of values: queue, the two threads, the heap.
Owned(q, m, h, a) ==
  /\ a = (BuffersOf(q) \cup {m, h}) \ {NoBuffer}
  /\ m # NoBuffer => m # h
  /\ \A i \in DOMAIN q : q[i].buf # NoBuffer =>
       /\ q[i].buf \notin {m, h}
       /\ \A j \in DOMAIN q : q[i].buf = q[j].buf => i = j

(* The two threads are alike.                                              *)
LEMMA OwnedEitherWay ==
  ASSUME NEW q, NEW m, NEW h, NEW a, Owned(q, m, h, a)
  PROVE  Owned(q, h, m, a)
BY DEF Owned

(* Dropping items from the front frees their buffers and no others.        *)
LEMMA SuffixOwned ==
  ASSUME NEW q \in Seq(Item), NEW s, NEW k \in 0..Len(q), Suffix(s, q, k),
         NEW m, NEW h, NEW a, Owned(q, m, h, a)
  PROVE  Owned(s, m, h, a \ (BuffersOf(q) \ BuffersOf(s)))
<1>1. Len(q) \in Nat /\ DOMAIN q = 1..Len(q)  BY LenProperties
<1>2. Len(s) \in Nat /\ DOMAIN s = 1..Len(s)  BY LenProperties DEF Suffix
<1>3. \A i \in DOMAIN s : i + k \in DOMAIN q /\ s[i] = q[i + k]
    BY <1>1, <1>2 DEF Suffix
<1>4. BuffersOf(s) \subseteq BuffersOf(q)  BY <1>3 DEF BuffersOf
<1>5. \A i \in DOMAIN q : q[i].buf # NoBuffer => q[i].buf \notin {m, h}  BY DEF Owned
<1>6. m \notin BuffersOf(q) /\ h \notin BuffersOf(q)  BY <1>5 DEF BuffersOf
<1>7. a \ (BuffersOf(q) \ BuffersOf(s)) = (BuffersOf(s) \cup {m, h}) \ {NoBuffer}
    BY <1>4, <1>6 DEF Owned, BuffersOf
<1>8. ASSUME NEW i \in DOMAIN s, s[i].buf # NoBuffer
      PROVE  /\ s[i].buf \notin {m, h}
             /\ \A j \in DOMAIN s : s[i].buf = s[j].buf => i = j
  <2>1. i + k \in DOMAIN q /\ s[i] = q[i + k]  BY <1>3
  <2>2. s[i].buf \notin {m, h}  BY <1>5, <1>8, <2>1
  <2>3. ASSUME NEW j \in DOMAIN s, s[i].buf = s[j].buf
        PROVE  i = j
    <3>1. j + k \in DOMAIN q /\ s[j] = q[j + k]  BY <1>3
    <3>2. i + k = j + k  BY <1>8, <2>1, <2>3, <3>1 DEF Owned
    <3> QED  BY <1>2, <3>2
  <2> QED  BY <2>2, <2>3
<1> QED  BY <1>7, <1>8 DEF Owned

(* A message that is queued or dropped is out of its producer's hands.     *)
LEMMA PushOwned ==
  ASSUME NEW q \in Seq(Item), NEW m, NEW h, NEW a, Owned(q, m, h, a),
         NEW fds, [fds |-> fds, buf |-> m] \in Item
  PROVE  LET room  == Room(q)
             freed == BuffersOf(q) \ BuffersOf(room)
         IN  /\ room \in Seq(Item) /\ Len(room) <= Len(q)
             /\ Owned(room, NoBuffer, h, (a \ freed) \ Dropped(m))
             /\ Owned(Append(room, [fds |-> fds, buf |-> m]), NoBuffer, h, a \ freed)
<1> DEFINE room == Room(q)
           freed == BuffersOf(q) \ BuffersOf(room)
           item == [fds |-> fds, buf |-> m]
<1>1. PICK k \in 0..Len(q) : Suffix(room, q, k)  BY RoomIsSuffix
<1>2. Owned(room, m, h, a \ freed)  BY <1>1, SuffixOwned
<1>3. room \in Seq(Item) /\ Len(room) <= Len(q)  BY <1>1, LenProperties DEF Suffix
<1> HIDE DEF room, freed
<1>4. Len(room) \in Nat /\ DOMAIN room = 1..Len(room)  BY <1>3, LenProperties
<1>5. \A i \in DOMAIN room : room[i].buf # NoBuffer => room[i].buf \notin {m, h}
    BY <1>2 DEF Owned
<1>6. m \notin BuffersOf(room)  BY <1>5 DEF BuffersOf
<1>7. Owned(room, NoBuffer, h, (a \ freed) \ Dropped(m))
  <2>1. (a \ freed) \ {m} = (BuffersOf(room) \cup {NoBuffer, h}) \ {NoBuffer}
      BY <1>2, <1>6 DEF Owned
  <2> QED  BY <1>2, <2>1 DEF Owned, Dropped
<1> DEFINE longer == Append(room, item)
<1>8. /\ longer \in Seq(Item) /\ Len(longer) = Len(room) + 1
      /\ \A i \in 1..Len(room) : longer[i] = room[i]
      /\ longer[Len(room) + 1] = item
    BY <1>3, AppendProperties
<1> HIDE DEF longer
<1>9. DOMAIN longer = 1..(Len(room) + 1)  BY <1>8, LenProperties
<1>10. BuffersOf(longer) = (BuffersOf(room) \cup {m}) \ {NoBuffer}
  <2>1. \A i \in DOMAIN longer : longer[i].buf \in {room[j].buf : j \in DOMAIN room} \cup {m}
      BY <1>4, <1>8, <1>9
  <2>2. \A j \in DOMAIN room : j \in DOMAIN longer /\ longer[j].buf = room[j].buf
      BY <1>4, <1>8, <1>9
  <2>3. Len(room) + 1 \in DOMAIN longer /\ longer[Len(room) + 1].buf = m
      BY <1>4, <1>8, <1>9
  <2> QED  BY <2>1, <2>2, <2>3 DEF BuffersOf
<1>11. ASSUME NEW i \in DOMAIN longer, longer[i].buf # NoBuffer
       PROVE  /\ longer[i].buf \notin {NoBuffer, h}
              /\ \A j \in DOMAIN longer : longer[i].buf = longer[j].buf => i = j
  <2>1. CASE i = Len(room) + 1
    <3>1. longer[i].buf = m  BY <1>8, <2>1
    <3>2. m # h  BY <1>2, <1>11, <3>1 DEF Owned
    <3>3. \A j \in DOMAIN longer : j # i => longer[j].buf # m
        BY <1>4, <1>5, <1>8, <1>9, <1>11, <2>1, <3>1
    <3> QED  BY <1>11, <3>1, <3>2, <3>3
  <2>2. CASE i \in DOMAIN room
    <3>1. longer[i].buf = room[i].buf  BY <1>4, <1>8, <2>2
    <3>2. room[i].buf \notin {m, h}  BY <1>5, <1>11, <2>2, <3>1
    <3>3. \A j \in DOMAIN room : room[i].buf = room[j].buf => i = j
        BY <1>2, <1>11, <2>2, <3>1 DEF Owned
    <3>4. \A j \in DOMAIN longer : longer[i].buf = longer[j].buf => i = j
        BY <1>4, <1>8, <1>9, <3>1, <3>2, <3>3
    <3> QED  BY <1>11, <3>1, <3>2, <3>4
  <2> QED  BY <1>4, <1>9, <2>1, <2>2
<1>12. Owned(longer, NoBuffer, h, a \ freed)
  <2>1. a \ freed = (BuffersOf(longer) \cup {NoBuffer, h}) \ {NoBuffer}
      BY <1>2, <1>10 DEF Owned
  <2> QED  BY <1>11, <2>1 DEF Owned
<1> QED  BY <1>3, <1>7, <1>12 DEF room, freed, longer

---------------------------------------------------------------------------
(* The invariant.                                                          *)

\* A thread has a buffer only between malloc and the end of its message.
BuffersInHand ==
  /\ main.buf # NoBuffer => main.pc \in {"recheck", "copy", "push"}
  /\ http.buf # NoBuffer => http.pc \in {"greeting", "send", "forget"}

\* What haveFreeSlot has seen still holds when the client is added: the main
\* loop only removes clients.
RoomForClient == http.pc = "add" => Cardinality(keepAlive) < MaxClients

\* The HTTP thread knows which client it serves.
ClientInHand ==
  http.pc \in {"add", "greet", "greeting", "closed", "forget"} => http.fd \in Fds

(* Fewer clients, or one more where there is room.                         *)
LEMMA ClientCount ==
  ASSUME SocketTypes, NEW f \in Fds
  PROVE  /\ Cardinality(keepAlive \ {f}) \in Nat
         /\ Cardinality(keepAlive \ {f}) <= Cardinality(keepAlive)
         /\ Cardinality(keepAlive) \in Nat
         /\ Watched(keepAlive, f) \subseteq Fds
         /\ Cardinality(Watched(keepAlive, f)) <= MaxClients
<1>1. IsFiniteSet(keepAlive)  BY QueueAssumption, FS_Subset DEF SocketTypes
<1>2. Cardinality(keepAlive) \in Nat  BY <1>1, FS_CardinalityType
<1>3. /\ IsFiniteSet(keepAlive \ {f})
      /\ Cardinality(keepAlive \ {f}) = IF f \in keepAlive THEN Cardinality(keepAlive) - 1
                                                          ELSE Cardinality(keepAlive)
    BY <1>1, FS_RemoveElement
<1>4. Cardinality(keepAlive \ {f}) \in Nat  BY <1>3, FS_CardinalityType
<1>5. Cardinality(keepAlive \cup {f}) = IF f \in keepAlive THEN Cardinality(keepAlive)
                                                          ELSE Cardinality(keepAlive) + 1
    BY <1>1, FS_AddElement
<1>6. Cardinality(Watched(keepAlive, f)) <= MaxClients
    BY <1>2, <1>5, QueueAssumption DEF Watched, SocketTypes
<1>7. Watched(keepAlive, f) \subseteq Fds  BY DEF Watched, SocketTypes
<1> QED  BY <1>2, <1>3, <1>4, <1>6, <1>7

(* A descriptor that leaves the messages leaves their buffers.             *)
LEMMA WithoutFdKeeps ==
  ASSUME NEW q \in Seq(Item), NEW f
  PROVE  /\ WithoutFd(q, f) \in Seq(Item)
         /\ Len(WithoutFd(q, f)) = Len(q)
         /\ \A m, h, a : Owned(q, m, h, a) => Owned(WithoutFd(q, f), m, h, a)
<1>1. DOMAIN q = 1..Len(q) /\ Len(q) \in Nat /\ q \in [1..Len(q) -> Item]  BY LenProperties
<1>2. DOMAIN WithoutFd(q, f) = 1..Len(q)  BY <1>1 DEF WithoutFd
<1>3. \A i \in 1..Len(q) : /\ WithoutFd(q, f)[i] \in Item
                          /\ WithoutFd(q, f)[i].buf = q[i].buf
    BY <1>1 DEF WithoutFd, Item
<1>4. WithoutFd(q, f) \in [1..Len(q) -> Item]  BY <1>1, <1>2, <1>3 DEF WithoutFd
<1>5. WithoutFd(q, f) \in Seq(Item)  BY <1>1, <1>4, <1>3
<1>6. Len(WithoutFd(q, f)) = Len(q)  BY <1>1, <1>2, <1>5, LenProperties
<1>7. BuffersOf(WithoutFd(q, f)) = BuffersOf(q)  BY <1>1, <1>2, <1>3 DEF BuffersOf
<1> QED  BY <1>1, <1>2, <1>3, <1>5, <1>6, <1>7 DEF Owned

(* A queue that loses its front item to the worker.                        *)
LEMMA PopOwned ==
  ASSUME NEW q \in Seq(Item), q # <<>>, NEW m, NEW a, Owned(q, m, NoBuffer, a)
  PROVE  /\ AfterPop(q) \in Seq(Item) /\ Len(AfterPop(q)) <= Len(q)
         /\ Head(q) \in Item
         /\ Owned(AfterPop(q), m, Head(q).buf, a)
<1>1. DOMAIN q = 1..Len(q) /\ Len(q) \in Nat  BY LenProperties
<1>2. Len(q) >= 1  BY <1>1, EmptySeq
<1>3. /\ Tail(q) \in Seq(Item) /\ Len(Tail(q)) = Len(q) - 1
      /\ \A i \in 1..Len(Tail(q)) : Tail(q)[i] = q[i + 1]
      /\ Head(q) \in Item
    BY HeadTailProperties
<1>4. DOMAIN Tail(q) = 1..(Len(q) - 1)  BY <1>3, LenProperties
<1>5. Head(q) = q[1]  OBVIOUS
<1>6. \A i \in DOMAIN Tail(q) : i + 1 \in DOMAIN q /\ i + 1 # 1 /\ Tail(q)[i] = q[i + 1]
    BY <1>1, <1>3, <1>4
<1>7. 1 \in DOMAIN q  BY <1>1, <1>2
<1>8. \A i \in DOMAIN q : i = 1 \/ (i - 1 \in DOMAIN Tail(q) /\ Tail(q)[i - 1] = q[i])
    BY <1>1, <1>3, <1>4
<1>9. {q[i].buf : i \in DOMAIN q} = {Tail(q)[i].buf : i \in DOMAIN Tail(q)} \cup {q[1].buf}
  <2> DEFINE all == {q[i].buf : i \in DOMAIN q}
             rest == {Tail(q)[i].buf : i \in DOMAIN Tail(q)}
  <2>1. ASSUME NEW b \in all  PROVE b \in rest \cup {q[1].buf}
    <3>1. PICK i \in DOMAIN q : b = q[i].buf  BY <2>1
    <3> QED  BY <1>8, <3>1
  <2>2. ASSUME NEW b \in rest  PROVE b \in all
    <3>1. PICK i \in DOMAIN Tail(q) : b = Tail(q)[i].buf  BY <2>2
    <3>2. i + 1 \in DOMAIN q /\ b = q[i + 1].buf  BY <1>6, <3>1
    <3> QED  BY <3>2
  <2>3. q[1].buf \in all  BY <1>7
  <2> QED  BY <2>1, <2>2, <2>3
<1>10. a = (BuffersOf(Tail(q)) \cup {m, q[1].buf}) \ {NoBuffer}
    BY <1>9 DEF Owned, BuffersOf
<1>11. m # NoBuffer => m # q[1].buf  BY <1>7 DEF Owned
<1>12. ASSUME NEW i \in DOMAIN Tail(q), Tail(q)[i].buf # NoBuffer
       PROVE  /\ Tail(q)[i].buf \notin {m, q[1].buf}
              /\ \A j \in DOMAIN Tail(q) : Tail(q)[i].buf = Tail(q)[j].buf => i = j
  <2>1. i + 1 \in DOMAIN q /\ i + 1 # 1 /\ Tail(q)[i] = q[i + 1]  BY <1>6
  <2>2. q[i + 1].buf # m  BY <1>12, <2>1 DEF Owned
  <2>3. q[i + 1].buf # q[1].buf  BY <1>7, <1>12, <2>1 DEF Owned
  <2>4. ASSUME NEW j \in DOMAIN Tail(q), Tail(q)[i].buf = Tail(q)[j].buf
        PROVE  i = j
    <3>1. j + 1 \in DOMAIN q /\ Tail(q)[j] = q[j + 1]  BY <1>6
    <3>2. i + 1 = j + 1  BY <1>12, <2>1, <2>4, <3>1 DEF Owned
    <3> QED  BY <1>4, <3>2
  <2> QED  BY <2>1, <2>2, <2>3, <2>4
<1>13. Owned(Tail(q), m, q[1].buf, a)  BY <1>10, <1>11, <1>12 DEF Owned
<1> QED  BY <1>1, <1>3, <1>5, <1>13 DEF AfterPop

---------------------------------------------------------------------------
(* Types.                                                                  *)

(* What a step leaves alone keeps its type.                                *)
LEMMA KeptTypes ==
  ASSUME TypeOK
  PROVE  /\ UNCHANGED socketVars => SocketTypes'
         /\ UNCHANGED queueVars => QueueTypes'
         /\ UNCHANGED workerVars => WorkerTypes'
         /\ UNCHANGED lockVars => LockTypes'
         /\ UNCHANGED main => MainTypes'
         /\ UNCHANGED http => HttpTypes'
<1>1. UNCHANGED socketVars => SocketTypes'  BY DEF TypeOK, SocketTypes, socketVars
<1>2. UNCHANGED queueVars => QueueTypes'  BY DEF TypeOK, QueueTypes, queueVars
<1>3. UNCHANGED workerVars => WorkerTypes'  BY DEF TypeOK, WorkerTypes, workerVars
<1>4. UNCHANGED lockVars => LockTypes'  BY DEF TypeOK, LockTypes, lockVars
<1>5. UNCHANGED main => MainTypes'  BY DEF TypeOK, MainTypes
<1>6. UNCHANGED http => HttpTypes'  BY DEF TypeOK, HttpTypes
<1> QED  BY <1>1, <1>2, <1>3, <1>4, <1>5, <1>6

(* Push keeps the types of the queue.                                      *)
LEMMA PushTypes ==
  ASSUME QueueTypes, NEW fds \in SUBSET Fds, NEW b \in Buffers \cup {NoBuffer}, Push(fds, b)
  PROVE  QueueTypes'
<1>1. queue \in Seq(Item) /\ Len(queue) <= MaxQueue /\ allocated \subseteq Buffers  BY DEF QueueTypes
<1>2. PICK k \in 0..Len(queue) : Suffix(Room(queue), queue, k)  BY <1>1, RoomIsSuffix
<1>3. Room(queue) \in Seq(Item) /\ Len(Room(queue)) \in Nat /\ Len(Room(queue)) <= MaxQueue
    BY <1>1, <1>2, LenProperties, QueueAssumption DEF Suffix
<1>4. [fds |-> fds, buf |-> b] \in Item  BY DEF Item
<1>5. /\ Append(Room(queue), [fds |-> fds, buf |-> b]) \in Seq(Item)
      /\ Len(Append(Room(queue), [fds |-> fds, buf |-> b])) = Len(Room(queue)) + 1
    BY <1>3, <1>4, AppendProperties
<1>6. allocated' \subseteq Buffers  BY <1>1 DEF Push
<1>7. CASE Full(Room(queue))  BY <1>3, <1>6, <1>7 DEF Push, QueueTypes
<1>8. CASE ~Full(Room(queue))
  <2>1. Len(Room(queue)) + 1 <= MaxQueue  BY <1>3, <1>8, QueueAssumption DEF Full
  <2> QED  BY <1>5, <1>6, <1>8, <2>1 DEF Push, QueueTypes
<1> QED  BY <1>7, <1>8

(* The initial state has its types.                                        *)
LEMMA InitTyped == Init => TypeOK
<1> SUFFICES ASSUME Init PROVE TypeOK  OBVIOUS
<1>1. SocketTypes  BY FS_EmptySet, QueueAssumption DEF Init, SocketTypes
<1>2. QueueTypes  BY EmptySeq, QueueAssumption DEF Init, QueueTypes
<1>3. WorkerTypes
  <2>1. workerActive = FALSE /\ overdue = FALSE  BY DEF Init
  <2>2. pending \in 0..MaxPending  BY QueueAssumption DEF Init
  <2> QED  BY <2>1, <2>2 DEF WorkerTypes
<1>4. LockTypes  BY DEF Init, LockTypes
<1>5. MainTypes /\ HttpTypes  BY DEF Init, MainTypes, HttpTypes, Local, Idle
<1> QED  BY <1>1, <1>2, <1>3, <1>4, <1>5 DEF TypeOK

(* A step of the main loop keeps the types.                                *)
LEMMA MainTyped ==
  ASSUME TypeOK, MainTask
  PROVE  TypeOK'
<1> USE KeptTypes
<1>0. /\ main \in Local({"idle", "enqueue", "clear", "recheck", "copy", "push",
                        "check", "forget", "spare", "delete"})
      /\ keepAlive \subseteq Fds
      /\ queue \in Seq(Item) /\ Len(queue) <= MaxQueue /\ allocated \subseteq Buffers
      /\ pending \in 0..MaxPending /\ workerActive \in BOOLEAN /\ overdue \in BOOLEAN
    BY DEF TypeOK, MainTypes, SocketTypes, QueueTypes, WorkerTypes
<1>m. \A pc \in {"idle", "enqueue", "clear", "recheck", "copy", "push",
                 "check", "forget", "spare", "delete"} :
        main' \in {Idle, At(main, pc)} => MainTypes'
    BY <1>0 DEF MainTypes, Local, Idle, At
<1>1. CASE TriggerWorker
  <2>1. WorkerTypes'  BY <1>0, <1>1 DEF TriggerWorker, WorkerTypes
  <2> QED  BY <1>1, <1>m, <2>1 DEF TriggerWorker, TypeOK
<1>2. ASSUME NEW arrives \in BOOLEAN, QueueWork(arrives) PROVE TypeOK'
  <2>1. WorkerTypes'  BY <1>0, <1>2, QueueAssumption DEF QueueWork, WorkerTypes
  <2> QED  BY <1>2, <1>m, <2>1 DEF QueueWork, TypeOK
<1>3. CASE QueueWorkFails
  <2>1. WorkerTypes'  BY <1>0, <1>3 DEF QueueWorkFails, WorkerTypes
  <2> QED  BY <1>3, <1>m, <2>1 DEF QueueWorkFails, TypeOK
<1>4. CASE ResetWorker
  <2>1. WorkerTypes'  BY <1>0, <1>4 DEF ResetWorker, WorkerTypes
  <2> QED  BY <1>4, <1>m, <2>1 DEF ResetWorker, TypeOK
<1>5. CASE ClearQueue
  <2>1. QueueTypes'  BY <1>0, <1>5, EmptySeq, QueueAssumption DEF ClearQueue, QueueTypes
  <2> QED  BY <1>5, <1>m, <2>1 DEF ClearQueue, TypeOK
<1>6. ASSUME NEW next \in {"copy", "recheck"}, BeginBroadcast(next) PROVE TypeOK'
  <2>1. PICK b \in Buffers \ allocated :
          allocated' = allocated \cup {b} /\ main' = [Idle EXCEPT !.pc = next, !.buf = b]
      BY <1>6 DEF BeginBroadcast
  <2>2. QueueTypes'  BY <1>0, <1>6, <2>1 DEF BeginBroadcast, QueueTypes
  <2>3. MainTypes'  BY <2>1 DEF MainTypes, Local, Idle
  <2> QED  BY <1>6, <2>2, <2>3 DEF BeginBroadcast, TypeOK
<1>7. CASE RecheckClients
  <2>1. QueueTypes'  BY <1>0, <1>7 DEF RecheckClients, QueueTypes
  <2> QED  BY <1>7, <1>m, <2>1 DEF RecheckClients, TypeOK
<1>8. CASE BeginPing  BY <1>8, <1>m DEF BeginPing, TypeOK
<1>9. CASE CopyFds
  <2>1. MainTypes'  BY <1>0, <1>9 DEF CopyFds, MainTypes, Local
  <2> QED  BY <1>9, <2>1 DEF CopyFds, TypeOK
<1>10. CASE PushBroadcast
  <2>1. main.fds \in SUBSET Fds /\ main.buf \in Buffers \cup {NoBuffer}  BY <1>0 DEF Local
  <2>2. QueueTypes'  BY <1>10, <2>1, PushTypes DEF PushBroadcast, TypeOK
  <2> QED  BY <1>10, <1>m, <2>2 DEF PushBroadcast, TypeOK
<1>11. CASE BeginCheck
  <2>1. LockTypes'  BY <1>11 DEF BeginCheck, TypeOK, LockTypes
  <2>2. MainTypes'  BY <1>0, <1>11 DEF BeginCheck, MainTypes, Local, Idle
  <2> QED  BY <1>11, <2>1, <2>2 DEF BeginCheck, TypeOK
<1>12. ASSUME NEW f \in Fds, ClientAlive(f) PROVE TypeOK'
  <2>1. MainTypes'  BY <1>0, <1>12 DEF ClientAlive, MainTypes, Local
  <2> QED  BY <1>12, <2>1 DEF ClientAlive, TypeOK
<1>13. ASSUME NEW f \in Fds, ClientDead(f) PROVE TypeOK'
  <2>1. MainTypes'  BY <1>0, <1>13 DEF ClientDead, MainTypes, Local
  <2>2. SocketTypes'
      BY <1>13, ClientCount, QueueAssumption DEF ClientDead, TypeOK, SocketTypes
  <2> QED  BY <1>13, <2>1, <2>2 DEF ClientDead, TypeOK
<1>14. CASE ForgetDead
  <2>1. QueueTypes'  BY <1>0, <1>14, WithoutFdKeeps DEF ForgetDead, QueueTypes
  <2> QED  BY <1>14, <1>m, <2>1 DEF ForgetDead, TypeOK
<1>15. CASE SpareHttp
  <2>1. MainTypes'  BY <1>m, <1>15 DEF SpareHttp
  <2> QED  BY <1>15, <2>1 DEF SpareHttp, TypeOK
<1>16. CASE DeleteSession
  <2>1. SocketTypes'  BY <1>16 DEF DeleteSession, TypeOK, SocketTypes
  <2> QED  BY <1>16, <1>m, <2>1 DEF DeleteSession, TypeOK
<1>17. CASE EndCheck
  <2>1. LockTypes'  BY <1>17 DEF EndCheck, TypeOK, LockTypes
  <2> QED  BY <1>17, <1>m, <2>1 DEF EndCheck, TypeOK
<1> QED
  BY <1>1, <1>2, <1>3, <1>4, <1>5, <1>6, <1>7, <1>8, <1>9, <1>10, <1>11, <1>12, <1>13,
     <1>14, <1>15, <1>16, <1>17
  DEF MainTask, Checking

(* A step of the HTTP thread keeps the types.                              *)
LEMMA HttpTyped ==
  ASSUME TypeOK, ClientInHand, Connection \/ Worker
  PROVE  TypeOK'
<1> USE KeptTypes
<1>0. /\ http \in Local({"idle", "add", "greet", "greeting", "closed", "debug",
                        "work", "send", "forget", "done"})
      /\ keepAlive \subseteq Fds
      /\ queue \in Seq(Item) /\ Len(queue) \in Nat /\ Len(queue) <= MaxQueue
      /\ allocated \subseteq Buffers
      /\ pending \in 0..MaxPending /\ workerActive \in BOOLEAN /\ overdue \in BOOLEAN
    BY LenProperties DEF TypeOK, HttpTypes, SocketTypes, QueueTypes, WorkerTypes
<1>h. \A pc \in {"idle", "add", "greet", "greeting", "closed", "debug",
                 "work", "send", "forget", "done"} :
        http' \in {Idle, At(http, pc), At(Idle, pc)} => HttpTypes'
    BY <1>0 DEF HttpTypes, Local, Idle, At
<1>1. ASSUME NEW f \in Fds, Accept(f) \/ Disconnect(f) PROVE TypeOK'
  <2>1. SocketTypes'  BY <1>1 DEF Accept, Disconnect, TypeOK, SocketTypes
  <2> QED  BY <1>1, <2>1 DEF Accept, Disconnect, TypeOK
<1>2. ASSUME NEW f \in Fds, Handshake(f) PROVE TypeOK'
  <2>1. SocketTypes'  BY <1>2 DEF Handshake, TypeOK, SocketTypes
  <2>2. HttpTypes'  BY <1>2 DEF Handshake, HttpTypes, Local, Idle
  <2> QED  BY <1>2, <2>1, <2>2 DEF Handshake, TypeOK
<1>3. ASSUME NEW f \in Fds, CloseFrame(f) PROVE TypeOK'
  <2>1. SocketTypes'
      BY <1>3, ClientCount, QueueAssumption DEF CloseFrame, TypeOK, SocketTypes
  <2>2. HttpTypes'  BY <1>3 DEF CloseFrame, HttpTypes, Local, Idle
  <2> QED  BY <1>3, <2>1, <2>2 DEF CloseFrame, TypeOK
<1>4. CASE AddClient
  <2>1. http.fd \in Fds  BY <1>4 DEF AddClient, ClientInHand
  <2>2. SocketTypes'  BY <1>4, <2>1, ClientCount DEF AddClient, TypeOK, SocketTypes
  <2> QED  BY <1>4, <1>h, <2>2 DEF AddClient, TypeOK
<1>5. CASE Greet
  <2>1. QueueTypes'  BY <1>0, <1>5 DEF Greet, QueueTypes
  <2>2. CASE http' = Idle  BY <1>5, <1>h, <2>1, <2>2 DEF Greet, TypeOK
  <2>3. CASE http' # Idle
    <3>1. PICK b \in Buffers : http' = [http EXCEPT !.pc = "greeting", !.buf = b]
        BY <1>5, <2>3 DEF Greet
    <3>2. HttpTypes'  BY <1>0, <3>1 DEF HttpTypes, Local
    <3> QED  BY <1>5, <2>1, <3>2 DEF Greet, TypeOK
  <2> QED  BY <2>2, <2>3
<1>6. CASE PushGreeting
  <2>1. {http.fd} \in SUBSET Fds /\ http.buf \in Buffers \cup {NoBuffer}  BY <1>0, <1>6 DEF Local, PushGreeting, ClientInHand
  <2>2. QueueTypes'  BY <1>6, <2>1, PushTypes DEF PushGreeting, TypeOK
  <2> QED  BY <1>6, <1>h, <2>2 DEF PushGreeting, TypeOK
<1>7. CASE ForgetClosed
  <2>1. QueueTypes'  BY <1>0, <1>7, WithoutFdKeeps DEF ForgetClosed, QueueTypes
  <2>2. SocketTypes'  BY <1>7 DEF ForgetClosed, TypeOK, SocketTypes
  <2> QED  BY <1>7, <1>h, <2>1, <2>2 DEF ForgetClosed, TypeOK
<1>8. CASE DebugLocksQueue
  <2>1. LockTypes'  BY <1>8 DEF DebugLocksQueue, TypeOK, LockTypes
  <2> QED  BY <1>8, <1>h, <2>1 DEF DebugLocksQueue, TypeOK
<1>9. CASE DebugStateUpdated
  <2>1. LockTypes'  BY <1>9 DEF DebugStateUpdated, TypeOK, LockTypes
  <2> QED  BY <1>9, <1>h, <2>1 DEF DebugStateUpdated, TypeOK
<1>10. CASE StartWork
  <2>1. WorkerTypes'  BY <1>0, <1>10, QueueAssumption DEF StartWork, WorkerTypes
  <2> QED  BY <1>10, <1>h, <2>1 DEF StartWork, TypeOK
<1>11. CASE HaveWork
  <2>1. /\ Tail(queue) \in Seq(Item) /\ Len(Tail(queue)) = Len(queue) - 1
        /\ Head(queue) \in Item
      BY <1>0, <1>11, HeadTailProperties DEF HaveWork
  <2>2. QueueTypes'  BY <1>0, <1>11, <2>1, QueueAssumption DEF HaveWork, AfterPop, QueueTypes
  <2>3. HttpTypes'  BY <1>11, <2>1 DEF HaveWork, HttpTypes, Local, Idle, Item
  <2> QED  BY <1>11, <2>2, <2>3 DEF HaveWork, TypeOK
<1>12. CASE NoMoreWork  BY <1>12, <1>h DEF NoMoreWork, TypeOK
<1>13. CASE WorkerDone
  <2>1. WorkerTypes'  BY <1>0, <1>13 DEF WorkerDone, WorkerTypes
  <2> QED  BY <1>13, <1>h, <2>1 DEF WorkerDone, TypeOK
<1>14. ASSUME NEW f \in Fds, Sent(f) PROVE TypeOK'
  <2>1. HttpTypes'  BY <1>0, <1>14 DEF Sent, HttpTypes, Local
  <2> QED  BY <1>14, <2>1 DEF Sent, TypeOK
<1>15. ASSUME NEW f \in Fds, SendFails(f) PROVE TypeOK'
  <2>1. HttpTypes'  BY <1>0, <1>15 DEF SendFails, HttpTypes, Local
  <2>2. SocketTypes'
      BY <1>15, ClientCount, QueueAssumption DEF SendFails, TypeOK, SocketTypes
  <2> QED  BY <1>15, <2>1, <2>2 DEF SendFails, TypeOK
<1>16. CASE CloseAfterSend
  <2>1. QueueTypes'  BY <1>0, <1>16, WithoutFdKeeps DEF CloseAfterSend, QueueTypes
  <2>2. SocketTypes'  BY <1>16 DEF CloseAfterSend, TypeOK, SocketTypes
  <2> QED  BY <1>16, <1>h, <2>1, <2>2 DEF CloseAfterSend, TypeOK
<1>17. CASE ItemSent
  <2>1. QueueTypes'  BY <1>0, <1>17 DEF ItemSent, QueueTypes
  <2> QED  BY <1>17, <1>h, <2>1 DEF ItemSent, TypeOK
<1> QED
  BY <1>1, <1>2, <1>3, <1>4, <1>5, <1>6, <1>7, <1>8, <1>9, <1>10, <1>11, <1>12, <1>13,
     <1>14, <1>15, <1>16, <1>17
  DEF Connection, Worker

---------------------------------------------------------------------------
(* One owner for every buffer.                                             *)

(* A thread's buffer and program counter after a step of its locals.       *)
LEMMA ThreadSteps ==
  ASSUME NEW pcs, NEW t \in Local(pcs)
  PROVE  /\ \A pc : At(t, pc).buf = t.buf /\ At(t, pc).pc = pc /\ At(t, pc).fd = t.fd
         /\ \A pc, fds : LET u == [t EXCEPT !.pc = pc, !.fds = fds]
                         IN  u.buf = t.buf /\ u.pc = pc /\ u.fd = t.fd
         /\ \A fds : LET u == [t EXCEPT !.fds = fds]
                     IN  u.buf = t.buf /\ u.pc = t.pc /\ u.fd = t.fd
         /\ \A pc, fd, fds : LET u == [t EXCEPT !.pc = pc, !.fd = fd, !.fds = fds]
                             IN  u.buf = t.buf /\ u.pc = pc /\ u.fd = fd
         /\ \A pc, b : LET u == [t EXCEPT !.pc = pc, !.buf = b]
                       IN  u.buf = b /\ u.pc = pc /\ u.fd = t.fd
BY DEF At, Local

(* The same for a thread that starts from nothing.                         *)
LEMMA IdleSteps ==
  /\ Idle.buf = NoBuffer /\ Idle.pc = "idle" /\ Idle.fd = NoFd
  /\ \A pc : At(Idle, pc).buf = NoBuffer /\ At(Idle, pc).pc = pc
  /\ \A pc, fds : LET u == [Idle EXCEPT !.pc = pc, !.fds = fds] IN u.buf = NoBuffer /\ u.pc = pc
  /\ \A pc, fd : LET u == [Idle EXCEPT !.pc = pc, !.fd = fd]
                 IN  u.buf = NoBuffer /\ u.pc = pc /\ u.fd = fd
  /\ \A pc, b : LET u == [Idle EXCEPT !.pc = pc, !.buf = b] IN u.buf = b /\ u.pc = pc
  /\ \A pc, fds, b : LET u == [Idle EXCEPT !.pc = pc, !.fds = fds, !.buf = b]
                     IN  u.buf = b /\ u.pc = pc
BY DEF At, Idle

(* A message that is pushed: queued or dropped.                            *)
LEMMA PushKeeps ==
  ASSUME NEW m, NEW h, Owned(queue, m, h, allocated), queue \in Seq(Item),
         NEW fds, [fds |-> fds, buf |-> m] \in Item, Push(fds, m)
  PROVE  Owned(queue', NoBuffer, h, allocated')
<1> DEFINE room == Room(queue)
           freed == BuffersOf(queue) \ BuffersOf(room)
<1>1. /\ Owned(room, NoBuffer, h, (allocated \ freed) \ Dropped(m))
      /\ Owned(Append(room, [fds |-> fds, buf |-> m]), NoBuffer, h, allocated \ freed)
    BY PushOwned
<1>2. CASE Full(room)
  <2>1. queue' = room /\ allocated' = (allocated \ freed) \ Dropped(m)  BY <1>2 DEF Push
  <2> QED  BY <1>1, <2>1
<1>3. CASE ~Full(room)
  <2>1. /\ queue' = Append(room, [fds |-> fds, buf |-> m])
        /\ allocated' = allocated \ freed
      BY <1>3 DEF Push
  <2> QED  BY <1>1, <2>1
<1> QED  BY <1>2, <1>3

(* A step of the main loop keeps one owner for every buffer.               *)
LEMMA MainOwns ==
  ASSUME TypeOK, BuffersInHand, EveryBufferHasOneOwner, MainTask
  PROVE  EveryBufferHasOneOwner' /\ BuffersInHand'
<1>1. Owned(queue, main.buf, http.buf, allocated)  BY DEF EveryBufferHasOneOwner, Owned
<1>2. Owned(queue', main'.buf, http'.buf, allocated') => EveryBufferHasOneOwner'
    BY DEF EveryBufferHasOneOwner, Owned, BuffersOf
<1>3. main.pc \notin {"recheck", "copy", "push"} => main.buf = NoBuffer  BY DEF BuffersInHand
<1> DEFINE pcs == {"idle", "enqueue", "clear", "recheck", "copy", "push",
                   "check", "forget", "spare", "delete"}
<1>4. main \in Local(pcs)  BY DEF TypeOK, MainTypes
<1> HIDE DEF pcs
<1>5. queue \in Seq(Item) /\ allocated \subseteq Buffers  BY DEF TypeOK, QueueTypes
<1>6. http' = http /\ (main'.buf # NoBuffer => main'.pc \in {"recheck", "copy", "push"})
        => BuffersInHand'
    BY DEF BuffersInHand
<1>7. CASE UNCHANGED <<queueVars, http>> /\ main.buf = NoBuffer /\ main'.buf = NoBuffer
    BY <1>1, <1>2, <1>6, <1>7 DEF queueVars
<1>8. CASE \/ TriggerWorker \/ (\E arrives \in BOOLEAN : QueueWork(arrives)) \/ QueueWorkFails
           \/ ResetWorker \/ BeginPing
  <2>1. main.buf = NoBuffer  BY <1>3, <1>8
      DEF TriggerWorker, QueueWork, QueueWorkFails, ResetWorker, BeginPing
  <2>2. main' \in {Idle, At(main, "enqueue"), At(main, "clear"), At(main, "copy")}
      BY <1>8 DEF TriggerWorker, QueueWork, QueueWorkFails, ResetWorker, BeginPing
  <2>3. main'.buf = NoBuffer  BY <1>4, <2>1, <2>2, ThreadSteps, IdleSteps
  <2>4. UNCHANGED <<queueVars, http>>
      BY <1>8 DEF TriggerWorker, QueueWork, QueueWorkFails, ResetWorker, BeginPing
  <2> QED  BY <1>7, <2>1, <2>3, <2>4
<1>9. CASE \/ BeginCheck \/ SpareHttp \/ DeleteSession \/ EndCheck
           \/ \E f \in Fds : ClientAlive(f) \/ ClientDead(f)
  <2>1. main.buf = NoBuffer  BY <1>3, <1>9
      DEF BeginCheck, SpareHttp, DeleteSession, EndCheck, ClientAlive, ClientDead
  <2>2. CASE BeginCheck \/ EndCheck
    <3>1. main' = Idle \/ main' = [Idle EXCEPT !.pc = "check", !.fds = keepAlive]
        BY <2>2 DEF BeginCheck, EndCheck
    <3>2. main'.buf = NoBuffer
      <4>1. CASE main' = Idle  BY <4>1, IdleSteps
      <4>2. CASE main' = [Idle EXCEPT !.pc = "check", !.fds = keepAlive]  BY <4>2, IdleSteps
      <4> QED  BY <3>1, <4>1, <4>2
    <3> QED  BY <1>7, <2>1, <2>2, <3>2 DEF BeginCheck, EndCheck
  <2>3. CASE SpareHttp \/ DeleteSession
    <3>1. main' \in {At(main, "check"), At(main, "delete")}  BY <2>3 DEF SpareHttp, DeleteSession
    <3>2. main'.buf = NoBuffer  BY <1>4, <2>1, <3>1, ThreadSteps
    <3> QED  BY <1>7, <2>1, <2>3, <3>2 DEF SpareHttp, DeleteSession
  <2>4. ASSUME NEW f \in Fds, ClientAlive(f)
        PROVE  EveryBufferHasOneOwner' /\ BuffersInHand'
    <3>1. main'.buf = NoBuffer  BY <1>4, <2>1, <2>4, ThreadSteps DEF ClientAlive
    <3> QED  BY <1>7, <2>1, <2>4, <3>1 DEF ClientAlive
  <2>5. ASSUME NEW f \in Fds, ClientDead(f)
        PROVE  EveryBufferHasOneOwner' /\ BuffersInHand'
    <3>1. main'.buf = NoBuffer  BY <1>4, <2>1, <2>5, ThreadSteps DEF ClientDead
    <3> QED  BY <1>7, <2>1, <2>5, <3>1 DEF ClientDead
  <2> QED  BY <1>9, <2>2, <2>3, <2>4, <2>5
<1>10. CASE ClearQueue
  <2>1. main.buf = NoBuffer /\ main'.buf = NoBuffer  BY <1>3, <1>10, IdleSteps DEF ClearQueue
  <2>2. queue' = <<>> /\ allocated' = allocated \ BuffersOf(queue) /\ http' = http
      BY <1>10 DEF ClearQueue
  <2>3. http.buf \notin BuffersOf(queue)  BY <1>1 DEF Owned, BuffersOf
  <2>4. allocated' = {http.buf} \ {NoBuffer}  BY <1>1, <2>1, <2>2, <2>3 DEF Owned, BuffersOf
  <2>5. BuffersOf(<<>>) = {}  BY DEF BuffersOf
  <2>6. Owned(<<>>, NoBuffer, http.buf, allocated')  BY <2>4, <2>5 DEF Owned
  <2> QED  BY <1>2, <1>6, <2>1, <2>2, <2>6
<1>11. ASSUME NEW next \in {"copy", "recheck"}, BeginBroadcast(next)
       PROVE  EveryBufferHasOneOwner' /\ BuffersInHand'
  <2>1. PICK b \in Buffers \ allocated :
          allocated' = allocated \cup {b} /\ main' = [Idle EXCEPT !.pc = next, !.buf = b]
      BY <1>11 DEF BeginBroadcast
  <2>2. main.buf = NoBuffer /\ queue' = queue /\ http' = http  BY <1>3, <1>11 DEF BeginBroadcast
  <2>3. main'.buf = b /\ main'.pc = next  BY <2>1, IdleSteps
  <2>4. b # NoBuffer  BY <2>1, QueueAssumption
  <2>5. b # http.buf /\ b \notin BuffersOf(queue)  BY <1>1, <2>1, <2>4 DEF Owned
  <2>6. Owned(queue, b, http.buf, allocated \cup {b})
    <3>1. allocated \cup {b} = (BuffersOf(queue) \cup {b, http.buf}) \ {NoBuffer}
        BY <1>1, <2>2, <2>4 DEF Owned
    <3>2. \A i \in DOMAIN queue : queue[i].buf # NoBuffer => queue[i].buf # b
        BY <2>5 DEF BuffersOf
    <3> QED  BY <1>1, <2>5, <3>1, <3>2 DEF Owned
  <2> QED  BY <1>2, <1>6, <2>1, <2>2, <2>3, <2>6
<1>12. CASE RecheckClients
  <2>1. queue' = queue /\ http' = http  BY <1>12 DEF RecheckClients
  <2>2. CASE main' = Idle /\ allocated' = allocated \ {main.buf}
    <3>1. main.buf \notin BuffersOf(queue)  BY <1>1 DEF Owned, BuffersOf
    <3>2. allocated' = (BuffersOf(queue) \cup {NoBuffer, http.buf}) \ {NoBuffer}
        BY <1>1, <2>2, <3>1 DEF Owned
    <3>3. Owned(queue, NoBuffer, http.buf, allocated')  BY <1>1, <3>2 DEF Owned
    <3> QED  BY <1>2, <1>6, <2>1, <2>2, <3>3, IdleSteps
  <2>3. CASE main' = At(main, "copy") /\ UNCHANGED allocated
      BY <1>1, <1>2, <1>4, <1>6, <2>1, <2>3, ThreadSteps
  <2> QED  BY <1>12, <2>2, <2>3 DEF RecheckClients
<1>13. CASE CopyFds
  <2>1. main'.buf = main.buf /\ main'.pc = "push"  BY <1>4, <1>13, ThreadSteps DEF CopyFds
  <2> QED  BY <1>1, <1>2, <1>6, <1>13, <2>1 DEF CopyFds, queueVars
<1>14. CASE PushBroadcast
  <2>1. main.fds \in SUBSET Fds /\ main.buf \in Buffers \cup {NoBuffer}  BY <1>4 DEF Local
  <2>2. [fds |-> main.fds, buf |-> main.buf] \in Item  BY <2>1 DEF Item
  <2>3. Push(main.fds, main.buf) /\ main' = Idle /\ http' = http  BY <1>14 DEF PushBroadcast
  <2>4. Owned(queue', NoBuffer, http.buf, allocated')  BY <1>1, <1>5, <2>2, <2>3, PushKeeps
  <2> QED  BY <1>2, <1>6, <2>3, <2>4, IdleSteps
<1>15. CASE ForgetDead
  <2>1. main.buf = NoBuffer /\ main'.buf = NoBuffer  BY <1>3, <1>4, <1>15, ThreadSteps DEF ForgetDead
  <2>2. Owned(WithoutFd(queue, main.fd), main.buf, http.buf, allocated)
      BY <1>1, <1>5, WithoutFdKeeps
  <2> QED  BY <1>2, <1>6, <1>15, <2>1, <2>2 DEF ForgetDead
<1> QED
  BY <1>8, <1>9, <1>10, <1>11, <1>12, <1>13, <1>14, <1>15 DEF MainTask, Checking

(* A step of the HTTP thread keeps one owner for every buffer.             *)
LEMMA HttpOwns ==
  ASSUME TypeOK, BuffersInHand, ClientInHand, EveryBufferHasOneOwner, Connection \/ Worker
  PROVE  EveryBufferHasOneOwner' /\ BuffersInHand'
<1>1. Owned(queue, http.buf, main.buf, allocated)  BY DEF EveryBufferHasOneOwner, Owned
<1>2. Owned(queue', http'.buf, main'.buf, allocated') => EveryBufferHasOneOwner'
    BY DEF EveryBufferHasOneOwner, Owned, BuffersOf
<1>3. http.pc \notin {"greeting", "send", "forget"} => http.buf = NoBuffer  BY DEF BuffersInHand
<1> DEFINE pcs == {"idle", "add", "greet", "greeting", "closed", "debug",
                   "work", "send", "forget", "done"}
<1>4. http \in Local(pcs)  BY DEF TypeOK, HttpTypes
<1> HIDE DEF pcs
<1>5. queue \in Seq(Item) /\ allocated \subseteq Buffers  BY DEF TypeOK, QueueTypes
<1>6. main' = main /\ (http'.buf # NoBuffer => http'.pc \in {"greeting", "send", "forget"})
        => BuffersInHand'
    BY DEF BuffersInHand
<1>7. CASE UNCHANGED <<queueVars, main>> /\ http'.buf = http.buf
           /\ (http.buf # NoBuffer => http'.pc \in {"greeting", "send", "forget"})
    BY <1>1, <1>2, <1>6, <1>7 DEF queueVars
<1>8. ASSUME NEW f \in Fds, Accept(f) \/ Disconnect(f) \/ Handshake(f) \/ CloseFrame(f)
      PROVE  EveryBufferHasOneOwner' /\ BuffersInHand'
  <2>1. http.buf = NoBuffer  BY <1>3, <1>8 DEF Accept, Disconnect, Handshake, CloseFrame
  <2>2. http' = http \/ http' = [Idle EXCEPT !.pc = "add", !.fd = f]
        \/ http' = [Idle EXCEPT !.pc = "closed", !.fd = f]
      BY <1>8 DEF Accept, Disconnect, Handshake, CloseFrame
  <2>3. http'.buf = NoBuffer
    <3>1. CASE http' = http  BY <2>1, <3>1
    <3>2. CASE http' = [Idle EXCEPT !.pc = "add", !.fd = f]  BY <3>2, IdleSteps
    <3>3. CASE http' = [Idle EXCEPT !.pc = "closed", !.fd = f]  BY <3>3, IdleSteps
    <3> QED  BY <2>2, <3>1, <3>2, <3>3
  <2>4. UNCHANGED <<queueVars, main>>  BY <1>8 DEF Accept, Disconnect, Handshake, CloseFrame
  <2> QED  BY <1>7, <2>1, <2>3, <2>4
<1>9. CASE AddClient
  <2>1. http.buf = NoBuffer  BY <1>3, <1>9 DEF AddClient
  <2>2. http'.buf = NoBuffer  BY <1>4, <1>9, <2>1, ThreadSteps DEF AddClient
  <2> QED  BY <1>7, <1>9, <2>1, <2>2 DEF AddClient
<1>10. CASE Greet
  <2>1. http.buf = NoBuffer /\ queue' = queue /\ main' = main  BY <1>3, <1>10 DEF Greet
  <2>2. CASE http' = Idle /\ UNCHANGED allocated  BY <1>7, <2>1, <2>2, IdleSteps DEF queueVars
  <2>3. ASSUME NEW b \in Buffers \ allocated, allocated' = allocated \cup {b},
               http' = [http EXCEPT !.pc = "greeting", !.buf = b]
        PROVE  EveryBufferHasOneOwner' /\ BuffersInHand'
    <3>1. http'.buf = b /\ http'.pc = "greeting"  BY <1>4, <2>3, ThreadSteps
    <3>2. b # NoBuffer  BY QueueAssumption
    <3>3. b # main.buf /\ b \notin BuffersOf(queue)  BY <1>1, <3>2 DEF Owned
    <3>4. allocated' = (BuffersOf(queue) \cup {b, main.buf}) \ {NoBuffer}
        BY <1>1, <2>1, <2>3, <3>2 DEF Owned
    <3>5. \A i \in DOMAIN queue : queue[i].buf # NoBuffer => queue[i].buf # b
        BY <3>3 DEF BuffersOf
    <3>6. Owned(queue, b, main.buf, allocated')  BY <1>1, <3>3, <3>4, <3>5 DEF Owned
    <3> QED  BY <1>2, <1>6, <2>1, <3>1, <3>6
  <2> QED  BY <1>10, <2>2, <2>3 DEF Greet
<1>11. CASE PushGreeting
  <2>1. http.fd \in Fds  BY <1>11 DEF PushGreeting, ClientInHand
  <2>2. http.buf \in Buffers \cup {NoBuffer}  BY <1>4 DEF Local
  <2>3. [fds |-> {http.fd}, buf |-> http.buf] \in Item  BY <2>1, <2>2 DEF Item
  <2>4. Push({http.fd}, http.buf) /\ http' = Idle /\ main' = main  BY <1>11 DEF PushGreeting
  <2>5. Owned(queue', NoBuffer, main.buf, allocated')  BY <1>1, <1>5, <2>3, <2>4, PushKeeps
  <2> QED  BY <1>2, <1>6, <2>4, <2>5, IdleSteps
<1>12. CASE ForgetClosed
  <2>1. http.buf = NoBuffer  BY <1>3, <1>12 DEF ForgetClosed
  <2>2. http' = Idle /\ main' = main /\ queue' = WithoutFd(queue, http.fd) /\ allocated' = allocated
      BY <1>12 DEF ForgetClosed
  <2>3. Owned(queue', http.buf, main.buf, allocated)  BY <1>1, <1>5, <2>2, WithoutFdKeeps
  <2> QED  BY <1>2, <1>6, <2>1, <2>2, <2>3, IdleSteps
<1>13. CASE CloseAfterSend
  <2>1. http'.buf = http.buf /\ http'.pc = "send"
      BY <1>4, <1>13, ThreadSteps DEF CloseAfterSend
  <2>2. main' = main /\ queue' = WithoutFd(queue, http.fd) /\ allocated' = allocated
      BY <1>13 DEF CloseAfterSend
  <2>3. Owned(queue', http.buf, main.buf, allocated)  BY <1>1, <1>5, <2>2, WithoutFdKeeps
  <2> QED  BY <1>2, <1>6, <2>1, <2>2, <2>3
<1>14. CASE StartWork \/ NoMoreWork \/ WorkerDone
  <2>1. http.buf = NoBuffer  BY <1>3, <1>14 DEF StartWork, NoMoreWork, WorkerDone
  <2>2. http' \in {Idle, At(Idle, "work"), At(Idle, "done")}
      BY <1>14 DEF StartWork, NoMoreWork, WorkerDone
  <2>3. http'.buf = NoBuffer  BY <2>2, IdleSteps
  <2> QED  BY <1>7, <1>14, <2>1, <2>3 DEF StartWork, NoMoreWork, WorkerDone, queueVars
<1>15. CASE HaveWork
  <2>1. http.buf = NoBuffer  BY <1>3, <1>15 DEF HaveWork
  <2>2. Owned(queue, main.buf, NoBuffer, allocated)  BY <1>1, <2>1, OwnedEitherWay
  <2>3. queue # <<>> /\ queue' = AfterPop(queue) /\ main' = main /\ allocated' = allocated
      BY <1>15 DEF HaveWork
  <2>4. http'.buf = Head(queue).buf /\ http'.pc = "send"  BY <1>15, IdleSteps DEF HaveWork
  <2>5. Owned(AfterPop(queue), main.buf, Head(queue).buf, allocated)
      BY <1>5, <2>2, <2>3, PopOwned
  <2>6. Owned(queue', http'.buf, main'.buf, allocated')
      BY <2>3, <2>4, <2>5, OwnedEitherWay
  <2> QED  BY <1>2, <1>6, <2>3, <2>4, <2>6
<1>16. ASSUME NEW f \in Fds, Sent(f)
       PROVE  EveryBufferHasOneOwner' /\ BuffersInHand'
  <2>1. http'.buf = http.buf /\ http'.pc = "send"  BY <1>4, <1>16, ThreadSteps DEF Sent
  <2> QED  BY <1>7, <1>16, <2>1 DEF Sent
<1>17. ASSUME NEW f \in Fds, SendFails(f)
       PROVE  EveryBufferHasOneOwner' /\ BuffersInHand'
  <2>1. http'.buf = http.buf /\ http'.pc = "forget"  BY <1>4, <1>17, ThreadSteps DEF SendFails
  <2> QED  BY <1>7, <1>17, <2>1 DEF SendFails
<1>18. CASE ItemSent
  <2>1. queue' = queue /\ main' = main /\ allocated' = allocated \ {http.buf}
      BY <1>18 DEF ItemSent
  <2>2. http'.buf = NoBuffer  BY <1>18, IdleSteps DEF ItemSent
  <2>3. http.buf \notin BuffersOf(queue)  BY <1>1 DEF Owned, BuffersOf
  <2>4. allocated' = (BuffersOf(queue) \cup {NoBuffer, main.buf}) \ {NoBuffer}
      BY <1>1, <2>1, <2>3 DEF Owned
  <2>5. Owned(queue, NoBuffer, main.buf, allocated')  BY <1>1, <2>4 DEF Owned
  <2> QED  BY <1>2, <1>6, <2>1, <2>2, <2>5
<1> QED
  BY <1>8, <1>9, <1>10, <1>11, <1>12, <1>13, <1>14, <1>15, <1>16, <1>17, <1>18
  DEF Connection, Worker

---------------------------------------------------------------------------
(* Every open socket is watched.                                           *)

(* A step of the main loop leaves no open socket unwatched.                *)
LEMMA MainWatches ==
  ASSUME TypeOK, RoomForClient, ClientInHand, OpenSocketIsWatched, MainTask
  PROVE  OpenSocketIsWatched' /\ RoomForClient' /\ ClientInHand'
<1> DEFINE pcs == {"idle", "enqueue", "clear", "recheck", "copy", "push",
                   "check", "forget", "spare", "delete"}
<1>1. main \in Local(pcs)  BY DEF TypeOK, MainTypes
<1> HIDE DEF pcs
<1>2. http' = http => ClientInHand'  BY DEF ClientInHand
<1>3. http' = http /\ keepAlive' = keepAlive => RoomForClient'  BY DEF RoomForClient
<1>4. CASE /\ UNCHANGED <<socketVars, http>>
           /\ main.pc \notin {"forget", "spare", "delete"}
    BY <1>2, <1>3, <1>4 DEF OpenSocketIsWatched, socketVars
<1>5. CASE \/ TriggerWorker \/ (\E arrives \in BOOLEAN : QueueWork(arrives)) \/ QueueWorkFails
           \/ ResetWorker \/ ClearQueue \/ BeginPing \/ CopyFds \/ PushBroadcast
           \/ RecheckClients \/ BeginCheck \/ EndCheck
           \/ (\E f \in Fds : ClientAlive(f))
           \/ BeginBroadcast("copy") \/ BeginBroadcast("recheck")
    BY <1>4, <1>5 DEF TriggerWorker, QueueWork, QueueWorkFails, ResetWorker, ClearQueue,
         BeginPing, CopyFds, PushBroadcast, RecheckClients, BeginCheck, EndCheck, ClientAlive,
         BeginBroadcast
<1>6. ASSUME NEW f \in Fds, ClientDead(f)
      PROVE  OpenSocketIsWatched' /\ RoomForClient' /\ ClientInHand'
  <2>1. main'.fd = f /\ main'.pc = "forget"  BY <1>1, <1>6, ThreadSteps DEF ClientDead
  <2>2. http' = http /\ session' = session /\ keepAlive' = keepAlive \ {f} /\ main.pc = "check"
      BY <1>6 DEF ClientDead
  <2>3. OpenSocketIsWatched'  BY <2>1, <2>2 DEF OpenSocketIsWatched
  <2>4. RoomForClient'
    <3>1. Cardinality(keepAlive \ {f}) <= Cardinality(keepAlive)
          /\ Cardinality(keepAlive \ {f}) \in Nat /\ Cardinality(keepAlive) \in Nat
        BY ClientCount DEF TypeOK
    <3> QED  BY <2>2, <3>1, QueueAssumption DEF RoomForClient
  <2> QED  BY <1>2, <2>2, <2>3, <2>4
<1>7. CASE ForgetDead
  <2>1. main'.fd = main.fd /\ main'.pc = "spare"  BY <1>1, <1>7, ThreadSteps DEF ForgetDead
  <2>2. UNCHANGED <<socketVars, http>> /\ main.pc = "forget"  BY <1>7 DEF ForgetDead
  <2> QED  BY <1>2, <1>3, <2>1, <2>2 DEF OpenSocketIsWatched, socketVars
<1>8. CASE SpareHttp
  <2>1. UNCHANGED <<socketVars, http>> /\ main.pc = "spare"  BY <1>8 DEF SpareHttp
  <2>2. CASE session[main.fd] = "http"
      BY <1>2, <1>3, <2>1, <2>2 DEF OpenSocketIsWatched, socketVars
  <2>3. CASE session[main.fd] # "http"
    <3>1. main'.fd = main.fd /\ main'.pc = "delete"
        BY <1>1, <1>8, <2>3, ThreadSteps DEF SpareHttp
    <3> QED  BY <1>2, <1>3, <2>1, <3>1 DEF OpenSocketIsWatched, socketVars
  <2> QED  BY <2>2, <2>3
<1>9. CASE DeleteSession
  <2>1. session' = [session EXCEPT ![main.fd] = "invalid"] /\ keepAlive' = keepAlive
        /\ http' = http /\ main.pc = "delete"
      BY <1>9 DEF DeleteSession
  <2>2. \A f \in Fds : session'[f] = "ws" => session[f] = "ws" /\ f # main.fd
      BY <2>1 DEF TypeOK, SocketTypes
  <2> QED  BY <1>2, <1>3, <2>1, <2>2 DEF OpenSocketIsWatched
<1> QED  BY <1>5, <1>6, <1>7, <1>8, <1>9 DEF MainTask, Checking

(* A step of the HTTP thread leaves no open socket unwatched.              *)
LEMMA HttpWatches ==
  ASSUME TypeOK, RoomForClient, ClientInHand, OpenSocketIsWatched, Connection \/ Worker
  PROVE  OpenSocketIsWatched' /\ RoomForClient' /\ ClientInHand'
<1> DEFINE pcs == {"idle", "add", "greet", "greeting", "closed", "debug",
                   "work", "send", "forget", "done"}
<1>1. http \in Local(pcs)  BY DEF TypeOK, HttpTypes
<1> HIDE DEF pcs
<1>2. http'.pc # "add" => RoomForClient'  BY DEF RoomForClient
<1>3. http'.pc \notin {"add", "greet", "greeting", "closed", "forget"} => ClientInHand'
    BY DEF ClientInHand
<1>4. CASE /\ UNCHANGED <<socketVars, main>>
           /\ http.pc \notin {"add", "closed", "forget"}
           /\ http'.pc \notin {"add", "greet", "greeting", "closed", "forget"}
    BY <1>2, <1>3, <1>4 DEF OpenSocketIsWatched, socketVars
<1>5. ASSUME NEW f \in Fds, Accept(f) \/ Disconnect(f)
      PROVE  OpenSocketIsWatched' /\ RoomForClient' /\ ClientInHand'
  <2>1. \A g \in Fds : session'[g] = "ws" => session[g] = "ws"
      BY <1>5 DEF Accept, Disconnect, TypeOK, SocketTypes
  <2>2. keepAlive' = keepAlive /\ main' = main /\ http' = http /\ http.pc = "idle"
      BY <1>5 DEF Accept, Disconnect
  <2> QED  BY <1>2, <1>3, <2>1, <2>2 DEF OpenSocketIsWatched
<1>6. ASSUME NEW f \in Fds, Handshake(f)
      PROVE  OpenSocketIsWatched' /\ RoomForClient' /\ ClientInHand'
  <2>1. http'.pc = "add" /\ http'.fd = f  BY <1>6, IdleSteps DEF Handshake
  <2>2. /\ keepAlive' = keepAlive /\ main' = main /\ http.pc = "idle"
        /\ Cardinality(keepAlive) < MaxClients
        /\ session' = [session EXCEPT ![f] = "ws"]
      BY <1>6 DEF Handshake
  <2>3. \A g \in Fds : session'[g] = "ws" => session[g] = "ws" \/ g = f
      BY <2>2 DEF TypeOK, SocketTypes
  <2>4. OpenSocketIsWatched'  BY <2>1, <2>2, <2>3 DEF OpenSocketIsWatched
  <2> QED  BY <2>1, <2>2, <2>4 DEF RoomForClient, ClientInHand
<1>7. CASE AddClient
  <2>1. http'.pc = "greet" /\ http'.fd = http.fd  BY <1>1, <1>7, ThreadSteps DEF AddClient
  <2>2. http.fd \in Fds /\ Cardinality(keepAlive) < MaxClients
      BY <1>7 DEF AddClient, RoomForClient, ClientInHand
  <2>3. keepAlive' = keepAlive \cup {http.fd}  BY <1>7, <2>2 DEF AddClient, Watched
  <2>4. session' = session /\ main' = main /\ http.pc = "add"  BY <1>7 DEF AddClient
  <2>5. OpenSocketIsWatched'  BY <2>3, <2>4 DEF OpenSocketIsWatched
  <2> QED  BY <1>2, <2>1, <2>2, <2>5 DEF ClientInHand
<1>8. CASE Greet
  <2>1. UNCHANGED <<socketVars, main>> /\ http.pc = "greet" /\ http.fd \in Fds
      BY <1>8 DEF Greet, ClientInHand
  <2>2. CASE http' = Idle  BY <1>4, <2>1, <2>2, IdleSteps
  <2>3. ASSUME NEW b, http' = [http EXCEPT !.pc = "greeting", !.buf = b]
        PROVE  OpenSocketIsWatched' /\ RoomForClient' /\ ClientInHand'
    <3>1. http'.pc = "greeting" /\ http'.fd = http.fd  BY <1>1, <2>3, ThreadSteps
    <3>2. OpenSocketIsWatched'  BY <2>1 DEF OpenSocketIsWatched, socketVars
    <3> QED  BY <1>2, <2>1, <3>1, <3>2 DEF ClientInHand
  <2> QED  BY <1>8, <2>2, <2>3 DEF Greet
<1>9. CASE PushGreeting \/ StartWork \/ NoMoreWork \/ WorkerDone \/ ItemSent
  <2>1. http' \in {Idle, At(Idle, "work"), At(Idle, "done")}
      BY <1>9 DEF PushGreeting, StartWork, NoMoreWork, WorkerDone, ItemSent
  <2>2. http'.pc \in {"idle", "work", "done"}  BY <2>1, IdleSteps
  <2> QED  BY <1>4, <1>9, <2>2 DEF PushGreeting, StartWork, NoMoreWork, WorkerDone, ItemSent
<1>10. CASE HaveWork
  <2>1. http'.pc = "send"  BY <1>10, IdleSteps DEF HaveWork
  <2> QED  BY <1>4, <1>10, <2>1 DEF HaveWork
<1>11. ASSUME NEW f \in Fds, CloseFrame(f)
       PROVE  OpenSocketIsWatched' /\ RoomForClient' /\ ClientInHand'
  <2>1. http'.pc = "closed" /\ http'.fd = f  BY <1>11, IdleSteps DEF CloseFrame
  <2>2. session' = session /\ keepAlive' = keepAlive \ {f} /\ main' = main /\ http.pc = "idle"
      BY <1>11 DEF CloseFrame
  <2>3. OpenSocketIsWatched'  BY <2>1, <2>2 DEF OpenSocketIsWatched
  <2> QED  BY <1>2, <2>1, <2>3 DEF ClientInHand
<1>12. CASE ForgetClosed
  <2>1. http'.pc = "idle"  BY <1>12, IdleSteps DEF ForgetClosed
  <2>2. /\ session' = [session EXCEPT ![http.fd] = "invalid"]
        /\ keepAlive' = keepAlive /\ main' = main /\ http.pc = "closed"
      BY <1>12 DEF ForgetClosed
  <2>3. \A g \in Fds : session'[g] = "ws" => session[g] = "ws" /\ g # http.fd
      BY <2>2 DEF TypeOK, SocketTypes
  <2> QED  BY <1>2, <1>3, <2>1, <2>2, <2>3 DEF OpenSocketIsWatched
<1>13. ASSUME NEW f \in Fds, Sent(f)
       PROVE  OpenSocketIsWatched' /\ RoomForClient' /\ ClientInHand'
  <2>1. http'.pc = "send"  BY <1>1, <1>13, ThreadSteps DEF Sent
  <2> QED  BY <1>4, <1>13, <2>1 DEF Sent
<1>14. ASSUME NEW f \in Fds, SendFails(f)
       PROVE  OpenSocketIsWatched' /\ RoomForClient' /\ ClientInHand'
  <2>1. http'.pc = "forget" /\ http'.fd = f  BY <1>1, <1>14, ThreadSteps DEF SendFails
  <2>2. session' = session /\ keepAlive' = keepAlive \ {f} /\ main' = main /\ http.pc = "send"
      BY <1>14 DEF SendFails
  <2>3. OpenSocketIsWatched'  BY <2>1, <2>2 DEF OpenSocketIsWatched
  <2> QED  BY <1>2, <2>1, <2>3 DEF ClientInHand
<1>15. CASE CloseAfterSend
  <2>1. http'.pc = "send"  BY <1>1, <1>15, ThreadSteps DEF CloseAfterSend
  <2>2. /\ session' = [session EXCEPT ![http.fd] = IF @ = "http" THEN @ ELSE "invalid"]
        /\ keepAlive' = keepAlive /\ main' = main /\ http.pc = "forget"
      BY <1>15 DEF CloseAfterSend
  <2>3. \A g \in Fds : session'[g] = "ws" => session[g] = "ws" /\ g # http.fd
      BY <2>2 DEF TypeOK, SocketTypes
  <2> QED  BY <1>2, <1>3, <2>1, <2>2, <2>3 DEF OpenSocketIsWatched
<1> QED
  BY <1>5, <1>6, <1>7, <1>8, <1>9, <1>10, <1>11, <1>12, <1>13, <1>14, <1>15
  DEF Connection, Worker

---------------------------------------------------------------------------
(* The invariant of the specification.                                     *)

IInv ==
  /\ TypeOK /\ BuffersInHand /\ RoomForClient /\ ClientInHand
  /\ EveryBufferHasOneOwner /\ OpenSocketIsWatched

(* The invariant holds at the start ...                                    *)
LEMMA InitIInv == Init => IInv
<1> SUFFICES ASSUME Init PROVE IInv  OBVIOUS
<1>1. TypeOK  BY InitTyped
<1>2. BuffersInHand /\ RoomForClient /\ ClientInHand
    BY DEF Init, Idle, BuffersInHand, RoomForClient, ClientInHand
<1>3. BuffersOf(queue) = {} /\ DOMAIN queue = {}  BY DEF Init, BuffersOf
<1>4. EveryBufferHasOneOwner  BY <1>3 DEF Init, Idle, EveryBufferHasOneOwner
<1>5. OpenSocketIsWatched  BY DEF Init, OpenSocketIsWatched
<1> QED  BY <1>1, <1>2, <1>4, <1>5 DEF IInv

(* ... every step keeps it ...                                             *)
LEMMA StepIInv == IInv /\ [Next]_vars => IInv'
<1> SUFFICES ASSUME IInv, [Next]_vars PROVE IInv'  OBVIOUS
<1>1. CASE MainTask
    BY <1>1, MainTyped, MainOwns, MainWatches DEF IInv
<1>2. CASE Connection \/ Worker
    BY <1>2, HttpTyped, HttpOwns, HttpWatches DEF IInv
<1>3. CASE WorkerOverdue \/ UNCHANGED vars
  <2>1. UNCHANGED <<session, keepAlive, queue, allocated, main, http, keepAliveLock, queueLock,
                    workerActive, pending>>
      BY <1>3 DEF WorkerOverdue, vars, socketVars, queueVars, lockVars
  <2>2. WorkerTypes'
    <3>1. overdue' \in BOOLEAN
        BY <1>3 DEF WorkerOverdue, vars, IInv, TypeOK, WorkerTypes
    <3> QED  BY <2>1, <3>1 DEF IInv, TypeOK, WorkerTypes
  <2>3. TypeOK'
      BY <2>1, <2>2, KeptTypes DEF IInv, TypeOK, socketVars, queueVars, lockVars
  <2>4. BuffersInHand' /\ RoomForClient' /\ ClientInHand'
      BY <2>1 DEF IInv, BuffersInHand, RoomForClient, ClientInHand
  <2>5. EveryBufferHasOneOwner'  BY <2>1 DEF IInv, EveryBufferHasOneOwner, BuffersOf
  <2>6. OpenSocketIsWatched'  BY <2>1 DEF IInv, OpenSocketIsWatched
  <2> QED  BY <2>3, <2>4, <2>5, <2>6 DEF IInv
<1> QED  BY <1>1, <1>2, <1>3 DEF Next

(* ... and so it always holds.                                             *)
LEMMA Invariance == Spec => []IInv
<1>1. Init => IInv  BY InitIInv
<1>2. IInv /\ [Next]_vars => IInv'  BY StepIInv
<1> QED  BY <1>1, <1>2, PTL DEF Spec

(* Types; no more clients than slots, no more messages than the queue may  *)
(* hold (keepAliveAdd, queueFull).                                         *)
THEOREM WebSocketsTyped == Spec => []TypeOK
<1>1. IInv => TypeOK  BY DEF IInv
<1> QED  BY <1>1, Invariance, PTL

(* No payload buffer leaks, is freed twice or used after free, whatever    *)
(* the threads, the reset of a slow worker and full queues interleave.     *)
THEOREM BuffersOwned == Spec => []EveryBufferHasOneOwner
<1>1. IInv => EveryBufferHasOneOwner  BY DEF IInv
<1> QED  BY <1>1, Invariance, PTL

(* No web socket is open that the keep-alive does not watch or close.      *)
THEOREM SocketsWatched == Spec => []OpenSocketIsWatched
<1>1. IInv => OpenSocketIsWatched  BY DEF IInv
<1> QED  BY <1>1, Invariance, PTL
=============================================================================
