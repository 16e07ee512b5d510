------------------------ MODULE ChargeAccountProofs ------------------------
(***************************************************************************)
(* Whose charge it is: no ID of a user is given to somebody else while the *)
(* log holds a charge of that ID, for every number of users, IDs, files,   *)
(* records and power cuts.  The argument relates what three places know of *)
(* the users (RAM, users/config and the file of names) and what the        *)
(* pending writes will change about it, in the order they are made.        *)
(***************************************************************************)
EXTENDS ChargeLogProofs

---------------------------------------------------------------------------
(* Whose charge it is: what the users, the names and the pending writes    *)
(* promise each other.                                                     *)

\* The users of a configuration have different IDs, and none the next one.
Sound(c) ==
  /\ \A u, v \in c.users : u.id = v.id => u = v
  /\ \A u \in c.users : u.id # c.next

NextIsFree(c) == c.next # 0 => names[c.next] = Anonymous

\* The name of the user u is not yet written.
NameWaits(u) ==
  /\ names[u.id] = Anonymous
  /\ \E i \in DOMAIN todo : todo[i] = Command("name", u.id, u.who)

\* The users in RAM have their names in the file, or these are pending.
ConfigFits ==
  /\ Sound(config)
  /\ names # NoFile =>
       /\ NextIsFree(config)
       /\ \A u \in config.users : names[u.id] = u.who \/ NameWaits(u)

\* So have those in flash, whom the next boot will take, except while the names
\* are being written.
StoredFits == stored # NoFile =>
  /\ Sound(stored)
  /\ names # NoFile =>
       /\ NextIsFree(stored)
       /\ \A u \in stored.users : names[u.id] = u.who \/ (Doing("name") /\ NameWaits(u))

UsersSaved == Doing("unlink") \/ stored = NoFile \/ stored.users = config.users

\* A save comes before all else.
SaveComesFirst == \A i \in DOMAIN todo :
  /\ todo[i].do = "unlink" => i = 1 /\ Len(todo) >= 2 /\ todo[2].do = "rename"
  /\ todo[i].do = "rename" => i = 1 \/ (i = 2 /\ todo[1].do = "unlink")

\* A name is that of a user, and only a new file and a save come before it.
NamesComeEarly == \A i \in DOMAIN todo : todo[i].do = "name" =>
  /\ User(todo[i].id, todo[i].who) \in config.users /\ LastWork.do = "unblock"
  /\ \A j \in DOMAIN todo :
       j < i => todo[j].do \in {"createNames", "unlink", "rename", "name"}

\* A new file of names comes first and is followed by the names of all users.
NewFileIsFilled == \A i \in DOMAIN todo : todo[i].do = "createNames" =>
  /\ i = 1 /\ names = NoFile
  /\ \A u \in config.users : \E j \in DOMAIN todo : todo[j] = Command("name", u.id, u.who)

\* The next ID is looked for when all names are written.
SearchComesLate == \A i \in DOMAIN todo : todo[i].do = "search" =>
  LastWork.do = "unblock" /\ \A j \in DOMAIN todo : j > i => todo[j].do # "name"

\* An ID that is about to be freed belongs to nobody, and no file but the one
\* that is dropped first knows it.
FreedAreUnused == \A i \in DOMAIN todo : todo[i].do = "free" =>
  /\ todo[i].id \in Ids /\ ~IsUser(todo[i].id)
  /\ \A f \in DOMAIN files : todo[i].id \in IdsOf(files[f]) => f = 1 /\ todo[1].do = "drop"

StartsAreOfUsers == \A i \in DOMAIN todo : todo[i].do = "start" =>
  todo[i].id = 0 \/ User(todo[i].id, todo[i].who) \in config.users

\* The names are removed when the log is empty.
NoCharge == \A f \in DOMAIN files : files[f] = <<>>
WipeComesFirst == \A i \in DOMAIN todo : todo[i].do = "removeNames" =>
  (i = 1 /\ NoCharge) \/ (i = 2 /\ todo[1].do = "wipe")

Order ==
  /\ SaveComesFirst /\ NamesComeEarly /\ NewFileIsFilled /\ SearchComesLate
  /\ FreedAreUnused /\ StartsAreOfUsers /\ WipeComesFirst

\* A command that waits was checked against the users of now.
LastUnblocks == todo # <<>> /\ LastWork.do = "unblock"
RequestFits ==
  /\ request.do = "add" => LastUnblocks \/ request.id = config.next
  /\ request.do \in {"modify", "remove"} =>
       LastUnblocks \/ User(request.id, request.who) \in config.users

Charged == \A f \in DOMAIN files : \A r \in DOMAIN files[f] : files[f][r].id # 0 =>
  /\ names # NoFile /\ names[files[f][r].id] = files[f][r].who
  /\ files[f][r].who # Anonymous

Accounted ==
  ConfigFits /\ StoredFits /\ UsersSaved /\ Order /\ RequestFits /\ Charged

---------------------------------------------------------------------------
(* What is known when a write is done.                                     *)

\* The head of todo has been taken.
Popped ==
  /\ todo \in Seq(Writes) /\ todo # <<>> /\ todo' = Tail(todo)

(* Its writes move one place up.                                           *)
LEMMA PoppedIs ==
  ASSUME Popped
  PROVE  /\ Len(todo) \in Nat \ {0} /\ Len(todo') = Len(todo) - 1 /\ Len(todo') \in Nat
         /\ DOMAIN todo = 1..Len(todo) /\ DOMAIN todo' = 1..Len(todo')
         /\ Head(todo) = todo[1] /\ 1 \in DOMAIN todo
         /\ \A i \in DOMAIN todo' : i \in Nat /\ i >= 1 /\ i + 1 \in DOMAIN todo /\ todo'[i] = todo[i + 1]
         /\ \A j \in DOMAIN todo : j # 1 => j - 1 \in DOMAIN todo' /\ todo'[j - 1] = todo[j]
         /\ DOMAIN todo' # {} => LastWork' = LastWork
<1>1. todo \in Seq(Writes) /\ todo # <<>> /\ todo' = Tail(todo)  BY DEF Popped
<1>2. /\ Len(todo) \in Nat \ {0} /\ DOMAIN todo = 1..Len(todo) /\ Head(todo) = todo[1]
      /\ Len(todo') = Len(todo) - 1 /\ DOMAIN todo' = 1..Len(todo')
      /\ \A i \in 1..Len(todo') : todo'[i] = todo[i + 1]
  <2>1. /\ Tail(todo) \in Seq(Writes) /\ Len(Tail(todo)) = Len(todo) - 1
        /\ \A i \in 1..Len(Tail(todo)) : Tail(todo)[i] = todo[i + 1]
      BY <1>1, HeadTailProperties
  <2>2. Len(todo) \in Nat \ {0} /\ DOMAIN todo = 1..Len(todo)  BY <1>1, LenProperties, EmptySeq
  <2>3. DOMAIN Tail(todo) = 1..Len(Tail(todo))  BY <2>1, LenProperties
  <2>4. Head(todo) = todo[1]  BY <1>1
  <2> QED  BY <1>1, <2>1, <2>2, <2>3, <2>4
<1>3. \A i \in DOMAIN todo' : i \in Nat /\ i >= 1 /\ i + 1 \in DOMAIN todo /\ todo'[i] = todo[i + 1]
    BY <1>2
<1>4. \A j \in DOMAIN todo : j # 1 => j - 1 \in DOMAIN todo' /\ todo'[j - 1] = todo[j]
  <2> SUFFICES ASSUME NEW j \in DOMAIN todo, j # 1
               PROVE  j - 1 \in DOMAIN todo' /\ todo'[j - 1] = todo[j]
      OBVIOUS
  <2>1. j - 1 \in 1..Len(todo') /\ (j - 1) + 1 = j  BY <1>2
  <2> QED  BY <1>2, <2>1
<1>5. DOMAIN todo' # {} => LastWork' = LastWork
  <2> SUFFICES ASSUME DOMAIN todo' # {}  PROVE LastWork' = LastWork
      OBVIOUS
  <2>1. Len(todo') \in DOMAIN todo' /\ Len(todo') + 1 = Len(todo)  BY <1>2
  <2>2. todo'[Len(todo')] = todo[Len(todo)]  BY <1>3, <2>1
  <2> QED  BY <2>2 DEF LastWork
<1>6. Len(todo') \in Nat /\ 1 \in DOMAIN todo  BY <1>2
<1> QED  BY <1>2, <1>3, <1>4, <1>5, <1>6

\* Every record was there before, and not in a file that has been dropped.
OldRecords ==
  \A f \in DOMAIN files' : \A r \in DOMAIN (files')[f] :
    \E g \in DOMAIN files : \E q \in DOMAIN files[g] :
      /\ (files')[f][r].id = files[g][q].id /\ (files')[f][r].who = files[g][q].who
      /\ todo[1].do = "drop" => g # 1

(* The order holds for what is left when a write is done.                  *)
LEMMA PoppedOrder ==
  ASSUME Popped, Order, OldRecords, config'.users = config.users, todo[1].do = "wipe" => NoCharge'
  PROVE  Order'
<1>1. /\ DOMAIN todo = 1..Len(todo) /\ DOMAIN todo' = 1..Len(todo')
      /\ Len(todo) \in Nat /\ Len(todo') \in Nat
      /\ \A i \in DOMAIN todo' :
           i \in Nat /\ i >= 1 /\ i + 1 \in DOMAIN todo /\ todo'[i] = todo[i + 1]
      /\ DOMAIN todo' # {} => LastWork' = LastWork
    BY PoppedIs
<1>2. \A i \in DOMAIN todo' : i + 1 # 1 /\ LastWork' = LastWork  BY <1>1
<1>3. SaveComesFirst'
  <2> SUFFICES ASSUME NEW i \in DOMAIN todo'
               PROVE  /\ todo'[i].do # "unlink"
                      /\ todo'[i].do = "rename" => i = 1
      BY DEF SaveComesFirst
  <2>1. /\ i + 1 \in DOMAIN todo /\ todo'[i] = todo[i + 1] /\ i + 1 # 1 /\ i \in Nat  BY <1>1, <1>2
  <2>2. /\ todo[i + 1].do = "unlink" => i + 1 = 1
        /\ todo[i + 1].do = "rename" => i + 1 = 1 \/ i + 1 = 2
      BY <2>1 DEF Order, SaveComesFirst
  <2>3. i + 1 = 2 => i = 1  BY <2>1
  <2> QED  BY <2>1, <2>2, <2>3
<1>4. NamesComeEarly'
  <2> SUFFICES ASSUME NEW i \in DOMAIN todo', todo'[i].do = "name"
               PROVE  /\ User(todo'[i].id, todo'[i].who) \in config.users /\ LastWork'.do = "unblock"
                      /\ \A j \in DOMAIN todo' : j < i =>
                           todo'[j].do \in {"createNames", "unlink", "rename", "name"}
      BY DEF NamesComeEarly, User
  <2>1. i + 1 \in DOMAIN todo /\ todo'[i] = todo[i + 1] /\ i \in Nat /\ LastWork' = LastWork  BY <1>1, <1>2
  <2>2. /\ User(todo[i + 1].id, todo[i + 1].who) \in config.users /\ LastWork.do = "unblock"
        /\ \A j \in DOMAIN todo :
             j < i + 1 => todo[j].do \in {"createNames", "unlink", "rename", "name"}
      BY <2>1 DEF Order, NamesComeEarly
  <2>3. ASSUME NEW j \in DOMAIN todo', j < i
        PROVE  todo'[j].do \in {"createNames", "unlink", "rename", "name"}
    <3>1. j + 1 \in DOMAIN todo /\ todo'[j] = todo[j + 1] /\ j \in Nat  BY <1>1
    <3>2. j + 1 < i + 1  BY <2>1, <2>3, <3>1
    <3> QED  BY <2>2, <3>1, <3>2
  <2> QED  BY <2>1, <2>2, <2>3
<1>5. NewFileIsFilled'
  <2> SUFFICES ASSUME NEW i \in DOMAIN todo', todo'[i].do = "createNames"
               PROVE  FALSE
      BY DEF NewFileIsFilled
  <2>1. i + 1 \in DOMAIN todo /\ todo'[i] = todo[i + 1] /\ i + 1 # 1  BY <1>1, <1>2
  <2> QED  BY <2>1 DEF Order, NewFileIsFilled
<1>6. SearchComesLate'
  <2> SUFFICES ASSUME NEW i \in DOMAIN todo', todo'[i].do = "search"
               PROVE  LastWork'.do = "unblock" /\ \A j \in DOMAIN todo' : j > i => todo'[j].do # "name"
      BY DEF SearchComesLate
  <2>1. i + 1 \in DOMAIN todo /\ todo'[i] = todo[i + 1] /\ i \in Nat /\ LastWork' = LastWork  BY <1>1, <1>2
  <2>2. LastWork.do = "unblock" /\ \A j \in DOMAIN todo : j > i + 1 => todo[j].do # "name"
      BY <2>1 DEF Order, SearchComesLate
  <2>3. ASSUME NEW j \in DOMAIN todo', j > i  PROVE todo'[j].do # "name"
    <3>1. j + 1 \in DOMAIN todo /\ todo'[j] = todo[j + 1] /\ j \in Nat  BY <1>1
    <3>2. j + 1 > i + 1  BY <2>1, <2>3, <3>1
    <3> QED  BY <2>2, <3>1, <3>2
  <2> QED  BY <2>1, <2>2, <2>3
<1>7. FreedAreUnused'
  <2> SUFFICES ASSUME NEW i \in DOMAIN todo', todo'[i].do = "free"
               PROVE  /\ todo'[i].id \in Ids /\ \A u \in config'.users : u.id # todo'[i].id
                      /\ \A f \in DOMAIN files' : todo'[i].id \notin IdsOf((files')[f])
      BY DEF FreedAreUnused, IsUser
  <2>1. i + 1 \in DOMAIN todo /\ todo'[i] = todo[i + 1]  BY <1>1
  <2>2. /\ todo[i + 1].id \in Ids /\ ~IsUser(todo[i + 1].id)
        /\ \A f \in DOMAIN files : todo[i + 1].id \in IdsOf(files[f]) => f = 1 /\ todo[1].do = "drop"
      BY <2>1 DEF Order, FreedAreUnused
  <2>3. \A u \in config'.users : u.id # todo'[i].id  BY <2>1, <2>2 DEF IsUser
  <2>4. ASSUME NEW f \in DOMAIN files', todo'[i].id \in IdsOf((files')[f])  PROVE FALSE
    <3>1. PICK r \in DOMAIN (files')[f] : (files')[f][r].id = todo'[i].id  BY <2>4 DEF IdsOf
    <3>2. PICK g \in DOMAIN files : \E q \in DOMAIN files[g] :
            files[g][q].id = todo'[i].id /\ (todo[1].do = "drop" => g # 1)
        BY <3>1 DEF OldRecords
    <3>3. todo[i + 1].id \in IdsOf(files[g])  BY <2>1, <3>2 DEF IdsOf
    <3> QED  BY <2>2, <3>2, <3>3
  <2> QED  BY <2>1, <2>2, <2>3, <2>4
<1>8. StartsAreOfUsers'
  <2> SUFFICES ASSUME NEW i \in DOMAIN todo', todo'[i].do = "start"
               PROVE  todo'[i].id = 0 \/ User(todo'[i].id, todo'[i].who) \in config.users
      BY DEF StartsAreOfUsers, User
  <2>1. i + 1 \in DOMAIN todo /\ todo'[i] = todo[i + 1]  BY <1>1
  <2> QED  BY <2>1 DEF Order, StartsAreOfUsers
<1>9. WipeComesFirst'
  <2> SUFFICES ASSUME NEW i \in DOMAIN todo', todo'[i].do = "removeNames"
               PROVE  i = 1 /\ NoCharge'
      BY DEF WipeComesFirst
  <2>1. i + 1 \in DOMAIN todo /\ todo'[i] = todo[i + 1] /\ i + 1 # 1 /\ i \in Nat  BY <1>1, <1>2
  <2>2. i + 1 = 2 /\ todo[1].do = "wipe"  BY <2>1 DEF Order, WipeComesFirst
  <2> QED  BY <2>1, <2>2
<1> QED  BY <1>3, <1>4, <1>5, <1>6, <1>7, <1>8, <1>9 DEF Order

(* Without a pending name all users have theirs in the file.               *)
LEMMA UsersNamed ==
  ASSUME ConfigFits, names # NoFile, ~Pending("name")
  PROVE  \A u \in config.users : names[u.id] = u.who
<1>1. \A u : ~NameWaits(u)  BY DEF NameWaits, Pending, Command
<1> QED  BY <1>1 DEF ConfigFits

(* So have the stored ones while no name is being written.                 *)
LEMMA StoredNamed ==
  ASSUME StoredFits, stored # NoFile, names # NoFile, ~Doing("name")
  PROVE  \A u \in stored.users : names[u.id] = u.who
BY DEF StoredFits

(* What was pending still is, unless it has been done.                     *)
LEMMA NameStillWaits ==
  ASSUME Popped, NEW u, NameWaits(u), (names')[u.id] = names[u.id],
         todo[1] # Command("name", u.id, u.who)
  PROVE  NameWaits(u)'
<1>1. PICK i \in DOMAIN todo : todo[i] = Command("name", u.id, u.who)  BY DEF NameWaits
<1>2. i # 1 /\ i - 1 \in DOMAIN todo' /\ todo'[i - 1] = todo[i]  BY <1>1, PoppedIs
<1>3. (names')[u.id] = Anonymous  BY DEF NameWaits
<1> QED  BY <1>1, <1>2, <1>3 DEF NameWaits, Command

(* Once one name is written all others come next.                          *)
LEMMA NameComesNext ==
  ASSUME Popped, Order, todo[1].do \in {"createNames", "rename", "name"},
         NEW i \in DOMAIN todo', todo'[i].do = "name"
  PROVE  Doing("name")'
<1>1. /\ i + 1 \in DOMAIN todo /\ todo'[i] = todo[i + 1] /\ i \in Nat /\ i >= 1
      /\ DOMAIN todo = 1..Len(todo) /\ Len(todo) \in Nat
      /\ DOMAIN todo' = 1..Len(todo') /\ Len(todo') \in Nat
    BY PoppedIs
<1>2. 2 \in DOMAIN todo /\ 1 \in DOMAIN todo'  BY <1>1
<1>3. todo'[1] = todo[2]
  <2>1. todo'[1] = todo[1 + 1]  BY <1>2, PoppedIs
  <2> QED  BY <2>1
<1>4. todo[2].do = "name"
  <2>1. CASE i = 1  BY <1>1, <1>3, <2>1
  <2>2. CASE i # 1
    <3>1. 2 < i + 1  BY <1>1, <2>2
    <3>2. todo[2].do \in {"createNames", "unlink", "rename", "name"}
        BY <1>1, <1>2, <3>1 DEF Order, NamesComeEarly
    <3>3. todo[2].do # "unlink" /\ (todo[2].do = "rename" => todo[1].do = "unlink")
        BY <1>2 DEF Order, SaveComesFirst
    <3>4. todo[2].do # "createNames"  BY <1>2 DEF Order, NewFileIsFilled
    <3> QED  BY <3>2, <3>3, <3>4
  <2> QED  BY <2>1, <2>2
<1>5. todo' # <<>> /\ Head(todo') = todo'[1]
  <2>1. todo' \in Seq(Writes)  BY HeadTailProperties DEF Popped
  <2>2. todo' # <<>>  BY <1>2, <2>1, EmptySeq
  <2> QED  BY <2>1, <2>2
<1> QED  BY <1>3, <1>4, <1>5 DEF Doing

(* A command stays blocked until its last write.                           *)
LEMMA StillUnblocks ==
  ASSUME Popped, LastUnblocks, todo[1].do # "unblock"
  PROVE  LastUnblocks'
<1>1. DOMAIN todo = 1..Len(todo) /\ Len(todo) \in Nat \ {0} /\ Len(todo') = Len(todo) - 1
      /\ DOMAIN todo' = 1..Len(todo')
    BY PoppedIs
<1>2. Len(todo) # 1  BY <1>1 DEF LastUnblocks, LastWork
<1>3. Len(todo') >= 1 /\ DOMAIN todo' # {}  BY <1>1, <1>2
<1>4. LastWork' = LastWork  BY <1>3, PoppedIs
<1>5. todo' # <<>>
  <2>1. todo' \in Seq(Writes)  BY HeadTailProperties DEF Popped
  <2> QED  BY <1>3, <2>1, EmptySeq
<1> QED  BY <1>4, <1>5 DEF LastUnblocks

(* A command that waits still fits if users and next ID are the same.      *)
LEMMA RequestKept ==
  ASSUME RequestFits, request' = request, LastUnblocks => LastUnblocks',
         config'.users = config.users,
         request.do = "add" => LastUnblocks \/ config'.next = config.next
  PROVE  RequestFits'
BY DEF RequestFits, User

(* Neither users nor names change.                                         *)
LEMMA UsersUntouched ==
  ASSUME Popped, ConfigFits, StoredFits, UsersSaved, UNCHANGED <<names, stored, config>>,
         todo[1].do \notin {"name", "unlink"}
  PROVE  ConfigFits' /\ StoredFits' /\ UsersSaved'
<1>1. Head(todo) = todo[1]  BY PoppedIs
<1>2. names' = names /\ stored' = stored /\ config' = config  OBVIOUS
<1>3. \A u : todo[1] # Command("name", u.id, u.who)  BY DEF Command
<1>4. ASSUME NEW u, NameWaits(u)  PROVE NameWaits(u)'  BY <1>2, <1>3, <1>4, NameStillWaits
<1>5. ConfigFits'
  <2>1. Sound(config)'  BY <1>2 DEF ConfigFits, Sound
  <2>2. names # NoFile => NextIsFree(config)'  BY <1>2 DEF ConfigFits, NextIsFree
  <2>3. ASSUME names # NoFile, NEW u \in config.users  PROVE names[u.id] = u.who \/ NameWaits(u)'
      BY <1>4, <2>3 DEF ConfigFits
  <2> QED  BY <1>2, <2>1, <2>2, <2>3 DEF ConfigFits
<1>6. StoredFits'
  <2> SUFFICES ASSUME stored # NoFile
               PROVE  /\ Sound(stored)'
                      /\ names # NoFile => /\ NextIsFree(stored)'
                                           /\ \A u \in stored.users : names[u.id] = u.who
      BY <1>2 DEF StoredFits
  <2>1. Sound(stored)'  BY <1>2 DEF StoredFits, Sound
  <2>2. names # NoFile => NextIsFree(stored)'  BY <1>2 DEF StoredFits, NextIsFree
  <2>3. ~Doing("name")  BY <1>1 DEF Doing
  <2>4. names # NoFile => \A u \in stored.users : names[u.id] = u.who  BY <2>3, StoredNamed
  <2> QED  BY <2>1, <2>2, <2>4
<1>7. UsersSaved'
  <2>1. ~Doing("unlink")  BY <1>1 DEF Doing
  <2> QED  BY <1>2, <2>1 DEF UsersSaved
<1> QED  BY <1>5, <1>6, <1>7

(* Old records under old names are right.                                  *)
LEMMA ChargesKept ==
  ASSUME Charged, OldRecords, names' = names
  PROVE  Charged'
<1> SUFFICES ASSUME NEW f \in DOMAIN files', NEW r \in DOMAIN (files')[f], (files')[f][r].id # 0
             PROVE  /\ names # NoFile /\ names[(files')[f][r].id] = (files')[f][r].who
                    /\ (files')[f][r].who # Anonymous
    BY DEF Charged
<1>1. PICK g \in DOMAIN files : \E q \in DOMAIN files[g] :
        (files')[f][r].id = files[g][q].id /\ (files')[f][r].who = files[g][q].who
    BY DEF OldRecords
<1> QED  BY <1>1 DEF Charged

---------------------------------------------------------------------------
(* A write of the log.                                                     *)

(* The write that is done was the head of todo.                            *)
LEMMA DonePops ==
  ASSUME Inv, NEW do, Doing(do), Done
  PROVE  Popped /\ todo[1].do = do /\ Head(todo) = todo[1] /\ todo[1] \in Writes
<1>1. todo \in Seq(Writes) /\ todo # <<>>  BY DEF Inv, TypeOK, WorkTypes, Doing
<1>2. Popped  BY <1>1 DEF Done, Popped
<1>3. Head(todo) = todo[1] /\ 1 \in DOMAIN todo /\ DOMAIN todo = 1..Len(todo)  BY <1>2, PoppedIs
<1> QED  BY <1>1, <1>2, <1>3, ElementOfSeq DEF Doing

(* A write to the log that adds no record.                                 *)
LEMMA LogStepAccounted ==
  ASSUME Accounted, Popped, OldRecords, UNCHANGED <<names, stored, config, request>>,
         todo[1].do \notin {"name", "unlink", "unblock"}, todo[1].do = "wipe" => NoCharge'
  PROVE  Accounted'
<1>1. ConfigFits' /\ StoredFits' /\ UsersSaved'  BY UsersUntouched DEF Accounted
<1>2. Order'  BY PoppedOrder DEF Accounted
<1>3. RequestFits'
  <2>1. LastUnblocks => LastUnblocks'  BY StillUnblocks
  <2> QED  BY <2>1, RequestKept DEF Accounted
<1>4. Charged'  BY ChargesKept DEF Accounted
<1> QED  BY <1>1, <1>2, <1>3, <1>4 DEF Accounted

(* Files that stay keep their records.                                     *)
LEMMA SameRecords ==
  ASSUME files' = files, todo[1].do # "drop"
  PROVE  OldRecords
BY DEF OldRecords

(* An ID is kept.                                                          *)
LEMMA KeepAccounted ==
  ASSUME Inv, Accounted, KeepId
  PROVE  Accounted'
<1>1. /\ Doing("keep") /\ Done /\ files' = files /\ names' = names /\ stored' = stored
      /\ config' = config /\ request' = request
    BY DEF KeepId, flash
<1>2. Popped /\ todo[1].do = "keep"  BY <1>1, DonePops
<1>3. OldRecords  BY <1>1, <1>2, SameRecords
<1> QED  BY <1>1, <1>2, <1>3, LogStepAccounted

(* The oldest file goes.                                                   *)
LEMMA DropAccounted ==
  ASSUME Inv, Accounted, DropOldest
  PROVE  Accounted'
<1>1. /\ Doing("drop") /\ Done /\ files' = Tail(files) /\ names' = names /\ stored' = stored
      /\ config' = config /\ request' = request
    BY DEF DropOldest
<1>2. Popped /\ todo[1].do = "drop"  BY <1>1, DonePops
<1>3. files \in Seq(Seq(Records)) /\ files # <<>>
  <2>1. files \in Seq(Seq(Records)) /\ Len(files) \in 1..MaxFiles  BY DEF Inv, TypeOK, FileTypes
  <2>2. Len(files) # 0  BY <2>1
  <2> QED  BY <2>1, <2>2, EmptySeq
<1>4. \A f \in DOMAIN files' : f + 1 \in DOMAIN files /\ f + 1 # 1 /\ (files')[f] = files[f + 1]
  <2>1. /\ Tail(files) \in Seq(Seq(Records)) /\ Len(Tail(files)) = Len(files) - 1
        /\ \A f \in 1..Len(Tail(files)) : Tail(files)[f] = files[f + 1]
      BY <1>3, HeadTailProperties
  <2>2. /\ DOMAIN files = 1..Len(files) /\ Len(files) \in Nat
        /\ DOMAIN Tail(files) = 1..Len(Tail(files))
      BY <1>3, <2>1, LenProperties
  <2> QED  BY <1>1, <2>1, <2>2
<1>5. OldRecords  BY <1>4 DEF OldRecords
<1> QED  BY <1>1, <1>2, <1>5, LogStepAccounted

(* A file that is empty adds no record.                                    *)
LEMMA CreateAccounted ==
  ASSUME Inv, Accounted, CreateFile
  PROVE  Accounted'
<1>1. /\ Doing("create") /\ Done /\ files' = Append(files, <<>>) /\ names' = names
      /\ stored' = stored /\ config' = config /\ request' = request
    BY DEF CreateFile
<1>2. Popped /\ todo[1].do = "create"  BY <1>1, DonePops
<1>3. files \in Seq(Seq(Records)) /\ <<>> \in Seq(Records) /\ DOMAIN <<>> = {}
    BY EmptySeq DEF Inv, TypeOK, FileTypes
<1>4. /\ DOMAIN files' = 1..Len(files) + 1 /\ DOMAIN files = 1..Len(files) /\ Len(files) \in Nat
      /\ \A f \in 1..Len(files) : (files')[f] = files[f]
      /\ (files')[Len(files) + 1] = <<>>
  <2>1. /\ Append(files, <<>>) \in Seq(Seq(Records)) /\ Len(Append(files, <<>>)) = Len(files) + 1
        /\ \A f \in 1..Len(files) : Append(files, <<>>)[f] = files[f]
        /\ Append(files, <<>>)[Len(files) + 1] = <<>>
      BY <1>3, AppendProperties
  <2>2. /\ DOMAIN files = 1..Len(files) /\ Len(files) \in Nat
        /\ DOMAIN Append(files, <<>>) = 1..Len(Append(files, <<>>))
      BY <1>3, <2>1, LenProperties
  <2> QED  BY <1>1, <2>1, <2>2
<1>5. \A f \in DOMAIN files' : \A r \in DOMAIN (files')[f] : f \in DOMAIN files /\ (files')[f] = files[f]
    BY <1>3, <1>4
<1>6. OldRecords  BY <1>2, <1>5 DEF OldRecords
<1> QED  BY <1>1, <1>2, <1>6, LogStepAccounted

(* An end leaves ID and person of its record alone.                        *)
LEMMA EndAccounted ==
  ASSUME Inv, Accounted, WriteEnd
  PROVE  Accounted'
<1>1. /\ Doing("end") /\ Done /\ names' = names /\ stored' = stored
      /\ config' = config /\ request' = request
      /\ files' = [files EXCEPT ![Len(files)][Len(LastFile)].ended = TRUE]
    BY DEF WriteEnd
<1>2. Popped /\ todo[1].do = "end"  BY <1>1, DonePops
<1>3. files \in Seq(Seq(Records))  BY DEF Inv, TypeOK, FileTypes
<1>4. ASSUME NEW f \in DOMAIN files, NEW r \in DOMAIN files[f]  PROVE files[f][r] \in Records
  <2>1. DOMAIN files = 1..Len(files) /\ files[f] \in Seq(Records)
      BY <1>3, LenProperties, ElementOfSeq
  <2>2. DOMAIN files[f] = 1..Len(files[f])  BY <2>1, LenProperties
  <2> QED  BY <1>4, <2>1, <2>2, ElementOfSeq
<1>5. /\ DOMAIN files' = DOMAIN files
      /\ \A f \in DOMAIN files : DOMAIN (files')[f] = DOMAIN files[f]
      /\ \A f \in DOMAIN files : \A r \in DOMAIN files[f] :
           \/ (files')[f][r] = files[f][r]
           \/ (files')[f][r] = [files[f][r] EXCEPT !.ended = TRUE]
    BY <1>1
<1>6. \A f \in DOMAIN files : \A r \in DOMAIN files[f] :
        (files')[f][r].id = files[f][r].id /\ (files')[f][r].who = files[f][r].who
  <2> TAKE f \in DOMAIN files
  <2> TAKE r \in DOMAIN files[f]
  <2> DEFINE x == files[f][r]
             y == (files')[f][r]
  <2>1. x \in Records /\ (y = x \/ y = [x EXCEPT !.ended = TRUE])  BY <1>4, <1>5
  <2> HIDE DEF x, y
  <2>2. y.id = x.id /\ y.who = x.who  BY <2>1 DEF Records
  <2> QED  BY <2>2 DEF x, y
<1>7. OldRecords  BY <1>2, <1>5, <1>6 DEF OldRecords
<1> QED  BY <1>1, <1>2, <1>7, LogStepAccounted

(* The log is emptied before the names go.                                 *)
LEMMA WipeAccounted ==
  ASSUME Inv, Accounted, Wipe
  PROVE  Accounted'
<1>1. /\ Doing("wipe") /\ Done /\ files' = <<<<>>>> /\ names' = names /\ stored' = stored
      /\ config' = config /\ request' = request
    BY DEF Wipe
<1>2. Popped /\ todo[1].do = "wipe"  BY <1>1, DonePops
<1>3. DOMAIN files' = {1} /\ (files')[1] = <<>> /\ DOMAIN <<>> = {}  BY <1>1
<1>4. NoCharge' /\ OldRecords  BY <1>3 DEF NoCharge, OldRecords
<1> QED  BY <1>1, <1>2, <1>4, LogStepAccounted

(* A start is charged to a user whose name is in the file.                 *)
LEMMA StartAccounted ==
  ASSUME Inv, Accounted, WriteStart
  PROVE  Accounted'
<1> DEFINE rec == [id |-> Head(todo).id, who |-> Head(todo).who, ended |-> FALSE]
           l == Len(files)
           h == Append(files[l], rec)
<1>1. /\ Doing("start") /\ Done /\ files' = [files EXCEPT ![l] = h] /\ names' = names
      /\ stored' = stored /\ config' = config /\ request' = request
    BY DEF WriteStart
<1>2. Popped /\ todo[1].do = "start" /\ Head(todo) = todo[1]  BY <1>1, DonePops
<1>3. /\ DOMAIN todo = 1..Len(todo) /\ Len(todo) \in Nat /\ 1 \in DOMAIN todo
      /\ DOMAIN todo' = 1..Len(todo') /\ Len(todo') = Len(todo) - 1
    BY <1>2, PoppedIs
<1>4. Len(todo) = 1  BY <1>2, <1>3 DEF Inv, Waits, StartWaits
<1>5. DOMAIN todo = {1} /\ DOMAIN todo' = {}  BY <1>3, <1>4
<1>6. ~Pending("name")  BY <1>2, <1>5 DEF Pending
<1>7. names # NoFile  BY <1>2 DEF Inv, NamesWait
<1>8. \A u \in config.users : names[u.id] = u.who  BY <1>6, <1>7, UsersNamed DEF Accounted
<1>9. ConfigFits' /\ StoredFits' /\ UsersSaved'  BY <1>1, <1>2, UsersUntouched DEF Accounted
<1>10. Order'
    BY <1>5 DEF Order, SaveComesFirst, NamesComeEarly, NewFileIsFilled, SearchComesLate,
       FreedAreUnused, StartsAreOfUsers, WipeComesFirst
<1>11. RequestFits'
  <2>1. LastUnblocks => LastUnblocks'  BY <1>2, StillUnblocks
  <2> QED  BY <1>1, <2>1, RequestKept DEF Accounted
<1>12. rec.id # 0 => names[rec.id] = rec.who /\ rec.who # Anonymous
  <2> SUFFICES ASSUME rec.id # 0  PROVE names[rec.id] = rec.who /\ rec.who # Anonymous
      OBVIOUS
  <2>1. User(todo[1].id, todo[1].who) \in config.users
      BY <1>2, <1>3 DEF Accounted, Order, StartsAreOfUsers
  <2>2. User(rec.id, rec.who) \in config.users /\ User(rec.id, rec.who).id = rec.id
        /\ User(rec.id, rec.who).who = rec.who
      BY <1>2, <2>1 DEF User
  <2>3. names[rec.id] = rec.who  BY <1>8, <2>2
  <2>4. config.users \in SUBSET Accounts  BY DEF Inv, TypeOK, UserTypes, Configs
  <2>5. rec.who \in Persons  BY <2>2, <2>4 DEF Accounts
  <2> QED  BY <2>3, <2>5, LogAssumption
<1>13. files \in Seq(Seq(Records)) /\ l \in Nat \ {0} /\ DOMAIN files = 1..l
  <2>1. files \in Seq(Seq(Records)) /\ Len(files) \in 1..MaxFiles  BY DEF Inv, TypeOK, FileTypes
  <2> QED  BY <2>1, LenProperties
<1>14. files[l] \in Seq(Records) /\ rec \in Records
  <2>1. l \in 1..l  BY <1>13
  <2>2. Head(todo) \in Writes  BY <1>1, <1>2, DonePops
  <2>3. rec \in Records  BY <2>2 DEF Writes, Records
  <2> QED  BY <1>13, <2>1, <2>3, ElementOfSeq
<1> HIDE DEF rec
<1>15. \A r \in DOMAIN h : h[r] = rec \/ (r \in DOMAIN files[l] /\ h[r] = files[l][r])
  <2>1. /\ h \in Seq(Records) /\ Len(h) = Len(files[l]) + 1
        /\ \A r \in 1..Len(files[l]) : h[r] = files[l][r]
        /\ h[Len(files[l]) + 1] = rec
      BY <1>14, AppendProperties
  <2>2. DOMAIN h = 1..Len(h) /\ DOMAIN files[l] = 1..Len(files[l]) /\ Len(files[l]) \in Nat
      BY <1>14, <2>1, LenProperties
  <2> QED  BY <2>1, <2>2
<1> HIDE DEF h
<1>16. Charged'
  <2> SUFFICES ASSUME NEW f \in DOMAIN files', NEW r \in DOMAIN (files')[f], (files')[f][r].id # 0
               PROVE  names[(files')[f][r].id] = (files')[f][r].who /\ (files')[f][r].who # Anonymous
      BY <1>1, <1>7 DEF Charged
  <2>1. f \in DOMAIN files /\ (files')[f] = IF f = l THEN h ELSE files[f]  BY <1>1
  <2>2. \/ (files')[f][r] = rec
        \/ r \in DOMAIN files[f] /\ (files')[f][r] = files[f][r]
      BY <1>15, <2>1
  <2>3. CASE (files')[f][r] = rec  BY <1>12, <2>3
  <2>4. CASE r \in DOMAIN files[f] /\ (files')[f][r] = files[f][r]
      BY <2>1, <2>4 DEF Accounted, Charged
  <2> QED  BY <2>2, <2>3, <2>4
<1> QED  BY <1>9, <1>10, <1>11, <1>16 DEF Accounted

---------------------------------------------------------------------------
(* A write of the users.                                                   *)

(* Without a stored configuration a boot knows no user.                    *)
LEMMA UnlinkAccounted ==
  ASSUME Inv, Accounted, UnlinkConfig
  PROVE  Accounted'
<1>1. /\ Doing("unlink") /\ Done /\ files' = files /\ names' = names /\ stored' = NoFile
      /\ config' = config /\ request' = request
    BY DEF UnlinkConfig
<1>2. Popped /\ todo[1].do = "unlink"  BY <1>1, DonePops
<1>3. OldRecords  BY <1>1, <1>2, SameRecords
<1>4. ConfigFits'
  <2>1. Sound(config)'  BY <1>1 DEF Accounted, ConfigFits, Sound
  <2>2. names # NoFile => NextIsFree(config)'  BY <1>1 DEF Accounted, ConfigFits, NextIsFree
  <2>3. ASSUME names # NoFile, NEW u \in config.users, NameWaits(u)  PROVE NameWaits(u)'
    <3>1. todo[1] # Command("name", u.id, u.who)  BY <1>2 DEF Command
    <3> QED  BY <1>1, <1>2, <2>3, <3>1, NameStillWaits
  <2> QED  BY <1>1, <2>1, <2>2, <2>3 DEF Accounted, ConfigFits
<1>5. StoredFits' /\ UsersSaved'  BY <1>1 DEF StoredFits, UsersSaved
<1>6. Order'  BY <1>1, <1>2, <1>3, PoppedOrder DEF Accounted
<1>7. RequestFits'
  <2>1. LastUnblocks => LastUnblocks'  BY <1>2, StillUnblocks
  <2> QED  BY <1>1, <2>1, RequestKept DEF Accounted
<1>8. Charged'  BY <1>1, <1>3, ChargesKept DEF Accounted
<1> QED  BY <1>4, <1>5, <1>6, <1>7, <1>8 DEF Accounted

(* The users are stored; names that wait are written next.                 *)
LEMMA RenameAccounted ==
  ASSUME Inv, Accounted, RenameConfig
  PROVE  Accounted'
<1>1. /\ Doing("rename") /\ Done /\ files' = files /\ names' = names /\ stored' = config
      /\ config' = config /\ request' = request
    BY DEF RenameConfig
<1>2. Popped /\ todo[1].do = "rename"  BY <1>1, DonePops
<1>3. OldRecords  BY <1>1, <1>2, SameRecords
<1>4. Sound(config)' /\ (names # NoFile => NextIsFree(config)')
    BY <1>1 DEF Accounted, ConfigFits, Sound, NextIsFree
<1>5. ASSUME names # NoFile, NEW u \in config.users, NameWaits(u)
      PROVE  NameWaits(u)' /\ Doing("name")'
  <2>1. todo[1] # Command("name", u.id, u.who)  BY <1>2 DEF Command
  <2>2. NameWaits(u)'  BY <1>1, <1>2, <1>5, <2>1, NameStillWaits
  <2>3. PICK i \in DOMAIN todo' : todo'[i].do = "name"  BY <2>2 DEF NameWaits, Command
  <2> QED  BY <1>2, <2>2, <2>3, NameComesNext DEF Accounted
<1>6. ConfigFits'  BY <1>1, <1>4, <1>5 DEF Accounted, ConfigFits
<1>7. StoredFits'
  <2>1. Sound(stored)' /\ (names # NoFile => NextIsFree(stored)')
      BY <1>1, <1>4 DEF Sound, NextIsFree
  <2> QED  BY <1>1, <1>5, <2>1 DEF Accounted, ConfigFits, StoredFits
<1>8. UsersSaved'  BY <1>1 DEF UsersSaved
<1>9. Order'  BY <1>1, <1>2, <1>3, PoppedOrder DEF Accounted
<1>10. RequestFits'
  <2>1. LastUnblocks => LastUnblocks'  BY <1>2, StillUnblocks
  <2> QED  BY <1>1, <2>1, RequestKept DEF Accounted
<1>11. Charged'  BY <1>1, <1>3, ChargesKept DEF Accounted
<1> QED  BY <1>6, <1>7, <1>8, <1>9, <1>10, <1>11 DEF Accounted

(* The last write of a command.                                            *)
LEMMA UnblockAccounted ==
  ASSUME Inv, Accounted, Unblock
  PROVE  Accounted'
<1>1. /\ Doing("unblock") /\ Done /\ files' = files /\ names' = names /\ stored' = stored
      /\ config' = config /\ request' = NoRequest
    BY DEF Unblock, flash
<1>2. Popped /\ todo[1].do = "unblock"  BY <1>1, DonePops
<1>3. OldRecords  BY <1>1, <1>2, SameRecords
<1>4. ConfigFits' /\ StoredFits' /\ UsersSaved'  BY <1>1, <1>2, UsersUntouched DEF Accounted
<1>5. Order'  BY <1>1, <1>2, <1>3, PoppedOrder DEF Accounted
<1>6. RequestFits'  BY <1>1 DEF RequestFits, NoRequest, Command
<1>7. Charged'  BY <1>1, <1>3, ChargesKept DEF Accounted
<1> QED  BY <1>4, <1>5, <1>6, <1>7 DEF Accounted

(* Every record has its type.                                              *)
LEMMA RecordsTyped ==
  ASSUME Inv, NEW f \in DOMAIN files, NEW r \in DOMAIN files[f]
  PROVE  files[f][r] \in Records
<1>1. files \in Seq(Seq(Records))  BY DEF Inv, TypeOK, FileTypes
<1>2. DOMAIN files = 1..Len(files) /\ files[f] \in Seq(Records)
    BY <1>1, LenProperties, ElementOfSeq
<1>3. DOMAIN files[f] = 1..Len(files[f])  BY <1>2, LenProperties
<1> QED  BY <1>2, <1>3, ElementOfSeq

(* IDs and persons of all users have theirs.                               *)
LEMMA UsersTyped ==
  ASSUME Inv
  PROVE  /\ names \in [Ids -> Persons \union {Anonymous}] \/ names = NoFile
         /\ \A u \in config.users : u.id \in Ids /\ u.who \in Persons /\ u.who # Anonymous
         /\ stored # NoFile => \A u \in stored.users : u.id \in Ids /\ u.who \in Persons
         /\ config.next # 0 => config.next \in Ids
         /\ stored # NoFile /\ stored.next # 0 => stored.next \in Ids
<1>1. /\ names \in [Ids -> Persons \union {Anonymous}] \union {NoFile}
      /\ stored \in Configs \union {NoFile} /\ config \in Configs
    BY DEF Inv, TypeOK, UserTypes
<1>2. \A k \in 0..MaxId : k # 0 => k \in Ids  BY LogAssumption DEF Ids
<1>3. config.users \in SUBSET Accounts /\ config.next \in 0..MaxId  BY <1>1 DEF Configs
<1>4. stored # NoFile => stored.users \in SUBSET Accounts /\ stored.next \in 0..MaxId
    BY <1>1 DEF Configs
<1>5. \A u \in Accounts : u.id \in Ids /\ u.who \in Persons /\ u.who # Anonymous
    BY LogAssumption DEF Accounts
<1> QED  BY <1>1, <1>2, <1>3, <1>4, <1>5

(* The entry that gets a name was free, or it had that name.               *)
LEMMA NameAccounted ==
  ASSUME Inv, Accounted, WriteName
  PROVE  Accounted'
<1> DEFINE k == todo[1].id
           w == todo[1].who
           me == User(k, w)
<1>1. /\ Doing("name") /\ Done /\ files' = files /\ stored' = stored
      /\ config' = config /\ request' = request
      /\ names' = [names EXCEPT ![Head(todo).id] = Head(todo).who]
    BY DEF WriteName
<1>2. Popped /\ todo[1].do = "name" /\ Head(todo) = todo[1]  BY <1>1, DonePops
<1>3. 1 \in DOMAIN todo  BY <1>2, PoppedIs
<1>4. me \in config.users /\ me.id = k /\ me.who = w
    BY <1>2, <1>3 DEF Accounted, Order, NamesComeEarly, User
<1>5. k \in Ids /\ w \in Persons /\ w # Anonymous  BY <1>4, UsersTyped
<1>6. names # NoFile /\ names \in [Ids -> Persons \union {Anonymous}]
  <2>1. names # NoFile  BY <1>2 DEF Inv, NamesWait
  <2> QED  BY <2>1, UsersTyped
<1>7. /\ names' = [names EXCEPT ![k] = w] /\ names' # NoFile
      /\ \A x \in Ids : (names')[x] = IF x = k THEN w ELSE names[x]
  <2>1. names' = [names EXCEPT ![k] = w]  BY <1>1, <1>2
  <2>2. names' \in [Ids -> Persons \union {Anonymous}]  BY <1>5, <1>6, <2>1
  <2> QED  BY <1>5, <1>6, <2>1, <2>2, SomeTypes
<1>8. names[k] \in {w, Anonymous}
    BY <1>4, <1>6 DEF Accounted, ConfigFits, NameWaits
<1>9. \A u \in config.users : u.id = k => u.who = w
    BY <1>4 DEF Accounted, ConfigFits, Sound
<1>10. todo[1] = Command("name", k, w)  BY <1>1, <1>2, DonePops DEF Writes, Command
<1> HIDE DEF k, w, me
<1>11. ASSUME NEW u \in config.users
       PROVE  (names')[u.id] = u.who \/ (NameWaits(u)' /\ Doing("name")')
  <2>1. CASE u.id = k  BY <1>5, <1>7, <1>9, <2>1
  <2>2. CASE u.id # k
    <3>1. (names')[u.id] = names[u.id]  BY <1>7, <1>11, <2>2, UsersTyped
    <3>2. CASE names[u.id] = u.who  BY <3>1, <3>2
    <3>3. CASE NameWaits(u)
      <4>1. todo[1] # Command("name", u.id, u.who)  BY <1>10, <2>2 DEF Command
      <4>2. NameWaits(u)'  BY <1>2, <3>1, <3>3, <4>1, NameStillWaits
      <4>3. PICK i \in DOMAIN todo' : todo'[i].do = "name"  BY <4>2 DEF NameWaits, Command
      <4> QED  BY <1>2, <4>2, <4>3, NameComesNext DEF Accounted
    <3> QED  BY <1>6, <3>2, <3>3 DEF Accounted, ConfigFits
  <2> QED  BY <2>1, <2>2
<1>12. ConfigFits'
  <2>1. Sound(config)'  BY <1>1 DEF Accounted, ConfigFits, Sound
  <2>2. config.next # k  BY <1>4 DEF Accounted, ConfigFits, Sound
  <2>3. NextIsFree(config)'
      BY <1>1, <1>6, <1>7, <2>2, UsersTyped DEF Accounted, ConfigFits, NextIsFree
  <2> QED  BY <1>1, <1>11, <2>1, <2>3 DEF ConfigFits
<1>13. stored = NoFile \/ stored.users = config.users
  <2>1. ~Doing("unlink")  BY <1>2 DEF Doing
  <2> QED  BY <2>1 DEF Accounted, UsersSaved
<1>14. StoredFits'
  <2> SUFFICES ASSUME stored # NoFile
               PROVE  /\ Sound(stored)' /\ NextIsFree(stored)'
                      /\ \A u \in stored.users :
                           (names')[u.id] = u.who \/ (Doing("name")' /\ NameWaits(u)')
      BY <1>1 DEF StoredFits
  <2>1. Sound(stored)'  BY <1>1 DEF Accounted, StoredFits, Sound
  <2>2. stored.next # k  BY <1>4, <1>13 DEF Accounted, StoredFits, Sound
  <2>3. NextIsFree(stored)'
      BY <1>1, <1>6, <1>7, <2>2, UsersTyped DEF Accounted, StoredFits, NextIsFree
  <2> QED  BY <1>11, <1>13, <2>1, <2>3
<1>15. UsersSaved'  BY <1>1, <1>13 DEF UsersSaved
<1>16. OldRecords  BY <1>1, <1>2, SameRecords
<1>17. Order'  BY <1>1, <1>2, <1>16, PoppedOrder DEF Accounted
<1>18. RequestFits'
  <2>1. LastUnblocks => LastUnblocks'  BY <1>2, StillUnblocks
  <2> QED  BY <1>1, <2>1, RequestKept DEF Accounted
<1>19. Charged'
  <2> SUFFICES ASSUME NEW f \in DOMAIN files, NEW r \in DOMAIN files[f], files[f][r].id # 0
               PROVE  (names')[files[f][r].id] = files[f][r].who /\ files[f][r].who # Anonymous
      BY <1>1, <1>7 DEF Charged
  <2> DEFINE x == files[f][r].id
  <2>1. names[x] = files[f][r].who /\ files[f][r].who # Anonymous  BY DEF Accounted, Charged
  <2>2. x \in Ids
    <3>1. x \in 0..MaxId  BY RecordsTyped DEF Records
    <3> QED  BY <3>1, LogAssumption DEF Ids
  <2> HIDE DEF x
  <2>3. (names')[x] = names[x]  BY <1>7, <1>8, <2>1, <2>2
  <2> QED  BY <2>1, <2>3 DEF x
<1> QED  BY <1>12, <1>14, <1>15, <1>17, <1>18, <1>19 DEF Accounted

(* The file of names goes when no charge needs it.                         *)
LEMMA RemoveNamesAccounted ==
  ASSUME Inv, Accounted, RemoveNames
  PROVE  Accounted'
<1>1. /\ Doing("removeNames") /\ Done /\ files' = files /\ names' = NoFile /\ stored' = stored
      /\ config' = config /\ request' = request
    BY DEF RemoveNames
<1>2. Popped /\ todo[1].do = "removeNames"  BY <1>1, DonePops
<1>3. OldRecords  BY <1>1, <1>2, SameRecords
<1>4. ConfigFits' /\ StoredFits'
    BY <1>1 DEF Accounted, ConfigFits, StoredFits, Sound
<1>5. UsersSaved'
  <2>1. ~Doing("unlink")  BY <1>2, DonePops, <1>1 DEF Doing
  <2> QED  BY <1>1, <2>1 DEF Accounted, UsersSaved
<1>6. Order'  BY <1>1, <1>2, <1>3, PoppedOrder DEF Accounted
<1>7. RequestFits'
  <2>1. LastUnblocks => LastUnblocks'  BY <1>2, StillUnblocks
  <2> QED  BY <1>1, <2>1, RequestKept DEF Accounted
<1>8. NoCharge
  <2>1. 1 \in DOMAIN todo  BY <1>2, PoppedIs
  <2> QED  BY <1>2, <2>1 DEF Accounted, Order, WipeComesFirst
<1>9. Charged'
  <2>1. DOMAIN <<>> = {}  OBVIOUS
  <2> QED  BY <1>1, <1>8, <2>1 DEF Charged, NoCharge
<1> QED  BY <1>4, <1>5, <1>6, <1>7, <1>9 DEF Accounted

(* A new file: all names are pending.                                      *)
LEMMA CreateNamesAccounted ==
  ASSUME Inv, Accounted, CreateNames
  PROVE  Accounted'
<1>1. /\ Doing("createNames") /\ Done /\ files' = files /\ stored' = stored
      /\ config' = config /\ request' = request
      /\ names' = [id \in Ids |-> Anonymous]
    BY DEF CreateNames
<1>2. Popped /\ todo[1].do = "createNames" /\ Head(todo) = todo[1]  BY <1>1, DonePops
<1>3. /\ names = NoFile
      /\ \A u \in config.users : \E j \in DOMAIN todo : todo[j] = Command("name", u.id, u.who)
  <2>1. 1 \in DOMAIN todo  BY <1>2, PoppedIs
  <2> QED  BY <1>2, <2>1 DEF Accounted, Order, NewFileIsFilled
<1>4. names' # NoFile /\ \A x \in Ids : (names')[x] = Anonymous
  <2>1. names' \in [Ids -> Persons \union {Anonymous}]  BY <1>1
  <2> QED  BY <1>1, <2>1, SomeTypes
<1>5. ASSUME NEW u \in config.users  PROVE NameWaits(u)' /\ Doing("name")'
  <2>1. PICK j \in DOMAIN todo : todo[j] = Command("name", u.id, u.who)  BY <1>3
  <2>2. j # 1  BY <1>2, <2>1 DEF Command
  <2>3. j - 1 \in DOMAIN todo' /\ todo'[j - 1] = Command("name", u.id, u.who)
      BY <1>2, <2>1, <2>2, PoppedIs
  <2>4. (names')[u.id] = Anonymous  BY <1>4, UsersTyped
  <2>5. NameWaits(u)'  BY <2>3, <2>4 DEF NameWaits, Command
  <2>6. todo'[j - 1].do = "name"  BY <2>3 DEF Command
  <2> QED  BY <1>2, <2>3, <2>5, <2>6, NameComesNext DEF Accounted
<1>6. ConfigFits'
  <2>1. Sound(config)'  BY <1>1 DEF Accounted, ConfigFits, Sound
  <2>2. NextIsFree(config)'  BY <1>1, <1>4, UsersTyped DEF NextIsFree
  <2> QED  BY <1>1, <1>5, <2>1, <2>2 DEF ConfigFits
<1>7. stored = NoFile \/ stored.users = config.users
  <2>1. ~Doing("unlink")  BY <1>2 DEF Doing
  <2> QED  BY <2>1 DEF Accounted, UsersSaved
<1>8. StoredFits'
  <2> SUFFICES ASSUME stored # NoFile
               PROVE  /\ Sound(stored)' /\ NextIsFree(stored)'
                      /\ \A u \in stored.users : Doing("name")' /\ NameWaits(u)'
      BY <1>1 DEF StoredFits
  <2>1. Sound(stored)'  BY <1>1 DEF Accounted, StoredFits, Sound
  <2>2. NextIsFree(stored)'  BY <1>1, <1>4, UsersTyped DEF NextIsFree
  <2> QED  BY <1>5, <1>7, <2>1, <2>2
<1>9. UsersSaved'  BY <1>1, <1>7 DEF UsersSaved
<1>10. OldRecords  BY <1>1, <1>2, SameRecords
<1>11. Order'  BY <1>1, <1>2, <1>10, PoppedOrder DEF Accounted
<1>12. RequestFits'
  <2>1. LastUnblocks => LastUnblocks'  BY <1>2, StillUnblocks
  <2> QED  BY <1>1, <2>1, RequestKept DEF Accounted
<1>13. Charged'  BY <1>1, <1>3 DEF Accounted, Charged
<1> QED  BY <1>6, <1>8, <1>9, <1>11, <1>12, <1>13 DEF Accounted

(* The search finds an ID that no user and no charge has.                  *)
LEMMA SearchAccounted ==
  ASSUME Inv, Accounted, SearchNext
  PROVE  Accounted'
<1>1. /\ Doing("search") /\ Done /\ files' = files /\ names' = names /\ stored' = stored
      /\ config' = [config EXCEPT !.next = NextFree(0)] /\ request' = request
    BY DEF SearchNext, flash
<1>2. Popped /\ todo[1].do = "search" /\ Head(todo) = todo[1]  BY <1>1, DonePops
<1>3. LastWork.do = "unblock" /\ ~Pending("name")
  <2>1. 1 \in DOMAIN todo /\ DOMAIN todo = 1..Len(todo)  BY <1>2, PoppedIs
  <2>2. LastWork.do = "unblock" /\ \A j \in DOMAIN todo : j > 1 => todo[j].do # "name"
      BY <1>2, <2>1 DEF Accounted, Order, SearchComesLate
  <2>3. \A j \in DOMAIN todo : j = 1 \/ j > 1  BY <2>1
  <2> QED  BY <1>2, <2>2, <2>3 DEF Pending
<1>4. names # NoFile  BY <1>2 DEF Inv, NamesWait
<1>5. \A u \in config.users : names[u.id] = u.who  BY <1>3, <1>4, UsersNamed DEF Accounted
<1>6. config'.users = config.users /\ config'.next = NextFree(0)
    BY <1>1 DEF Inv, TypeOK, UserTypes, Configs
<1>7. config'.next # 0 => config'.next \in Ids /\ names[config'.next] = Anonymous
    BY <1>6, NextFreeTyped, SomeTypes
<1>8. ConfigFits'
  <2>1. ASSUME NEW u \in config.users  PROVE u.id # config'.next
    <3>1. u.id \in Ids /\ u.who # Anonymous /\ names[u.id] = u.who  BY <1>5, UsersTyped
    <3>2. u.id # 0  BY <3>1, LogAssumption DEF Ids
    <3> QED  BY <1>7, <3>1, <3>2
  <2>2. Sound(config)'  BY <1>6, <2>1 DEF Accounted, ConfigFits, Sound
  <2>3. NextIsFree(config)'  BY <1>1, <1>7 DEF NextIsFree
  <2> QED  BY <1>1, <1>5, <1>6, <2>2, <2>3 DEF ConfigFits
<1>9. StoredFits'
  <2> SUFFICES ASSUME stored # NoFile
               PROVE  /\ Sound(stored)' /\ NextIsFree(stored)'
                      /\ \A u \in stored.users : names[u.id] = u.who
      BY <1>1 DEF StoredFits
  <2>1. Sound(stored)' /\ NextIsFree(stored)'
      BY <1>1, <1>4 DEF Accounted, StoredFits, Sound, NextIsFree
  <2>2. ~Doing("name")  BY <1>2 DEF Doing
  <2> QED  BY <1>4, <2>1, <2>2, StoredNamed DEF Accounted
<1>10. UsersSaved'
  <2>1. ~Doing("unlink")  BY <1>2 DEF Doing
  <2> QED  BY <1>1, <1>6, <2>1 DEF Accounted, UsersSaved
<1>11. OldRecords  BY <1>1, <1>2, SameRecords
<1>12. Order'  BY <1>2, <1>6, <1>11, PoppedOrder DEF Accounted
<1>13. RequestFits'
  <2>1. LastUnblocks  BY <1>2, <1>3 DEF LastUnblocks, Popped
  <2>2. LastUnblocks'  BY <1>2, <2>1, StillUnblocks
  <2> QED  BY <2>2 DEF RequestFits
<1>14. Charged'  BY <1>1, <1>11, ChargesKept DEF Accounted
<1> QED  BY <1>8, <1>9, <1>10, <1>12, <1>13, <1>14 DEF Accounted

(* The writes of a save come before the rest.                              *)
LEMMA SavedRest ==
  ASSUME todo \in Seq(Writes), todo # <<>>, todo' = Save \o Tail(todo)
  PROVE  /\ Len(todo) \in Nat \ {0} /\ Len(todo') = Len(todo) + 1
         /\ DOMAIN todo = 1..Len(todo) /\ DOMAIN todo' = 1..Len(todo) + 1
         /\ todo'[1].do = "unlink" /\ todo'[2].do = "rename"
         /\ \A i \in DOMAIN todo' : i # 1 /\ i # 2 =>
              i - 1 \in DOMAIN todo /\ i - 1 >= 2 /\ todo'[i] = todo[i - 1]
         /\ Len(todo) >= 2 => LastWork' = LastWork
         /\ todo' # <<>> /\ Head(todo') = todo'[1]
<1> DEFINE t == Tail(todo)
           n == Len(todo)
<1>1. /\ t \in Seq(Writes) /\ Len(t) = n - 1
      /\ \A i \in 1..Len(t) : t[i] = todo[i + 1]
    BY HeadTailProperties
<1>2. n \in Nat \ {0} /\ DOMAIN todo = 1..n  BY LenProperties, EmptySeq
<1> HIDE DEF t, n
<1>3. /\ todo' \in Seq(Writes) /\ Len(todo') = Len(Save) + Len(t)
      /\ DOMAIN todo' = 1..Len(Save) + Len(t)
      /\ \A i \in 1..Len(Save) : todo'[i] = Save[i]
      /\ \A i \in 1..Len(t) : todo'[Len(Save) + i] = t[i]
  <2>1. todo' = Save \o t  BY DEF t
  <2>2. Save \in Seq(Writes)  BY SaveTyped
  <2>3. /\ Save \o t \in Seq(Writes) /\ Len(Save \o t) = Len(Save) + Len(t)
        /\ DOMAIN (Save \o t) = 1..Len(Save) + Len(t)
        /\ \A i \in 1..Len(Save) : (Save \o t)[i] = Save[i]
        /\ \A i \in 1..Len(t) : (Save \o t)[Len(Save) + i] = t[i]
      BY <1>1, <2>2, WorkAfter
  <2> DEFINE s == Save \o t
  <2> HIDE DEF s
  <2>4. todo' = s  BY <2>1 DEF s
  <2>5. /\ s \in Seq(Writes) /\ Len(s) = Len(Save) + Len(t)
        /\ DOMAIN s = 1..Len(Save) + Len(t)
        /\ \A i \in 1..Len(Save) : s[i] = Save[i]
        /\ \A i \in 1..Len(t) : s[Len(Save) + i] = t[i]
      BY <2>3 DEF s
  <2> QED  BY <2>4, <2>5
<1>4. Len(Save) = 2 /\ Save[1].do = "unlink" /\ Save[2].do = "rename"  BY SaveTyped
<1>5. Len(todo') = n + 1 /\ DOMAIN todo' = 1..n + 1  BY <1>1, <1>2, <1>3, <1>4
<1>6. todo'[1].do = "unlink" /\ todo'[2].do = "rename"
  <2>1. 1 \in 1..2 /\ 2 \in 1..2  OBVIOUS
  <2> QED  BY <1>3, <1>4, <2>1
<1>7. \A i \in DOMAIN todo' : i # 1 /\ i # 2 =>
        i - 1 \in 1..n /\ i - 1 >= 2 /\ todo'[i] = todo[i - 1]
  <2> SUFFICES ASSUME NEW i \in 1..n + 1, i # 1, i # 2
               PROVE  i - 1 \in 1..n /\ i - 1 >= 2 /\ todo'[i] = todo[i - 1]
      BY <1>5
  <2>1. i - 2 \in 1..Len(t) /\ 2 + (i - 2) = i /\ (i - 2) + 1 = i - 1  BY <1>1, <1>2
  <2>2. todo'[2 + (i - 2)] = t[i - 2] /\ t[i - 2] = todo[(i - 2) + 1]  BY <1>1, <1>3, <1>4, <2>1
  <2>3. i - 1 \in 1..n /\ i - 1 >= 2  BY <1>2
  <2> QED  BY <2>1, <2>2, <2>3
<1>8. n >= 2 => LastWork' = LastWork
  <2> SUFFICES ASSUME n >= 2  PROVE LastWork' = LastWork
      OBVIOUS
  <2>1. n + 1 \in DOMAIN todo' /\ n + 1 # 1 /\ n + 1 # 2 /\ (n + 1) - 1 = n  BY <1>2, <1>5
  <2>2. todo'[n + 1] = todo[n]  BY <1>7, <2>1
  <2> QED  BY <1>5, <2>2 DEF LastWork, n
<1>9. todo' # <<>> /\ Head(todo') = todo'[1]
  <2>1. todo' # <<>>  BY <1>2, <1>3, <1>5, EmptySeq
  <2> QED  BY <1>3, <2>1
<1> QED  BY <1>2, <1>5, <1>6, <1>7, <1>8, <1>9 DEF n

(* A save before the rest, when an ID has been freed.                      *)
LEMMA SavedOrder ==
  ASSUME todo \in Seq(Writes), todo # <<>>, todo' = Save \o Tail(todo), todo[1].do = "free",
         Order, files' = files, config'.users = config.users
  PROVE  Order'
<1>1. /\ Len(todo) \in Nat \ {0} /\ Len(todo') = Len(todo) + 1
      /\ DOMAIN todo = 1..Len(todo) /\ DOMAIN todo' = 1..Len(todo) + 1
      /\ todo'[1].do = "unlink" /\ todo'[2].do = "rename"
      /\ \A i \in DOMAIN todo' : i # 1 /\ i # 2 =>
           i - 1 \in DOMAIN todo /\ i - 1 >= 2 /\ todo'[i] = todo[i - 1]
      /\ Len(todo) >= 2 => LastWork' = LastWork
    BY SavedRest
<1>2. 1 \in DOMAIN todo  BY <1>1
<1>3. ASSUME NEW i \in DOMAIN todo', todo'[i].do \notin {"unlink", "rename"}
      PROVE  /\ i - 1 \in DOMAIN todo /\ i - 1 # 1 /\ i - 1 > 1 /\ todo'[i] = todo[i - 1]
             /\ LastWork' = LastWork
  <2>1. i # 1 /\ i # 2  BY <1>1, <1>3
  <2>2. i - 1 \in DOMAIN todo /\ i - 1 >= 2 /\ todo'[i] = todo[i - 1]  BY <1>1, <2>1
  <2>3. Len(todo) >= 2 /\ i - 1 # 1 /\ i - 1 > 1  BY <1>1, <2>2
  <2> QED  BY <1>1, <2>2, <2>3
<1>4. SaveComesFirst'
  <2>1. ASSUME NEW i \in DOMAIN todo', i # 1, i # 2
        PROVE  todo'[i].do # "unlink" /\ todo'[i].do # "rename"
    <3>1. i - 1 \in DOMAIN todo /\ i - 1 >= 2 /\ todo'[i] = todo[i - 1]  BY <1>1, <2>1
    <3>2. i - 1 # 1  BY <1>1, <3>1
    <3> QED  BY <3>1, <3>2 DEF Order, SaveComesFirst
  <2>2. Len(todo') >= 2  BY <1>1
  <2> QED  BY <1>1, <2>1, <2>2 DEF SaveComesFirst
<1>5. \A i \in DOMAIN todo' : todo'[i].do # "name"
  <2> SUFFICES ASSUME NEW i \in DOMAIN todo', todo'[i].do = "name"  PROVE FALSE
      OBVIOUS
  <2>1. i - 1 \in DOMAIN todo /\ i - 1 > 1 /\ todo[i - 1].do = "name"  BY <1>3
  <2> QED  BY <1>2, <2>1 DEF Order, NamesComeEarly
<1>6. NamesComeEarly'  BY <1>5 DEF NamesComeEarly
<1>7. NewFileIsFilled'
  <2> SUFFICES ASSUME NEW i \in DOMAIN todo', todo'[i].do = "createNames"  PROVE FALSE
      BY DEF NewFileIsFilled
  <2>1. i - 1 \in DOMAIN todo /\ i - 1 # 1 /\ todo[i - 1].do = "createNames"  BY <1>3
  <2> QED  BY <2>1 DEF Order, NewFileIsFilled
<1>8. SearchComesLate'
  <2> SUFFICES ASSUME NEW i \in DOMAIN todo', todo'[i].do = "search"
               PROVE  LastWork'.do = "unblock"
      BY <1>5 DEF SearchComesLate
  <2>1. i - 1 \in DOMAIN todo /\ todo[i - 1].do = "search" /\ LastWork' = LastWork  BY <1>3
  <2> QED  BY <2>1 DEF Order, SearchComesLate
<1>9. FreedAreUnused'
  <2> SUFFICES ASSUME NEW i \in DOMAIN todo', todo'[i].do = "free"
               PROVE  /\ todo'[i].id \in Ids /\ \A u \in config.users : u.id # todo'[i].id
                      /\ \A f \in DOMAIN files : todo'[i].id \notin IdsOf(files[f])
      BY DEF FreedAreUnused, IsUser, IdsOf
  <2>1. i - 1 \in DOMAIN todo /\ todo'[i] = todo[i - 1]  BY <1>3
  <2> QED  BY <2>1 DEF Order, FreedAreUnused, IsUser
<1>10. StartsAreOfUsers'
  <2> SUFFICES ASSUME NEW i \in DOMAIN todo', todo'[i].do = "start"
               PROVE  todo'[i].id = 0 \/ User(todo'[i].id, todo'[i].who) \in config.users
      BY DEF StartsAreOfUsers, User
  <2>1. i - 1 \in DOMAIN todo /\ todo'[i] = todo[i - 1]  BY <1>3
  <2> QED  BY <2>1 DEF Order, StartsAreOfUsers
<1>11. WipeComesFirst'
  <2> SUFFICES ASSUME NEW i \in DOMAIN todo', todo'[i].do = "removeNames"  PROVE FALSE
      BY DEF WipeComesFirst
  <2>1. i - 1 \in DOMAIN todo /\ i - 1 # 1 /\ todo[i - 1].do = "removeNames"  BY <1>3
  <2> QED  BY <2>1 DEF Order, WipeComesFirst
<1> QED  BY <1>4, <1>6, <1>7, <1>8, <1>9, <1>10, <1>11 DEF Order

(* A freed ID was that of no user and of no charge.                        *)
LEMMA FreeAccounted ==
  ASSUME Inv, Accounted, FreeId
  PROVE  Accounted'
<1> DEFINE k == todo[1].id
<1>1. /\ Doing("free") /\ files' = files /\ stored' = stored /\ request' = request
      /\ names' = [names EXCEPT ![Head(todo).id] = Anonymous]
      /\ config' = [config EXCEPT !.next = IF @ = 0 THEN Head(todo).id ELSE @]
      /\ todo' = (IF config.next = 0 THEN Save ELSE <<>>) \o Tail(todo)
    BY DEF FreeId
<1>2. /\ todo \in Seq(Writes) /\ todo # <<>> /\ Head(todo) = todo[1] /\ 1 \in DOMAIN todo
      /\ DOMAIN todo = 1..Len(todo) /\ Len(todo) \in Nat \ {0} /\ todo[1].do = "free"
  <2>1. todo \in Seq(Writes) /\ todo # <<>> /\ Head(todo).do = "free"
      BY <1>1 DEF Inv, TypeOK, WorkTypes, Doing
  <2>2. DOMAIN todo = 1..Len(todo) /\ Len(todo) \in Nat \ {0}  BY <2>1, LenProperties, EmptySeq
  <2>3. Head(todo) = todo[1]  BY <2>1
  <2> QED  BY <2>1, <2>2, <2>3
<1>3. /\ k \in Ids /\ \A u \in config.users : u.id # k
      /\ \A f \in DOMAIN files : k \notin IdsOf(files[f])
  <2>1. /\ k \in Ids /\ ~IsUser(k)
        /\ \A f \in DOMAIN files : k \in IdsOf(files[f]) => f = 1 /\ todo[1].do = "drop"
      BY <1>2 DEF Accounted, Order, FreedAreUnused
  <2>2. todo[1].do # "drop"  BY <1>2
  <2> HIDE DEF k
  <2> QED  BY <2>1, <2>2 DEF IsUser
<1>4. names # NoFile /\ names \in [Ids -> Persons \union {Anonymous}]
  <2>1. names # NoFile  BY <1>2 DEF Inv, NamesWait
  <2> QED  BY <2>1, UsersTyped
<1>5. /\ names' # NoFile
      /\ \A x \in Ids : (names')[x] = IF x = k THEN Anonymous ELSE names[x]
  <2>1. names' = [names EXCEPT ![k] = Anonymous]  BY <1>1, <1>2
  <2>2. names' \in [Ids -> Persons \union {Anonymous}]  BY <1>3, <1>4, <2>1
  <2> QED  BY <1>3, <1>4, <2>1, <2>2, SomeTypes
<1>6. config'.users = config.users /\ config'.next = IF config.next = 0 THEN k ELSE config.next
    BY <1>1, <1>2 DEF Inv, TypeOK, UserTypes, Configs
<1> HIDE DEF k
<1>7. ~Pending("name")
  <2> SUFFICES ASSUME NEW i \in DOMAIN todo, todo[i].do = "name"  PROVE FALSE
      BY DEF Pending
  <2>1. i # 1 /\ 1 < i  BY <1>2
  <2> QED  BY <1>2, <2>1 DEF Accounted, Order, NamesComeEarly
<1>8. \A u \in config.users : (names')[u.id] = u.who
  <2>1. \A u \in config.users : names[u.id] = u.who  BY <1>4, <1>7, UsersNamed DEF Accounted
  <2> QED  BY <1>3, <1>5, <2>1, UsersTyped
<1>9. ConfigFits'
  <2>1. Sound(config)'  BY <1>3, <1>6 DEF Accounted, ConfigFits, Sound
  <2>2. NextIsFree(config)'
    <3>1. config.next # 0 => names[config.next] = Anonymous /\ config.next \in Ids
        BY <1>4, UsersTyped DEF Accounted, ConfigFits, NextIsFree
    <3> QED  BY <1>3, <1>5, <1>6, <3>1 DEF NextIsFree
  <2> QED  BY <1>6, <1>8, <2>1, <2>2 DEF ConfigFits
<1>10. stored = NoFile \/ stored.users = config.users
  <2>1. ~Doing("unlink")  BY <1>2 DEF Doing
  <2> QED  BY <2>1 DEF Accounted, UsersSaved
<1>11. StoredFits'
  <2> SUFFICES ASSUME stored # NoFile
               PROVE  /\ Sound(stored)' /\ NextIsFree(stored)'
                      /\ \A u \in stored.users : (names')[u.id] = u.who
      BY <1>1 DEF StoredFits
  <2>1. Sound(stored)'  BY <1>1 DEF Accounted, StoredFits, Sound
  <2>2. NextIsFree(stored)'
      BY <1>1, <1>4, <1>5, UsersTyped DEF Accounted, StoredFits, NextIsFree
  <2> QED  BY <1>8, <1>10, <2>1, <2>2
<1>12. UsersSaved'  BY <1>1, <1>6, <1>10 DEF UsersSaved
<1>13. Order' /\ (LastUnblocks => LastUnblocks')
  <2>1. CASE config.next = 0
    <3>1. todo' = Save \o Tail(todo)  BY <1>1, <2>1
    <3>2. Order'  BY <1>1, <1>2, <1>6, <3>1, SavedOrder DEF Accounted
    <3>3. LastUnblocks => Len(todo) >= 2
      <4>1. LastUnblocks => Len(todo) # 1  BY <1>2 DEF LastUnblocks, LastWork
      <4> QED  BY <1>2, <4>1
    <3>4. LastUnblocks => LastUnblocks'  BY <1>2, <3>1, <3>3, SavedRest DEF LastUnblocks
    <3> QED  BY <3>2, <3>4
  <2>2. CASE config.next # 0
    <3>1. todo' = Tail(todo)
      <4>1. Tail(todo) \in Seq(Writes)  BY <1>2, HeadTailProperties
      <4>2. todo' = <<>> \o Tail(todo)  BY <1>1, <2>2
      <4> QED  BY <4>1, <4>2, ConcatEmptySeq
    <3>2. Popped  BY <1>2, <3>1 DEF Popped
    <3>3. OldRecords  BY <1>1, <1>2, SameRecords
    <3> QED  BY <1>2, <1>6, <3>2, <3>3, PoppedOrder, StillUnblocks DEF Accounted
  <2> QED  BY <2>1, <2>2
<1>14. RequestFits'
  <2>1. request.do = "add" => LastUnblocks \/ config'.next = config.next
    <3>1. request.do = "add" => request.id # 0  BY LogAssumption DEF Inv, UserFits, Ids
    <3> QED  BY <1>6, <3>1 DEF Accounted, RequestFits
  <2> QED  BY <1>1, <1>6, <1>13, <2>1, RequestKept DEF Accounted
<1>15. Charged'
  <2> SUFFICES ASSUME NEW f \in DOMAIN files, NEW r \in DOMAIN files[f], files[f][r].id # 0
               PROVE  (names')[files[f][r].id] = files[f][r].who /\ files[f][r].who # Anonymous
      BY <1>1, <1>5 DEF Charged
  <2> DEFINE x == files[f][r].id
  <2>1. names[x] = files[f][r].who /\ files[f][r].who # Anonymous  BY DEF Accounted, Charged
  <2>2. x \in Ids
    <3>1. x \in 0..MaxId  BY RecordsTyped DEF Records
    <3> QED  BY <3>1, LogAssumption DEF Ids
  <2>3. x # k  BY <1>3 DEF IdsOf
  <2> HIDE DEF x
  <2>4. (names')[x] = names[x]  BY <1>5, <2>2, <2>3
  <2> QED  BY <2>1, <2>4 DEF x
<1> QED  BY <1>9, <1>11, <1>12, <1>13, <1>14, <1>15 DEF Accounted

(* Every write.                                                            *)
LEMMA WritesAccounted ==
  ASSUME Inv, Accounted, WriteNext
  PROVE  Accounted'
BY UnlinkAccounted, RenameAccounted, NameAccounted, FreeAccounted, KeepAccounted, DropAccounted,
   CreateAccounted, StartAccounted, EndAccounted, WipeAccounted, RemoveNamesAccounted,
   CreateNamesAccounted, SearchAccounted, UnblockAccounted
   DEF WriteNext

---------------------------------------------------------------------------
(* What an idle main thread may rely on.                                   *)

(* No write is pending: the files agree.                                   *)
LEMMA IdleFacts ==
  ASSUME Inv, Accounted, Idle
  PROVE  /\ names # NoFile /\ names \in [Ids -> Persons \union {Anonymous}]
         /\ DOMAIN todo = {} /\ (\A do : ~Doing(do)) /\ ~LastUnblocks
         /\ \A u \in config.users : names[u.id] = u.who
         /\ stored # NoFile =>
              stored.users = config.users /\ \A u \in stored.users : names[u.id] = u.who
<1>1. todo = <<>> /\ DOMAIN <<>> = {}  BY DEF Idle
<1>2. names # NoFile  BY <1>1 DEF Inv, NamesWait
<1>3. (\A do : ~Doing(do)) /\ ~LastUnblocks  BY <1>1 DEF Doing, LastUnblocks
<1>4. ~Pending("name")  BY <1>1 DEF Pending
<1>5. \A u \in config.users : names[u.id] = u.who  BY <1>2, <1>4, UsersNamed DEF Accounted
<1>6. stored # NoFile =>
        stored.users = config.users /\ \A u \in stored.users : names[u.id] = u.who
    BY <1>2, <1>3, StoredNamed DEF Accounted, UsersSaved
<1> QED  BY <1>1, <1>2, <1>3, <1>5, <1>6, UsersTyped

(* Whatever begins, the stored users have their names.                     *)
LEMMA StoredStays ==
  ASSUME Inv, Accounted, Idle, UNCHANGED <<names, stored>>
  PROVE  StoredFits'
<1>1. /\ names # NoFile
      /\ stored # NoFile => \A u \in stored.users : names[u.id] = u.who
    BY IdleFacts
<1>2. stored # NoFile => Sound(stored)' /\ NextIsFree(stored)'
    BY <1>1 DEF Accounted, StoredFits, Sound, NextIsFree
<1> QED  BY <1>1, <1>2 DEF StoredFits

(* So have the users in RAM.                                               *)
LEMMA ConfigStays ==
  ASSUME Inv, Accounted, Idle, UNCHANGED <<names, config>>
  PROVE  ConfigFits'
<1>1. names # NoFile /\ \A u \in config.users : names[u.id] = u.who  BY IdleFacts
<1>2. Sound(config)' /\ NextIsFree(config)'
    BY <1>1 DEF Accounted, ConfigFits, Sound, NextIsFree
<1> QED  BY <1>1, <1>2 DEF ConfigFits

(* Nothing happens to flash, the users and the command that waits.         *)
LEMMA IdleStepAccounted ==
  ASSUME Inv, Accounted, Idle, UNCHANGED <<flash, config, request>>, Order'
  PROVE  Accounted'
<1>1. files' = files /\ names' = names /\ stored' = stored /\ config' = config
      /\ request' = request
    BY DEF flash
<1>2. ConfigFits' /\ StoredFits'  BY <1>1, ConfigStays, StoredStays
<1>3. UsersSaved'  BY <1>1, IdleFacts DEF UsersSaved
<1>4. RequestFits'  BY <1>1, IdleFacts DEF Accounted, RequestFits, User
<1>5. Charged'  BY <1>1 DEF Accounted, Charged
<1> QED  BY <1>2, <1>3, <1>4, <1>5 DEF Accounted

(* No writes are in order.                                                 *)
LEMMA NothingInOrder ==
  ASSUME DOMAIN todo' = {}
  PROVE  Order'
BY DEF Order, SaveComesFirst, NamesComeEarly, NewFileIsFilled, SearchComesLate,
   FreedAreUnused, StartsAreOfUsers, WipeComesFirst

---------------------------------------------------------------------------
(* The commands.                                                           *)

(* The writes of a command, with and without one between save and unblock. *)
LEMMA SaveWithOne ==
  ASSUME NEW c \in Writes, todo' = Save \o <<c>> \o Work("unblock")
  PROVE  /\ DOMAIN todo' = {1, 2, 3, 4} /\ Len(todo') = 4 /\ todo' # <<>>
         /\ todo'[1].do = "unlink" /\ todo'[2].do = "rename" /\ todo'[3] = c
         /\ todo'[4].do = "unblock" /\ Head(todo') = todo'[1]
<1> DEFINE a == Command("unlink", 0, Anonymous)
           b == Command("rename", 0, Anonymous)
           d == Command("unblock", 0, Anonymous)
           w == <<a>> \o <<b>> \o <<c>> \o <<d>>
<1>1. "unlink" \in WriteKinds /\ "rename" \in WriteKinds /\ "unblock" \in WriteKinds
    BY DEF WriteKinds
<1>2. /\ a \in Writes /\ a.do = "unlink" /\ Work("unlink") = <<a>>
      /\ b \in Writes /\ b.do = "rename" /\ Work("rename") = <<b>>
      /\ d \in Writes /\ d.do = "unblock" /\ Work("unblock") = <<d>>
    BY <1>1, PlainWrite
<1>3. todo' = w  BY <1>2 DEF Save
<1> HIDE DEF a, b, d
<1>4. /\ w \in Seq(Writes) /\ Len(w) = 4 /\ DOMAIN w = {1, 2, 3, 4}
      /\ w[1] = a /\ w[2] = b /\ w[3] = c /\ w[4] = d
    BY <1>2, FourWrites
<1> HIDE DEF w
<1>5. w # <<>> /\ Head(w) = w[1]
  <2>1. w # <<>>
    <3>1. w \in Seq(Writes) /\ Len(w) = 4  BY <1>4
    <3>2. <<>> \in Seq(Writes) /\ Len(<<>>) = 0  BY EmptySeq
    <3>3. Len(w) # Len(<<>>)  BY <3>1, <3>2
    <3> QED  BY <3>3
  <2> QED  BY <1>4, <2>1
<1> QED  BY <1>2, <1>3, <1>4, <1>5

(* Save and unblock alone.                                                 *)
LEMMA SaveOnly ==
  ASSUME todo' = Save \o <<>> \o Work("unblock")
  PROVE  /\ DOMAIN todo' = {1, 2, 3} /\ Len(todo') = 3 /\ todo' # <<>>
         /\ todo'[1].do = "unlink" /\ todo'[2].do = "rename"
         /\ todo'[3].do = "unblock" /\ Head(todo') = todo'[1]
<1> DEFINE a == Command("unlink", 0, Anonymous)
           b == Command("rename", 0, Anonymous)
           d == Command("unblock", 0, Anonymous)
           w == <<a>> \o <<b>> \o <<d>>
<1>1. "unlink" \in WriteKinds /\ "rename" \in WriteKinds /\ "unblock" \in WriteKinds
    BY DEF WriteKinds
<1>2. /\ a \in Writes /\ a.do = "unlink" /\ Work("unlink") = <<a>>
      /\ b \in Writes /\ b.do = "rename" /\ Work("rename") = <<b>>
      /\ d \in Writes /\ d.do = "unblock" /\ Work("unblock") = <<d>>
    BY <1>1, PlainWrite
<1>3. Save \o <<>> = Save  BY SaveTyped, ConcatEmptySeq
<1>4. todo' = w  BY <1>2, <1>3 DEF Save
<1> HIDE DEF a, b, d
<1>5. /\ w \in Seq(Writes) /\ Len(w) = 3 /\ DOMAIN w = {1, 2, 3}
      /\ w[1] = a /\ w[2] = b /\ w[3] = d
    BY <1>2, ThreeWrites
<1> HIDE DEF w
<1>6. w # <<>> /\ Head(w) = w[1]
  <2>1. w # <<>>
    <3>1. w \in Seq(Writes) /\ Len(w) = 3  BY <1>5
    <3>2. <<>> \in Seq(Writes) /\ Len(<<>>) = 0  BY EmptySeq
    <3>3. Len(w) # Len(<<>>)  BY <3>1, <3>2
    <3> QED  BY <3>3
  <2> QED  BY <1>5, <2>1
<1> QED  BY <1>2, <1>4, <1>5, <1>6

(* A command begins with a save and ends with an unblock.                  *)
LEMMA CommandAccounted ==
  ASSUME Inv, Accounted, Idle, UNCHANGED <<flash, request>>, ConfigFits', Order',
         todo' # <<>>, Head(todo').do = "unlink", LastWork'.do = "unblock"
  PROVE  Accounted'
<1>1. files' = files /\ names' = names /\ stored' = stored  BY DEF flash
<1>2. StoredFits'  BY <1>1, StoredStays
<1>3. UsersSaved'  BY DEF UsersSaved, Doing
<1>4. RequestFits'  BY DEF RequestFits, LastUnblocks
<1>5. Charged'  BY <1>1 DEF Accounted, Charged
<1> QED  BY <1>2, <1>3, <1>4, <1>5 DEF Accounted

(* A name is written after the save.                                       *)
LEMMA NamingOrder ==
  ASSUME NEW c, c.do = "name", User(c.id, c.who) \in config'.users,
         DOMAIN todo' = {1, 2, 3, 4}, Len(todo') = 4,
         todo'[1].do = "unlink", todo'[2].do = "rename", todo'[3] = c, todo'[4].do = "unblock"
  PROVE  Order'
<1>1. LastWork'.do = "unblock"  BY DEF LastWork
<1>2. \A i \in DOMAIN todo' : todo'[i].do \in {"unlink", "rename", "name", "unblock"}
    OBVIOUS
<1>3. SaveComesFirst'
  <2>1. \A i \in DOMAIN todo' : /\ todo'[i].do = "unlink" => i = 1
                              /\ todo'[i].do = "rename" => i = 2
      OBVIOUS
  <2> QED  BY <2>1 DEF SaveComesFirst
<1>4. NamesComeEarly'
  <2> SUFFICES ASSUME NEW i \in DOMAIN todo', todo'[i].do = "name"
               PROVE  /\ [id |-> todo'[i].id, who |-> todo'[i].who] \in config'.users
                      /\ \A j \in DOMAIN todo' : j < i =>
                           todo'[j].do \in {"createNames", "unlink", "rename", "name"}
      BY <1>1 DEF NamesComeEarly, User
  <2>1. i = 3  OBVIOUS
  <2>2. [id |-> todo'[i].id, who |-> todo'[i].who] \in config'.users  BY <2>1 DEF User
  <2>3. \A j \in DOMAIN todo' : j < i => j = 1 \/ j = 2  BY <2>1
  <2> QED  BY <2>2, <2>3
<1>5. NewFileIsFilled' /\ SearchComesLate' /\ FreedAreUnused' /\ StartsAreOfUsers' /\ WipeComesFirst'
    BY <1>2 DEF NewFileIsFilled, SearchComesLate, FreedAreUnused, StartsAreOfUsers, WipeComesFirst
<1> QED  BY <1>3, <1>4, <1>5 DEF Order

(* The writes of adding and of renaming a user.                            *)
LEMMA NamingWork ==
  ASSUME NEW id \in 0..MaxId, NEW who \in Persons \union {Anonymous},
         todo' = Save \o WorkOn("name", id, who) \o Work("unblock"),
         User(id, who) \in config'.users
  PROVE  /\ Order' /\ todo' # <<>> /\ Head(todo').do = "unlink" /\ LastWork'.do = "unblock"
         /\ 3 \in DOMAIN todo' /\ todo'[3] = Command("name", id, who)
<1> DEFINE c == Command("name", id, who)
<1>1. /\ c \in Writes /\ c.do = "name" /\ c.id = id /\ c.who = who
      /\ WorkOn("name", id, who) = <<c>>
  <2>1. "name" \in WriteKinds  BY DEF WriteKinds
  <2> QED  BY <2>1, WorkIsOne DEF WorkOn, Command
<1>2. todo' = Save \o <<c>> \o Work("unblock")  BY <1>1
<1> HIDE DEF c
<1>3. /\ DOMAIN todo' = {1, 2, 3, 4} /\ Len(todo') = 4 /\ todo' # <<>>
      /\ todo'[1].do = "unlink" /\ todo'[2].do = "rename" /\ todo'[3] = c
      /\ todo'[4].do = "unblock" /\ Head(todo') = todo'[1]
    BY <1>1, <1>2, SaveWithOne
<1>4. LastWork'.do = "unblock"  BY <1>3 DEF LastWork
<1>5. Order'  BY <1>1, <1>3, NamingOrder
<1> QED  BY <1>3, <1>4, <1>5 DEF c

(* users/add: the next ID is free, and another becomes the next.           *)
LEMMA AddAccounted ==
  ASSUME Inv, Accounted, AddUser
  PROVE  Accounted'
<1> DEFINE me == User(request.id, request.who)
<1>1. /\ Idle /\ request.do = "add" /\ UNCHANGED <<flash, request>>
      /\ config' = [users |-> config.users \union {me}, next |-> NextFree(config.next)]
      /\ todo' = Save \o WorkOn("name", request.id, request.who) \o Work("unblock")
    BY DEF AddUser
<1>2. request.id \in Ids /\ request.who \in Persons /\ request.id = config.next
  <2>1. ~LastUnblocks  BY <1>1, IdleFacts
  <2>2. request.id = config.next  BY <1>1, <2>1 DEF Accounted, RequestFits
  <2> QED  BY <1>1, <2>2 DEF Inv, UserFits
<1>3. request.id \in 0..MaxId /\ request.who \in Persons \union {Anonymous} /\ request.id # 0
    BY <1>2, LogAssumption DEF Ids
<1>4. config'.users = config.users \union {me} /\ config'.next = NextFree(request.id)
    BY <1>1, <1>2
<1>5. me.id = request.id /\ me.who = request.who  BY DEF User
<1> HIDE DEF me
<1>6. /\ Order' /\ todo' # <<>> /\ Head(todo').do = "unlink" /\ LastWork'.do = "unblock"
      /\ 3 \in DOMAIN todo' /\ todo'[3] = Command("name", request.id, request.who)
    BY <1>1, <1>3, <1>4, NamingWork DEF me
<1>7. /\ names # NoFile /\ names \in [Ids -> Persons \union {Anonymous}]
      /\ \A u \in config.users : names[u.id] = u.who
    BY <1>1, IdleFacts
<1>8. names' = names  BY <1>1 DEF flash
<1>9. names[request.id] = Anonymous
    BY <1>2, <1>3, <1>7 DEF Accounted, ConfigFits, NextIsFree
<1>10. config'.next # 0 =>
         config'.next \in Ids /\ config'.next # request.id /\ names[config'.next] = Anonymous
    BY <1>3, <1>4, NextFreeTyped
<1>11. \A u \in config.users :
         u.id \in Ids /\ u.id # 0 /\ u.who # Anonymous /\ u.id # request.id /\ u.id # config'.next
  <2> TAKE u \in config.users
  <2>1. u.id \in Ids /\ u.who # Anonymous  BY UsersTyped
  <2>2. u.id # 0  BY <2>1, LogAssumption DEF Ids
  <2>3. u.id # request.id  BY <1>2 DEF Accounted, ConfigFits, Sound
  <2> QED  BY <1>7, <1>10, <2>1, <2>2, <2>3
<1>12. Sound(config)'
    BY <1>3, <1>4, <1>5, <1>10, <1>11 DEF Accounted, ConfigFits, Sound
<1>13. NextIsFree(config)'  BY <1>8, <1>10 DEF NextIsFree
<1>14. NameWaits(me)'
  <2>1. todo'[3] = [do |-> "name", id |-> me.id, who |-> me.who]  BY <1>5, <1>6 DEF Command
  <2>2. (names')[me.id] = Anonymous  BY <1>5, <1>8, <1>9
  <2>3. me' = me  BY <1>1 DEF me, User
  <2> QED  BY <1>6, <2>1, <2>2, <2>3 DEF NameWaits, Command
<1>15. me' = me  BY <1>1 DEF me, User
<1>16. ConfigFits'
  <2> SUFFICES ASSUME NEW u \in config'.users  PROVE (names')[u.id] = u.who \/ NameWaits(u)'
      BY <1>12, <1>13 DEF ConfigFits
  <2>1. CASE u = me
    <3>1. NameWaits(u)'  BY <1>5, <1>6, <1>8, <1>9, <2>1 DEF NameWaits, Command
    <3> QED  BY <3>1
  <2>2. CASE u # me  BY <1>4, <1>7, <1>8, <2>2
  <2> QED  BY <2>1, <2>2
<1> QED  BY <1>1, <1>6, <1>16, CommandAccounted

(* users/modify: the same person under the same ID.                        *)
LEMMA ModifyAccounted ==
  ASSUME Inv, Accounted, ModifyUser
  PROVE  Accounted'
<1>1. /\ Idle /\ request.do = "modify" /\ UNCHANGED <<flash, request>> /\ config' = config
      /\ todo' = Save \o WorkOn("name", request.id, request.who) \o Work("unblock")
    BY DEF ModifyUser
<1>2. User(request.id, request.who) \in config'.users
    BY <1>1, IdleFacts DEF Accounted, RequestFits
<1>3. request.id \in 0..MaxId /\ request.who \in Persons \union {Anonymous}
    BY DEF Inv, TypeOK, WorkTypes, Commands
<1>4. Order' /\ todo' # <<>> /\ Head(todo').do = "unlink" /\ LastWork'.do = "unblock"
    BY <1>1, <1>2, <1>3, NamingWork
<1>5. names' = names  BY <1>1 DEF flash
<1>6. ConfigFits'  BY <1>1, <1>5, ConfigStays
<1> QED  BY <1>1, <1>4, <1>6, CommandAccounted

(* users/remove: the ID is freed only if no record has it.                 *)
LEMMA RemoveAccounted ==
  ASSUME Inv, Accounted, RemoveUser
  PROVE  Accounted'
<1> DEFINE me == User(request.id, request.who)
<1>1. /\ Idle /\ request.do = "remove" /\ UNCHANGED <<flash, request>>
      /\ config' = [config EXCEPT !.users = @ \ {me}]
      /\ todo' = Save \o (IF Tracked(request.id) THEN <<>>
                          ELSE WorkOn("free", request.id, Anonymous)) \o Work("unblock")
    BY DEF RemoveUser
<1>2. me \in config.users  BY <1>1, IdleFacts DEF Accounted, RequestFits
<1>3. me.id = request.id /\ me.who = request.who  BY DEF User
<1>4. request.id \in Ids  BY <1>2, <1>3, UsersTyped
<1>5. config'.users = config.users \ {me} /\ config'.next = config.next
    BY <1>1 DEF Inv, TypeOK, UserTypes, Configs
<1>6. \A u \in config'.users : u.id # request.id
    BY <1>2, <1>3, <1>5 DEF Accounted, ConfigFits, Sound
<1> HIDE DEF me
<1>7. names' = names /\ files' = files  BY <1>1 DEF flash
<1>8. /\ names # NoFile /\ \A u \in config.users : names[u.id] = u.who
    BY <1>1, IdleFacts
<1>9. ConfigFits'
  <2>1. Sound(config)'  BY <1>5 DEF Accounted, ConfigFits, Sound
  <2>2. NextIsFree(config)'  BY <1>5, <1>7, <1>8 DEF Accounted, ConfigFits, NextIsFree
  <2> QED  BY <1>5, <1>7, <1>8, <2>1, <2>2 DEF ConfigFits
<1>10. CASE Tracked(request.id)
  <2>1. todo' = Save \o <<>> \o Work("unblock")  BY <1>1, <1>10
  <2>2. /\ DOMAIN todo' = {1, 2, 3} /\ Len(todo') = 3 /\ todo' # <<>>
        /\ todo'[1].do = "unlink" /\ todo'[2].do = "rename"
        /\ todo'[3].do = "unblock" /\ Head(todo') = todo'[1]
      BY <2>1, SaveOnly
  <2>3. \A i \in DOMAIN todo' : todo'[i].do \in {"unlink", "rename", "unblock"}  BY <2>2
  <2>4. SaveComesFirst'  BY <2>2 DEF SaveComesFirst
  <2>5. Order'
      BY <2>3, <2>4 DEF Order, NamesComeEarly, NewFileIsFilled, SearchComesLate,
         FreedAreUnused, StartsAreOfUsers, WipeComesFirst
  <2>6. LastWork'.do = "unblock"  BY <2>2 DEF LastWork
  <2> QED  BY <1>1, <1>9, <2>2, <2>5, <2>6, CommandAccounted
<1>11. CASE ~Tracked(request.id)
  <2> DEFINE c == Command("free", request.id, Anonymous)
  <2>1. c \in Writes /\ c.do = "free" /\ c.id = request.id
    <3>1. "free" \in WriteKinds /\ request.id \in 0..MaxId  BY <1>4, SomeTypes DEF WriteKinds
    <3> QED  BY <3>1, WorkIsOne
  <2>2. todo' = Save \o <<c>> \o Work("unblock")  BY <1>1, <1>11 DEF WorkOn
  <2> HIDE DEF c
  <2>3. /\ DOMAIN todo' = {1, 2, 3, 4} /\ Len(todo') = 4 /\ todo' # <<>>
        /\ todo'[1].do = "unlink" /\ todo'[2].do = "rename" /\ todo'[3] = c
        /\ todo'[4].do = "unblock" /\ Head(todo') = todo'[1]
      BY <2>1, <2>2, SaveWithOne
  <2>4. \A i \in DOMAIN todo' : todo'[i].do \in {"unlink", "rename", "free", "unblock"}
      BY <2>1, <2>3
  <2>5. SaveComesFirst'  BY <2>1, <2>3 DEF SaveComesFirst
  <2>6. FreedAreUnused'
    <3>1. \A i \in DOMAIN todo' : todo'[i].do = "free" => todo'[i].id = request.id
        BY <2>1, <2>3
    <3>2. \A f \in DOMAIN files : request.id \notin IdsOf(files[f])  BY <1>11 DEF Tracked
    <3> SUFFICES ASSUME NEW i \in DOMAIN todo', todo'[i].do = "free"
                 PROVE  /\ todo'[i].id \in Ids /\ \A u \in config'.users : u.id # todo'[i].id
                        /\ \A f \in DOMAIN files' : todo'[i].id \notin IdsOf((files')[f])
        BY DEF FreedAreUnused, IsUser, IdsOf
    <3> QED  BY <1>4, <1>6, <1>7, <3>1, <3>2
  <2>7. Order'
      BY <2>4, <2>5, <2>6 DEF Order, NamesComeEarly, NewFileIsFilled, SearchComesLate,
         StartsAreOfUsers, WipeComesFirst
  <2>8. LastWork'.do = "unblock"  BY <2>3 DEF LastWork
  <2> QED  BY <1>1, <1>9, <2>3, <2>7, <2>8, CommandAccounted
<1> QED  BY <1>10, <1>11

---------------------------------------------------------------------------
(* Charging.                                                               *)

\* What is freed in s are the IDs that only the dropped file knew.
FreesOrphans(s) ==
  s \in Seq(Writes) /\ \A i \in 1..Len(s) : s[i].do = "free" =>
    s[i].id \in Orphans /\ s[1].do = "drop"

(* Another write frees nothing more.                                       *)
LEMMA FreesNoMore ==
  ASSUME NEW s, FreesOrphans(s), NEW c \in Writes, c.do # "free"
  PROVE  FreesOrphans(s \o <<c>>)
<1> DEFINE w == s \o <<c>>
<1>1. s \in Seq(Writes) /\ \A i \in 1..Len(s) : s[i].do = "free" =>
        s[i].id \in Orphans /\ s[1].do = "drop"
    BY DEF FreesOrphans
<1>2. /\ w \in Seq(Writes) /\ Len(w) = Len(s) + 1 /\ Len(s) \in Nat
      /\ \A i \in 1..Len(s) : w[i] = s[i]
      /\ w[Len(s) + 1] = c
    BY <1>1, OneMore
<1> HIDE DEF w
<1>3. ASSUME NEW i \in 1..Len(w), w[i].do = "free"
      PROVE  w[i].id \in Orphans /\ w[1].do = "drop"
  <2>1. i \in 1..Len(s)  BY <1>2, <1>3
  <2>2. 1 \in 1..Len(s)  BY <1>2, <2>1
  <2> QED  BY <1>1, <1>2, <1>3, <2>1, <2>2
<1> QED  BY <1>2, <1>3 DEF FreesOrphans, w

(* removeOldRecords frees the orphans.                                     *)
LEMMA DropFrees == FreesOrphans(Work("drop") \o FreeAll(Orphans))
<1> DEFINE a == Command("drop", 0, Anonymous)
           s == <<a>>
           t == FreeAll(Orphans)
           w == s \o t
<1>1. a \in Writes /\ a.do = "drop" /\ Work("drop") = s
  <2>1. "drop" \in WriteKinds  BY DEF WriteKinds
  <2> QED  BY <2>1, PlainWrite
<1>2. t \in Seq(Writes) /\ Len(t) = MaxId  BY FreeAllTyped
<1>3. ASSUME NEW i \in 1..MaxId, t[i].do = "free"  PROVE t[i].id \in Orphans
  <2>1. t[i] = Command(IF i \in Orphans THEN "free" ELSE "keep", i, Anonymous)
      BY DEF FreeAll, Ids
  <2>2. t[i].do = (IF i \in Orphans THEN "free" ELSE "keep") /\ t[i].id = i  BY <2>1 DEF Command
  <2> QED  BY <1>3, <2>2
<1> HIDE DEF a, t
<1>4. s \in Seq(Writes) /\ Len(s) = 1 /\ s[1] = a  BY <1>1
<1> HIDE DEF s
<1>5. /\ w \in Seq(Writes) /\ Len(w) = Len(s) + Len(t) /\ Len(t) \in Nat
      /\ \A i \in 1..Len(s) : w[i] = s[i]
      /\ \A i \in 1..Len(t) : w[Len(s) + i] = t[i]
    BY <1>2, <1>4, WorkAfter
<1> HIDE DEF w
<1>6. w[1] = a
  <2>1. 1 \in 1..Len(s)  BY <1>4
  <2> QED  BY <1>4, <1>5, <2>1
<1>7. ASSUME NEW i \in 1..Len(w), w[i].do = "free"  PROVE w[i].id \in Orphans
  <2>1. i # 1  BY <1>1, <1>6, <1>7
  <2>2. i - 1 \in 1..Len(t) /\ Len(s) + (i - 1) = i  BY <1>4, <1>5, <2>1
  <2>3. w[i] = t[i - 1]  BY <1>5, <2>2
  <2> QED  BY <1>2, <1>3, <1>7, <2>2, <2>3
<1>8. FreesOrphans(w)  BY <1>1, <1>5, <1>6, <1>7 DEF FreesOrphans
<1> QED  BY <1>1, <1>8 DEF w, s, t

(* So does all of startCharge, which ends with the start itself.           *)
LEMMA StartWorkFrees ==
  ASSUME NEW id \in 0..MaxId, NEW who \in Persons \union {Anonymous}
  PROVE  LET w == StartWork(id, who)
         IN  FreesOrphans(w) /\ w[Len(w)].id = id /\ w[Len(w)].who = who
<1> DEFINE c == Command("start", id, who)
           d == Command("create", 0, Anonymous)
           drop == IF Len(files) >= MaxFiles THEN Work("drop") \o FreeAll(Orphans) ELSE <<>>
           first == IF Full(LastFile) THEN RollOver ELSE <<>>
           w == first \o <<c>>
<1>1. /\ c \in Writes /\ c.do = "start" /\ c.id = id /\ c.who = who
      /\ WorkOn("start", id, who) = <<c>>
  <2>1. "start" \in WriteKinds  BY DEF WriteKinds
  <2> QED  BY <2>1, WorkIsOne DEF WorkOn, Command
<1>2. d \in Writes /\ d.do = "create" /\ Work("create") = <<d>>
  <2>1. "create" \in WriteKinds  BY DEF WriteKinds
  <2> QED  BY <2>1, PlainWrite
<1>3. StartWork(id, who) = w /\ RollOver = drop \o <<d>>
    BY <1>1, <1>2 DEF StartWork, RollOver
<1> HIDE DEF c, d, w
<1>4. FreesOrphans(<<>>)
  <2>1. <<>> \in Seq(Writes) /\ Len(<<>>) = 0  BY EmptySeq
  <2>2. \A i \in 1..Len(<<>>) : FALSE  BY <2>1
  <2> QED  BY <2>1, <2>2 DEF FreesOrphans
<1>5. FreesOrphans(drop)  BY <1>4, DropFrees
<1> HIDE DEF drop
<1>6. FreesOrphans(RollOver)  BY <1>2, <1>3, <1>5, FreesNoMore
<1>7. FreesOrphans(first)  BY <1>4, <1>6
<1> HIDE DEF first
<1>8. FreesOrphans(w)  BY <1>1, <1>7, FreesNoMore DEF w
<1>9. w[Len(w)] = c
  <2>1. first \in Seq(Writes)  BY <1>7 DEF FreesOrphans
  <2>2. Len(w) = Len(first) + 1 /\ w[Len(first) + 1] = c  BY <1>1, <2>1, OneMore DEF w
  <2> QED  BY <2>2
<1> QED  BY <1>1, <1>3, <1>8, <1>9

(* startCharge, for a user or for nobody.                                  *)
LEMMA StartOrder ==
  ASSUME Inv, Accounted, NEW id \in 0..MaxId, NEW who \in Persons \union {Anonymous},
         Start(id, who), UNCHANGED <<files, config>>,
         id = 0 \/ User(id, who) \in config.users
  PROVE  Order'
<1> DEFINE w == StartWork(id, who)
           n == Len(w)
<1>1. todo' = w  BY DEF Start
<1>2. /\ w \in Seq(Writes) /\ n \in Nat \ {0} /\ w[n].do = "start"
      /\ \A i \in 1..n : i # n => w[i].do \in {"drop", "free", "keep", "create"}
    BY StartWorkTyped
<1>3. FreesOrphans(w) /\ w[n].id = id /\ w[n].who = who  BY StartWorkFrees
<1>4. DOMAIN w = 1..n  BY <1>2, LenProperties
<1> HIDE DEF w, n
<1>5. \A i \in DOMAIN todo' : todo'[i].do \in {"drop", "free", "keep", "create", "start"}
    BY <1>1, <1>2, <1>4
<1>6. FreedAreUnused'
  <2> SUFFICES ASSUME NEW i \in DOMAIN todo', todo'[i].do = "free"
               PROVE  /\ todo'[i].id \in Ids /\ \A u \in config'.users : u.id # todo'[i].id
                      /\ \A f \in DOMAIN files' :
                           todo'[i].id \in IdsOf((files')[f]) => f = 1 /\ todo'[1].do = "drop"
      BY DEF FreedAreUnused, IsUser, IdsOf
  <2> DEFINE k == todo'[i].id
  <2>1. k \in Orphans /\ todo'[1].do = "drop"  BY <1>1, <1>3, <1>4 DEF FreesOrphans, n
  <2> HIDE DEF k
  <2>2. /\ k \in IdsOf(Head(files)) /\ k # 0 /\ ~IsUser(k)
        /\ \A f \in 2..Len(files) : k \notin IdsOf(files[f])
      BY <2>1 DEF Orphans
  <2>3. files \in Seq(Seq(Records)) /\ Len(files) \in Nat \ {0} /\ DOMAIN files = 1..Len(files)
    <3>1. files \in Seq(Seq(Records)) /\ Len(files) \in 1..MaxFiles  BY DEF Inv, TypeOK, FileTypes
    <3> QED  BY <3>1, LenProperties
  <2>4. k \in Ids
    <3>1. Head(files) = files[1] /\ 1 \in DOMAIN files  BY <2>3
    <3>2. PICK r \in DOMAIN files[1] : files[1][r].id = k  BY <2>2, <3>1 DEF IdsOf
    <3>3. k \in 0..MaxId  BY <3>1, <3>2, RecordsTyped DEF Records
    <3> QED  BY <2>2, <3>3, LogAssumption DEF Ids
  <2>5. \A u \in config'.users : u.id # k  BY <2>2 DEF IsUser
  <2>6. \A f \in DOMAIN files' : k \in IdsOf((files')[f]) => f = 1
    <3> SUFFICES ASSUME NEW f \in DOMAIN files, f # 1  PROVE k \notin IdsOf(files[f])
        OBVIOUS
    <3>1. f \in 2..Len(files)  BY <2>3
    <3> QED  BY <2>2, <3>1
  <2> QED  BY <2>1, <2>4, <2>5, <2>6 DEF k
<1>7. StartsAreOfUsers'
  <2> SUFFICES ASSUME NEW i \in DOMAIN todo', todo'[i].do = "start"
               PROVE  todo'[i].id = 0 \/ [id |-> todo'[i].id, who |-> todo'[i].who] \in config.users
      BY DEF StartsAreOfUsers, User
  <2>1. i = n  BY <1>1, <1>2, <1>4
  <2>2. todo'[i].id = id /\ todo'[i].who = who  BY <1>1, <1>3, <2>1
  <2> QED  BY <2>2 DEF User
<1>8. SaveComesFirst' /\ NamesComeEarly' /\ NewFileIsFilled' /\ SearchComesLate' /\ WipeComesFirst'
    BY <1>5 DEF SaveComesFirst, NamesComeEarly, NewFileIsFilled, SearchComesLate, WipeComesFirst
<1> QED  BY <1>6, <1>7, <1>8 DEF Order

(* endCharge.                                                              *)
LEMMA StopOrder ==
  ASSUME NEW id, NEW force, Stop(id, force)
  PROVE  Order'
<1>1. todo' = IF Open THEN Work("end") ELSE <<>>  BY DEF Stop
<1>2. CASE Open
  <2> DEFINE c == Command("end", 0, Anonymous)
  <2>1. c.do = "end" /\ Work("end") = <<c>>
    <3>1. "end" \in WriteKinds  BY DEF WriteKinds
    <3> QED  BY <3>1, PlainWrite
  <2> HIDE DEF c
  <2>2. todo' = <<c>>  BY <1>1, <1>2, <2>1
  <2>3. \A i \in DOMAIN todo' : todo'[i].do = "end"  BY <2>1, <2>2
  <2> QED
      BY <2>3 DEF Order, SaveComesFirst, NamesComeEarly, NewFileIsFilled, SearchComesLate,
         FreedAreUnused, StartsAreOfUsers, WipeComesFirst
<1>3. CASE ~Open
  <2>1. DOMAIN todo' = {}  BY <1>1, <1>3
  <2> QED  BY <2>1, NothingInOrder
<1> QED  BY <1>2, <1>3

(* A tag or a command of a user starts or stops a charge.                  *)
LEMMA TriggerAccounted ==
  ASSUME Inv, Accounted, NEW u \in config.users, Trigger(u)
  PROVE  Accounted'
<1>1. /\ Idle /\ UNCHANGED <<flash, config, request>> /\ files' = files
      /\ Start(u.id, u.who) \/ Stop(u.id, FALSE)
    BY DEF Trigger, flash
<1>2. u.id \in 0..MaxId /\ u.who \in Persons \union {Anonymous} /\ User(u.id, u.who) \in config.users
  <2>1. u \in Accounts  BY DEF Inv, TypeOK, UserTypes, Configs
  <2>2. User(u.id, u.who) = u  BY <2>1 DEF Accounts, User
  <2> QED  BY <2>1, <2>2, SomeTypes DEF Accounts
<1>3. Order'  BY <1>1, <1>2, StartOrder, StopOrder
<1> QED  BY <1>1, <1>3, IdleStepAccounted

(* The task that watches the charger starts or stops a charge.             *)
LEMMA WatchAccounted ==
  ASSUME Inv, Accounted, WatchCharger
  PROVE  Accounted'
<1>1. /\ Idle /\ UNCHANGED <<flash, config, request>> /\ files' = files
      /\ Stop(0, TRUE) \/ Start(0, Anonymous) \/ UNCHANGED <<slot, todo>>
    BY DEF WatchCharger, flash
<1>2. 0 \in 0..MaxId /\ Anonymous \in Persons \union {Anonymous}  BY SomeTypes
<1>3. todo' = todo => Order'  BY <1>1, IdleFacts, NothingInOrder
<1>4. Order'  BY <1>1, <1>2, <1>3, StartOrder, StopOrder
<1> QED  BY <1>1, <1>4, IdleStepAccounted

(* Enabling the user slot ends a charge.                                   *)
LEMMA SwitchAccounted ==
  ASSUME Inv, Accounted, SwitchUserSlot
  PROVE  Accounted'
<1>1. /\ Idle /\ UNCHANGED <<flash, config, request>>
      /\ Stop(0, TRUE) \/ UNCHANGED <<slot, todo>>
    BY DEF SwitchUserSlot
<1>2. todo' = todo => Order'  BY <1>1, IdleFacts, NothingInOrder
<1>3. Order'  BY <1>1, <1>2, StopOrder
<1> QED  BY <1>1, <1>3, IdleStepAccounted

(* A status of the GD.                                                     *)
LEMMA StatusAccounted ==
  ASSUME Inv, Accounted, NEW s, Status(s)
  PROVE  Accounted'
<1>1. Idle /\ UNCHANGED <<flash, config, request>> /\ todo' = todo  BY DEF Status
<1>2. Order'  BY <1>1, IdleFacts, NothingInOrder
<1> QED  BY <1>1, <1>2, IdleStepAccounted

(* remove_all_charges begins.                                              *)
LEMMA RemoveAllAccounted ==
  ASSUME Inv, Accounted, RemoveAllCharges
  PROVE  Accounted'
<1> DEFINE a == Command("wipe", 0, Anonymous)
           b == Command("removeNames", 0, Anonymous)
           c == Command("restart", 0, Anonymous)
           w == <<a>> \o <<b>> \o <<c>>
<1>1. /\ Idle /\ UNCHANGED <<flash, config, request>>
      /\ todo' = Work("wipe") \o Work("removeNames") \o Work("restart")
    BY DEF RemoveAllCharges
<1>2. "wipe" \in WriteKinds /\ "removeNames" \in WriteKinds /\ "restart" \in WriteKinds
    BY DEF WriteKinds
<1>3. /\ a \in Writes /\ a.do = "wipe" /\ Work("wipe") = <<a>>
      /\ b \in Writes /\ b.do = "removeNames" /\ Work("removeNames") = <<b>>
      /\ c \in Writes /\ c.do = "restart" /\ Work("restart") = <<c>>
    BY <1>2, PlainWrite
<1>4. todo' = w  BY <1>1, <1>3
<1> HIDE DEF a, b, c
<1>5. DOMAIN w = {1, 2, 3} /\ w[1] = a /\ w[2] = b /\ w[3] = c  BY <1>3, ThreeWrites
<1> HIDE DEF w
<1>6. /\ \A i \in DOMAIN todo' : todo'[i].do \in {"wipe", "removeNames", "restart"}
      /\ \A i \in DOMAIN todo' : todo'[i].do = "removeNames" => i = 2
      /\ todo'[1].do = "wipe"
    BY <1>3, <1>4, <1>5
<1>7. WipeComesFirst'  BY <1>6 DEF WipeComesFirst
<1>8. Order'
    BY <1>6, <1>7 DEF Order, SaveComesFirst, NamesComeEarly, NewFileIsFilled, SearchComesLate,
       FreedAreUnused, StartsAreOfUsers
<1> QED  BY <1>1, <1>8, IdleStepAccounted

(* Nothing that is accounted for changes, but perhaps the command.         *)
LEMMA UntouchedAccounted ==
  ASSUME Accounted, UNCHANGED <<files, names, stored, config, todo>>, RequestFits'
  PROVE  Accounted'
<1>1. files' = files /\ names' = names /\ stored' = stored /\ config' = config /\ todo' = todo
    OBVIOUS
<1>2. LastWork' = LastWork  BY <1>1 DEF LastWork
<1>3. \A u : NameWaits(u)' = NameWaits(u)  BY <1>1 DEF NameWaits
<1>4. Doing("name")' = Doing("name") /\ Doing("unlink")' = Doing("unlink")  BY <1>1 DEF Doing
<1>5. Sound(config)' = Sound(config) /\ Sound(stored)' = Sound(stored)  BY <1>1 DEF Sound
<1>6. NextIsFree(config)' = NextIsFree(config) /\ NextIsFree(stored)' = NextIsFree(stored)
    BY <1>1 DEF NextIsFree
<1>7. ConfigFits'  BY <1>1, <1>3, <1>5, <1>6 DEF Accounted, ConfigFits
<1>8. StoredFits'  BY <1>1, <1>3, <1>4, <1>5, <1>6 DEF Accounted, StoredFits
<1>9. UsersSaved'  BY <1>1, <1>4 DEF Accounted, UsersSaved
<1>10. SaveComesFirst' /\ NamesComeEarly' /\ NewFileIsFilled' /\ SearchComesLate'
    BY <1>1, <1>2 DEF Accounted, Order, SaveComesFirst, NamesComeEarly, NewFileIsFilled,
       SearchComesLate, User
<1>11. FreedAreUnused' /\ StartsAreOfUsers' /\ WipeComesFirst'
    BY <1>1 DEF Accounted, Order, FreedAreUnused, StartsAreOfUsers, WipeComesFirst, User,
       IsUser, IdsOf, NoCharge
<1>12. Charged'  BY <1>1 DEF Accounted, Charged
<1> QED  BY <1>7, <1>8, <1>9, <1>10, <1>11, <1>12 DEF Accounted, Order

(* users/add is noted with the next ID.                                    *)
LEMMA AskAddAccounted ==
  ASSUME Inv, Accounted, NEW who \in Persons, AskAdd(who)
  PROVE  Accounted'
<1>1. /\ UNCHANGED <<flash, config, todo>> /\ request' = Command("add", config.next, who)
    BY DEF AskAdd, MayAsk
<1>2. RequestFits'  BY <1>1 DEF RequestFits, Command
<1> QED  BY <1>1, <1>2, UntouchedAccounted DEF flash

(* users/remove and users/modify are noted for a user.                     *)
LEMMA AskOfAccounted ==
  ASSUME Inv, Accounted, NEW u \in config.users, AskRemove(u) \/ AskModify(u)
  PROVE  Accounted'
<1>1. /\ UNCHANGED <<flash, config, todo>>
      /\ request' = Command("remove", u.id, u.who) \/ request' = Command("modify", u.id, u.who)
    BY DEF AskRemove, AskModify, MayAsk
<1>2. u = User(u.id, u.who)
  <2>1. u \in Accounts  BY DEF Inv, TypeOK, UserTypes, Configs
  <2> QED  BY <2>1 DEF Accounts, User
<1>3. request'.do # "add" /\ request'.id = u.id /\ request'.who = u.who  BY <1>1 DEF Command
<1>4. RequestFits'  BY <1>1, <1>2, <1>3 DEF RequestFits, User
<1> QED  BY <1>1, <1>4, UntouchedAccounted DEF flash

(* The surroundings, and a file of a log that is removed.                  *)
LEMMA OutsideAccounted ==
  ASSUME Accounted, UNCHANGED <<files, names, stored, config, todo, request>>
  PROVE  Accounted'
<1>1. config' = config /\ todo' = todo /\ request' = request  OBVIOUS
<1>2. LastUnblocks' = LastUnblocks  BY <1>1 DEF LastUnblocks, LastWork
<1>3. RequestFits'  BY <1>1, <1>2 DEF Accounted, RequestFits, User
<1> QED  BY <1>3, UntouchedAccounted

---------------------------------------------------------------------------
(* A boot.                                                                 *)

(* Every user is named, and nobody else.                                   *)
LEMMA NameAllNames ==
  ASSUME NEW us \in SUBSET Accounts
  PROVE  /\ \A i \in 1..Len(NameAll(us)) : User(NameAll(us)[i].id, NameAll(us)[i].who) \in us
         /\ \A u \in us : \E i \in 1..Len(NameAll(us)) :
              NameAll(us)[i] = Command("name", u.id, u.who)
<1> DEFINE some == SetToSeq(us)
           n == Cardinality(us)
<1>1. n \in Nat /\ IsFiniteSet(us)  BY AccountsFinite
<1>2. \E f : f \in Bijection(1..n, us)
    BY <1>1, FS_CardinalityType DEF ExistsBijection
<1>3. some \in [1..n -> us] /\ IsInjective(some)
  <2>1. \E f \in [1..n -> us] : IsInjective(f)  BY <1>2, Zenon DEF Bijection, Injection, IsInjective
  <2> QED  BY <2>1, Zenon DEF SetToSeq
<1> HIDE DEF some
<1>4. Cardinality(1..n) = n
  <2>1. 1 \in Int /\ n \in Int  BY <1>1
  <2>2. Cardinality(1..n) = IF 1 > n THEN 0 ELSE n - 1 + 1  BY <2>1, FS_Interval
  <2> HIDE DEF n
  <2> QED  BY <1>1, <2>2
<1>5. some \in Surjection(1..n, us)
  <2>1. some \in Injection(1..n, us)  BY <1>3, Zenon DEF Injection
  <2>2. Cardinality(1..n) = Cardinality(us)  BY <1>4
  <2> HIDE DEF n
  <2> QED  BY <1>1, <2>1, <2>2, FS_Injection, Zenon
<1>6. \A u \in us : \E i \in 1..n : some[i] = u  BY <1>5, Zenon DEF Surjection
<1> HIDE DEF n
<1>7. NameAll(us) = [i \in 1..n |-> Command("name", some[i].id, some[i].who)]
  <2>1. DOMAIN some = 1..n  BY <1>3
  <2> QED  BY <2>1 DEF NameAll, some
<1>8. Len(NameAll(us)) = n
  <2>1. NameAll(us) \in Seq(Writes)  BY NameAllTyped
  <2>2. DOMAIN NameAll(us) = 1..n /\ DOMAIN NameAll(us) = 1..Len(NameAll(us))
        /\ Len(NameAll(us)) \in Nat
      BY <1>7, <2>1, LenProperties
  <2> QED  BY <1>1, <2>2
<1>9. ASSUME NEW i \in 1..n
      PROVE  User(NameAll(us)[i].id, NameAll(us)[i].who) \in us
  <2>1. some[i] \in us  BY <1>3
  <2>2. some[i] \in Accounts  BY <2>1
  <2>3. NameAll(us)[i].id = some[i].id /\ NameAll(us)[i].who = some[i].who
      BY <1>7 DEF Command
  <2>4. User(some[i].id, some[i].who) = some[i]  BY <2>2 DEF Accounts, User
  <2> QED  BY <2>1, <2>3, <2>4
<1>10. ASSUME NEW u \in us
       PROVE  \E i \in 1..n : NameAll(us)[i] = Command("name", u.id, u.who)
  <2>1. PICK i \in 1..n : some[i] = u  BY <1>6
  <2> QED  BY <1>7, <2>1
<1> QED  BY <1>8, <1>9, <1>10

\* The writes s of a boot name the users us, in a new file if there was none.
BootNames(s, us) ==
  s \in Seq(Writes) /\ \A i \in 1..Len(s) :
    /\ s[i].do \in {"createNames", "name", "search", "end", "unblock"}
    /\ s[i].do = "name" =>
         /\ User(s[i].id, s[i].who) \in us
         /\ \A j \in 1..Len(s) : j < i => s[j].do \in {"createNames", "name"}
    /\ s[i].do = "createNames" =>
         /\ i = 1 /\ names = NoFile
         /\ \A u \in us : \E j \in 1..Len(s) : s[j] = Command("name", u.id, u.who)
    /\ s[i].do = "search" => \A j \in 1..Len(s) : j > i => s[j].do # "name"

(* Another write names nobody more.                                        *)
LEMMA BootNamesNoMore ==
  ASSUME NEW s, NEW us, BootNames(s, us), NEW c \in Writes, c.do \in {"search", "end", "unblock"}
  PROVE  BootNames(s \o <<c>>, us)
<1> DEFINE w == s \o <<c>>
           n == Len(s)
<1>1. /\ s \in Seq(Writes)
      /\ \A i \in 1..n :
           /\ s[i].do \in {"createNames", "name", "search", "end", "unblock"}
           /\ s[i].do = "name" =>
                /\ User(s[i].id, s[i].who) \in us
                /\ \A j \in 1..n : j < i => s[j].do \in {"createNames", "name"}
           /\ s[i].do = "createNames" =>
                /\ i = 1 /\ names = NoFile
                /\ \A u \in us : \E j \in 1..n : s[j] = Command("name", u.id, u.who)
           /\ s[i].do = "search" => \A j \in 1..n : j > i => s[j].do # "name"
    BY DEF BootNames
<1>2. /\ w \in Seq(Writes) /\ Len(w) = n + 1 /\ n \in Nat
      /\ \A i \in 1..n : w[i] = s[i]
      /\ w[n + 1] = c
    BY <1>1, OneMore
<1> HIDE DEF w, n
<1>3. \A i \in 1..Len(w) : i \in 1..n \/ i = n + 1  BY <1>2
<1>4. \A j \in 1..n : j \in 1..Len(w)  BY <1>2
<1>5. ASSUME NEW i \in 1..Len(w)
      PROVE  w[i].do \in {"createNames", "name", "search", "end", "unblock"}
    BY <1>1, <1>2, <1>3
<1>6. ASSUME NEW i \in 1..Len(w), w[i].do = "name"
      PROVE  /\ User(w[i].id, w[i].who) \in us
             /\ \A j \in 1..Len(w) : j < i => w[j].do \in {"createNames", "name"}
  <2>1. i \in 1..n /\ w[i] = s[i]  BY <1>2, <1>3, <1>6
  <2>2. User(s[i].id, s[i].who) \in us  BY <1>1, <1>6, <2>1
  <2>3. ASSUME NEW j \in 1..Len(w), j < i  PROVE w[j].do \in {"createNames", "name"}
    <3>1. j \in 1..n  BY <1>2, <2>1, <2>3
    <3> QED  BY <1>1, <1>2, <1>6, <2>1, <2>3, <3>1
  <2> QED  BY <2>1, <2>2, <2>3
<1>7. ASSUME NEW i \in 1..Len(w), w[i].do = "createNames"
      PROVE  /\ i = 1 /\ names = NoFile
             /\ \A u \in us : \E j \in 1..Len(w) : w[j] = Command("name", u.id, u.who)
  <2>1. i \in 1..n /\ w[i] = s[i]  BY <1>2, <1>3, <1>7
  <2>2. /\ i = 1 /\ names = NoFile
        /\ \A u \in us : \E j \in 1..n : s[j] = Command("name", u.id, u.who)
      BY <1>1, <1>7, <2>1
  <2> QED  BY <1>2, <1>4, <2>2
<1>8. ASSUME NEW i \in 1..Len(w), w[i].do = "search", NEW j \in 1..Len(w), j > i
      PROVE  w[j].do # "name"
  <2>1. CASE j = n + 1  BY <1>2, <2>1
  <2>2. CASE j \in 1..n
    <3>1. i \in 1..n  BY <1>2, <1>8, <2>2
    <3> QED  BY <1>1, <1>2, <1>8, <2>2, <3>1
  <2> QED  BY <1>3, <2>1, <2>2
<1>9. BootNames(w, us)  BY <1>2, <1>5, <1>6, <1>7, <1>8 DEF BootNames
<1> QED  BY <1>9 DEF w

(* The new file and its names.                                             *)
LEMMA NewFileNames ==
  ASSUME NEW us \in SUBSET Accounts, names = NoFile
  PROVE  BootNames(Work("createNames") \o NameAll(us), us)
<1> DEFINE a == Command("createNames", 0, Anonymous)
           s == <<a>>
           t == NameAll(us)
           w == s \o t
<1>1. a \in Writes /\ a.do = "createNames" /\ Work("createNames") = s
  <2>1. "createNames" \in WriteKinds  BY DEF WriteKinds
  <2> QED  BY <2>1, PlainWrite
<1>2. /\ t \in Seq(Writes)
      /\ \A i \in 1..Len(t) : t[i].do = "name" /\ User(t[i].id, t[i].who) \in us
      /\ \A u \in us : \E i \in 1..Len(t) : t[i] = Command("name", u.id, u.who)
    BY NameAllTyped, NameAllNames
<1> HIDE DEF a, t
<1>3. s \in Seq(Writes) /\ Len(s) = 1 /\ s[1] = a  BY <1>1
<1> HIDE DEF s
<1>4. /\ w \in Seq(Writes) /\ Len(w) = Len(s) + Len(t) /\ Len(t) \in Nat
      /\ \A i \in 1..Len(s) : w[i] = s[i]
      /\ \A i \in 1..Len(t) : w[Len(s) + i] = t[i]
    BY <1>2, <1>3, WorkAfter
<1> HIDE DEF w
<1>5. w[1] = a
  <2>1. 1 \in 1..Len(s)  BY <1>3
  <2> QED  BY <1>3, <1>4, <2>1
<1>6. \A i \in 1..Len(w) : i = 1 \/ (i - 1 \in 1..Len(t) /\ w[i] = t[i - 1])
  <2> SUFFICES ASSUME NEW i \in 1..Len(w), i # 1
               PROVE  i - 1 \in 1..Len(t) /\ w[i] = t[i - 1]
      OBVIOUS
  <2>1. i - 1 \in 1..Len(t) /\ Len(s) + (i - 1) = i  BY <1>3, <1>4
  <2>2. w[Len(s) + (i - 1)] = t[i - 1]  BY <1>4, <2>1
  <2> QED  BY <2>1, <2>2
<1>7. \A i \in 1..Len(w) : w[i].do \in {"createNames", "name"}  BY <1>1, <1>2, <1>5, <1>6
<1>8. \A i \in 1..Len(w) : w[i].do = "name" => User(w[i].id, w[i].who) \in us
    BY <1>1, <1>2, <1>5, <1>6
<1>9. \A i \in 1..Len(w) : w[i].do = "createNames" => i = 1  BY <1>2, <1>6
<1>10. ASSUME NEW u \in us  PROVE \E j \in 1..Len(w) : w[j] = Command("name", u.id, u.who)
  <2>1. PICK i \in 1..Len(t) : t[i] = Command("name", u.id, u.who)  BY <1>2
  <2>2. 1 + i \in 1..Len(w) /\ w[1 + i] = t[i]  BY <1>3, <1>4
  <2> QED  BY <2>1, <2>2
<1>11. BootNames(w, us)  BY <1>4, <1>7, <1>8, <1>9, <1>10 DEF BootNames
<1> QED  BY <1>1, <1>11 DEF w, s, t

(* All writes of a boot.                                                   *)
LEMMA SetupNames ==
  ASSUME Restored \in Configs, NEW open \in BOOLEAN
  PROVE  BootNames(SetupWork(open), Restored.users)
<1> DEFINE us == Restored.users
           se == Command("search", 0, Anonymous)
           en == Command("end", 0, Anonymous)
           un == Command("unblock", 0, Anonymous)
           x == IF names = NoFile THEN Work("createNames") \o NameAll(us) ELSE <<>>
           y == x \o (IF Restored.next = 0 THEN <<se>> ELSE <<>>)
           z == y \o (IF open THEN <<en>> ELSE <<>>)
<1>1. "search" \in WriteKinds /\ "end" \in WriteKinds /\ "unblock" \in WriteKinds
    BY DEF WriteKinds
<1>2. /\ se \in Writes /\ se.do = "search" /\ Work("search") = <<se>>
      /\ en \in Writes /\ en.do = "end" /\ Work("end") = <<en>>
      /\ un \in Writes /\ un.do = "unblock" /\ Work("unblock") = <<un>>
    BY <1>1, PlainWrite
<1>3. us \in SUBSET Accounts  BY DEF Configs
<1>4. SetupWork(open) = z \o <<un>>  BY <1>2 DEF SetupWork
<1> HIDE DEF us, se, en, un
<1>5. BootNames(x, us)
  <2>1. CASE names = NoFile  BY <1>3, <2>1, NewFileNames
  <2>2. CASE names # NoFile
    <3>1. <<>> \in Seq(Writes) /\ Len(<<>>) = 0  BY EmptySeq
    <3>2. \A i \in 1..Len(<<>>) : FALSE  BY <3>1
    <3>3. BootNames(<<>>, us)  BY <3>1, <3>2 DEF BootNames
    <3> QED  BY <2>2, <3>3
  <2> QED  BY <2>1, <2>2
<1> HIDE DEF x
<1>6. BootNames(y, us)
  <2>1. CASE Restored.next = 0  BY <1>2, <1>5, <2>1, BootNamesNoMore
  <2>2. CASE Restored.next # 0
    <3>1. x \o <<>> = x  BY <1>5, ConcatEmptySeq DEF BootNames
    <3> QED  BY <1>5, <2>2, <3>1
  <2> QED  BY <2>1, <2>2
<1> HIDE DEF y
<1>7. BootNames(z, us)
  <2>1. CASE open  BY <1>2, <1>6, <2>1, BootNamesNoMore
  <2>2. CASE ~open
    <3>1. y \o <<>> = y  BY <1>6, ConcatEmptySeq DEF BootNames
    <3> QED  BY <1>6, <2>2, <3>1
  <2> QED  BY <2>1, <2>2
<1> HIDE DEF z
<1>8. BootNames(z \o <<un>>, us)  BY <1>2, <1>7, BootNamesNoMore
<1> QED  BY <1>4, <1>8 DEF us

(* They are in order.                                                      *)
LEMMA BootOrder ==
  ASSUME NEW us, BootNames(todo', us), LastWork'.do = "unblock",
         config'.users = us, names' = names
  PROVE  Order'
<1>1. /\ todo' \in Seq(Writes)
      /\ \A i \in 1..Len(todo') :
           /\ todo'[i].do \in {"createNames", "name", "search", "end", "unblock"}
           /\ todo'[i].do = "name" =>
                /\ User(todo'[i].id, todo'[i].who) \in us
                /\ \A j \in 1..Len(todo') : j < i => todo'[j].do \in {"createNames", "name"}
           /\ todo'[i].do = "createNames" =>
                /\ i = 1 /\ names = NoFile
                /\ \A u \in us : \E j \in 1..Len(todo') : todo'[j] = Command("name", u.id, u.who)
           /\ todo'[i].do = "search" => \A j \in 1..Len(todo') : j > i => todo'[j].do # "name"
    BY DEF BootNames
<1>2. DOMAIN todo' = 1..Len(todo')  BY <1>1, LenProperties
<1>3. \A i \in DOMAIN todo' : todo'[i].do \in {"createNames", "name", "search", "end", "unblock"}
    BY <1>1, <1>2
<1>4. SaveComesFirst' /\ FreedAreUnused' /\ StartsAreOfUsers' /\ WipeComesFirst'
    BY <1>3 DEF SaveComesFirst, FreedAreUnused, StartsAreOfUsers, WipeComesFirst
<1>5. NamesComeEarly'
  <2> SUFFICES ASSUME NEW i \in DOMAIN todo', todo'[i].do = "name"
               PROVE  /\ User(todo'[i].id, todo'[i].who) \in us
                      /\ \A j \in DOMAIN todo' : j < i =>
                           todo'[j].do \in {"createNames", "unlink", "rename", "name"}
      BY DEF NamesComeEarly, User
  <2> QED  BY <1>1, <1>2
<1>6. NewFileIsFilled'
  <2> SUFFICES ASSUME NEW i \in DOMAIN todo', todo'[i].do = "createNames"
               PROVE  /\ i = 1 /\ names = NoFile
                      /\ \A u \in us : \E j \in DOMAIN todo' :
                           todo'[j] = Command("name", u.id, u.who)
      BY DEF NewFileIsFilled, Command
  <2> QED  BY <1>1, <1>2
<1>7. SearchComesLate'
  <2> SUFFICES ASSUME NEW i \in DOMAIN todo', todo'[i].do = "search", NEW j \in DOMAIN todo', j > i
               PROVE  todo'[j].do # "name"
      BY DEF SearchComesLate
  <2> QED  BY <1>1, <1>2
<1> QED  BY <1>4, <1>5, <1>6, <1>7 DEF Order

(* The charges that a boot finds are charges of the log.                   *)
LEMMA FoundCharged ==
  ASSUME Inv, Accounted, files' = Found \/ files' = files, names' = names
  PROVE  Charged'
<1>1. /\ FileTypes /\ Orderly /\ DOMAIN <<>> = {}
      /\ \A f \in DOMAIN files : \A r \in DOMAIN files[f] : files[f][r].id # 0 =>
           /\ names # NoFile /\ names[files[f][r].id] = files[f][r].who
           /\ files[f][r].who # Anonymous
    BY DEF Inv, TypeOK, Accounted, Charged
<1>2. \A f \in DOMAIN files' :
        (files')[f] = <<>> \/ \E g \in DOMAIN files : (files')[f] = files[g]
    BY <1>1, FoundIsOrderly
<1>3. ASSUME NEW f \in DOMAIN files', NEW r \in DOMAIN (files')[f], (files')[f][r].id # 0
      PROVE  /\ names # NoFile /\ names[(files')[f][r].id] = (files')[f][r].who
             /\ (files')[f][r].who # Anonymous
  <2>1. PICK g \in DOMAIN files : (files')[f] = files[g]  BY <1>1, <1>2, <1>3
  <2> QED  BY <1>1, <1>3, <2>1
<1> QED  BY <1>3 DEF Charged

(* A restart takes the users of flash.  While a name is being written they *)
(* would not have theirs: the power is not cut then.                       *)
LEMMA RestartAccounted ==
  ASSUME Inv, Accounted, Restart, ~Doing("name")
  PROVE  Accounted'
<1>1. /\ FindLog /\ names' = names /\ stored' = stored
      /\ config' = Restored /\ request' = Booting
    BY DEF Restart
<1>2. stored = NoFile => Restored.users = {} /\ Restored.next = 0  BY DEF Restored
<1>3. stored # NoFile => Restored = stored  BY DEF Restored
<1>4. Restored \in Configs
  <2>1. CASE stored = NoFile  BY <2>1, SomeTypes DEF Restored, Configs
  <2>2. CASE stored # NoFile  BY <1>3, <2>2 DEF Inv, TypeOK, UserTypes
  <2> QED  BY <2>1, <2>2
<1>5. names # NoFile /\ stored # NoFile => \A u \in stored.users : names[u.id] = u.who
    BY StoredNamed DEF Accounted
<1>6. Sound(config)' /\ (names # NoFile => NextIsFree(config)')
  <2>1. CASE stored = NoFile  BY <1>1, <1>2, <2>1 DEF Sound, NextIsFree
  <2>2. CASE stored # NoFile
      BY <1>1, <1>3, <2>2 DEF Accounted, StoredFits, Sound, NextIsFree
  <2> QED  BY <2>1, <2>2
<1>7. names # NoFile => \A u \in Restored.users : names[u.id] = u.who  BY <1>2, <1>3, <1>5
<1>8. ConfigFits'  BY <1>1, <1>6, <1>7 DEF ConfigFits
<1>9. StoredFits'
  <2>1. stored # NoFile => Sound(stored)' /\ (names # NoFile => NextIsFree(stored)')
      BY <1>1, <1>3, <1>6 DEF Sound, NextIsFree
  <2> QED  BY <1>1, <1>5, <2>1 DEF StoredFits
<1>10. UsersSaved'  BY <1>1, <1>3 DEF UsersSaved
<1>11. Order'
  <2>1. CASE Consecutive
    <3>1. Open' \in BOOLEAN  BY DEF Open
    <3>2. todo' = SetupWork(Open')  BY <1>1, <2>1 DEF FindLog
    <3>3. LastWork'.do = "unblock"  BY <1>4, <3>1, <3>2, SetupWorkTyped DEF LastWork
    <3>4. BootNames(todo', Restored.users)  BY <1>4, <3>1, <3>2, SetupNames
    <3> QED  BY <1>1, <3>3, <3>4, BootOrder
  <2>2. CASE ~Consecutive
    <3>1. todo' = Work("refused")  BY <1>1, <2>2 DEF FindLog
    <3>2. \A i \in DOMAIN todo' : todo'[i].do = "refused"  BY <3>1 DEF Work, Command
    <3> QED
        BY <3>2 DEF Order, SaveComesFirst, NamesComeEarly, NewFileIsFilled, SearchComesLate,
           FreedAreUnused, StartsAreOfUsers, WipeComesFirst
  <2> QED  BY <2>1, <2>2
<1>12. files' = Found \/ files' = files  BY <1>1 DEF FindLog
<1>13. RequestFits'  BY <1>1 DEF RequestFits, Booting, Command
<1>14. Charged'  BY <1>1, <1>12, FoundCharged
<1> QED  BY <1>8, <1>9, <1>10, <1>11, <1>13, <1>14 DEF Accounted

---------------------------------------------------------------------------
(* Whose charge it is, in every state.                                     *)

(* The box as it is delivered.                                             *)
LEMMA InitAccounted == Init => Accounted
<1> SUFFICES ASSUME Init  PROVE Accounted
    OBVIOUS
<1>1. /\ files = <<<<>>>> /\ names = [id \in Ids |-> Anonymous] /\ stored = NoFile
      /\ config = [users |-> {}, next |-> 1] /\ todo = <<>> /\ request = NoRequest
    BY DEF Init
<1>2. 1 \in Ids  BY LogAssumption DEF Ids
<1>3. ConfigFits  BY <1>1, <1>2 DEF ConfigFits, Sound, NextIsFree
<1>4. StoredFits /\ UsersSaved  BY <1>1 DEF StoredFits, UsersSaved
<1>5. DOMAIN todo = {}  BY <1>1
<1>6. Order
    BY <1>5 DEF Order, SaveComesFirst, NamesComeEarly, NewFileIsFilled, SearchComesLate,
       FreedAreUnused, StartsAreOfUsers, WipeComesFirst
<1>7. RequestFits  BY <1>1 DEF RequestFits, NoRequest, Command
<1>8. Charged
  <2>1. DOMAIN files = {1} /\ files[1] = <<>> /\ DOMAIN <<>> = {}  BY <1>1
  <2> QED  BY <2>1 DEF Charged
<1> QED  BY <1>3, <1>4, <1>6, <1>7, <1>8 DEF Accounted

(* Every step.                                                             *)
LEMMA NextAccounted ==
  ASSUME "name" \in Sturdy, Inv, Accounted, [Next]_vars
  PROVE  Accounted'
<1>1. CASE WriteNext  BY <1>1, WritesAccounted
<1>2. CASE EspRestart
  <2>1. Restart /\ ~Doing("name")  BY <1>2 DEF EspRestart, Doing
  <2> QED  BY <2>1, RestartAccounted
<1>3. CASE PowerCut
  <2>1. Restart /\ ~Doing("name")  BY <1>3 DEF PowerCut
  <2> QED  BY <2>1, RestartAccounted
<1>4. CASE \E who \in Persons : AskAdd(who)  BY <1>4, AskAddAccounted
<1>5. CASE \E u \in config.users : AskRemove(u) \/ AskModify(u) \/ Trigger(u)
    BY <1>5, AskOfAccounted, TriggerAccounted
<1>6. CASE AddUser  BY <1>6, AddAccounted
<1>7. CASE RemoveUser  BY <1>7, RemoveAccounted
<1>8. CASE ModifyUser  BY <1>8, ModifyAccounted
<1>9. CASE RemoveAllCharges  BY <1>9, RemoveAllAccounted
<1>10. CASE WatchCharger  BY <1>10, WatchAccounted
<1>11. CASE MovePlug
  <2>1. UNCHANGED <<files, names, stored, config, todo, request>>  BY <1>11 DEF MovePlug, flash
  <2> QED  BY <2>1, OutsideAccounted
<1>12. CASE SwitchUserSlot  BY <1>12, SwitchAccounted
<1>13. CASE \E s \in Statuses \union {"unplugged"} : Status(s)  BY <1>13, StatusAccounted
<1>14. CASE UNCHANGED vars
  <2>1. UNCHANGED <<files, names, stored, config, todo, request>>  BY <1>14 DEF vars, flash
  <2> QED  BY <2>1, OutsideAccounted
<1>15. CASE RemoveFile
  <2>1. UNCHANGED <<files, names, stored, config, todo, request>>  BY <1>15 DEF RemoveFile
  <2> QED  BY <2>1, OutsideAccounted
<1> QED
    BY <1>1, <1>2, <1>3, <1>4, <1>5, <1>6, <1>7, <1>8, <1>9, <1>10, <1>11, <1>12, <1>13, <1>14,
       <1>15 DEF Next

(* A stored charge is shown under the name of the person it was charged    *)
(* to, across users who are added, renamed and removed, files that are     *)
(* dropped, wipes and power cuts, as long as the write of a name itself is *)
(* not cut (ChargesKeepTheirName; add, remove and setup of users.cpp,      *)
(* removeOldRecords of charge_tracker.cpp).                                *)
THEOREM ChargesAreAttributed ==
  ASSUME "name" \in Sturdy
  PROVE  Spec => []ChargesKeepTheirName
<1>1. Init => Accounted  BY InitAccounted
<1>2. Inv /\ Accounted /\ [Next]_vars => Accounted'  BY NextAccounted
<1>3. Accounted => ChargesKeepTheirName
  <2> SUFFICES ASSUME Accounted  PROVE ChargesKeepTheirName
      OBVIOUS
  <2> QED  BY DEF Accounted, Charged, ChargesKeepTheirName
<1>4. Spec => []Inv  BY AlwaysInv
<1> QED  BY <1>1, <1>2, <1>3, <1>4, PTL DEF Spec

=============================================================================
