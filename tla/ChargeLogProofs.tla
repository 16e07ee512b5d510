--------------------------- MODULE ChargeLogProofs ---------------------------
(***************************************************************************)
(* For every number of users, IDs, files, records and power cuts: the      *)
(* types of the charge log, that a boot accepts it whatever write the power *)
(* cut prevents, except in the removal of all charges, and that the slot   *)
(* info names the owner of a charge.                                       *)
(***************************************************************************)
EXTENDS ChargeLog, SequenceTheorems, FiniteSetTheorems, WellFoundedInduction, TLAPS

---------------------------------------------------------------------------
(* The strengthening: what the pending writes of the main thread promise.  *)

Pending(do) == \E i \in DOMAIN todo : todo[i].do = do
LastWork == todo[Len(todo)]

\* A start is the last write; before it no record is open, the slot info has
\* its ID, and a full file is being replaced.
StartWaits ==
  /\ \A i \in DOMAIN todo : todo[i].do = "start" =>
       i = Len(todo) /\ todo[i].id = slot /\ ~Open
  /\ Pending("start") /\ Full(LastFile) => Pending("create")

\* The new file comes just before the start, the oldest file goes first.
RollOverWaits ==
  /\ \A i \in DOMAIN todo : todo[i].do = "create" =>
       /\ i = Len(todo) - 1 /\ LastWork.do = "start"
       /\ Full(LastFile)
       /\ Len(files) < MaxFiles \/ Head(todo).do = "drop"
  /\ \A i \in DOMAIN todo : todo[i].do = "drop" =>
       /\ i = 1 /\ Len(files) = MaxFiles
       /\ Len(todo) >= 3 /\ todo[Len(todo) - 1].do = "create"

\* An end belongs to the open record, and no other write of the log follows.
EndWaits ==
  \A i \in DOMAIN todo : todo[i].do = "end" =>
    Open /\ \A j \in DOMAIN todo : j > i => todo[j].do = "unblock"

\* A wipe comes first, and the restart follows the removal of the names.
WipeWaits ==
  /\ \A i \in DOMAIN todo : todo[i].do = "wipe" =>
       i = 1 /\ \A j \in DOMAIN todo : j > 1 => todo[j].do \in {"removeNames", "restart"}
  /\ \A i \in DOMAIN todo : todo[i].do = "removeNames" =>
       i = Len(todo) - 1 /\ LastWork.do = "restart"

\* Without a file of names the next write creates it or restarts.
NamesWait == names = NoFile => todo # <<>> /\ Head(todo).do \in {"createNames", "restart"}

\* The slot info has the ID of the open record, or its end is pending.
OwnerWaits == Open => Pending("end") \/ Refused \/ slot = Last(LastFile).id

\* All files but the last are full, and only the last record lacks its end.
Orderly ==
  \A f \in DOMAIN files :
    /\ f < Len(files) => Len(files[f]) = RecordsPerFile
    /\ \A r \in DOMAIN files[f] :
         files[f][r].ended \/ (f = Len(files) /\ r = Len(files[f]))

\* Files are missing only while they are removed, or if that has been cut off.
RemovalWaits == removed # {} => Doing("wipe") \/ Refused

\* A user who was accepted and is not yet stored still fits.
UserFits ==
  /\ stored # NoFile => Cardinality(stored.users) < MaxActive
  /\ request.do = "add" =>
       /\ request.id \in Ids /\ request.who \in Persons
       /\ Cardinality(config.users) + 1 < MaxActive
            \/ (todo # <<>> /\ LastWork.do = "unblock")

Waits == StartWaits /\ RollOverWaits /\ EndWaits /\ WipeWaits /\ OwnerWaits

Inv == TypeOK /\ Orderly /\ Waits /\ RemovalWaits /\ NamesWait /\ UserFits

---------------------------------------------------------------------------
(* The writes as sequences.                                                *)

(* Work and WorkOn make one write.                                         *)
LEMMA WorkIsOne ==
  ASSUME NEW do \in WriteKinds, NEW id \in 0..MaxId, NEW who \in Persons \union {Anonymous}
  PROVE  /\ Command(do, id, who) \in Writes
         /\ Command(do, id, who).do = do /\ Command(do, id, who).id = id
         /\ WorkOn(do, id, who) \in Seq(Writes) /\ Len(WorkOn(do, id, who)) = 1
         /\ WorkOn(do, id, who)[1] = Command(do, id, who)
         /\ Work(do) \in Seq(Writes) /\ Len(Work(do)) = 1
         /\ Work(do)[1].do = do
<1>1. Command(do, id, who) \in Writes /\ Command(do, 0, Anonymous) \in Writes
  <2>1. 0 \in 0..MaxId  BY LogAssumption
  <2> QED  BY <2>1 DEF Command, Writes
<1>2. \A c \in Writes : <<c>> \in Seq(Writes) /\ Len(<<c>>) = 1 /\ <<c>>[1] = c
    OBVIOUS
<1>3. /\ Command(do, 0, Anonymous).do = do
      /\ Command(do, id, who).do = do /\ Command(do, id, who).id = id
    BY DEF Command
<1> QED  BY <1>1, <1>2, <1>3 DEF Work, WorkOn

(* A write after others.                                                   *)
LEMMA WorkAfter ==
  ASSUME NEW s \in Seq(Writes), NEW t \in Seq(Writes)
  PROVE  /\ s \o t \in Seq(Writes) /\ Len(s \o t) = Len(s) + Len(t)
         /\ Len(s) \in Nat /\ Len(t) \in Nat
         /\ DOMAIN s = 1..Len(s) /\ DOMAIN t = 1..Len(t)
         /\ DOMAIN (s \o t) = 1..Len(s) + Len(t)
         /\ \A i \in 1..Len(s) : (s \o t)[i] = s[i]
         /\ \A i \in 1..Len(t) : (s \o t)[Len(s) + i] = t[i]
<1>1. /\ s \o t \in Seq(Writes) /\ Len(s \o t) = Len(s) + Len(t)
      /\ \A i \in 1..Len(s) + Len(t) : (s \o t)[i] = IF i <= Len(s) THEN s[i] ELSE t[i - Len(s)]
    BY ConcatProperties
<1>2. Len(s) \in Nat /\ Len(t) \in Nat /\ DOMAIN s = 1..Len(s) /\ DOMAIN t = 1..Len(t)
    BY LenProperties
<1>3. DOMAIN (s \o t) = 1..Len(s \o t)  BY <1>1, LenProperties
<1> QED  BY <1>1, <1>2, <1>3

(* One write after others.                                                 *)
LEMMA OneMore ==
  ASSUME NEW s \in Seq(Writes), NEW c \in Writes
  PROVE  /\ s \o <<c>> \in Seq(Writes) /\ Len(s \o <<c>>) = Len(s) + 1
         /\ Len(s) \in Nat /\ DOMAIN (s \o <<c>>) = 1..Len(s) + 1
         /\ \A i \in 1..Len(s) : (s \o <<c>>)[i] = s[i]
         /\ (s \o <<c>>)[Len(s) + 1] = c
<1>1. <<c>> \in Seq(Writes) /\ Len(<<c>>) = 1 /\ <<c>>[1] = c  OBVIOUS
<1>2. /\ s \o <<c>> \in Seq(Writes) /\ Len(s \o <<c>>) = Len(s) + Len(<<c>>)
      /\ Len(s) \in Nat
      /\ DOMAIN (s \o <<c>>) = 1..Len(s) + Len(<<c>>)
      /\ \A i \in 1..Len(s) : (s \o <<c>>)[i] = s[i]
      /\ \A i \in 1..Len(<<c>>) : (s \o <<c>>)[Len(s) + i] = <<c>>[i]
    BY <1>1, WorkAfter
<1>3. 1 \in 1..Len(<<c>>)  BY <1>1
<1> QED  BY <1>1, <1>2, <1>3

(* Two, three and four writes.                                             *)
LEMMA TwoWrites ==
  ASSUME NEW a \in Writes, NEW b \in Writes
  PROVE  LET w == <<a>> \o <<b>>
         IN  w \in Seq(Writes) /\ Len(w) = 2 /\ DOMAIN w = {1, 2} /\ w[1] = a /\ w[2] = b
<1> DEFINE s == <<a>>
           w == s \o <<b>>
<1>1. s \in Seq(Writes) /\ Len(s) = 1 /\ s[1] = a  OBVIOUS
<1> HIDE DEF s
<1>2. /\ w \in Seq(Writes) /\ Len(w) = Len(s) + 1 /\ DOMAIN w = 1..Len(s) + 1
      /\ \A i \in 1..Len(s) : w[i] = s[i]
      /\ w[Len(s) + 1] = b
    BY <1>1, OneMore
<1> HIDE DEF w
<1>3. 1 \in 1..1 /\ 1..1 + 1 = {1, 2}  OBVIOUS
<1> QED  BY <1>1, <1>2, <1>3 DEF w, s

LEMMA ThreeWrites ==
  ASSUME NEW a \in Writes, NEW b \in Writes, NEW c \in Writes
  PROVE  LET w == <<a>> \o <<b>> \o <<c>>
         IN  /\ w \in Seq(Writes) /\ Len(w) = 3 /\ DOMAIN w = {1, 2, 3}
             /\ w[1] = a /\ w[2] = b /\ w[3] = c
<1> DEFINE s == <<a>> \o <<b>>
           w == s \o <<c>>
<1>1. s \in Seq(Writes) /\ Len(s) = 2 /\ s[1] = a /\ s[2] = b  BY TwoWrites
<1> HIDE DEF s
<1>2. /\ w \in Seq(Writes) /\ Len(w) = Len(s) + 1 /\ DOMAIN w = 1..Len(s) + 1
      /\ \A i \in 1..Len(s) : w[i] = s[i]
      /\ w[Len(s) + 1] = c
    BY <1>1, OneMore
<1> HIDE DEF w
<1>3. 1 \in 1..2 /\ 2 \in 1..2 /\ 1..2 + 1 = {1, 2, 3}  OBVIOUS
<1> QED  BY <1>1, <1>2, <1>3 DEF w, s

LEMMA FourWrites ==
  ASSUME NEW a \in Writes, NEW b \in Writes, NEW c \in Writes, NEW d \in Writes
  PROVE  LET w == <<a>> \o <<b>> \o <<c>> \o <<d>>
         IN  /\ w \in Seq(Writes) /\ Len(w) = 4 /\ DOMAIN w = {1, 2, 3, 4}
             /\ w[1] = a /\ w[2] = b /\ w[3] = c /\ w[4] = d
<1> DEFINE s == <<a>> \o <<b>> \o <<c>>
           w == s \o <<d>>
<1>1. s \in Seq(Writes) /\ Len(s) = 3 /\ s[1] = a /\ s[2] = b /\ s[3] = c  BY ThreeWrites
<1> HIDE DEF s
<1>2. /\ w \in Seq(Writes) /\ Len(w) = Len(s) + 1 /\ DOMAIN w = 1..Len(s) + 1
      /\ \A i \in 1..Len(s) : w[i] = s[i]
      /\ w[Len(s) + 1] = d
    BY <1>1, OneMore
<1> HIDE DEF w
<1>3. 1 \in 1..3 /\ 2 \in 1..3 /\ 3 \in 1..3 /\ 1..3 + 1 = {1, 2, 3, 4}  OBVIOUS
<1> QED  BY <1>1, <1>2, <1>3 DEF w, s

(* Every kind of write, as a record.                                       *)
LEMMA PlainWrite ==
  ASSUME NEW do \in WriteKinds
  PROVE  /\ Command(do, 0, Anonymous) \in Writes /\ Command(do, 0, Anonymous).do = do
         /\ Work(do) = <<Command(do, 0, Anonymous)>>
<1>1. 0 \in 0..MaxId  BY LogAssumption
<1> QED  BY <1>1 DEF Command, Writes, Work

(* The loop over all IDs frees or keeps each.                              *)
LEMMA FreeAllTyped ==
  ASSUME NEW ids
  PROVE  /\ FreeAll(ids) \in Seq(Writes) /\ Len(FreeAll(ids)) = MaxId
         /\ \A i \in 1..MaxId : FreeAll(ids)[i].do \in {"free", "keep"}
<1>1. \A id \in Ids : /\ FreeAll(ids)[id] \in Writes
                     /\ FreeAll(ids)[id].do \in {"free", "keep"}
  <2> TAKE id \in Ids
  <2>1. id \in 0..MaxId  BY LogAssumption DEF Ids
  <2>2. \A d \in WriteKinds :
          Command(d, id, Anonymous) \in Writes /\ Command(d, id, Anonymous).do = d
      BY <2>1, WorkIsOne
  <2>3. CASE id \in ids
    <3>1. FreeAll(ids)[id] = Command("free", id, Anonymous)  BY <2>3 DEF FreeAll
    <3> QED  BY <2>2, <3>1 DEF WriteKinds
  <2>4. CASE id \notin ids
    <3>1. FreeAll(ids)[id] = Command("keep", id, Anonymous)  BY <2>4 DEF FreeAll
    <3> QED  BY <2>2, <3>1 DEF WriteKinds
  <2> QED  BY <2>3, <2>4
<1>3. MaxId \in Nat /\ FreeAll(ids) \in [1..MaxId -> Writes]
  <2>1. FreeAll(ids) = [id \in 1..MaxId |-> FreeAll(ids)[id]]  BY DEF FreeAll, Ids
  <2> QED  BY <1>1, <2>1, LogAssumption DEF Ids
<1>4. FreeAll(ids) \in Seq(Writes)  BY <1>3
<1>5. Len(FreeAll(ids)) = MaxId  BY <1>3, <1>4, LenProperties
<1> QED  BY <1>1, <1>4, <1>5 DEF Ids

(* The users of a configuration are finitely many.                         *)
LEMMA AccountsFinite ==
  ASSUME NEW us \in SUBSET Accounts
  PROVE  IsFiniteSet(us) /\ Cardinality(us) \in Nat
<1>1. IsFiniteSet(Ids \X Persons)
  <2>1. 1 \in Int /\ MaxId \in Int /\ IsFiniteSet(Persons)  BY LogAssumption
  <2>2. IsFiniteSet(Ids)  BY <2>1, FS_Interval DEF Ids
  <2> QED  BY <2>1, <2>2, FS_Product
<1> DEFINE f == [p \in Ids \X Persons |-> User(p[1], p[2])]
<1>2. f \in [Ids \X Persons -> Accounts]  BY DEF Accounts, User
<1>3. \A a \in Accounts : \E p \in Ids \X Persons : f[p] = a
  <2> SUFFICES ASSUME NEW a \in Accounts
               PROVE  \E p \in Ids \X Persons : f[p] = a
      OBVIOUS
  <2>1. <<a.id, a.who>> \in Ids \X Persons /\ a = User(a.id, a.who)  BY DEF Accounts, User
  <2>2. f[<<a.id, a.who>>] = a  BY <2>1
  <2> QED  BY <2>1, <2>2
<1> HIDE DEF f
<1>4. f \in Surjection(Ids \X Persons, Accounts)  BY <1>2, <1>3 DEF Surjection
<1>5. IsFiniteSet(Accounts)  BY <1>1, <1>4, FS_Surjection, Zenon
<1> QED  BY <1>5, FS_Subset, FS_CardinalityType

(* The names of the users, one after the other.                            *)
LEMMA NameAllTyped ==
  ASSUME NEW us \in SUBSET Accounts
  PROVE  /\ NameAll(us) \in Seq(Writes)
         /\ \A i \in 1..Len(NameAll(us)) : NameAll(us)[i].do = "name"
<1> DEFINE some == SetToSeq(us)
           n == Cardinality(us)
<1>1. n \in Nat /\ IsFiniteSet(us)  BY AccountsFinite
<1>2. \E f : f \in Bijection(1..n, us)
    BY <1>1, FS_CardinalityType DEF ExistsBijection
<1>3. some \in [1..n -> us]
  <2>1. \E f \in [1..n -> us] : IsInjective(f)  BY <1>2, Zenon DEF Bijection, Injection, IsInjective
  <2> QED  BY <2>1, Zenon DEF SetToSeq
<1>4. \A i \in 1..n : some[i] \in Accounts  BY <1>3
<1> HIDE DEF some, n
<1>5. DOMAIN some = 1..n  BY <1>3
<1>6. NameAll(us) = [i \in 1..n |-> Command("name", some[i].id, some[i].who)]
    BY <1>5 DEF NameAll, some
<1>7. \A i \in 1..n : /\ Command("name", some[i].id, some[i].who) \in Writes
                      /\ Command("name", some[i].id, some[i].who).do = "name"
  <2>1. \A i \in 1..n : some[i].id \in 0..MaxId /\ some[i].who \in Persons \union {Anonymous}
      BY <1>4, LogAssumption DEF Accounts, Ids
  <2>2. "name" \in WriteKinds  BY DEF WriteKinds
  <2> QED  BY <2>1, <2>2, WorkIsOne
<1>8. NameAll(us) \in [1..n -> Writes]  BY <1>6, <1>7
<1>9. NameAll(us) \in Seq(Writes)  BY <1>1, <1>8
<1>10. Len(NameAll(us)) = n  BY <1>1, <1>8, <1>9, LenProperties
<1> QED  BY <1>6, <1>7, <1>9, <1>10

(* writeConfig makes two writes.                                           *)
LEMMA SaveTyped ==
  /\ Save \in Seq(Writes) /\ Len(Save) = 2
  /\ Save[1].do = "unlink" /\ Save[2].do = "rename"
<1>1. /\ Work("unlink") \in Seq(Writes) /\ Len(Work("unlink")) = 1
      /\ Work("rename") \in Seq(Writes) /\ Len(Work("rename")) = 1
      /\ Work("unlink")[1].do = "unlink" /\ Work("rename")[1].do = "rename"
  <2>1. /\ "unlink" \in WriteKinds /\ "rename" \in WriteKinds
        /\ 0 \in 0..MaxId /\ Anonymous \in Persons \union {Anonymous}
      BY LogAssumption DEF WriteKinds
  <2> QED  BY <2>1, WorkIsOne
<1>2. /\ Save \in Seq(Writes) /\ Len(Save) = 2
      /\ \A i \in 1..1 : Save[i] = Work("unlink")[i]
      /\ \A i \in 1..1 : Save[1 + i] = Work("rename")[i]
    BY <1>1, WorkAfter DEF Save
<1>3. 1 \in 1..1  OBVIOUS
<1>4. Save[1] = Work("unlink")[1] /\ Save[1 + 1] = Work("rename")[1]  BY <1>2, <1>3
<1> QED  BY <1>1, <1>2, <1>4

(* The writes of startCharge: a full file is replaced first, and the       *)
(* oldest one goes if there are too many.                                  *)
LEMMA StartWorkTyped ==
  ASSUME NEW id \in 0..MaxId, NEW who \in Persons \union {Anonymous}
  PROVE  LET w == StartWork(id, who)
             n == Len(w)
         IN  /\ w \in Seq(Writes) /\ n \in Nat \ {0}
             /\ w[n].do = "start" /\ w[n].id = id
             /\ \A i \in 1..n : i # n => w[i].do \in {"drop", "free", "keep", "create"}
             /\ \A i \in 1..n : w[i].do = "create" => i = n - 1
             /\ \A i \in 1..n : w[i].do = "drop" =>
                  i = 1 /\ n >= 3 /\ Len(files) >= MaxFiles
             /\ n > 1 => Full(LastFile)
             /\ Full(LastFile) =>
                  /\ n > 1 /\ w[n - 1].do = "create"
                  /\ Len(files) >= MaxFiles => w[1].do = "drop"
<1> DEFINE start == WorkOn("start", id, who)
           drop == IF Len(files) >= MaxFiles THEN Work("drop") \o FreeAll(Orphans) ELSE <<>>
           create == Work("create")
           first == IF Full(LastFile) THEN RollOver ELSE <<>>
<1>1. /\ start \in Seq(Writes) /\ Len(start) = 1
      /\ start[1].do = "start" /\ start[1].id = id
  <2>1. "start" \in WriteKinds  BY DEF WriteKinds
  <2> QED  BY <2>1, WorkIsOne
<1>2. /\ create \in Seq(Writes) /\ Len(create) = 1 /\ create[1].do = "create"
      /\ Work("drop") \in Seq(Writes) /\ Len(Work("drop")) = 1 /\ Work("drop")[1].do = "drop"
  <2>1. /\ "create" \in WriteKinds /\ "drop" \in WriteKinds
        /\ 0 \in 0..MaxId /\ Anonymous \in Persons \union {Anonymous}
      BY LogAssumption DEF WriteKinds
  <2> QED  BY <2>1, WorkIsOne
<1>3. /\ drop \in Seq(Writes) /\ Len(drop) \in Nat
      /\ \A i \in 1..Len(drop) : drop[i].do = "drop" => i = 1 /\ Len(files) >= MaxFiles
      /\ \A i \in 1..Len(drop) : drop[i].do \in {"drop", "free", "keep"}
      /\ Len(files) >= MaxFiles => Len(drop) >= 1 /\ drop[1].do = "drop"
  <2>1. CASE Len(files) >= MaxFiles
    <3>1. /\ FreeAll(Orphans) \in Seq(Writes) /\ Len(FreeAll(Orphans)) = MaxId
          /\ \A i \in 1..MaxId : FreeAll(Orphans)[i].do \in {"free", "keep"}
        BY FreeAllTyped
    <3>2. drop = Work("drop") \o FreeAll(Orphans)  BY <2>1
    <3> DEFINE one == Work("drop")
               all == FreeAll(Orphans)
    <3> HIDE DEF drop, one, all
    <3>a. /\ one \in Seq(Writes) /\ Len(one) = 1 /\ all \in Seq(Writes) /\ Len(all) = MaxId
          /\ drop = one \o all
        BY <1>2, <3>1, <3>2 DEF one, all
    <3>b. /\ drop \in Seq(Writes) /\ Len(drop) = 1 + MaxId
          /\ \A i \in 1..1 : drop[i] = one[i]
          /\ \A i \in 1..MaxId : drop[1 + i] = all[i]
      <4>1. /\ drop \in Seq(Writes) /\ Len(drop) = Len(one) + Len(all)
            /\ \A i \in 1..Len(one) : drop[i] = one[i]
            /\ \A i \in 1..Len(all) : drop[Len(one) + i] = all[i]
          BY <3>a, WorkAfter
      <4> QED  BY <3>a, <4>1
    <3>3. /\ drop \in Seq(Writes) /\ Len(drop) = 1 + MaxId
          /\ \A i \in 1..1 : drop[i] = Work("drop")[i]
          /\ \A i \in 1..MaxId : drop[1 + i] = FreeAll(Orphans)[i]
        BY <3>b DEF one, all
    <3>4. drop[1].do = "drop"  BY <1>2, <3>3
    <3>5. \A i \in 2..Len(drop) : drop[i].do \in {"free", "keep"}
      <4> TAKE i \in 2..Len(drop)
      <4>1. i - 1 \in 1..MaxId /\ 1 + (i - 1) = i  BY <3>3, LogAssumption
      <4> QED  BY <3>1, <3>3, <4>1
    <3>6. MaxId \in Nat  BY LogAssumption
    <3>7. Len(drop) \in Nat /\ Len(drop) >= 1  BY <3>3, <3>6
    <3>8. \A i \in 1..Len(drop) : i = 1 \/ i \in 2..Len(drop)  BY <3>7
    <3>9. \A i \in 1..Len(drop) : drop[i].do \in {"drop", "free", "keep"}
        BY <3>4, <3>5, <3>8
    <3>10. drop \in Seq(Writes)  BY <3>3
    <3>11. ASSUME NEW i \in 1..Len(drop), drop[i].do = "drop"
           PROVE  i = 1
        BY <3>5, <3>8, <3>11
    <3>12. \A i \in 1..Len(drop) : drop[i].do = "drop" => i = 1 /\ Len(files) >= MaxFiles
        BY <2>1, <3>11
    <3>13. Len(files) >= MaxFiles => Len(drop) >= 1 /\ drop[1].do = "drop"
        BY <3>4, <3>7
    <3> QED  BY <3>7, <3>9, <3>10, <3>12, <3>13
  <2>2. CASE ~(Len(files) >= MaxFiles)
    <3>1. drop = <<>>  BY <2>2
    <3> HIDE DEF drop
    <3> QED  BY <2>2, <3>1, EmptySeq
  <2> QED  BY <2>1, <2>2
<1>4. /\ first \in Seq(Writes) /\ Len(first) \in Nat
      /\ \A i \in 1..Len(first) : first[i].do \in {"drop", "free", "keep", "create"}
      /\ \A i \in 1..Len(first) : first[i].do = "create" => i = Len(first)
      /\ \A i \in 1..Len(first) : first[i].do = "drop" =>
           i = 1 /\ Len(first) >= 2 /\ Len(files) >= MaxFiles
      /\ Len(first) > 0 => Full(LastFile)
      /\ Full(LastFile) =>
           /\ Len(first) > 0 /\ first[Len(first)].do = "create"
           /\ Len(files) >= MaxFiles => first[1].do = "drop"
  <2>1. CASE Full(LastFile)
    <3>1. first = drop \o create  BY <2>1 DEF RollOver
    <3> HIDE DEF first, drop, create
    <3>2. /\ first \in Seq(Writes) /\ Len(first) = Len(drop) + 1
          /\ \A i \in 1..Len(drop) : first[i] = drop[i]
          /\ \A i \in 1..1 : first[Len(drop) + i] = create[i]
        BY <1>2, <1>3, <3>1, WorkAfter
    <3>3. first[Len(first)].do = "create"  BY <1>2, <3>2
    <3>4. \A i \in 1..Len(first) : i \in 1..Len(drop) \/ i = Len(first)  BY <1>3, <3>2
    <3>5. \A i \in 1..Len(drop) : /\ first[i].do \in {"drop", "free", "keep"}
                                  /\ first[i].do = "drop" => i = 1 /\ Len(files) >= MaxFiles
        BY <1>3, <3>2
    <3>6. Len(files) >= MaxFiles => Len(drop) >= 1 /\ first[1].do = "drop"  BY <1>3, <3>2
    <3>7. Len(first) \in Nat /\ Len(first) > 0 /\ Len(drop) \in Nat  BY <1>3, <3>2
    <3>8. \A i \in 1..Len(first) :
            /\ first[i].do \in {"drop", "free", "keep", "create"}
            /\ first[i].do = "create" => i = Len(first)
        BY <3>3, <3>4, <3>5
    <3>9. \A i \in 1..Len(first) : first[i].do = "drop" =>
            i = 1 /\ Len(first) >= 2 /\ Len(files) >= MaxFiles
      <4> SUFFICES ASSUME NEW i \in 1..Len(first), first[i].do = "drop"
                   PROVE  i = 1 /\ Len(first) >= 2 /\ Len(files) >= MaxFiles
          OBVIOUS
      <4>1. i \in 1..Len(drop)  BY <3>3, <3>4
      <4> QED  BY <3>2, <3>5, <3>7, <4>1
    <3> QED  BY <2>1, <3>2, <3>3, <3>6, <3>7, <3>8, <3>9
  <2>2. CASE ~Full(LastFile)
    <3>1. first = <<>>  BY <2>2
    <3> HIDE DEF first
    <3> QED  BY <2>2, <3>1, EmptySeq
  <2> QED  BY <2>1, <2>2
<1> DEFINE w == StartWork(id, who)
<1>5. w = first \o start  BY DEF StartWork
<1> HIDE DEF w, first, start
<1>6. /\ w \in Seq(Writes) /\ Len(w) = Len(first) + 1
      /\ \A i \in 1..Len(first) : w[i] = first[i]
      /\ \A i \in 1..1 : w[Len(first) + i] = start[i]
    BY <1>1, <1>4, <1>5, WorkAfter
<1>7. w[Len(w)].do = "start" /\ w[Len(w)].id = id  BY <1>1, <1>6
<1>8. \A i \in 1..Len(w) : i \in 1..Len(first) \/ i = Len(w)  BY <1>4, <1>6
<1>9. \A i \in 1..Len(first) :
        /\ w[i].do \in {"drop", "free", "keep", "create"}
        /\ w[i].do = "create" => i = Len(w) - 1
        /\ w[i].do = "drop" => i = 1 /\ Len(w) >= 3 /\ Len(files) >= MaxFiles
    BY <1>4, <1>6
<1>10. Full(LastFile) => /\ Len(w) > 1 /\ w[Len(w) - 1].do = "create"
                         /\ Len(files) >= MaxFiles => w[1].do = "drop"
    BY <1>4, <1>6
<1>11. Len(w) > 1 => Full(LastFile)  BY <1>4, <1>6
<1>12. Len(w) \in Nat \ {0}  BY <1>4, <1>6
<1>13. /\ \A i \in 1..Len(w) : i # Len(w) => w[i].do \in {"drop", "free", "keep", "create"}
       /\ \A i \in 1..Len(w) : w[i].do = "create" => i = Len(w) - 1
       /\ \A i \in 1..Len(w) : w[i].do = "drop" =>
            i = 1 /\ Len(w) >= 3 /\ Len(files) >= MaxFiles
    BY <1>7, <1>8, <1>9
<1> QED  BY <1>6, <1>7, <1>10, <1>11, <1>12, <1>13 DEF w

(* The writes of a boot: the names if there are none, then the end of a    *)
(* charge that was tracked; nothing else touches the log.                  *)
LEMMA SetupWorkTyped ==
  ASSUME Restored \in Configs, NEW open \in BOOLEAN
  PROVE  LET w == SetupWork(open)
             n == Len(w)
         IN  /\ w \in Seq(Writes) /\ n \in Nat \ {0} /\ w[n].do = "unblock"
             /\ \A i \in 1..n :
                  w[i].do \in {"createNames", "name", "search", "end", "unblock"}
             /\ \A i \in 1..n : w[i].do = "end" =>
                  open /\ \A j \in 1..n : j > i => w[j].do = "unblock"
             /\ open => \E i \in 1..n : w[i].do = "end"
             /\ names = NoFile => w[1].do = "createNames"
<1> DEFINE named == IF names = NoFile THEN Work("createNames") \o NameAll(Restored.users) ELSE <<>>
           searched == IF Restored.next = 0 THEN Work("search") ELSE <<>>
           ended == IF open THEN Work("end") ELSE <<>>
           unblock == Work("unblock")
<1>1. /\ Work("createNames") \in Seq(Writes) /\ Len(Work("createNames")) = 1
      /\ Work("createNames")[1].do = "createNames"
      /\ Work("search") \in Seq(Writes) /\ Len(Work("search")) = 1
      /\ Work("search")[1].do = "search"
      /\ Work("end") \in Seq(Writes) /\ Len(Work("end")) = 1
      /\ Work("end")[1].do = "end"
      /\ unblock \in Seq(Writes) /\ Len(unblock) = 1 /\ unblock[1].do = "unblock"
  <2>1. /\ "createNames" \in WriteKinds /\ "search" \in WriteKinds
        /\ "end" \in WriteKinds /\ "unblock" \in WriteKinds
        /\ 0 \in 0..MaxId /\ Anonymous \in Persons \union {Anonymous}
      BY LogAssumption DEF WriteKinds
  <2> QED  BY <2>1, WorkIsOne
<1>2. <<>> \in Seq(Writes) /\ Len(<<>>) = 0  BY EmptySeq
<1>3. /\ named \in Seq(Writes) /\ Len(named) \in Nat
      /\ \A i \in 1..Len(named) : named[i].do \in {"createNames", "name"}
      /\ names = NoFile => Len(named) >= 1 /\ named[1].do = "createNames"
  <2>1. CASE names = NoFile
    <3> DEFINE one == Work("createNames")
               all == NameAll(Restored.users)
    <3>1. Restored.users \in SUBSET Accounts  BY DEF Configs
    <3>2. all \in Seq(Writes) /\ \A i \in 1..Len(all) : all[i].do = "name"
        BY <3>1, NameAllTyped
    <3>3. one \in Seq(Writes) /\ Len(one) = 1 /\ one[1].do = "createNames"  BY <1>1
    <3>4. named = one \o all  BY <2>1
    <3> HIDE DEF named, one, all
    <3>5. /\ named \in Seq(Writes) /\ Len(named) = Len(one) + Len(all)
          /\ Len(all) \in Nat
          /\ \A i \in 1..Len(one) : named[i] = one[i]
          /\ \A i \in 1..Len(all) : named[Len(one) + i] = all[i]
        BY <3>2, <3>3, <3>4, WorkAfter
    <3>6. named[1].do = "createNames"
      <4>1. 1 \in 1..Len(one)  BY <3>3
      <4> QED  BY <3>3, <3>5, <4>1
    <3>7. \A i \in 2..Len(named) : named[i].do = "name"
      <4> TAKE i \in 2..Len(named)
      <4>1. Len(named) = 1 + Len(all)  BY <3>3, <3>5
      <4>2. i \in Int /\ i >= 2 /\ i <= 1 + Len(all)  BY <3>5, <4>1
      <4>3. i - 1 \in 1..Len(all) /\ Len(one) + (i - 1) = i  BY <3>3, <3>5, <4>2
      <4> QED  BY <3>2, <3>5, <4>3
    <3>8. Len(named) \in Nat /\ Len(named) >= 1  BY <3>3, <3>5
    <3>9. \A i \in 1..Len(named) : i = 1 \/ i \in 2..Len(named)  BY <3>8
    <3> QED  BY <3>5, <3>6, <3>7, <3>8, <3>9
  <2>2. CASE names # NoFile
    <3>1. named = <<>>  BY <2>2
    <3> HIDE DEF named
    <3> QED  BY <1>2, <2>2, <3>1
  <2> QED  BY <2>1, <2>2
<1>4. /\ searched \in Seq(Writes) /\ Len(searched) \in 0..1
      /\ \A i \in 1..Len(searched) : searched[i].do = "search"
  <2>1. searched = <<>> \/ searched = Work("search")  OBVIOUS
  <2> HIDE DEF searched
  <2>2. CASE searched = <<>>  BY <1>2, <2>2
  <2>3. CASE searched = Work("search")
    <3>1. /\ searched \in Seq(Writes) /\ Len(searched) = 1
          /\ searched[1].do = "search"
        BY <1>1, <2>3
    <3> QED  BY <3>1
  <2> QED  BY <2>1, <2>2, <2>3
<1>5. /\ ended \in Seq(Writes) /\ Len(ended) \in 0..1
      /\ \A i \in 1..Len(ended) : open /\ ended[i].do = "end"
      /\ open => Len(ended) = 1
  <2>1. (open /\ ended = Work("end")) \/ (~open /\ ended = <<>>)  OBVIOUS
  <2> HIDE DEF ended
  <2>2. CASE ~open /\ ended = <<>>  BY <1>2, <2>2
  <2>3. CASE open /\ ended = Work("end")
    <3>1. /\ ended \in Seq(Writes) /\ Len(ended) = 1
          /\ ended[1].do = "end"
        BY <1>1, <2>3
    <3> QED  BY <2>3, <3>1
  <2> QED  BY <2>1, <2>2, <2>3
<1>6. unblock \in Seq(Writes) /\ Len(unblock) = 1 /\ unblock[1].do = "unblock"  BY <1>1
<1> DEFINE w == SetupWork(open)
<1>7. w = ((named \o searched) \o ended) \o unblock  BY DEF SetupWork
<1> DEFINE x == named \o searched
           y == x \o ended
<1>8. w = y \o unblock  BY <1>7
<1> HIDE DEF named, searched, ended, unblock, w
<1>9. /\ x \in Seq(Writes) /\ Len(x) = Len(named) + Len(searched) /\ Len(x) \in Nat
      /\ \A i \in 1..Len(x) : x[i].do \in {"createNames", "name", "search"}
      /\ names = NoFile => Len(x) >= 1 /\ x[1].do = "createNames"
  <2>1. /\ x \in Seq(Writes) /\ Len(x) = Len(named) + Len(searched)
        /\ \A i \in 1..Len(named) : x[i] = named[i]
        /\ \A i \in 1..Len(searched) : x[Len(named) + i] = searched[i]
      BY <1>3, <1>4, WorkAfter
  <2> HIDE DEF x
  <2>2. \A i \in 1..Len(x) : i \in 1..Len(named) \/ i - Len(named) \in 1..Len(searched)
      BY <1>3, <1>4, <2>1
  <2>3. \A i \in 1..Len(x) : x[i].do \in {"createNames", "name", "search"}
    <3> TAKE i \in 1..Len(x)
    <3>1. CASE i \in 1..Len(named)  BY <1>3, <2>1, <3>1
    <3>2. CASE i - Len(named) \in 1..Len(searched)
      <4>1. Len(named) + (i - Len(named)) = i  BY <1>3
      <4> QED  BY <1>4, <2>1, <3>2, <4>1
    <3> QED  BY <2>2, <3>1, <3>2
  <2> QED  BY <1>3, <1>4, <2>1, <2>3
<1> HIDE DEF x
<1>10. /\ y \in Seq(Writes) /\ Len(y) = Len(x) + Len(ended)
       /\ \A i \in 1..Len(x) : y[i] = x[i]
       /\ \A i \in 1..Len(ended) : y[Len(x) + i] = ended[i]
    BY <1>5, <1>9, WorkAfter
<1> HIDE DEF y
<1>11. /\ w \in Seq(Writes) /\ Len(w) = Len(y) + Len(unblock)
       /\ \A i \in 1..Len(y) : w[i] = y[i]
       /\ \A i \in 1..Len(unblock) : w[Len(y) + i] = unblock[i]
    BY <1>6, <1>8, <1>10, WorkAfter
<1>12. Len(w) \in Nat \ {0} /\ Len(y) = Len(w) - 1  BY <1>5, <1>6, <1>9, <1>10, <1>11
<1>13. w[Len(w)].do = "unblock"
  <2>1. 1 \in 1..Len(unblock) /\ Len(y) + 1 = Len(w)  BY <1>6, <1>11
  <2> QED  BY <1>6, <1>11, <2>1
<1>14. \A i \in 1..Len(x) : w[i].do \in {"createNames", "name", "search"}
  <2>1. \A i \in 1..Len(x) : i \in 1..Len(y)  BY <1>5, <1>9, <1>10
  <2> QED  BY <1>9, <1>10, <1>11, <2>1
<1>15. open => Len(w) = Len(x) + 2 /\ w[Len(x) + 1].do = "end"
  <2> SUFFICES ASSUME open
               PROVE  Len(w) = Len(x) + 2 /\ w[Len(x) + 1].do = "end"
      OBVIOUS
  <2>1. Len(ended) = 1  BY <1>5
  <2>3. 1 \in 1..Len(ended) /\ Len(x) + 1 \in 1..Len(y)  BY <1>9, <1>10, <2>1
  <2>2. w[Len(x) + 1] = ended[1]  BY <1>10, <1>11, <2>3
  <2>4. ended[1].do = "end"  BY <1>5, <2>3
  <2>5. Len(w) = Len(x) + 2  BY <1>6, <1>9, <1>10, <1>11, <2>1
  <2> QED  BY <2>2, <2>4, <2>5
<1>16. ~open => Len(w) = Len(x) + 1
  <2>1. ~open => Len(ended) = 0  BY <1>5
  <2> QED  BY <1>6, <1>9, <1>10, <1>11, <2>1
<1>17. \A i \in 1..Len(w) :
         \/ i \in 1..Len(x)
         \/ open /\ i = Len(x) + 1 /\ i = Len(w) - 1
         \/ i = Len(w)
    BY <1>9, <1>12, <1>15, <1>16
<1>18. names = NoFile => w[1].do = "createNames"
  <2>1. names = NoFile => 1 \in 1..Len(x) /\ 1 \in 1..Len(y)  BY <1>5, <1>9, <1>10
  <2> QED  BY <1>9, <1>10, <1>11, <2>1
<1>19. \A i \in 1..Len(w) : w[i].do \in {"createNames", "name", "search", "end", "unblock"}
    BY <1>13, <1>14, <1>15, <1>17
<1>20. \A i \in 1..Len(w) : w[i].do = "end" =>
         open /\ \A j \in 1..Len(w) : j > i => w[j].do = "unblock"
  <2> SUFFICES ASSUME NEW i \in 1..Len(w), w[i].do = "end"
               PROVE  open /\ \A j \in 1..Len(w) : j > i => w[j].do = "unblock"
      OBVIOUS
  <2>1. open /\ i = Len(w) - 1  BY <1>13, <1>14, <1>17
  <2>2. \A j \in 1..Len(w) : j > i => j = Len(w)  BY <1>12, <2>1
  <2> QED  BY <1>13, <2>1, <2>2
<1>21. open => \E i \in 1..Len(w) : w[i].do = "end"
  <2>1. open => Len(x) + 1 \in 1..Len(w)  BY <1>9, <1>15
  <2> QED  BY <1>15, <2>1
<1> QED  BY <1>11, <1>12, <1>13, <1>18, <1>19, <1>20, <1>21 DEF w

---------------------------------------------------------------------------
(* A write is done.                                                        *)

\* t is what is left of todo after its head, perhaps with a save before it.
Rest(t) ==
  /\ t \in Seq(Writes) /\ Len(t) \in Nat /\ DOMAIN t = 1..Len(t)
  /\ todo # <<>> /\ Len(todo) \in Nat \ {0} /\ DOMAIN todo = 1..Len(todo)
  /\ Head(todo) = todo[1]
  /\ \A i \in 1..Len(t) :
       \/ t[i].do \in {"unlink", "rename"}
       \/ \E j \in 2..Len(todo) : t[i] = todo[j] /\ Len(todo) - j = Len(t) - i
  /\ \A j \in 2..Len(todo) :
       \E i \in 1..Len(t) : t[i] = todo[j] /\ Len(todo) - j = Len(t) - i

LEMMA TailIsRest ==
  ASSUME WorkTypes, todo # <<>>
  PROVE  Rest(Tail(todo)) /\ Len(Tail(todo)) = Len(todo) - 1 /\ Head(todo) \in Writes
<1> DEFINE t == Tail(todo)
<1>1. todo \in Seq(Writes)  BY DEF WorkTypes
<1>2. /\ Head(todo) \in Writes /\ t \in Seq(Writes) /\ Len(t) = Len(todo) - 1
      /\ \A i \in 1..Len(t) : t[i] = todo[i + 1]
    BY <1>1, HeadTailProperties
<1>3. /\ Len(t) \in Nat /\ DOMAIN t = 1..Len(t)
      /\ Len(todo) \in Nat \ {0} /\ DOMAIN todo = 1..Len(todo)
    BY <1>1, <1>2, LenProperties, EmptySeq
<1>4. Head(todo) = todo[1]  BY <1>1
<1> HIDE DEF t
<1>5. \A i \in 1..Len(t) :
        \E j \in 2..Len(todo) : t[i] = todo[j] /\ Len(todo) - j = Len(t) - i
  <2> TAKE i \in 1..Len(t)
  <2>1. i + 1 \in 2..Len(todo) /\ Len(todo) - (i + 1) = Len(t) - i  BY <1>2, <1>3
  <2> QED  BY <1>2, <2>1
<1>6. \A j \in 2..Len(todo) :
        \E i \in 1..Len(t) : t[i] = todo[j] /\ Len(todo) - j = Len(t) - i
  <2> TAKE j \in 2..Len(todo)
  <2>1. /\ j - 1 \in 1..Len(t) /\ (j - 1) + 1 = j
        /\ Len(todo) - j = Len(t) - (j - 1)
      BY <1>2, <1>3
  <2>2. t[j - 1] = todo[j]  BY <1>2, <2>1
  <2> QED  BY <2>1, <2>2
<1> QED  BY <1>2, <1>3, <1>4, <1>5, <1>6 DEF t, Rest

LEMMA SavedTailIsRest ==
  ASSUME WorkTypes, todo # <<>>
  PROVE  Rest(Save \o Tail(todo))
<1> DEFINE t == Tail(todo)
           s == Save \o t
<1>1. Rest(t)  BY TailIsRest
<1>2. t \in Seq(Writes) /\ Len(t) \in Nat  BY <1>1 DEF Rest
<1> HIDE DEF t
<1>3. /\ s \in Seq(Writes) /\ Len(s) = Len(Save) + Len(t) /\ DOMAIN s = 1..Len(Save) + Len(t)
      /\ \A i \in 1..Len(Save) : s[i] = Save[i]
      /\ \A i \in 1..Len(t) : s[Len(Save) + i] = t[i]
    BY <1>2, SaveTyped, WorkAfter
<1> HIDE DEF s
<1>4. Len(s) = 2 + Len(t) /\ DOMAIN s = 1..Len(s) /\ Len(s) \in Nat
    BY <1>2, <1>3, SaveTyped
<1>5. \A i \in 1..Len(s) :
        \/ s[i].do \in {"unlink", "rename"}
        \/ \E j \in 2..Len(todo) : s[i] = todo[j] /\ Len(todo) - j = Len(s) - i
  <2> TAKE i \in 1..Len(s)
  <2>1. CASE i \in 1..2
    <3>1. s[1] = Save[1] /\ s[2] = Save[2]  BY <1>3, SaveTyped
    <3> QED  BY <2>1, <3>1, SaveTyped
  <2>2. CASE i > 2
    <3>1. i - 2 \in 1..Len(t) /\ 2 + (i - 2) = i /\ Len(t) - (i - 2) = Len(s) - i
        BY <1>2, <1>4, <2>2
    <3>2. s[i] = t[i - 2]  BY <1>3, <3>1, SaveTyped
    <3>3. t[i - 2] \in Writes  BY <1>2, <3>1, ElementOfSeq
    <3>4. \/ t[i - 2].do \in {"unlink", "rename"}
          \/ \E j \in 2..Len(todo) : t[i - 2] = todo[j] /\ Len(todo) - j = Len(t) - (i - 2)
        BY <1>1, <3>1 DEF Rest
    <3> QED  BY <3>1, <3>2, <3>4
  <2> QED  BY <2>1, <2>2, <1>4
<1>6. \A j \in 2..Len(todo) :
        \E i \in 1..Len(s) : s[i] = todo[j] /\ Len(todo) - j = Len(s) - i
  <2> TAKE j \in 2..Len(todo)
  <2>1. PICK i \in 1..Len(t) : t[i] = todo[j] /\ Len(todo) - j = Len(t) - i
      BY <1>1 DEF Rest
  <2>2. 2 + i \in 1..Len(s) /\ Len(t) - i = Len(s) - (2 + i)  BY <1>2, <1>4
  <2>3. s[2 + i] = t[i]  BY <1>3, SaveTyped
  <2> QED  BY <2>1, <2>2, <2>3
<1> QED  BY <1>1, <1>3, <1>4, <1>5, <1>6 DEF Rest, s, t

LogHeads == {"start", "create", "drop", "end", "wipe", "refused"}

(* What is left waits as before, if the last file has not changed.         *)
LEMMA RestWaits ==
  ASSUME Waits, Rest(todo'), LastFile' = LastFile, slot' = slot,
         todo[1].do \notin {"start", "create", "end", "wipe", "refused"},
         (Len(files') = Len(files) /\ todo[1].do # "drop") \/ Len(files') < MaxFiles
  PROVE  Waits'
<1> DEFINE t == todo'
           n == Len(todo)
           m == Len(t)
<1>1. /\ n \in Nat \ {0} /\ m \in Nat /\ DOMAIN t = 1..m /\ DOMAIN todo = 1..n
      /\ \A i \in 1..m :
           \/ t[i].do \in {"unlink", "rename"}
           \/ \E j \in 2..n : t[i] = todo[j] /\ n - j = m - i
      /\ \A j \in 2..n : \E i \in 1..m : t[i] = todo[j] /\ n - j = m - i
    BY DEF Rest
<1>2. Open' = Open /\ Full(LastFile)' = Full(LastFile)  BY DEF Open, Full
<1>3. LastWork' = t[m] /\ LastWork = todo[n]  BY DEF LastWork
<1> HIDE DEF t, n, m
<1>4. n >= 2 => m >= 1 /\ t[m] = todo[n]
  <2> SUFFICES ASSUME n >= 2  PROVE m >= 1 /\ t[m] = todo[n]
      OBVIOUS
  <2>1. n \in 2..n  BY <1>1
  <2>2. PICK i \in 1..m : t[i] = todo[n] /\ n - n = m - i  BY <1>1, <2>1
  <2>3. i = m  BY <1>1, <2>2
  <2> QED  BY <1>1, <2>2, <2>3
<1>5. \A i \in 1..m : t[i].do \notin {"unlink", "rename"} =>
        \E j \in 2..n : t[i] = todo[j] /\ j \in DOMAIN todo /\ i = m - n + j
  <2> SUFFICES ASSUME NEW i \in 1..m, t[i].do \notin {"unlink", "rename"}
               PROVE  \E j \in 2..n : t[i] = todo[j] /\ j \in DOMAIN todo /\ i = m - n + j
      OBVIOUS
  <2>1. PICK j \in 2..n : t[i] = todo[j] /\ n - j = m - i  BY <1>1
  <2>2. j \in DOMAIN todo /\ i = m - n + j  BY <1>1, <2>1
  <2> QED  BY <2>1, <2>2
<1>6. ASSUME NEW do, Pending(do), todo[1].do # do
      PROVE  \E i \in 1..m : t[i].do = do
  <2>1. PICK j \in DOMAIN todo : todo[j].do = do  BY <1>6 DEF Pending
  <2>2. j \in 2..n  BY <1>1, <1>6, <2>1
  <2>3. PICK i \in 1..m : t[i] = todo[j]  BY <1>1, <2>2
  <2> QED  BY <2>1, <2>3
<1>7. StartWaits'
  <2>1. ASSUME NEW i \in 1..m, t[i].do = "start"
        PROVE  i = m /\ t[i].id = slot /\ ~Open /\ Pending("start")
    <3>1. PICK j \in 2..n : t[i] = todo[j] /\ j \in DOMAIN todo /\ i = m - n + j
        BY <1>5, <2>1
    <3>2. j = n /\ todo[j].id = slot /\ ~Open  BY <2>1, <3>1 DEF Waits, StartWaits, n
    <3>3. Pending("start")  BY <2>1, <3>1 DEF Pending
    <3> QED  BY <1>1, <3>1, <3>2, <3>3
  <2>2. ASSUME NEW i \in 1..m, t[i].do = "start", Full(LastFile)
        PROVE  \E k \in 1..m : t[k].do = "create"
    <3>1. Pending("create")  BY <2>1, <2>2 DEF Waits, StartWaits
    <3> QED  BY <1>6, <3>1
  <2> QED  BY <1>1, <1>2, <2>1, <2>2 DEF StartWaits, Pending, t, m
<1>8. RollOverWaits'
  <2>1. ASSUME NEW i \in 1..m, t[i].do = "create"
        PROVE  i = m - 1 /\ t[m].do = "start" /\ Full(LastFile) /\ Len(files') < MaxFiles
    <3>1. PICK j \in 2..n : t[i] = todo[j] /\ j \in DOMAIN todo /\ i = m - n + j
        BY <1>5, <2>1
    <3>2. /\ j = n - 1 /\ todo[n].do = "start" /\ Full(LastFile)
          /\ Len(files) < MaxFiles \/ Head(todo).do = "drop"
        BY <1>3, <2>1, <3>1 DEF Waits, RollOverWaits, n
    <3>3. Len(files') < MaxFiles  BY <3>2 DEF Rest
    <3>4. n >= 2  BY <1>1, <3>1
    <3> QED  BY <1>1, <1>4, <3>1, <3>2, <3>3, <3>4
  <2>2. ASSUME NEW i \in 1..m, t[i].do = "drop"
        PROVE  FALSE
    <3>1. PICK j \in 2..n : t[i] = todo[j] /\ j \in DOMAIN todo  BY <1>5, <2>2
    <3>2. j = 1  BY <2>2, <3>1 DEF Waits, RollOverWaits
    <3> QED  BY <1>1, <3>1, <3>2
  <2> QED  BY <1>1, <1>2, <1>3, <2>1, <2>2 DEF RollOverWaits, t, m
<1>9. EndWaits'
  <2>1. ASSUME NEW i \in 1..m, t[i].do = "end"
        PROVE  Open /\ \A k \in 1..m : k > i => t[k].do = "unblock" \/ t[k].do \in {"unlink", "rename"}
    <3>1. PICK j \in 2..n : t[i] = todo[j] /\ j \in DOMAIN todo /\ i = m - n + j
        BY <1>5, <2>1
    <3>2. Open /\ \A k \in DOMAIN todo : k > j => todo[k].do = "unblock"
        BY <2>1, <3>1 DEF Waits, EndWaits
    <3>3. ASSUME NEW k \in 1..m, k > i, t[k].do \notin {"unlink", "rename"}
          PROVE  t[k].do = "unblock"
      <4>1. PICK h \in 2..n : t[k] = todo[h] /\ h \in DOMAIN todo /\ k = m - n + h
          BY <1>5, <3>3
      <4>2. h > j  BY <1>1, <3>1, <3>3, <4>1
      <4> QED  BY <3>2, <4>1, <4>2
    <3> QED  BY <3>2, <3>3
  <2>2. ASSUME NEW i \in 1..m, t[i].do = "end", NEW k \in 1..m, k > i
        PROVE  t[k].do \notin {"unlink", "rename"}
    <3>1. PICK j \in 2..n : t[i] = todo[j] /\ n - j = m - i  BY <1>1, <2>2
    <3>2. j + (k - i) \in 2..n /\ n - (j + (k - i)) = m - k  BY <1>1, <2>2, <3>1
    <3>3. PICK h \in 1..m : t[h] = todo[j + (k - i)] /\ n - (j + (k - i)) = m - h
        BY <1>1, <3>2
    <3>4. h = k  BY <1>1, <2>2, <3>2, <3>3
    <3>5. todo[j].do = "end" /\ j \in DOMAIN todo /\ j + (k - i) \in DOMAIN todo /\ j + (k - i) > j
        BY <1>1, <2>2, <3>1, <3>2
    <3>6. todo[j + (k - i)].do = "unblock"  BY <3>5 DEF Waits, EndWaits
    <3> QED  BY <3>3, <3>4, <3>6
  <2> QED  BY <1>1, <1>2, <2>1, <2>2 DEF EndWaits, t, m
<1>10. WipeWaits'
  <2>1. ASSUME NEW i \in 1..m, t[i].do = "wipe"
        PROVE  FALSE
    <3>1. PICK j \in 2..n : t[i] = todo[j] /\ j \in DOMAIN todo  BY <1>5, <2>1
    <3>2. j = 1  BY <2>1, <3>1 DEF Waits, WipeWaits
    <3> QED  BY <1>1, <3>1, <3>2
  <2>2. ASSUME NEW i \in 1..m, t[i].do = "removeNames"
        PROVE  i = m - 1 /\ t[m].do = "restart"
    <3>1. PICK j \in 2..n : t[i] = todo[j] /\ j \in DOMAIN todo /\ i = m - n + j
        BY <1>5, <2>2
    <3>2. j = n - 1 /\ todo[n].do = "restart"
        BY <1>3, <2>2, <3>1 DEF Waits, WipeWaits, n
    <3>3. n >= 2  BY <1>1, <3>1
    <3> QED  BY <1>1, <1>4, <3>1, <3>2, <3>3
  <2> QED  BY <1>1, <1>3, <2>1, <2>2 DEF WipeWaits, t, m
<1>11. OwnerWaits'
  <2>1. CASE ~Open  BY <1>2, <2>1 DEF OwnerWaits
  <2>2. CASE Pending("end")
    <3>1. \E i \in 1..m : t[i].do = "end"  BY <1>6, <2>2
    <3> QED  BY <1>1, <3>1 DEF OwnerWaits, Pending, t, m
  <2>3. CASE slot = Last(LastFile).id  BY <1>2, <2>3 DEF OwnerWaits
  <2>4. ~Refused  BY DEF Refused, Doing, Rest
  <2> QED  BY <2>1, <2>2, <2>3, <2>4 DEF Waits, OwnerWaits
<1> QED  BY <1>7, <1>8, <1>9, <1>10, <1>11 DEF Waits

---------------------------------------------------------------------------
(* Work begins.                                                            *)

(* No write of the log is pending, and the owner is known.                 *)
LEMMA QuietWaits ==
  ASSUME todo' \in Seq(Writes),
         \A i \in 1..Len(todo') : todo'[i].do \notin LogHeads \union {"removeNames"},
         Open' => slot' = Last(LastFile').id
  PROVE  Waits'
<1>1. DOMAIN todo' = 1..Len(todo')  BY LenProperties
<1>2. \A i \in DOMAIN todo' : todo'[i].do \notin {"start", "create", "drop", "end", "wipe", "removeNames"}
    BY <1>1 DEF LogHeads
<1>3. (LastFile)' = LastFile'  OBVIOUS
<1>4. OwnerWaits'  BY <1>3 DEF OwnerWaits
<1>5. StartWaits' /\ RollOverWaits'  BY <1>2 DEF StartWaits, RollOverWaits, Pending
<1>6. EndWaits' /\ WipeWaits'  BY <1>2 DEF EndWaits, WipeWaits
<1> QED  BY <1>4, <1>5, <1>6 DEF Waits

(* Nothing of it has changed.                                              *)
LEMMA UntouchedWaits ==
  ASSUME Waits, UNCHANGED <<files, slot, todo>>
  PROVE  Waits'
<1>1. LastFile' = LastFile /\ Open' = Open /\ Full(LastFile)' = Full(LastFile)
    BY DEF LastFile, Open, Full
<1>2. LastWork' = LastWork  BY DEF LastWork
<1>3. StartWaits'  BY <1>1 DEF Waits, StartWaits, Pending
<1>4. RollOverWaits'  BY <1>1, <1>2 DEF Waits, RollOverWaits
<1>5. EndWaits' /\ WipeWaits'  BY <1>1, <1>2 DEF Waits, EndWaits, WipeWaits
<1>6. OwnerWaits'  BY <1>1 DEF Waits, OwnerWaits, Pending, Refused, Doing
<1> QED  BY <1>3, <1>4, <1>5, <1>6 DEF Waits

(* startCharge.                                                            *)
LEMMA StartingWaits ==
  ASSUME NEW id \in 0..MaxId, NEW who \in Persons \union {Anonymous},
         FileTypes, Start(id, who), files' = files
  PROVE  Waits' /\ todo' \in Seq(Writes) /\ slot' \in 0..NoId
<1> DEFINE w == todo'
           n == Len(w)
<1>1. w = StartWork(id, who) /\ slot' = id /\ ~Open  BY DEF Start
<1>2. /\ w \in Seq(Writes) /\ n \in Nat \ {0}
      /\ w[n].do = "start" /\ w[n].id = id
      /\ \A i \in 1..n : i # n => w[i].do \in {"drop", "free", "keep", "create"}
      /\ \A i \in 1..n : w[i].do = "create" => i = n - 1
      /\ \A i \in 1..n : w[i].do = "drop" =>
           i = 1 /\ n >= 3 /\ Len(files) >= MaxFiles
      /\ n > 1 => Full(LastFile)
      /\ Full(LastFile) =>
           /\ n > 1 /\ w[n - 1].do = "create"
           /\ Len(files) >= MaxFiles => w[1].do = "drop"
    BY <1>1, StartWorkTyped
<1>3. LastFile' = LastFile /\ Open' = Open /\ Full(LastFile)' = Full(LastFile)
    BY DEF LastFile, Open, Full
<1>4. Len(files) \in 1..MaxFiles  BY DEF FileTypes
<1>5. DOMAIN w = 1..n /\ Head(w) = w[1] /\ LastWork' = w[n]
    BY <1>2, LenProperties DEF LastWork
<1> HIDE DEF w, n
<1>6. StartWaits'
  <2>1. \A i \in 1..n : w[i].do = "start" => i = n /\ w[i].id = slot' /\ ~Open
      BY <1>1, <1>2
  <2>2. Full(LastFile) => \E i \in 1..n : w[i].do = "create"
    <3>1. n > 1 => n - 1 \in 1..n  BY <1>2
    <3> QED  BY <1>2, <3>1
  <2> QED  BY <1>3, <1>5, <2>1, <2>2 DEF StartWaits, Pending, w, n
<1>7. RollOverWaits'
  <2>1. ASSUME NEW i \in 1..n, w[i].do = "create"
        PROVE  i = n - 1 /\ Full(LastFile) /\ (Len(files) < MaxFiles \/ w[1].do = "drop")
    <3>1. i = n - 1  BY <1>2, <2>1
    <3>2. Full(LastFile)  BY <1>2, <3>1
    <3>3. Len(files) < MaxFiles \/ Len(files) >= MaxFiles  BY <1>4, LogAssumption
    <3> QED  BY <1>2, <3>1, <3>2, <3>3
  <2>2. ASSUME NEW i \in 1..n, w[i].do = "drop"
        PROVE  i = 1 /\ Len(files) = MaxFiles /\ n >= 3 /\ w[n - 1].do = "create"
    <3>1. i = 1 /\ n >= 3 /\ Len(files) >= MaxFiles  BY <1>2, <2>2
    <3>2. w[n - 1].do = "create"  BY <1>2, <3>1
    <3>3. Len(files) = MaxFiles  BY <1>4, <3>1, LogAssumption
    <3> QED  BY <3>1, <3>2, <3>3
  <2> QED  BY <1>2, <1>3, <1>5, <2>1, <2>2 DEF RollOverWaits, w, n
<1>8. \A i \in 1..n : w[i].do \notin {"end", "wipe", "removeNames"}
  <2> TAKE i \in 1..n
  <2>1. CASE i = n  BY <1>2, <2>1
  <2>2. CASE i # n  BY <1>2, <2>2
  <2> QED  BY <2>1, <2>2
<1>9. EndWaits' /\ WipeWaits'  BY <1>5, <1>8 DEF EndWaits, WipeWaits, w, n
<1>10. OwnerWaits'  BY <1>1, <1>3 DEF OwnerWaits
<1> QED  BY <1>1, <1>2, <1>6, <1>7, <1>9, <1>10, LogAssumption DEF Waits, w, NoId

(* endCharge, of an open charge.                                           *)
LEMMA EndingWaits ==
  ASSUME Open, files' = files, todo' = Work("end")
  PROVE  Waits' /\ todo' \in Seq(Writes)
<1>1. /\ todo' \in Seq(Writes) /\ Len(todo') = 1 /\ todo'[1].do = "end"
  <2>1. /\ "end" \in WriteKinds /\ 0 \in 0..MaxId /\ Anonymous \in Persons \union {Anonymous}
      BY LogAssumption DEF WriteKinds
  <2> QED  BY <2>1, WorkIsOne
<1>2. Open'  BY DEF Open, LastFile
<1>3. DOMAIN todo' = 1..Len(todo')  BY <1>1, LenProperties
<1>4. DOMAIN todo' = {1}  BY <1>1, <1>3
<1>5. StartWaits' /\ RollOverWaits'  BY <1>1, <1>4 DEF StartWaits, RollOverWaits, Pending
<1>6. EndWaits' /\ WipeWaits' /\ OwnerWaits'
    BY <1>1, <1>2, <1>4 DEF EndWaits, WipeWaits, OwnerWaits, Pending
<1> QED  BY <1>1, <1>5, <1>6 DEF Waits

(* A boot, after any interruption.                                         *)
LEMMA BootWaits ==
  ASSUME Restored \in Configs, names' = names, todo' = SetupWork(Open')
  PROVE  /\ Waits' /\ NamesWait' /\ todo' \in Seq(Writes) /\ todo' # <<>>
<1> DEFINE w == todo'
           n == Len(w)
<1>1. /\ w \in Seq(Writes) /\ n \in Nat \ {0}
      /\ \A i \in 1..n :
           w[i].do \in {"createNames", "name", "search", "end", "unblock"}
      /\ \A i \in 1..n : w[i].do = "end" =>
           Open' /\ \A j \in 1..n : j > i => w[j].do = "unblock"
      /\ Open' => \E i \in 1..n : w[i].do = "end"
      /\ names = NoFile => w[1].do = "createNames"
  <2>1. Open' \in BOOLEAN  BY DEF Open
  <2> QED  BY <2>1, SetupWorkTyped
<1>2. DOMAIN w = 1..n /\ Head(w) = w[1] /\ w # <<>>  BY <1>1, LenProperties, EmptySeq
<1> HIDE DEF w, n
<1>4. \A i \in DOMAIN w : w[i].do \notin {"start", "create", "drop", "wipe", "removeNames"}
    BY <1>1, <1>2
<1>5. StartWaits' /\ RollOverWaits'  BY <1>4 DEF StartWaits, RollOverWaits, Pending, w
<1>6. EndWaits' /\ WipeWaits'  BY <1>1, <1>2, <1>4 DEF EndWaits, WipeWaits, w
<1>7. OwnerWaits'  BY <1>1, <1>2 DEF OwnerWaits, Pending, w
<1>8. NamesWait'  BY <1>1, <1>2 DEF NamesWait, w
<1> QED  BY <1>1, <1>2, <1>5, <1>6, <1>7, <1>8 DEF Waits, w

(* An idle main thread has nothing pending.                                *)
LEMMA NothingPending ==
  ASSUME Idle, NEW do
  PROVE  ~Pending(do)
<1>1. todo = <<>>  BY DEF Idle
<1>2. <<>> \in Seq(Writes) /\ Len(<<>>) = 0  BY EmptySeq
<1>3. DOMAIN todo = 1..Len(todo) /\ Len(todo) = 0  BY <1>1, <1>2, LenProperties
<1>4. DOMAIN todo = {}  BY <1>3
<1> QED  BY <1>4 DEF Pending

(* remove_all_charges.                                                     *)
LEMMA WipingWaits ==
  ASSUME OwnerWaits, Idle, files' = files, slot' = slot,
         todo' = Work("wipe") \o Work("removeNames") \o Work("restart")
  PROVE  Waits' /\ todo' \in Seq(Writes) /\ todo' # <<>>
<1> DEFINE a == Command("wipe", 0, Anonymous)
           b == Command("removeNames", 0, Anonymous)
           c == Command("restart", 0, Anonymous)
           w == <<a>> \o <<b>> \o <<c>>
<1>1. "wipe" \in WriteKinds /\ "removeNames" \in WriteKinds /\ "restart" \in WriteKinds
    BY DEF WriteKinds
<1>2. /\ a \in Writes /\ a.do = "wipe" /\ Work("wipe") = <<a>>
      /\ b \in Writes /\ b.do = "removeNames" /\ Work("removeNames") = <<b>>
      /\ c \in Writes /\ c.do = "restart" /\ Work("restart") = <<c>>
    BY <1>1, PlainWrite
<1>3. todo' = w  BY <1>2
<1> HIDE DEF a, b, c
<1>4. /\ w \in Seq(Writes) /\ Len(w) = 3 /\ DOMAIN w = {1, 2, 3}
      /\ w[1] = a /\ w[2] = b /\ w[3] = c
    BY <1>2, ThreeWrites
<1> HIDE DEF w
<1>5. w # <<>>
  <2>1. Len(w) # Len(<<>>)  BY <1>4, EmptySeq
  <2> QED  BY <2>1
<1>6. /\ w[1].do = "wipe" /\ w[2].do = "removeNames" /\ w[3].do = "restart"
    BY <1>2, <1>4
<1>7. Open' => slot' = Last(LastFile').id
  <2>1. LastFile' = LastFile /\ Open' = Open  BY DEF LastFile, Open
  <2>2. ~Pending("end")  BY NothingPending
  <2>3. Open => slot = Last(LastFile).id  BY <2>2 DEF OwnerWaits, Refused, Doing, Idle
  <2> QED  BY <2>1, <2>3
<1>8. StartWaits' /\ RollOverWaits'  BY <1>3, <1>4, <1>6 DEF StartWaits, RollOverWaits, Pending
<1>9. EndWaits' /\ WipeWaits'
  <2>1. \A i \in DOMAIN w : w[i].do # "end"  BY <1>4, <1>6
  <2>2. \A i \in DOMAIN w : w[i].do = "wipe" =>
          i = 1 /\ \A j \in DOMAIN w : j > 1 => w[j].do \in {"removeNames", "restart"}
      BY <1>4, <1>6
  <2>3. \A i \in DOMAIN w : w[i].do = "removeNames" => i = Len(w) - 1 /\ w[Len(w)].do = "restart"
      BY <1>4, <1>6
  <2> QED  BY <1>3, <2>1, <2>2, <2>3 DEF EndWaits, WipeWaits, LastWork
<1>10. OwnerWaits'  BY <1>7 DEF OwnerWaits
<1> QED  BY <1>3, <1>4, <1>5, <1>8, <1>9, <1>10 DEF Waits

(* The writes of a command of the users end its reservation.               *)
LEMMA UserWorkTyped ==
  ASSUME NEW x \in Seq(Writes),
         \A i \in 1..Len(x) : x[i].do \in {"name", "free"}
  PROVE  LET w == Save \o x \o Work("unblock")
         IN  /\ w \in Seq(Writes) /\ w # <<>> /\ w[Len(w)].do = "unblock"
             /\ \A i \in 1..Len(w) : w[i].do \notin LogHeads \union {"removeNames"}
<1> DEFINE u == Work("unblock")
           y == Save \o x
           w == y \o u
<1>1. u \in Seq(Writes) /\ Len(u) = 1 /\ u[1].do = "unblock"
  <2>1. /\ "unblock" \in WriteKinds /\ 0 \in 0..MaxId /\ Anonymous \in Persons \union {Anonymous}
      BY LogAssumption DEF WriteKinds
  <2> QED  BY <2>1, WorkIsOne
<1> HIDE DEF u
<1>2. /\ y \in Seq(Writes) /\ Len(y) = Len(Save) + Len(x) /\ Len(x) \in Nat
      /\ \A i \in 1..Len(Save) : y[i] = Save[i]
      /\ \A i \in 1..Len(x) : y[Len(Save) + i] = x[i]
    BY SaveTyped, WorkAfter
<1> HIDE DEF y
<1>3. /\ w \in Seq(Writes) /\ Len(w) = Len(y) + Len(u) /\ Len(y) \in Nat
      /\ \A i \in 1..Len(y) : w[i] = y[i]
      /\ \A i \in 1..Len(u) : w[Len(y) + i] = u[i]
    BY <1>1, <1>2, WorkAfter
<1> HIDE DEF w
<1>4. Len(y) = 2 + Len(x) /\ Len(w) = Len(y) + 1  BY <1>1, <1>2, <1>3, SaveTyped
<1>5. \A i \in 1..Len(y) : y[i].do \in {"unlink", "rename", "name", "free"}
  <2> TAKE i \in 1..Len(y)
  <2>1. CASE i \in 1..2
    <3>1. y[1] = Save[1] /\ y[2] = Save[2]  BY <1>2, SaveTyped
    <3> QED  BY <2>1, <3>1, SaveTyped
  <2>2. CASE i > 2
    <3>1. i - 2 \in 1..Len(x) /\ 2 + (i - 2) = i  BY <1>2, <1>4, <2>2
    <3>2. y[i] = x[i - 2]  BY <1>2, <3>1, SaveTyped
    <3> QED  BY <3>1, <3>2
  <2> QED  BY <1>3, <2>1, <2>2
<1>6. w[Len(w)].do = "unblock"
  <2>1. 1 \in 1..Len(u) /\ Len(w) = Len(y) + 1  BY <1>1, <1>4
  <2> QED  BY <1>1, <1>3, <2>1
<1>7. \A i \in 1..Len(w) : w[i].do \in {"unlink", "rename", "name", "free", "unblock"}
  <2> TAKE i \in 1..Len(w)
  <2>1. i \in 1..Len(y) \/ i = Len(w)  BY <1>3, <1>4
  <2> QED  BY <1>3, <1>5, <1>6, <2>1
<1>8. w # <<>>  BY <1>2, <1>4, EmptySeq
<1> QED  BY <1>3, <1>6, <1>7, <1>8 DEF w, y, u, LogHeads

(* A reservation lasts until its last write.                               *)
LEMMA RestReserves ==
  ASSUME Rest(todo'), LastWork.do = "unblock", todo[1].do # "unblock"
  PROVE  todo' # <<>> /\ LastWork'.do = "unblock"
<1> DEFINE t == todo'
           n == Len(todo)
           m == Len(t)
<1>1. /\ n \in Nat \ {0} /\ m \in Nat /\ t \in Seq(Writes)
      /\ \A j \in 2..n : \E i \in 1..m : t[i] = todo[j] /\ n - j = m - i
    BY DEF Rest
<1>2. LastWork' = t[m] /\ LastWork = todo[n]  BY DEF LastWork
<1> HIDE DEF t, n, m
<1>3. n # 1  BY <1>2
<1>4. n \in 2..n  BY <1>1, <1>3
<1>5. PICK i \in 1..m : t[i] = todo[n] /\ n - n = m - i  BY <1>1, <1>4
<1>6. i = m /\ m > 0  BY <1>1, <1>5
<1>7. todo' # <<>>  BY <1>1, <1>6, EmptySeq DEF t, m
<1>8. t[m] = todo[n]  BY <1>5, <1>6
<1> QED  BY <1>2, <1>7, <1>8

---------------------------------------------------------------------------
(* The writes of the log.                                                  *)

LEMMA FilesTyped ==
  ASSUME FileTypes
  PROVE  /\ Len(files) \in Nat \ {0} /\ Len(files) <= MaxFiles
         /\ DOMAIN files = 1..Len(files)
         /\ \A f \in 1..Len(files) :
              /\ files[f] \in Seq(Records) /\ DOMAIN files[f] = 1..Len(files[f])
              /\ Len(files[f]) \in Nat /\ Len(files[f]) <= RecordsPerFile
         /\ LastFile \in Seq(Records) /\ DOMAIN LastFile = 1..Len(LastFile)
         /\ Len(LastFile) \in Nat /\ Len(LastFile) <= RecordsPerFile
         /\ Open <=> Len(LastFile) # 0 /\ ~LastFile[Len(LastFile)].ended
         /\ Last(LastFile) = LastFile[Len(LastFile)]
<1>1. /\ files \in Seq(Seq(Records)) /\ Len(files) \in 1..MaxFiles
      /\ \A f \in DOMAIN files : Len(files[f]) <= RecordsPerFile
    BY DEF FileTypes
<1>2. DOMAIN files = 1..Len(files)  BY <1>1, LenProperties
<1>3. Len(files) \in Nat \ {0} /\ Len(files) <= MaxFiles  BY <1>1, LogAssumption
<1>4. \A f \in 1..Len(files) : files[f] \in Seq(Records)  BY <1>1, ElementOfSeq
<1>5. \A f \in 1..Len(files) :
        DOMAIN files[f] = 1..Len(files[f]) /\ Len(files[f]) \in Nat
    BY <1>4, LenProperties
<1>6. Len(files) \in 1..Len(files)  BY <1>3
<1>7. LastFile \in Seq(Records) /\ DOMAIN LastFile = 1..Len(LastFile)
      /\ Len(LastFile) \in Nat /\ Len(LastFile) <= RecordsPerFile
    BY <1>1, <1>2, <1>4, <1>5, <1>6 DEF LastFile
<1>8. LastFile # <<>> <=> Len(LastFile) # 0  BY <1>7, EmptySeq
<1>9. Last(LastFile) = LastFile[Len(LastFile)]  BY DEF Last
<1> QED  BY <1>1, <1>2, <1>3, <1>4, <1>5, <1>7, <1>8, <1>9 DEF Open

(* When no charge is tracked, every record has its end.                    *)
LEMMA AllEnded ==
  ASSUME FileTypes, Orderly, ~Open
  PROVE  \A f \in 1..Len(files) : \A r \in 1..Len(files[f]) : files[f][r].ended
<1> SUFFICES ASSUME NEW f \in 1..Len(files), NEW r \in 1..Len(files[f])
             PROVE  files[f][r].ended
    OBVIOUS
<1>1. files[f][r].ended \/ (f = Len(files) /\ r = Len(files[f]))
    BY FilesTyped DEF Orderly
<1>2. CASE f = Len(files) /\ r = Len(files[f])
  <2>1. files[f] = LastFile /\ Len(LastFile) # 0  BY <1>2, FilesTyped DEF LastFile
  <2> QED  BY <1>2, <2>1, FilesTyped
<1> QED  BY <1>1, <1>2

(* The start of a charge.                                                  *)
LEMMA StartWritten ==
  ASSUME Inv, WriteStart
  PROVE  FileTypes' /\ Orderly' /\ Waits'
<1> DEFINE l == Len(files)
           new == [id |-> Head(todo).id, who |-> Head(todo).who, ended |-> FALSE]
           g == Append(LastFile, new)
<1>1. FileTypes /\ Orderly /\ WorkTypes /\ Waits  BY DEF Inv, TypeOK
<1>2. todo # <<>> /\ Head(todo).do = "start" /\ todo' = Tail(todo) /\ slot' = slot
    BY DEF WriteStart, Doing, Done, control
<1>3. /\ Rest(todo') /\ Len(todo') = Len(todo) - 1 /\ Head(todo) \in Writes
    BY <1>1, <1>2, TailIsRest
<1>4. Head(todo) = todo[1] /\ Len(todo) \in Nat \ {0} /\ DOMAIN todo = 1..Len(todo)
    BY <1>3 DEF Rest
<1>5. Len(todo) = 1 /\ todo[1].id = slot /\ ~Open /\ Pending("start")
  <2>1. 1 \in DOMAIN todo /\ todo[1].do = "start"  BY <1>2, <1>4
  <2> QED  BY <1>1, <2>1 DEF Waits, StartWaits, Pending
<1>6. Len(LastFile) < RecordsPerFile
  <2>1. ASSUME NEW i \in DOMAIN todo PROVE todo[i].do # "create"
    <3>1. i = 1  BY <1>4, <1>5
    <3> QED  BY <1>2, <1>4, <3>1
  <2>2. ~Full(LastFile)  BY <1>1, <1>5, <2>1 DEF Waits, StartWaits, Pending
  <2>3. Len(LastFile) \in Nat /\ Len(LastFile) <= RecordsPerFile  BY <1>1, FilesTyped
  <2>4. Len(LastFile) # RecordsPerFile /\ RecordsPerFile \in Nat
      BY <2>2, LogAssumption DEF Full
  <2> QED  BY <2>3, <2>4
<1>7. new \in Records /\ new.id = slot /\ new.ended = FALSE
    BY <1>3, <1>4, <1>5 DEF Records, Writes
<1> HIDE DEF new
<1>8. /\ g \in Seq(Records) /\ Len(g) = Len(LastFile) + 1
      /\ \A r \in 1..Len(LastFile) : g[r] = LastFile[r]
      /\ g[Len(LastFile) + 1] = new
    BY <1>1, <1>7, FilesTyped, AppendProperties
<1>9. files' = [files EXCEPT ![l] = g]  BY DEF WriteStart, LastFile, new
<1> HIDE DEF g
<1>10. l \in Nat \ {0} /\ l \in 1..l /\ files \in Seq(Seq(Records))
    BY <1>1, FilesTyped DEF FileTypes
<1>11. /\ files' \in Seq(Seq(Records)) /\ Len(files') = l
       /\ \A f \in 1..l : files'[f] = IF f = l THEN g ELSE files[f]
    BY <1>8, <1>9, <1>10, ExceptSeq
<1>12. DOMAIN files' = 1..l  BY <1>11, LenProperties
<1>13. Len(g) \in Nat /\ Len(g) <= RecordsPerFile /\ DOMAIN g = 1..Len(g)
    BY <1>1, <1>6, <1>8, FilesTyped, LenProperties, LogAssumption
<1>14. FileTypes'
  <2>1. \A f \in 1..l : Len(files'[f]) <= RecordsPerFile
      BY <1>1, <1>11, <1>13, FilesTyped
  <2> QED  BY <1>1, <1>11, <1>12, <2>1 DEF FileTypes
<1>15. Orderly'
  <2>1. ASSUME NEW f \in 1..l
        PROVE  /\ f < l => Len(files'[f]) = RecordsPerFile
               /\ \A r \in DOMAIN files'[f] :
                    files'[f][r].ended \/ (f = l /\ r = Len(files'[f]))
    <3>1. CASE f # l
      <4>1. files'[f] = files[f]  BY <1>11, <3>1
      <4> QED  BY <1>1, <1>10, <3>1, <4>1, FilesTyped DEF Orderly
    <3>2. CASE f = l
      <4>1. files'[f] = g  BY <1>11, <3>2
      <4>2. \A r \in 1..Len(LastFile) : g[r].ended
        <5>1. \A r \in 1..Len(files[l]) : files[l][r].ended  BY <1>1, <1>5, <1>10, AllEnded
        <5> QED  BY <1>8, <5>1 DEF LastFile
      <4>3. \A r \in 1..Len(g) : r \in 1..Len(LastFile) \/ r = Len(g)
          BY <1>1, <1>8, FilesTyped
      <4>4. \A r \in 1..Len(g) : g[r].ended \/ r = Len(g)  BY <4>2, <4>3
      <4>5. ~(f < l)  BY <1>10, <3>2
      <4> QED  BY <1>13, <3>2, <4>1, <4>4, <4>5
    <3> QED  BY <3>1, <3>2
  <2> QED  BY <1>11, <1>12, <2>1 DEF Orderly
<1>16. Waits'
  <2>1. LastFile' = g  BY <1>10, <1>11 DEF LastFile
  <2>2. Last(LastFile') = new  BY <1>1, <1>8, <2>1, FilesTyped DEF Last
  <2>3. todo' \in Seq(Writes) /\ Len(todo') = 0  BY <1>3, <1>5 DEF Rest
  <2>4. \A i \in 1..Len(todo') : FALSE  BY <2>3
  <2> QED  BY <1>2, <1>7, <2>2, <2>3, <2>4, QuietWaits
<1> QED  BY <1>14, <1>15, <1>16

(* The end of a charge.                                                    *)
LEMMA EndWritten ==
  ASSUME Inv, WriteEnd
  PROVE  FileTypes' /\ Orderly' /\ Waits'
<1> DEFINE l == Len(files)
           m == Len(LastFile)
           e == [LastFile[m] EXCEPT !.ended = TRUE]
           g == [LastFile EXCEPT ![m] = e]
<1>1. FileTypes /\ Orderly /\ WorkTypes /\ Waits  BY DEF Inv, TypeOK
<1>2. todo # <<>> /\ Head(todo).do = "end" /\ todo' = Tail(todo) /\ slot' = slot
    BY DEF WriteEnd, Doing, Done, control
<1>3. Rest(todo')  BY <1>1, <1>2, TailIsRest
<1>4. Head(todo) = todo[1] /\ Len(todo) \in Nat \ {0} /\ DOMAIN todo = 1..Len(todo)
    BY <1>3 DEF Rest
<1>5. Open /\ \A j \in 2..Len(todo) : todo[j].do = "unblock"
  <2>1. 1 \in DOMAIN todo /\ todo[1].do = "end"  BY <1>2, <1>4
  <2>2. Open /\ \A j \in DOMAIN todo : j > 1 => todo[j].do = "unblock"
      BY <1>1, <2>1 DEF Waits, EndWaits
  <2> QED  BY <1>4, <2>2
<1>6. m \in 1..m /\ m \in Nat /\ m <= RecordsPerFile /\ LastFile \in Seq(Records)
    BY <1>1, <1>5, FilesTyped
<1>7. LastFile[m] \in Records  BY <1>6, ElementOfSeq
<1>8. e \in Records /\ e.ended = TRUE  BY <1>7 DEF Records
<1>9. files' = [files EXCEPT ![l] = g]  BY DEF WriteEnd, LastFile
<1> HIDE DEF e, g, m
<1>10. /\ g \in Seq(Records) /\ Len(g) = m
       /\ \A r \in 1..m : g[r] = IF r = m THEN e ELSE LastFile[r]
    BY <1>6, <1>8, ExceptSeq DEF g, m
<1>11. l \in Nat \ {0} /\ l \in 1..l /\ files \in Seq(Seq(Records))
    BY <1>1, FilesTyped DEF FileTypes
<1>12. /\ files' \in Seq(Seq(Records)) /\ Len(files') = l
       /\ \A f \in 1..l : files'[f] = IF f = l THEN g ELSE files[f]
    BY <1>9, <1>10, <1>11, ExceptSeq
<1>13. DOMAIN files' = 1..l /\ DOMAIN g = 1..m  BY <1>10, <1>12, LenProperties
<1>14. FileTypes'
  <2>1. \A f \in 1..l : Len(files'[f]) <= RecordsPerFile
      BY <1>1, <1>6, <1>10, <1>12, FilesTyped
  <2> QED  BY <1>1, <1>12, <1>13, <2>1 DEF FileTypes
<1>15. Orderly'
  <2>1. ASSUME NEW f \in 1..l
        PROVE  /\ f < l => Len(files'[f]) = RecordsPerFile
               /\ \A r \in DOMAIN files'[f] :
                    files'[f][r].ended \/ (f = l /\ r = Len(files'[f]))
    <3>1. CASE f # l
      <4>1. files'[f] = files[f]  BY <1>12, <3>1
      <4> QED  BY <1>1, <1>11, <3>1, <4>1, FilesTyped DEF Orderly
    <3>2. CASE f = l
      <4>1. files'[f] = g  BY <1>12, <3>2
      <4>2. \A r \in 1..m : r # m => LastFile[r].ended
        <5>1. \A r \in DOMAIN files[l] : files[l][r].ended \/ (l = l /\ r = Len(files[l]))
            BY <1>1, <1>11, FilesTyped DEF Orderly
        <5>2. files[l] = LastFile /\ DOMAIN LastFile = 1..m /\ Len(LastFile) = m
            BY <1>1, FilesTyped DEF LastFile, m
        <5> QED  BY <5>1, <5>2
      <4>3. \A r \in 1..m : g[r].ended  BY <1>8, <1>10, <4>2
      <4>4. ~(f < l)  BY <1>11, <3>2
      <4> QED  BY <1>13, <4>1, <4>3, <4>4
    <3> QED  BY <3>1, <3>2
  <2> QED  BY <1>12, <1>13, <2>1 DEF Orderly
<1>16. Waits'
  <2>1. LastFile' = g  BY <1>11, <1>12 DEF LastFile
  <2>2. Last(LastFile').ended  BY <1>6, <1>8, <1>10, <2>1 DEF Last
  <2>3. ~Open'  BY <2>2 DEF Open
  <2>4. todo' \in Seq(Writes)  BY <1>3 DEF Rest
  <2>5. \A i \in 1..Len(todo') : todo'[i].do \in {"unlink", "rename", "unblock"}
      BY <1>3, <1>5 DEF Rest
  <2> QED  BY <2>3, <2>4, <2>5, QuietWaits DEF LogHeads
<1> QED  BY <1>14, <1>15, <1>16

(* The new file.                                                           *)
LEMMA FileCreated ==
  ASSUME Inv, CreateFile
  PROVE  FileTypes' /\ Orderly' /\ Waits'
<1> DEFINE l == Len(files)
<1>1. FileTypes /\ Orderly /\ WorkTypes /\ Waits  BY DEF Inv, TypeOK
<1>2. /\ todo # <<>> /\ Head(todo).do = "create" /\ todo' = Tail(todo) /\ slot' = slot
      /\ files' = Append(files, <<>>)
    BY DEF CreateFile, Doing, Done, control
<1>3. Rest(todo') /\ Len(todo') = Len(todo) - 1  BY <1>1, <1>2, TailIsRest
<1>4. Head(todo) = todo[1] /\ Len(todo) \in Nat \ {0} /\ DOMAIN todo = 1..Len(todo)
    BY <1>3 DEF Rest
<1>5. /\ Len(todo) = 2 /\ todo[2].do = "start" /\ Full(LastFile) /\ l < MaxFiles
  <2>1. 1 \in DOMAIN todo /\ todo[1].do = "create" /\ Head(todo).do # "drop"  BY <1>2, <1>4
  <2>2. /\ 1 = Len(todo) - 1 /\ LastWork.do = "start" /\ Full(LastFile)
        /\ l < MaxFiles \/ Head(todo).do = "drop"
      BY <1>1, <2>1 DEF Waits, RollOverWaits
  <2>5. 1 = Len(todo) - 1  BY <2>2
  <2>3. Len(todo) = 2  BY <1>4, <2>5
  <2>4. todo[2].do = "start"  BY <2>2, <2>3 DEF LastWork
  <2> QED  BY <2>1, <2>2, <2>3, <2>4
<1>6. todo[2].id = slot /\ ~Open
  <2>1. 2 \in DOMAIN todo  BY <1>4, <1>5
  <2> QED  BY <1>1, <1>5, <2>1 DEF Waits, StartWaits
<1>7. l \in Nat \ {0} /\ files \in Seq(Seq(Records)) /\ <<>> \in Seq(Records)
    BY <1>1, FilesTyped, EmptySeq DEF FileTypes
<1>8. /\ files' \in Seq(Seq(Records)) /\ Len(files') = l + 1
      /\ \A f \in 1..l : files'[f] = files[f]
      /\ files'[l + 1] = <<>>
    BY <1>2, <1>7, AppendProperties
<1>9. DOMAIN files' = 1..l + 1  BY <1>8, LenProperties
<1>10. Len(<<>>) = 0 /\ DOMAIN <<>> = {}  OBVIOUS
<1>11. \A f \in 1..l + 1 : f \in 1..l \/ f = l + 1  BY <1>7
<1>12. FileTypes'
  <2>1. \A f \in 1..l + 1 : Len(files'[f]) <= RecordsPerFile
    <3>1. \A f \in 1..l : Len(files'[f]) <= RecordsPerFile  BY <1>1, <1>8, FilesTyped
    <3>2. Len(files'[l + 1]) <= RecordsPerFile  BY <1>8, <1>10, LogAssumption
    <3> QED  BY <1>11, <3>1, <3>2
  <2>2. l + 1 \in 1..MaxFiles  BY <1>5, <1>7, LogAssumption
  <2> QED  BY <1>8, <1>9, <2>1, <2>2 DEF FileTypes
<1>13. Orderly'
  <2>1. ASSUME NEW f \in 1..l
        PROVE  /\ Len(files'[f]) = RecordsPerFile
               /\ \A r \in DOMAIN files'[f] : files'[f][r].ended
    <3>1. files'[f] = files[f] /\ DOMAIN files[f] = 1..Len(files[f])
        BY <1>1, <1>8, FilesTyped
    <3>2. Len(files[f]) = RecordsPerFile
      <4>1. CASE f = l  BY <1>5, <4>1 DEF Full, LastFile
      <4>2. CASE f # l
        <5>1. f < l  BY <1>7, <4>2
        <5>2. f \in DOMAIN files  BY <1>1, FilesTyped
        <5> QED  BY <1>1, <5>1, <5>2 DEF Orderly
      <4> QED  BY <4>1, <4>2
    <3>3. \A r \in 1..Len(files[f]) : files[f][r].ended  BY <1>1, <1>6, AllEnded
    <3> QED  BY <3>1, <3>2, <3>3
  <2>2. ~(l + 1 < l + 1) /\ DOMAIN files'[l + 1] = {}  BY <1>7, <1>8, <1>10
  <2> QED  BY <1>8, <1>9, <1>11, <2>1, <2>2 DEF Orderly
<1>14. Waits'
  <2>1. LastFile' = <<>>  BY <1>8 DEF LastFile
  <2>2. ~Open' /\ ~Full(LastFile)'
    <3>1. Len(LastFile') # RecordsPerFile  BY <1>10, <2>1, LogAssumption
    <3> QED  BY <2>1, <3>1 DEF Open, Full
  <2>3. Len(todo') = 1 /\ DOMAIN todo' = {1}  BY <1>3, <1>5 DEF Rest
  <2>4. todo'[1] = todo[2]
    <3>1. 2 \in 2..Len(todo)  BY <1>5
    <3>2. PICK i \in 1..Len(todo') : todo'[i] = todo[2] /\ Len(todo) - 2 = Len(todo') - i
        BY <1>3, <3>1 DEF Rest
    <3>3. i = 1  BY <2>3, <3>2
    <3> QED  BY <3>2, <3>3
  <2>5. todo'[1].do = "start" /\ todo'[1].id = slot'  BY <1>2, <1>5, <1>6, <2>4
  <2>6. StartWaits'  BY <2>2, <2>3, <2>5 DEF StartWaits, Pending
  <2>7. RollOverWaits' /\ EndWaits' /\ WipeWaits'
      BY <2>3, <2>5 DEF RollOverWaits, EndWaits, WipeWaits
  <2> QED  BY <2>2, <2>6, <2>7 DEF Waits, OwnerWaits
<1> QED  BY <1>12, <1>13, <1>14

(* The oldest file goes.                                                   *)
LEMMA OldestDropped ==
  ASSUME Inv, DropOldest
  PROVE  FileTypes' /\ Orderly' /\ Waits'
<1> DEFINE l == Len(files)
<1>1. FileTypes /\ Orderly /\ WorkTypes /\ Waits  BY DEF Inv, TypeOK
<1>2. /\ todo # <<>> /\ Head(todo).do = "drop" /\ todo' = Tail(todo) /\ slot' = slot
      /\ files' = Tail(files)
    BY DEF DropOldest, Doing, Done, control
<1>3. Rest(todo')  BY <1>1, <1>2, TailIsRest
<1>4. todo[1].do = "drop" /\ 1 \in DOMAIN todo  BY <1>2, <1>3 DEF Rest
<1>5. l = MaxFiles  BY <1>1, <1>4 DEF Waits, RollOverWaits
<1>6. l \in Nat /\ l >= 2  BY <1>5, LogAssumption
<1>7. /\ files' \in Seq(Seq(Records)) /\ Len(files') = l - 1
      /\ \A f \in 1..l - 1 : files'[f] = files[f + 1]
  <2>1. files \in Seq(Seq(Records)) /\ files # <<>>  BY <1>1, <1>6, EmptySeq DEF FileTypes
  <2>2. /\ Tail(files) \in Seq(Seq(Records)) /\ Len(Tail(files)) = l - 1
        /\ \A f \in 1..Len(Tail(files)) : Tail(files)[f] = files[f + 1]
      BY <2>1, HeadTailProperties
  <2> QED  BY <1>2, <2>2
<1>8. DOMAIN files' = 1..l - 1  BY <1>7, LenProperties
<1>9. \A f \in 1..l - 1 : f + 1 \in 1..l /\ f + 1 \in DOMAIN files
    BY <1>1, <1>6, FilesTyped
<1>10. FileTypes'
  <2>1. \A f \in 1..l - 1 : Len(files'[f]) <= RecordsPerFile
      BY <1>1, <1>7, <1>9, FilesTyped
  <2>2. l - 1 \in 1..MaxFiles  BY <1>5, <1>6
  <2> QED  BY <1>7, <1>8, <2>1, <2>2 DEF FileTypes
<1>11. Orderly'
  <2>1. ASSUME NEW f \in 1..l - 1
        PROVE  /\ f < l - 1 => Len(files'[f]) = RecordsPerFile
               /\ \A r \in DOMAIN files'[f] :
                    files'[f][r].ended \/ (f = l - 1 /\ r = Len(files'[f]))
    <3>1. files'[f] = files[f + 1] /\ f + 1 \in DOMAIN files  BY <1>7, <1>9
    <3>2. /\ f + 1 < l => Len(files[f + 1]) = RecordsPerFile
          /\ \A r \in DOMAIN files[f + 1] :
               files[f + 1][r].ended \/ (f + 1 = l /\ r = Len(files[f + 1]))
        BY <1>1, <3>1 DEF Orderly
    <3>3. (f < l - 1 => f + 1 < l) /\ (f + 1 = l => f = l - 1)  BY <1>6
    <3> QED  BY <3>1, <3>2, <3>3
  <2> QED  BY <1>7, <1>8, <2>1 DEF Orderly
<1>12. LastFile' = LastFile
  <2>1. l - 1 \in 1..l - 1 /\ (l - 1) + 1 = l  BY <1>6
  <2>2. files'[l - 1] = files[l]  BY <1>7, <2>1
  <2> QED  BY <1>7, <2>2 DEF LastFile
<1>13. Len(files') < MaxFiles  BY <1>5, <1>6, <1>7
<1>14. todo[1].do \notin {"start", "create", "end", "wipe", "refused"}  BY <1>4
<1>15. Waits'  BY <1>1, <1>2, <1>3, <1>12, <1>13, <1>14, RestWaits
<1> QED  BY <1>10, <1>11, <1>15

(* The whole log goes.                                                     *)
LEMMA LogWiped ==
  ASSUME Inv, Wipe
  PROVE  FileTypes' /\ Orderly' /\ Waits'
<1> DEFINE t == todo'
           n == Len(todo)
           m == Len(t)
<1>1. WorkTypes /\ Waits  BY DEF Inv, TypeOK
<1>2. /\ todo # <<>> /\ Head(todo).do = "wipe" /\ todo' = Tail(todo) /\ slot' = slot
      /\ files' = <<<<>>>>
    BY DEF Wipe, Doing, Done, control
<1>3. Rest(todo')  BY <1>1, <1>2, TailIsRest
<1>4. /\ n \in Nat \ {0} /\ m \in Nat /\ DOMAIN t = 1..m /\ DOMAIN todo = 1..n
      /\ \A i \in 1..m :
           \/ t[i].do \in {"unlink", "rename"}
           \/ \E j \in 2..n : t[i] = todo[j] /\ n - j = m - i
      /\ \A j \in 2..n : \E i \in 1..m : t[i] = todo[j] /\ n - j = m - i
      /\ todo[1].do = "wipe"
    BY <1>2, <1>3 DEF Rest
<1>5. /\ files' \in Seq(Seq(Records)) /\ Len(files') = 1 /\ DOMAIN files' = {1}
      /\ files'[1] = <<>> /\ Len(<<>>) = 0 /\ DOMAIN <<>> = {}
  <2>1. <<>> \in Seq(Records)  BY EmptySeq
  <2> QED  BY <1>2, <2>1
<1>6. FileTypes'
  <2>1. 1 \in 1..MaxFiles  BY LogAssumption
  <2>2. 0 <= RecordsPerFile  BY LogAssumption
  <2> QED  BY <1>5, <2>1, <2>2 DEF FileTypes
<1>7. Orderly'
  <2>1. \A f \in DOMAIN files' : f = 1 /\ ~(f < Len(files')) /\ DOMAIN files'[f] = {}
      BY <1>5
  <2> QED  BY <2>1 DEF Orderly
<1>8. ~Open'  BY <1>5 DEF Open, LastFile
<1>9. LastWork' = t[m] /\ LastWork = todo[n]  BY DEF LastWork
<1> HIDE DEF t, n, m
<1>10. \A j \in 2..n : todo[j].do \in {"removeNames", "restart"}
  <2>1. 1 \in DOMAIN todo  BY <1>4
  <2>2. \A j \in DOMAIN todo : j > 1 => todo[j].do \in {"removeNames", "restart"}
      BY <1>1, <1>4, <2>1 DEF Waits, WipeWaits
  <2> QED  BY <1>4, <2>2
<1>11. \A i \in 1..m : t[i].do \in {"unlink", "rename", "removeNames", "restart"}
    BY <1>4, <1>10
<1>12. StartWaits' /\ RollOverWaits' /\ EndWaits'
    BY <1>4, <1>11 DEF StartWaits, RollOverWaits, EndWaits, Pending, t, m
<1>13. ASSUME NEW i \in 1..m, t[i].do = "removeNames"
       PROVE  i = m - 1 /\ t[m].do = "restart"
  <2>1. PICK j \in 2..n : t[i] = todo[j] /\ n - j = m - i  BY <1>4, <1>13
  <2>2. j \in DOMAIN todo  BY <1>4
  <2>3. j = n - 1 /\ todo[n].do = "restart"
      BY <1>1, <1>9, <1>13, <2>1, <2>2 DEF Waits, WipeWaits, n
  <2>4. i = m - 1  BY <1>4, <2>1, <2>3
  <2>5. n \in 2..n  BY <1>4, <2>1
  <2>6. PICK h \in 1..m : t[h] = todo[n] /\ n - n = m - h  BY <1>4, <2>5
  <2>7. h = m  BY <1>4, <2>6
  <2> QED  BY <2>3, <2>4, <2>6, <2>7
<1>14. WipeWaits'  BY <1>4, <1>9, <1>11, <1>13 DEF WipeWaits, t, m
<1>15. OwnerWaits'  BY <1>8 DEF OwnerWaits
<1> QED  BY <1>6, <1>7, <1>12, <1>14, <1>15 DEF Waits

(* The writes that leave the log alone.                                    *)
LEMMA LogUntouched ==
  ASSUME FileTypes, Orderly, files' = files
  PROVE  FileTypes' /\ Orderly'
BY DEF FileTypes, Orderly

LEMMA RemovalUntouched ==
  ASSUME removed \subseteq DOMAIN files, RemovalWaits, files' = files, removed' = removed,
         todo' = todo \/ Idle
  PROVE  removed' \subseteq DOMAIN files' /\ RemovalWaits'
<1>1. CASE todo' = todo  BY <1>1 DEF RemovalWaits, Refused, Doing
<1>2. CASE Idle
  <2>1. removed = {}  BY <1>2 DEF RemovalWaits, Refused, Doing, Idle
  <2> QED  BY <2>1 DEF RemovalWaits
<1> QED  BY <1>1, <1>2

LEMMA OtherWritten ==
  ASSUME Inv, todo # <<>>, Head(todo).do \notin LogHeads,
         todo' \in {Tail(todo), Save \o Tail(todo)}, files' = files, slot' = slot
  PROVE  FileTypes' /\ Orderly' /\ Waits'
<1>1. FileTypes /\ Orderly /\ WorkTypes /\ Waits  BY DEF Inv, TypeOK
<1>2. Rest(todo')  BY <1>1, TailIsRest, SavedTailIsRest
<1>3. todo[1].do \notin {"start", "create", "end", "wipe", "drop", "refused"}
    BY <1>2 DEF Rest, LogHeads
<1>4. LastFile' = LastFile /\ Len(files') = Len(files)  BY DEF LastFile
<1>5. Waits'  BY <1>1, <1>2, <1>3, <1>4, RestWaits
<1> QED  BY <1>1, <1>5, LogUntouched

(* Every write of the main thread.                                         *)
LEMMA LogWritten ==
  ASSUME Inv, WriteNext
  PROVE  FileTypes' /\ Orderly' /\ Waits'
<1>1. CASE UnlinkConfig
  BY <1>1, OtherWritten DEF UnlinkConfig, Doing, Done, control, LogHeads
<1>2. CASE RenameConfig
  BY <1>2, OtherWritten DEF RenameConfig, Doing, Done, control, LogHeads
<1>3. CASE WriteName
  BY <1>3, OtherWritten DEF WriteName, Doing, Done, control, LogHeads
<1>4. CASE FreeId
  <2>1. /\ todo # <<>> /\ Head(todo).do = "free" /\ files' = files /\ slot' = slot
        /\ todo' = (IF config.next = 0 THEN Save ELSE <<>>) \o Tail(todo)
      BY <1>4 DEF FreeId, Doing, control
  <2>2. Tail(todo) \in Seq(Writes)
    <3>1. WorkTypes  BY DEF Inv, TypeOK
    <3>2. Rest(Tail(todo))  BY <2>1, <3>1, TailIsRest
    <3> QED  BY <3>2 DEF Rest
  <2>3. <<>> \o Tail(todo) = Tail(todo)  BY <2>2, ConcatEmptySeq
  <2>4. todo' \in {Tail(todo), Save \o Tail(todo)}  BY <2>1, <2>3
  <2> QED  BY <2>1, <2>4, OtherWritten DEF LogHeads
<1>5. CASE KeepId
  BY <1>5, OtherWritten DEF KeepId, Doing, Done, control, flash, LogHeads
<1>6. CASE DropOldest  BY <1>6, OldestDropped
<1>7. CASE CreateFile  BY <1>7, FileCreated
<1>8. CASE WriteStart  BY <1>8, StartWritten
<1>9. CASE WriteEnd  BY <1>9, EndWritten
<1>10. CASE Wipe  BY <1>10, LogWiped
<1>11. CASE RemoveNames
  BY <1>11, OtherWritten DEF RemoveNames, Doing, Done, control, LogHeads
<1>12. CASE CreateNames
  BY <1>12, OtherWritten DEF CreateNames, Doing, Done, control, LogHeads
<1>13. CASE SearchNext
  BY <1>13, OtherWritten DEF SearchNext, Doing, Done, control, flash, LogHeads
<1>14. CASE Unblock
  BY <1>14, OtherWritten DEF Unblock, Doing, Done, control, flash, LogHeads
<1> QED
  BY <1>1, <1>2, <1>3, <1>4, <1>5, <1>6, <1>7, <1>8, <1>9, <1>10, <1>11, <1>12,
     <1>13, <1>14 DEF WriteNext

---------------------------------------------------------------------------
(* The users.                                                              *)

LessThan == {p \in Nat \X Nat : p[1] < p[2]}

(* The search ends at another ID that is free, or finds none.              *)
LEMMA NextFreeTyped ==
  ASSUME NEW start \in 0..MaxId
  PROVE  /\ NextFree(start) \in 0..MaxId
         /\ NextFree(start) # 0 =>
              NextFree(start) \in Ids \ {start} /\ names[NextFree(start)] = Anonymous
<1> DEFINE Distance(id) == (id + MaxId + 1 - start) % (MaxId + 1)
           free == {id \in Ids \ {start} : names[id] = Anonymous}
           distances == {Distance(id) : id \in free}
           closest(id) == \A j \in free : Distance(id) <= Distance(j)
<1>1. CASE free = {}
  <2>1. NextFree(start) = 0  BY <1>1 DEF NextFree
  <2> QED  BY <2>1, LogAssumption
<1>2. CASE free # {}
  <2>1. \A id \in free : Distance(id) \in Nat
    <3>1. \A id \in free : id + MaxId + 1 - start \in Int  BY LogAssumption DEF Ids
    <3>2. MaxId + 1 \in Nat \ {0}  BY LogAssumption
    <3>3. \A k \in Int, d \in Nat \ {0} : k % d \in Nat  OBVIOUS
    <3> QED  BY <3>1, <3>2, <3>3
  <2> HIDE DEF Distance, free
  <2>2. distances \in SUBSET Nat /\ distances # {}  BY <1>2, <2>1
  <2>3. IsWellFoundedOn(LessThan, Nat)  BY NatLessThanWellFounded DEF OpToRel, LessThan
  <2>4. PICK d \in distances : \A e \in distances : ~ (<<e, d>> \in LessThan)
      BY <2>2, <2>3, WFMin
  <2>5. PICK id \in free : Distance(id) = d  BY <2>4
  <2>6. closest(id)
    <3> TAKE j \in free
    <3>1. Distance(j) \in distances /\ Distance(j) \in Nat /\ d \in Nat  BY <2>1, <2>2, <2>4
    <3>2. ~(Distance(j) < d)  BY <2>4, <3>1 DEF LessThan
    <3> QED  BY <2>5, <3>1, <3>2
  <2>7. (CHOOSE i \in free : closest(i)) \in free  BY <2>6
  <2>8. NextFree(start) = CHOOSE i \in free : closest(i)
      BY <1>2 DEF NextFree, Distance, free
  <2>9. /\ free \subseteq 0..MaxId
        /\ \A i \in free : i \in Ids \ {start} /\ names[i] = Anonymous
      BY LogAssumption DEF free, Ids
  <2> QED  BY <2>7, <2>8, <2>9
<1> QED  BY <1>1, <1>2

(* Values the steps assign have their types.                               *)
LEMMA SomeTypes ==
  /\ 0 \in 0..MaxId /\ Ids \subseteq 0..MaxId
  /\ NoRequest \in Commands /\ Booting \in Commands
  /\ NoFile \notin [Ids -> Persons \union {Anonymous}]
<1>1. 0 \in 0..MaxId /\ Ids \subseteq 0..MaxId  BY LogAssumption DEF Ids
<1>2. NoFile \notin [Ids -> Persons \union {Anonymous}]  BY LogAssumption DEF Ids
<1> QED  BY <1>1, <1>2 DEF NoRequest, Booting, Command, Commands

(* What a write does to the rest of the state.                             *)
LEMMA WriteStep ==
  ASSUME Inv, WriteNext
  PROVE  /\ todo # <<>> /\ Rest(todo') /\ Head(todo) \in Writes
         /\ slot' = slot /\ charger' = charger /\ last' = last
         /\ userSlot' = userSlot /\ plugged' = plugged /\ cuts' = cuts
         /\ Head(todo).do = "unblock" => request' = NoRequest
         /\ Head(todo).do # "unblock" => request' = request
         /\ stored' \in {stored, NoFile, config}
<1>1. WorkTypes  BY DEF Inv, TypeOK
<1>2. todo # <<>> /\ slot' = slot /\ charger' = charger /\ last' = last
      /\ userSlot' = userSlot /\ plugged' = plugged /\ cuts' = cuts
    BY DEF WriteNext, UnlinkConfig, RenameConfig, WriteName, FreeId, KeepId, DropOldest,
           CreateFile, WriteStart, WriteEnd, Wipe, RemoveNames, CreateNames, SearchNext,
           Unblock, Doing, control, outside
<1>3. todo' \in {Tail(todo), Save \o Tail(todo)}
  <2>1. CASE FreeId
    <3>1. todo' = (IF config.next = 0 THEN Save ELSE <<>>) \o Tail(todo)  BY <2>1 DEF FreeId
    <3>2. Tail(todo) \in Seq(Writes)  BY <1>1, <1>2, TailIsRest DEF Rest
    <3>3. <<>> \o Tail(todo) = Tail(todo)  BY <3>2, ConcatEmptySeq
    <3> QED  BY <3>1, <3>3
  <2>2. CASE ~FreeId
    BY <2>2 DEF WriteNext, UnlinkConfig, RenameConfig, WriteName, KeepId, DropOldest,
           CreateFile, WriteStart, WriteEnd, Wipe, RemoveNames, CreateNames, SearchNext,
           Unblock, Done
  <2> QED  BY <2>1, <2>2
<1>4. Rest(todo') /\ Head(todo) \in Writes  BY <1>1, <1>2, <1>3, TailIsRest, SavedTailIsRest
<1>5. /\ Head(todo).do = "unblock" => request' = NoRequest
      /\ Head(todo).do # "unblock" => request' = request
      /\ stored' \in {stored, NoFile, config}
    BY DEF WriteNext, UnlinkConfig, RenameConfig, WriteName, FreeId, KeepId, DropOldest,
           CreateFile, WriteStart, WriteEnd, Wipe, RemoveNames, CreateNames, SearchNext,
           Unblock, Doing, flash
<1> QED  BY <1>2, <1>4, <1>5

LEMMA WorkWritten ==
  ASSUME Inv, WriteNext
  PROVE  WorkTypes' /\ SurroundingTypes'
<1>1. WorkTypes /\ SurroundingTypes  BY DEF Inv, TypeOK
<1>2. todo' \in Seq(Writes)  BY WriteStep DEF Rest
<1>3. request' \in Commands  BY <1>1, WriteStep, SomeTypes DEF WorkTypes
<1>4. slot' \in 0..NoId  BY <1>1, WriteStep DEF WorkTypes
<1>5. SurroundingTypes'  BY <1>1, WriteStep DEF SurroundingTypes
<1> QED  BY <1>2, <1>3, <1>4, <1>5 DEF WorkTypes, NoId

(* The users of the configuration stay; only the next ID may change.       *)
LEMMA ConfigWritten ==
  ASSUME Inv, WriteNext
  PROVE  config' \in Configs /\ config'.users = config.users
<1>1. config \in Configs  BY DEF Inv, TypeOK, UserTypes
<1>2. Head(todo).id \in 0..MaxId  BY WriteStep DEF Writes
<1>3. NextFree(0) \in 0..MaxId  BY SomeTypes, NextFreeTyped
<1>4. \/ config' = config
      \/ config' = [config EXCEPT !.next = IF @ = 0 THEN Head(todo).id ELSE @]
      \/ config' = [config EXCEPT !.next = NextFree(0)]
    BY DEF WriteNext, UnlinkConfig, RenameConfig, WriteName, FreeId, KeepId, DropOldest,
           CreateFile, WriteStart, WriteEnd, Wipe, RemoveNames, CreateNames, SearchNext,
           Unblock
<1> QED  BY <1>1, <1>2, <1>3, <1>4 DEF Configs

(* The file of names is lost only before a restart.                        *)
LEMMA NamesWritten ==
  ASSUME Inv, WriteNext
  PROVE  /\ names' \in [Ids -> Persons \union {Anonymous}] \union {NoFile}
         /\ NamesWait'
<1> DEFINE Tables == [Ids -> Persons \union {Anonymous}]
<1>1. names \in Tables \union {NoFile} /\ NamesWait /\ Waits  BY DEF Inv, TypeOK, UserTypes
<1>2. Head(todo) \in Writes /\ todo # <<>>  BY WriteStep
<1>3. CASE RemoveNames
  <2>1. names' = NoFile /\ Head(todo).do = "removeNames"  BY <1>3 DEF RemoveNames, Doing
  <2>2. /\ Head(todo) = todo[1] /\ Len(todo) \in Nat \ {0} /\ DOMAIN todo = 1..Len(todo)
      BY WriteStep DEF Rest
  <2>3. 1 = Len(todo) - 1 /\ LastWork.do = "restart"
    <3>1. 1 \in DOMAIN todo  BY <2>2
    <3> QED  BY <1>1, <2>1, <2>2, <3>1 DEF Waits, WipeWaits
  <2>4. Len(todo) = 2 /\ todo[2].do = "restart"
    <3>1. 1 = Len(todo) - 1  BY <2>3
    <3>2. Len(todo) \in Nat  BY <2>2
    <3>3. Len(todo) = 2  BY <3>1, <3>2
    <3> QED  BY <2>3, <3>3 DEF LastWork
  <2>5. todo' = Tail(todo) /\ WorkTypes  BY <1>3 DEF RemoveNames, Done, Inv, TypeOK
  <2>6. /\ todo' \in Seq(Writes) /\ Len(todo') = 1 /\ todo'[1] = todo[2]
    <3>1. todo \in Seq(Writes)  BY <2>5 DEF WorkTypes
    <3>2. /\ Tail(todo) \in Seq(Writes) /\ Len(Tail(todo)) = Len(todo) - 1
          /\ \A i \in 1..Len(Tail(todo)) : Tail(todo)[i] = todo[i + 1]
        BY <1>2, <3>1, HeadTailProperties
    <3>3. 1 \in 1..Len(Tail(todo))  BY <2>4, <3>2
    <3> QED  BY <2>4, <2>5, <3>2, <3>3
  <2>7. todo' # <<>> /\ Head(todo').do = "restart"  BY <2>4, <2>6, EmptySeq
  <2> QED  BY <2>1, <2>7 DEF NamesWait
<1>4. CASE CreateNames
  <2>1. names' = [id \in Ids |-> Anonymous]  BY <1>4 DEF CreateNames
  <2>2. names' \in Tables  BY <2>1
  <2> QED  BY <2>2, SomeTypes DEF NamesWait
<1>5. CASE ~RemoveNames /\ ~CreateNames
  <2>1. Head(todo).do \notin {"createNames", "restart"}
      BY <1>5 DEF WriteNext, UnlinkConfig, RenameConfig, WriteName, FreeId, KeepId,
             DropOldest, CreateFile, WriteStart, WriteEnd, Wipe, SearchNext, Unblock, Doing
  <2>2. names \in Tables  BY <1>1, <2>1 DEF NamesWait
  <2>3. Head(todo).who \in Persons \union {Anonymous}  BY <1>2 DEF Writes
  <2>4. \/ names' = names
        \/ names' = [names EXCEPT ![Head(todo).id] = Head(todo).who]
        \/ names' = [names EXCEPT ![Head(todo).id] = Anonymous]
      BY <1>5 DEF WriteNext, UnlinkConfig, RenameConfig, WriteName, FreeId, KeepId,
             DropOldest, CreateFile, WriteStart, WriteEnd, Wipe, SearchNext, Unblock, flash
  <2>5. names' \in Tables  BY <2>2, <2>3, <2>4
  <2> QED  BY <2>5, SomeTypes DEF NamesWait
<1> QED  BY <1>3, <1>4, <1>5

LEMMA UsersWritten ==
  ASSUME Inv, WriteNext
  PROVE  UserTypes' /\ UserFits'
<1>1. UserTypes /\ UserFits  BY DEF Inv, TypeOK
<1>2. config' \in Configs /\ config'.users = config.users  BY ConfigWritten
<1>3. stored' \in {stored, NoFile, config}  BY WriteStep
<1>4. stored' \in Configs \union {NoFile}  BY <1>1, <1>3 DEF UserTypes
<1>5. Cardinality(config'.users) < MaxActive  BY <1>1, <1>2 DEF UserTypes
<1>6. UserTypes'  BY <1>2, <1>4, <1>5, NamesWritten DEF UserTypes
<1>7. stored' # NoFile => Cardinality(stored'.users) < MaxActive
    BY <1>1, <1>3 DEF UserTypes, UserFits
<1>8. ASSUME request'.do = "add"
      PROVE  /\ request'.id \in Ids /\ request'.who \in Persons
             /\ Cardinality(config'.users) + 1 < MaxActive
                  \/ (todo' # <<>> /\ LastWork'.do = "unblock")
  <2>1. Head(todo).do # "unblock" /\ request' = request
    <3>1. NoRequest.do # "add"  BY DEF NoRequest, Command
    <3> QED  BY <1>8, <3>1, WriteStep
  <2>2. /\ request.id \in Ids /\ request.who \in Persons
        /\ Cardinality(config.users) + 1 < MaxActive \/ LastWork.do = "unblock"
      BY <1>1, <1>8, <2>1 DEF UserFits
  <2>3. Rest(todo') /\ todo[1].do # "unblock"  BY <2>1, WriteStep DEF Rest
  <2>4. LastWork.do = "unblock" => todo' # <<>> /\ LastWork'.do = "unblock"
      BY <2>3, RestReserves
  <2> QED  BY <1>2, <2>1, <2>2, <2>4
<1>9. UserFits'  BY <1>7, <1>8 DEF UserFits
<1> QED  BY <1>6, <1>9

(* After any write that is not the removal of a file, no file is missing.  *)
LEMMA NothingMissing ==
  ASSUME Inv, WriteNext
  PROVE  removed' = {}
<1>1. CASE Wipe  BY <1>1 DEF Wipe
<1>2. CASE ~Wipe
  <2>1. removed' = removed /\ Head(todo).do \notin {"wipe", "refused"}
      BY <1>2 DEF WriteNext, UnlinkConfig, RenameConfig, WriteName, FreeId, KeepId, DropOldest,
             CreateFile, WriteStart, WriteEnd, RemoveNames, CreateNames, SearchNext,
             Unblock, Doing, flash
  <2> QED  BY <2>1 DEF Inv, RemovalWaits, Refused, Doing
<1> QED  BY <1>1, <1>2

LEMMA WritesKeepInv ==
  ASSUME Inv, WriteNext
  PROVE  Inv'
<1>1. FileTypes' /\ Orderly' /\ Waits'  BY LogWritten
<1>2. WorkTypes' /\ SurroundingTypes'  BY WorkWritten
<1>3. UserTypes' /\ UserFits' /\ NamesWait'  BY UsersWritten, NamesWritten
<1>4. removed' \subseteq DOMAIN files' /\ RemovalWaits'
    BY NothingMissing DEF RemovalWaits
<1> QED  BY <1>1, <1>2, <1>3, <1>4 DEF Inv, TypeOK

(* remove_directory takes a file away.                                     *)
LEMMA RemoveFileKeepsInv ==
  ASSUME Inv, RemoveFile
  PROVE  Inv'
<1>1. /\ Doing("wipe") /\ removed' \subseteq DOMAIN files
      /\ files' = files /\ names' = names /\ stored' = stored /\ config' = config
      /\ todo' = todo /\ request' = request /\ slot' = slot
      /\ charger' = charger /\ last' = last
      /\ userSlot' = userSlot /\ plugged' = plugged /\ cuts' = cuts
    BY DEF RemoveFile, control, outside, Inv, TypeOK
<1>2. FileTypes' /\ Orderly'  BY <1>1, LogUntouched DEF Inv, TypeOK
<1>3. Waits'  BY <1>1, UntouchedWaits DEF Inv
<1>4. UserTypes' /\ NamesWait'  BY <1>1 DEF Inv, TypeOK, UserTypes, NamesWait
<1>5. WorkTypes' /\ SurroundingTypes'
    BY <1>1 DEF Inv, TypeOK, WorkTypes, SurroundingTypes, NoId
<1>6. UserFits'
  <2>1. LastWork' = LastWork  BY <1>1 DEF LastWork
  <2> QED  BY <1>1, <2>1 DEF Inv, UserFits
<1>7. RemovalWaits'  BY <1>1 DEF RemovalWaits, Doing
<1>8. removed' \subseteq DOMAIN files'  BY <1>1
<1> QED  BY <1>2, <1>3, <1>4, <1>5, <1>6, <1>7, <1>8 DEF Inv, TypeOK

---------------------------------------------------------------------------
(* A restart.                                                              *)

(* A set of the first numbers has a least and a greatest one.              *)
LEMMA Ends ==
  ASSUME NEW n \in Nat, NEW S \in SUBSET (1..n), S # {}
  PROVE  /\ Min(S) \in S /\ \A x \in S : Min(S) <= x
         /\ Max(S) \in S /\ \A x \in S : Max(S) >= x
<1> DEFINE T == {n - x : x \in S}
<1>1. IsWellFoundedOn(LessThan, Nat)  BY NatLessThanWellFounded DEF OpToRel, LessThan
<1>2. S \in SUBSET Nat /\ T \in SUBSET Nat /\ T # {}
  <2>1. \A x \in S : x \in Nat /\ n - x \in Nat  OBVIOUS
  <2> QED  BY <2>1
<1> HIDE DEF T
<1>3. PICK a \in S : \A x \in S : ~ (<<x, a>> \in LessThan)  BY <1>1, <1>2, WFMin
<1>4. \A x \in S : a <= x
  <2> TAKE x \in S
  <2>1. x \in Nat /\ a \in Nat  BY <1>2
  <2>2. ~(x < a)  BY <1>3, <2>1 DEF LessThan
  <2> QED  BY <2>1, <2>2
<1>5. PICK d \in T : \A e \in T : ~ (<<e, d>> \in LessThan)  BY <1>1, <1>2, WFMin
<1>6. PICK b \in S : d = n - b  BY <1>5 DEF T
<1>7. \A x \in S : b >= x
  <2> TAKE x \in S
  <2>1. n - x \in T  BY DEF T
  <2>2. ~(n - x < d)  BY <1>2, <1>5, <2>1 DEF LessThan
  <2> QED  BY <1>6, <2>2
<1>8. Min(S) \in S /\ \A x \in S : Min(S) <= x  BY <1>4 DEF Min
<1>9. Max(S) \in S /\ \A x \in S : Max(S) >= x  BY <1>7 DEF Max
<1> QED  BY <1>8, <1>9

(* The files a boot finds are as orderly as those that were stored.        *)
LEMMA FoundIsOrderly ==
  ASSUME FileTypes, Orderly
  PROVE  /\ Found \in Seq(Seq(Records)) /\ Len(Found) \in 1..MaxFiles
         /\ \A f \in DOMAIN Found : Len(Found[f]) <= RecordsPerFile
         /\ \A f \in DOMAIN Found :
              Found[f] = <<>> \/ \E g \in DOMAIN files : Found[f] = files[g]
         /\ Acceptable(Found)
         /\ removed = {} => Found = files
<1> DEFINE n == Len(files)
<1>1. /\ files \in Seq(Seq(Records)) /\ n \in Nat \ {0} /\ n <= MaxFiles
      /\ DOMAIN files = 1..n
      /\ \A f \in 1..n : Len(files[f]) <= RecordsPerFile /\ DOMAIN files[f] = 1..Len(files[f])
    BY FilesTyped DEF FileTypes
<1>2. /\ \A f \in 1..n : f < n => Len(files[f]) = RecordsPerFile
      /\ \A f \in 1..n : \A r \in DOMAIN files[f] :
           files[f][r].ended \/ (f = n /\ r = Len(files[f]))
    BY <1>1 DEF Orderly
<1>3. Left \in SUBSET (1..n) /\ (removed = {} => Left = 1..n)  BY <1>1 DEF Left
<1>4. CASE Left = {}
  <2>1. Found = <<<<>>>>  BY <1>4 DEF Found
  <2>2. /\ Found \in Seq(Seq(Records)) /\ Len(Found) = 1 /\ DOMAIN Found = {1}
        /\ Found[1] = <<>> /\ Len(<<>>) = 0 /\ DOMAIN <<>> = {}
    <3>1. <<>> \in Seq(Records)  BY EmptySeq
    <3> QED  BY <2>1, <3>1
  <2>3. 1 \in 1..MaxFiles /\ 0 <= RecordsPerFile  BY LogAssumption
  <2>4. removed # {}
    <3>1. 1 \in 1..n  BY <1>1
    <3> QED  BY <1>3, <1>4, <3>1
  <2>5. Acceptable(Found)
    <3>1. \A f \in DOMAIN Found : f = 1 /\ ~(f < Len(Found)) /\ DOMAIN Found[f] = {}
        BY <2>2
    <3> QED  BY <3>1 DEF Acceptable
  <2> QED  BY <2>2, <2>3, <2>4, <2>5
<1>5. CASE Left # {}
  <2> DEFINE a == Min(Left)
             b == Max(Left)
  <2>1. /\ a \in Left /\ \A x \in Left : a <= x
        /\ b \in Left /\ \A x \in Left : b >= x
      BY <1>1, <1>3, <1>5, Ends
  <2>2. Found = SubSeq(files, a, b)  BY <1>5 DEF Found
  <2> HIDE DEF a, b, n
  <2>3. a \in 1..n /\ b \in 1..n /\ a <= b  BY <1>3, <2>1
  <2>4. /\ Found \in Seq(Seq(Records)) /\ Len(Found) = b - a + 1
        /\ \A i \in 1..b - a + 1 : Found[i] = files[a + i - 1]
    <3>1. a \in 1..Len(files) + 1 /\ b \in a - 1..Len(files)  BY <1>1, <2>3 DEF n
    <3>2. /\ SubSeq(files, a, b) \in Seq(Seq(Records))
          /\ Len(SubSeq(files, a, b)) = IF a <= b THEN b - a + 1 ELSE 0
          /\ \A i \in 1..b - a + 1 : SubSeq(files, a, b)[i] = files[a + i - 1]
        BY <1>1, <3>1, SubSeqProperties
    <3> QED  BY <2>2, <2>3, <3>2
  <2>5. DOMAIN Found = 1..b - a + 1 /\ b - a + 1 \in Nat /\ Len(Found) \in 1..MaxFiles
    <3>1. DOMAIN Found = 1..Len(Found)  BY <2>4, LenProperties
    <3>2. b - a + 1 \in 1..MaxFiles  BY <1>1, <2>3, LogAssumption
    <3> QED  BY <2>4, <3>1, <3>2
  <2>6. \A f \in DOMAIN Found :
          /\ a + f - 1 \in 1..n /\ Found[f] = files[a + f - 1]
          /\ f < Len(Found) => a + f - 1 < n
          /\ a + f - 1 = n => f = Len(Found)
    <3> TAKE f \in DOMAIN Found
    <3>1. f \in 1..b - a + 1  BY <2>5
    <3>2. a \in Nat /\ b \in Nat /\ n \in Nat /\ 1 <= a /\ b <= n  BY <1>1, <2>3
    <3>3. f \in Nat /\ 1 <= f /\ f <= b - a + 1  BY <3>1, <3>2
    <3>4. a + f - 1 \in 1..n  BY <3>2, <3>3
    <3>5. Found[f] = files[a + f - 1]  BY <2>4, <3>1
    <3>6. f < b - a + 1 => a + f - 1 < n  BY <3>2, <3>3
    <3>7. a + f - 1 = n => f = b - a + 1  BY <3>2, <3>3
    <3> QED  BY <2>4, <3>4, <3>5, <3>6, <3>7
  <2>7. Acceptable(Found)  BY <1>2, <2>6 DEF Acceptable
  <2>8. ASSUME removed = {} PROVE Found = files
    <3>1. Left = 1..n /\ 1 \in 1..n /\ n \in 1..n  BY <1>1, <1>3, <2>8
    <3>2. a = 1 /\ b = n  BY <1>1, <2>1, <2>3, <3>1
    <3> QED  BY <1>1, <2>2, <3>2, SubSeqFull DEF n
  <2> QED  BY <1>1, <2>4, <2>5, <2>6, <2>7, <2>8
<1> QED  BY <1>4, <1>5

(* While no file is missing, there is no gap.                              *)
LEMMA GapsAreMissing ==
  ASSUME FileTypes, ~Consecutive
  PROVE  removed # {}
<1> SUFFICES ASSUME removed = {}  PROVE Consecutive
    OBVIOUS
<1>1. Left = 1..Len(files) /\ Len(files) \in Nat  BY FilesTyped DEF Left
<1> QED  BY <1>1 DEF Consecutive

(* setupRecords accepts the log, or the box does without it.               *)
LEMMA LogFound ==
  ASSUME Inv, Restart, Restored \in Configs
  PROVE  /\ FileTypes' /\ removed' \subseteq DOMAIN files' /\ Orderly'
         /\ Waits' /\ RemovalWaits' /\ NamesWait' /\ todo' \in Seq(Writes)
<1>1. FileTypes /\ Orderly /\ removed \subseteq DOMAIN files /\ RemovalWaits /\ NamesWait
    BY DEF Inv, TypeOK
<1>2. names' = names /\ FindLog  BY DEF Restart
<1>3. CASE Consecutive
  <2>1. files' = Found /\ removed' = {} /\ todo' = SetupWork(Open')
      BY <1>2, <1>3 DEF FindLog
  <2>2. FileTypes'  BY <1>1, <2>1, FoundIsOrderly DEF FileTypes
  <2>3. Orderly'  BY <1>1, <2>1, FoundIsOrderly DEF Orderly, Acceptable
  <2>4. Waits' /\ NamesWait' /\ todo' \in Seq(Writes)  BY <1>2, <2>1, BootWaits
  <2>5. removed' \subseteq DOMAIN files' /\ RemovalWaits'  BY <2>1 DEF RemovalWaits
  <2> QED  BY <2>2, <2>3, <2>4, <2>5
<1>4. CASE ~Consecutive
  <2>1. files' = files /\ removed' = removed /\ todo' = Work("refused")
      BY <1>2, <1>4 DEF FindLog
  <2>2. todo' \in Seq(Writes) /\ Len(todo') = 1 /\ todo'[1].do = "refused"
    <3>1. /\ "refused" \in WriteKinds /\ 0 \in 0..MaxId
          /\ Anonymous \in Persons \union {Anonymous}
        BY LogAssumption DEF WriteKinds
    <3> QED  BY <2>1, <3>1, WorkIsOne
  <2>3. DOMAIN todo' = {1} /\ todo' # <<>> /\ Head(todo') = todo'[1]
    <3>1. DOMAIN todo' = 1..Len(todo')  BY <2>2, LenProperties
    <3>2. Len(todo') # Len(<<>>)  BY <2>2, EmptySeq
    <3>3. todo' # <<>>  BY <3>2
    <3> QED  BY <2>2, <3>1, <3>3
  <2>4. Refused'  BY <2>2, <2>3 DEF Refused, Doing
  <2>5. FileTypes' /\ Orderly'  BY <1>1, <2>1, LogUntouched
  <2>6. removed' \subseteq DOMAIN files' /\ RemovalWaits'
      BY <1>1, <2>1, <2>4 DEF RemovalWaits
  <2>7. Waits'
    <3>1. StartWaits' /\ RollOverWaits'
        BY <2>2, <2>3 DEF StartWaits, RollOverWaits, Pending
    <3>2. EndWaits' /\ WipeWaits'  BY <2>2, <2>3 DEF EndWaits, WipeWaits
    <3>3. OwnerWaits'  BY <2>4 DEF OwnerWaits
    <3> QED  BY <3>1, <3>2, <3>3 DEF Waits
  <2>8. names # NoFile
    <3>1. Doing("wipe") \/ Refused  BY <1>1, <1>4, GapsAreMissing DEF RemovalWaits
    <3> QED  BY <1>1, <3>1 DEF NamesWait, Refused, Doing
  <2>9. NamesWait'  BY <1>2, <2>8 DEF NamesWait
  <2> QED  BY <2>2, <2>5, <2>6, <2>7, <2>9
<1> QED  BY <1>3, <1>4

LEMMA RestartKeepsInv ==
  ASSUME Inv, Restart, cuts' \in 0..MaxCuts
  PROVE  Inv'
<1>1. UserTypes /\ SurroundingTypes /\ UserFits
    BY DEF Inv, TypeOK
<1>2. /\ names' = names /\ stored' = stored /\ plugged' = plugged
      /\ config' = Restored /\ request' = Booting
      /\ slot' = NoId /\ charger' = "unplugged" /\ last' = "unset"
      /\ userSlot' = (userSlot /\ Restored.users # {})
    BY DEF Restart
<1>3. Restored \in Configs /\ Cardinality(Restored.users) < MaxActive
  <2>1. CASE stored = NoFile
    <3>1. Restored = [users |-> {}, next |-> 0]  BY <2>1 DEF Restored
    <3>2. Cardinality({}) = 0 /\ 0 < MaxActive  BY FS_EmptySet, LogAssumption
    <3> QED  BY <3>1, <3>2, SomeTypes DEF Configs
  <2>2. CASE stored # NoFile
    <3>1. Restored = stored /\ stored \in Configs  BY <1>1, <2>2 DEF Restored, UserTypes
    <3> QED  BY <1>1, <2>2, <3>1 DEF UserFits
  <2> QED  BY <2>1, <2>2
<1>4. /\ FileTypes' /\ removed' \subseteq DOMAIN files' /\ Orderly'
      /\ Waits' /\ RemovalWaits' /\ NamesWait' /\ todo' \in Seq(Writes)
    BY <1>3, LogFound
<1>5. UserTypes'  BY <1>1, <1>2, <1>3 DEF UserTypes
<1>6. UserFits'
  <2>1. request'.do # "add"  BY <1>2 DEF Booting, Command
  <2> QED  BY <1>1, <1>2, <2>1 DEF UserFits
<1>7. WorkTypes'
  <2>1. NoId \in 0..NoId  BY LogAssumption DEF NoId
  <2> QED  BY <1>2, <1>4, <2>1, SomeTypes DEF WorkTypes, NoId
<1>8. SurroundingTypes'
  <2>1. userSlot' \in BOOLEAN  BY <1>2
  <2> QED  BY <1>1, <1>2, <2>1 DEF SurroundingTypes
<1> QED  BY <1>4, <1>5, <1>6, <1>7, <1>8 DEF Inv, TypeOK

---------------------------------------------------------------------------
(* The commands of the users.                                              *)

(* A command is only noted.                                                *)
LEMMA AskKeepsInv ==
  ASSUME Inv, UNCHANGED <<flash, config, todo, control, outside>>, request' \in Commands,
         request'.do = "add" => /\ request'.id \in Ids /\ request'.who \in Persons
                                /\ Cardinality(config.users) + 1 < MaxActive
  PROVE  Inv'
<1>1. /\ files' = files /\ removed' = removed /\ names' = names /\ stored' = stored /\ config' = config
      /\ todo' = todo /\ slot' = slot /\ charger' = charger /\ last' = last
      /\ userSlot' = userSlot /\ plugged' = plugged /\ cuts' = cuts
    BY DEF flash, control, outside
<1>2. FileTypes' /\ Orderly'  BY <1>1, LogUntouched DEF Inv, TypeOK
<1>3. Waits'  BY <1>1, UntouchedWaits DEF Inv
<1>4. UserTypes' /\ NamesWait'  BY <1>1 DEF Inv, TypeOK, UserTypes, NamesWait
<1>5. WorkTypes' /\ SurroundingTypes'
    BY <1>1 DEF Inv, TypeOK, WorkTypes, SurroundingTypes, NoId
<1>6. UserFits'  BY <1>1 DEF Inv, UserFits
<1>7. removed' \subseteq DOMAIN files' /\ RemovalWaits'
    BY <1>1, RemovalUntouched DEF Inv, TypeOK
<1> QED  BY <1>2, <1>3, <1>4, <1>5, <1>6, <1>7 DEF Inv, TypeOK

LEMMA CommandsKeepInv ==
  ASSUME Inv
  PROVE  /\ \A who \in Persons : AskAdd(who) => Inv'
         /\ \A u \in config.users : AskRemove(u) \/ AskModify(u) => Inv'
<1>1. config \in Configs  BY DEF Inv, TypeOK, UserTypes
<1>2. ASSUME NEW who \in Persons, AskAdd(who)
      PROVE  Inv'
  <2>1. /\ UNCHANGED <<flash, config, todo, control, outside>>
        /\ config.next # 0 /\ Cardinality(config.users) + 1 < MaxActive
        /\ request' = Command("add", config.next, who)
      BY <1>2 DEF AskAdd, MayAsk
  <2>2. config.next \in Ids
    <3>1. config.next \in 0..MaxId  BY <1>1 DEF Configs
    <3> QED  BY <2>1, <3>1, LogAssumption DEF Ids
  <2>3. request' \in Commands /\ request'.id \in Ids /\ request'.who \in Persons
      BY <2>1, <2>2, SomeTypes DEF Command, Commands
  <2> QED  BY <2>1, <2>3, AskKeepsInv
<1>3. ASSUME NEW u \in config.users, AskRemove(u) \/ AskModify(u)
      PROVE  Inv'
  <2>1. u \in Accounts  BY <1>1 DEF Configs
  <2>2. /\ UNCHANGED <<flash, config, todo, control, outside>>
        /\ \/ request' = Command("remove", u.id, u.who)
           \/ request' = Command("modify", u.id, u.who)
      BY <1>3 DEF AskRemove, AskModify, MayAsk
  <2>3. request' \in Commands /\ request'.do # "add"
    <3>1. u.id \in 0..MaxId /\ u.who \in Persons  BY <2>1, SomeTypes DEF Accounts
    <3>2. \A do \in {"remove", "modify"} :
            /\ Command(do, u.id, u.who) \in Commands
            /\ Command(do, u.id, u.who).do # "add"
        BY <3>1 DEF Command, Commands
    <3> QED  BY <2>2, <3>2
  <2> QED  BY <2>2, <2>3, AskKeepsInv
<1> QED  BY <1>2, <1>3

(* An idle main thread knows the owner.                                    *)
LEMMA IdleOwner ==
  ASSUME OwnerWaits, Idle, files' = files, slot' = slot
  PROVE  Open' => slot' = Last(LastFile').id
<1>1. LastFile' = LastFile /\ Open' = Open  BY DEF LastFile, Open
<1>2. ~Pending("end")  BY NothingPending
<1> QED  BY <1>1, <1>2 DEF OwnerWaits, Refused, Doing, Idle

(* A command is applied: the configuration is saved, a name written or an  *)
(* ID freed.                                                               *)
LEMMA ApplyKeepsInv ==
  ASSUME Inv, Idle, UNCHANGED <<flash, request, control, outside>>,
         config' \in Configs, Cardinality(config'.users) < MaxActive,
         NEW x \in Seq(Writes),
         \A i \in 1..Len(x) : x[i].do \in {"name", "free"},
         todo' = Save \o x \o Work("unblock")
  PROVE  Inv'
<1>1. /\ files' = files /\ removed' = removed /\ names' = names /\ stored' = stored
      /\ slot' = slot /\ charger' = charger /\ last' = last /\ request' = request
      /\ userSlot' = userSlot /\ plugged' = plugged /\ cuts' = cuts
    BY DEF flash, control, outside
<1>2. FileTypes' /\ Orderly'  BY <1>1, LogUntouched DEF Inv, TypeOK
<1>3. /\ todo' \in Seq(Writes) /\ todo' # <<>> /\ todo'[Len(todo')].do = "unblock"
      /\ \A i \in 1..Len(todo') : todo'[i].do \notin LogHeads \union {"removeNames"}
    BY UserWorkTyped
<1>4. Waits'
  <2>1. Open' => slot' = Last(LastFile').id  BY <1>1, IdleOwner DEF Inv, Waits
  <2> QED  BY <1>3, <2>1, QuietWaits
<1>5. names # NoFile  BY DEF Inv, NamesWait, Idle
<1>6. NamesWait'  BY <1>1, <1>5 DEF NamesWait
<1>7. UserTypes'  BY <1>1 DEF Inv, TypeOK, UserTypes
<1>8. WorkTypes' /\ SurroundingTypes'
    BY <1>1, <1>3 DEF Inv, TypeOK, WorkTypes, SurroundingTypes, NoId
<1>9. UserFits'
  <2>1. LastWork'.do = "unblock"  BY <1>3 DEF LastWork
  <2> QED  BY <1>1, <1>3, <2>1 DEF Inv, UserFits
<1>10. removed' \subseteq DOMAIN files' /\ RemovalWaits'
    BY <1>1, RemovalUntouched DEF Inv, TypeOK
<1> QED  BY <1>2, <1>4, <1>6, <1>7, <1>8, <1>9, <1>10 DEF Inv, TypeOK

LEMMA AppliedKeepInv ==
  ASSUME Inv, AddUser \/ RemoveUser \/ ModifyUser
  PROVE  Inv'
<1>1. /\ config \in Configs /\ config.users \in SUBSET Accounts
      /\ Cardinality(config.users) < MaxActive
    BY DEF Inv, TypeOK, UserTypes, Configs
<1>2. request.id \in 0..MaxId /\ request.who \in Persons \union {Anonymous}
    BY DEF Inv, TypeOK, WorkTypes, Commands
<1>3. IsFiniteSet(config.users) /\ Cardinality(config.users) \in Nat
    BY <1>1, AccountsFinite
<1>4. /\ WorkOn("name", request.id, request.who) \in Seq(Writes)
      /\ \A i \in 1..Len(WorkOn("name", request.id, request.who)) :
           WorkOn("name", request.id, request.who)[i].do \in {"name", "free"}
  <2>1. "name" \in WriteKinds  BY DEF WriteKinds
  <2>2. /\ WorkOn("name", request.id, request.who) \in Seq(Writes)
        /\ Len(WorkOn("name", request.id, request.who)) = 1
        /\ WorkOn("name", request.id, request.who)[1].do = "name"
      BY <1>2, <2>1, WorkIsOne
  <2> QED  BY <2>2
<1>5. /\ WorkOn("free", request.id, Anonymous) \in Seq(Writes)
      /\ \A i \in 1..Len(WorkOn("free", request.id, Anonymous)) :
           WorkOn("free", request.id, Anonymous)[i].do \in {"name", "free"}
  <2>1. "free" \in WriteKinds  BY DEF WriteKinds
  <2>2. /\ WorkOn("free", request.id, Anonymous) \in Seq(Writes)
        /\ Len(WorkOn("free", request.id, Anonymous)) = 1
        /\ WorkOn("free", request.id, Anonymous)[1].do = "free"
      BY <1>2, <2>1, WorkIsOne
  <2> QED  BY <2>2
<1>6. CASE AddUser
  <2> DEFINE who == User(request.id, request.who)
             us == config.users \union {who}
  <2>1. /\ Idle /\ request.do = "add" /\ UNCHANGED <<flash, request, control, outside>>
        /\ config' = [users |-> us, next |-> NextFree(config.next)]
        /\ todo' = Save \o WorkOn("name", request.id, request.who) \o Work("unblock")
      BY <1>6 DEF AddUser
  <2>2. /\ request.id \in Ids /\ request.who \in Persons
        /\ Cardinality(config.users) + 1 < MaxActive
      BY <2>1 DEF Inv, UserFits, Idle
  <2>3. us \in SUBSET Accounts  BY <1>1, <2>2 DEF User, Accounts
  <2>4. NextFree(config.next) \in 0..MaxId  BY <1>1, NextFreeTyped DEF Configs
  <2>5. Cardinality(us) < MaxActive
    <3>1. Cardinality(us) = Cardinality(config.users)
            \/ Cardinality(us) = Cardinality(config.users) + 1
        BY <1>3, FS_AddElement
    <3> QED  BY <1>1, <2>2, <3>1
  <2> HIDE DEF us
  <2>6. config' \in Configs /\ Cardinality(config'.users) < MaxActive
      BY <2>1, <2>3, <2>4, <2>5 DEF Configs
  <2> QED  BY <1>4, <2>1, <2>6, ApplyKeepsInv
<1>7. CASE RemoveUser
  <2> DEFINE us == config.users \ {User(request.id, request.who)}
             x == IF Tracked(request.id) THEN <<>> ELSE WorkOn("free", request.id, Anonymous)
  <2>1. /\ Idle /\ UNCHANGED <<flash, request, control, outside>>
        /\ config' = [config EXCEPT !.users = us]
        /\ todo' = Save \o x \o Work("unblock")
      BY <1>7 DEF RemoveUser
  <2>2. x \in Seq(Writes) /\ \A i \in 1..Len(x) : x[i].do \in {"name", "free"}
    <3>1. x = <<>> \/ x = WorkOn("free", request.id, Anonymous)  OBVIOUS
    <3> HIDE DEF x
    <3>2. CASE x = <<>>
      <4>1. <<>> \in Seq(Writes) /\ Len(<<>>) = 0  BY EmptySeq
      <4> QED  BY <3>2, <4>1
    <3>3. CASE x = WorkOn("free", request.id, Anonymous)  BY <1>5, <3>3
    <3> QED  BY <3>1, <3>2, <3>3
  <2>3. Cardinality(us) < MaxActive
    <3>1. Cardinality(us) = Cardinality(config.users)
            \/ Cardinality(us) = Cardinality(config.users) - 1
        BY <1>3, FS_RemoveElement
    <3>2. MaxActive \in Nat  BY LogAssumption
    <3> QED  BY <1>1, <1>3, <3>1, <3>2
  <2>4. us \in SUBSET Accounts  BY <1>1
  <2> HIDE DEF us, x
  <2>5. config' \in Configs /\ Cardinality(config'.users) < MaxActive
      BY <1>1, <2>1, <2>3, <2>4 DEF Configs
  <2> QED  BY <2>1, <2>2, <2>5, ApplyKeepsInv
<1>8. CASE ModifyUser
  <2>1. /\ Idle /\ UNCHANGED <<flash, config, request, control, outside>>
        /\ todo' = Save \o WorkOn("name", request.id, request.who) \o Work("unblock")
      BY <1>8 DEF ModifyUser
  <2>2. config' \in Configs /\ Cardinality(config'.users) < MaxActive  BY <1>1, <2>1
  <2> QED  BY <1>4, <2>1, <2>2, ApplyKeepsInv
<1> QED  BY <1>6, <1>7, <1>8

---------------------------------------------------------------------------
(* Charging.                                                               *)

(* Steps of an idle main thread that leave flash and the users alone.      *)
LEMMA IdleStepKeepsInv ==
  ASSUME Inv, Idle, UNCHANGED <<flash, config, request>>,
         Waits', todo' \in Seq(Writes), slot' \in 0..NoId, SurroundingTypes'
  PROVE  Inv'
<1>1. files' = files /\ removed' = removed /\ names' = names /\ stored' = stored /\ config' = config
      /\ request' = request
    BY DEF flash
<1>2. FileTypes' /\ Orderly'  BY <1>1, LogUntouched DEF Inv, TypeOK
<1>3. names # NoFile  BY DEF Inv, NamesWait, Idle
<1>4. NamesWait'  BY <1>1, <1>3 DEF NamesWait
<1>5. UserTypes'  BY <1>1 DEF Inv, TypeOK, UserTypes
<1>6. WorkTypes'  BY <1>1 DEF Inv, TypeOK, WorkTypes, NoId
<1>7. UserFits'
  <2>1. request.do = "add" => Cardinality(config.users) + 1 < MaxActive
      BY DEF Inv, UserFits, Idle
  <2> QED  BY <1>1, <2>1 DEF Inv, UserFits
<1>8. removed' \subseteq DOMAIN files' /\ RemovalWaits'
    BY <1>1, RemovalUntouched DEF Inv, TypeOK
<1> QED  BY <1>2, <1>4, <1>5, <1>6, <1>7, <1>8 DEF Inv, TypeOK

(* startCharge, endCharge, or neither.                                     *)
LEMMA ChargeWaits ==
  ASSUME Inv, Idle, files' = files,
         \/ \E id \in 0..MaxId, who \in Persons \union {Anonymous} : Start(id, who)
         \/ \E id \in 0..MaxId, force \in BOOLEAN : Stop(id, force)
         \/ UNCHANGED <<slot, todo>>
  PROVE  Waits' /\ todo' \in Seq(Writes) /\ slot' \in 0..NoId
<1>1. FileTypes /\ WorkTypes /\ Waits  BY DEF Inv, TypeOK
<1>2. CASE \E id \in 0..MaxId, who \in Persons \union {Anonymous} : Start(id, who)
    BY <1>1, <1>2, StartingWaits
<1>3. CASE \E id \in 0..MaxId, force \in BOOLEAN : Stop(id, force)
  <2>1. slot' = NoId /\ todo' = IF Open THEN Work("end") ELSE <<>>  BY <1>3 DEF Stop
  <2>2. slot' \in 0..NoId  BY <2>1, LogAssumption DEF NoId
  <2>3. CASE Open  BY <2>1, <2>2, <2>3, EndingWaits
  <2>4. CASE ~Open
    <3>1. ~Open'  BY <2>4 DEF Open, LastFile
    <3>2. todo' \in Seq(Writes) /\ Len(todo') = 0
      <4>1. <<>> \in Seq(Writes) /\ Len(<<>>) = 0  BY EmptySeq
      <4> QED  BY <2>1, <2>4, <4>1
    <3>3. \A i \in 1..Len(todo') : FALSE  BY <3>2
    <3> QED  BY <2>2, <3>1, <3>2, <3>3, QuietWaits
  <2> QED  BY <2>3, <2>4
<1>4. CASE UNCHANGED <<slot, todo>>
  <2>1. Waits'  BY <1>1, <1>4, UntouchedWaits
  <2> QED  BY <1>1, <1>4, <2>1 DEF WorkTypes
<1> QED  BY <1>2, <1>3, <1>4

LEMMA TriggerKeepsInv ==
  ASSUME Inv, NEW u \in config.users, Trigger(u)
  PROVE  Inv'
<1>1. /\ Idle /\ UNCHANGED <<flash, config, request, charger, last, outside>>
      /\ Start(u.id, u.who) \/ Stop(u.id, FALSE)
    BY DEF Trigger
<1>2. u.id \in 0..MaxId /\ u.who \in Persons \union {Anonymous}
  <2>1. u \in Accounts  BY DEF Inv, TypeOK, UserTypes, Configs
  <2> QED  BY <2>1, SomeTypes DEF Accounts
<1>3. files' = files  BY <1>1 DEF flash
<1>4. Waits' /\ todo' \in Seq(Writes) /\ slot' \in 0..NoId
    BY <1>1, <1>2, <1>3, ChargeWaits
<1>5. SurroundingTypes'  BY <1>1 DEF Inv, TypeOK, SurroundingTypes, outside
<1> QED  BY <1>1, <1>4, <1>5, IdleStepKeepsInv

LEMMA WatchKeepsInv ==
  ASSUME Inv, WatchCharger
  PROVE  Inv'
<1>1. /\ Idle /\ UNCHANGED <<flash, config, request, charger, outside>> /\ last' = charger
      /\ Stop(0, TRUE) \/ Start(0, Anonymous) \/ UNCHANGED <<slot, todo>>
    BY DEF WatchCharger
<1>2. 0 \in 0..MaxId /\ Anonymous \in Persons \union {Anonymous}  BY SomeTypes
<1>3. files' = files  BY <1>1 DEF flash
<1>4. Waits' /\ todo' \in Seq(Writes) /\ slot' \in 0..NoId
    BY <1>1, <1>2, <1>3, ChargeWaits
<1>5. SurroundingTypes'  BY <1>1 DEF Inv, TypeOK, SurroundingTypes, outside
<1> QED  BY <1>1, <1>4, <1>5, IdleStepKeepsInv

LEMMA SwitchKeepsInv ==
  ASSUME Inv, SwitchUserSlot
  PROVE  Inv'
<1>1. /\ Idle /\ UNCHANGED <<flash, config, request, charger, last, plugged, cuts>>
      /\ userSlot' = ~userSlot
      /\ Stop(0, TRUE) \/ UNCHANGED <<slot, todo>>
    BY DEF SwitchUserSlot
<1>2. 0 \in 0..MaxId /\ files' = files  BY <1>1, SomeTypes DEF flash
<1>3. Waits' /\ todo' \in Seq(Writes) /\ slot' \in 0..NoId
    BY <1>1, <1>2, ChargeWaits
<1>4. SurroundingTypes'  BY <1>1 DEF Inv, TypeOK, SurroundingTypes, SwitchUserSlot
<1> QED  BY <1>1, <1>3, <1>4, IdleStepKeepsInv

LEMMA StatusKeepsInv ==
  ASSUME Inv, NEW s \in Statuses \union {"unplugged"}, Status(s)
  PROVE  Inv'
<1>1. /\ Idle /\ UNCHANGED <<flash, config, todo, request, slot, last, outside>>
      /\ charger' = s
    BY DEF Status
<1>2. files' = files  BY <1>1 DEF flash
<1>3. Waits' /\ todo' \in Seq(Writes) /\ slot' \in 0..NoId
    BY <1>1, <1>2, ChargeWaits
<1>4. SurroundingTypes'  BY <1>1 DEF Inv, TypeOK, SurroundingTypes, outside
<1> QED  BY <1>1, <1>3, <1>4, IdleStepKeepsInv

(* remove_all_charges begins.                                              *)
LEMMA RemoveAllKeepsInv ==
  ASSUME Inv, RemoveAllCharges
  PROVE  Inv'
<1>1. /\ Idle /\ UNCHANGED <<flash, config, request, control, outside>>
      /\ todo' = Work("wipe") \o Work("removeNames") \o Work("restart")
    BY DEF RemoveAllCharges
<1>2. files' = files /\ slot' = slot  BY <1>1 DEF flash, control
<1>3. Waits' /\ todo' \in Seq(Writes)  BY <1>1, <1>2, WipingWaits DEF Inv, Waits
<1>4. slot' \in 0..NoId  BY <1>2 DEF Inv, TypeOK, WorkTypes
<1>5. SurroundingTypes'  BY <1>1 DEF Inv, TypeOK, SurroundingTypes, control, outside
<1> QED  BY <1>1, <1>3, <1>4, <1>5, IdleStepKeepsInv

(* Steps that leave all but the surroundings alone.                        *)
LEMMA OutsideKeepsInv ==
  ASSUME Inv, UNCHANGED <<flash, config, todo, request, control>>, SurroundingTypes'
  PROVE  Inv'
<1>1. /\ files' = files /\ removed' = removed /\ names' = names /\ stored' = stored /\ config' = config
      /\ todo' = todo /\ request' = request /\ slot' = slot
    BY DEF flash, control
<1>2. FileTypes' /\ Orderly'  BY <1>1, LogUntouched DEF Inv, TypeOK
<1>3. Waits'  BY <1>1, UntouchedWaits DEF Inv
<1>4. UserTypes' /\ NamesWait'  BY <1>1 DEF Inv, TypeOK, UserTypes, NamesWait
<1>5. WorkTypes'  BY <1>1 DEF Inv, TypeOK, WorkTypes, NoId
<1>6. UserFits'
  <2>1. LastWork' = LastWork  BY <1>1 DEF LastWork
  <2> QED  BY <1>1, <2>1 DEF Inv, UserFits
<1>7. removed' \subseteq DOMAIN files' /\ RemovalWaits'
    BY <1>1, RemovalUntouched DEF Inv, TypeOK
<1> QED  BY <1>2, <1>3, <1>4, <1>5, <1>6, <1>7 DEF Inv, TypeOK

---------------------------------------------------------------------------
(* The charge log as a whole.                                              *)

LEMMA InitInv == Init => Inv
<1> SUFFICES ASSUME Init  PROVE Inv
    OBVIOUS
<1>1. /\ files = <<<<>>>> /\ removed = {} /\ names = [id \in Ids |-> Anonymous] /\ stored = NoFile
      /\ config = [users |-> {}, next |-> 1]
      /\ slot = NoId /\ todo = <<>> /\ request = NoRequest
      /\ charger = "unplugged" /\ last = "unset"
      /\ userSlot = FALSE /\ plugged = FALSE /\ cuts = 0
    BY DEF Init
<1>2. /\ files \in Seq(Seq(Records)) /\ Len(files) = 1 /\ DOMAIN files = {1}
      /\ files[1] = <<>> /\ Len(<<>>) = 0 /\ DOMAIN <<>> = {}
  <2>1. <<>> \in Seq(Records)  BY EmptySeq
  <2> QED  BY <1>1, <2>1
<1>3. FileTypes
  <2>1. 1 \in 1..MaxFiles /\ 0 <= RecordsPerFile  BY LogAssumption
  <2> QED  BY <1>2, <2>1 DEF FileTypes
<1>4. Orderly
  <2>1. \A f \in DOMAIN files : f = 1 /\ ~(f < Len(files)) /\ DOMAIN files[f] = {}
      BY <1>2
  <2> QED  BY <2>1 DEF Orderly
<1>5. ~Open  BY <1>2 DEF Open, LastFile
<1>6. todo \in Seq(Writes) /\ Len(todo) = 0 /\ DOMAIN todo = {}
  <2>1. <<>> \in Seq(Writes) /\ Len(<<>>) = 0  BY EmptySeq
  <2> QED  BY <1>1, <2>1
<1>7. Waits
    BY <1>5, <1>6 DEF Waits, StartWaits, RollOverWaits, EndWaits, WipeWaits, OwnerWaits, Pending
<1>8. names \in [Ids -> Persons \union {Anonymous}]  BY <1>1
<1>9. NamesWait  BY <1>8, SomeTypes DEF NamesWait
<1>10. UserTypes
  <2>1. Cardinality({}) = 0 /\ 0 < MaxActive /\ 1 \in 0..MaxId
      BY FS_EmptySet, LogAssumption
  <2>2. config \in Configs /\ config.users = {}  BY <1>1, <2>1 DEF Configs
  <2> QED  BY <1>1, <1>8, <2>1, <2>2 DEF UserTypes
<1>11. WorkTypes
  <2>1. NoId \in 0..NoId  BY LogAssumption DEF NoId
  <2> QED  BY <1>1, <1>6, <2>1, SomeTypes DEF WorkTypes
<1>12. SurroundingTypes
  <2>1. 0 \in 0..MaxCuts  BY LogAssumption
  <2> QED  BY <1>1, <2>1 DEF SurroundingTypes
<1>13. UserFits
  <2>1. request.do # "add"  BY <1>1 DEF NoRequest, Command
  <2> QED  BY <1>1, <2>1 DEF UserFits
<1>14. RemovalWaits /\ removed \subseteq DOMAIN files  BY <1>1 DEF RemovalWaits
<1> QED  BY <1>3, <1>4, <1>7, <1>9, <1>10, <1>11, <1>12, <1>13, <1>14 DEF Inv, TypeOK

LEMMA NextInv == Inv /\ [Next]_vars => Inv'
<1> SUFFICES ASSUME Inv, [Next]_vars  PROVE Inv'
    OBVIOUS
<1>1. SurroundingTypes  BY DEF Inv, TypeOK
<1>2. CASE WriteNext  BY <1>2, WritesKeepInv
<1>3. CASE EspRestart
  <2>1. Restart /\ cuts' = cuts  BY <1>3 DEF EspRestart
  <2>2. cuts' \in 0..MaxCuts  BY <1>1, <2>1 DEF SurroundingTypes
  <2> QED  BY <2>1, <2>2, RestartKeepsInv
<1>4. CASE PowerCut
  <2>1. Restart /\ cuts < MaxCuts /\ cuts' = cuts + 1  BY <1>4 DEF PowerCut
  <2>2. cuts' \in 0..MaxCuts  BY <1>1, <2>1, LogAssumption DEF SurroundingTypes
  <2> QED  BY <2>1, <2>2, RestartKeepsInv
<1>5. CASE \E who \in Persons : AskAdd(who)  BY <1>5, CommandsKeepInv
<1>6. CASE \E u \in config.users : AskRemove(u) \/ AskModify(u) \/ Trigger(u)
    BY <1>6, CommandsKeepInv, TriggerKeepsInv
<1>7. CASE AddUser \/ RemoveUser \/ ModifyUser  BY <1>7, AppliedKeepInv
<1>8. CASE RemoveAllCharges  BY <1>8, RemoveAllKeepsInv
<1>9. CASE WatchCharger  BY <1>9, WatchKeepsInv
<1>10. CASE MovePlug
  <2>1. /\ UNCHANGED <<flash, config, todo, request, control>>
        /\ plugged' = ~plugged /\ userSlot' = userSlot /\ cuts' = cuts
      BY <1>10 DEF MovePlug
  <2>2. SurroundingTypes'  BY <1>1, <2>1 DEF SurroundingTypes, control
  <2> QED  BY <2>1, <2>2, OutsideKeepsInv
<1>11. CASE SwitchUserSlot  BY <1>11, SwitchKeepsInv
<1>12. CASE \E s \in Statuses \union {"unplugged"} : Status(s)  BY <1>12, StatusKeepsInv
<1>13. CASE UNCHANGED vars
  <2>1. UNCHANGED <<flash, config, todo, request, control>> /\ UNCHANGED outside
      BY <1>13 DEF vars
  <2>2. SurroundingTypes'  BY <1>1, <2>1 DEF SurroundingTypes, control, outside
  <2> QED  BY <2>1, <2>2, OutsideKeepsInv
<1>14. CASE RemoveFile  BY <1>14, RemoveFileKeepsInv
<1> QED
  BY <1>2, <1>3, <1>4, <1>5, <1>6, <1>7, <1>8, <1>9, <1>10, <1>11, <1>12, <1>13, <1>14
  DEF Next

LEMMA AlwaysInv == Spec => []Inv
<1>1. Init => Inv  BY InitInv
<1>2. Inv /\ [Next]_vars => Inv'  BY NextInv
<1> QED  BY <1>1, <1>2, PTL DEF Spec

(* The files hold records within their sizes, the users fit the table, and *)
(* the work of the main thread is made of known writes.                    *)
THEOREM LogIsTyped == Spec => []TypeOK
<1>1. Inv => TypeOK  BY DEF Inv
<1> QED  BY <1>1, AlwaysInv, PTL

(* Whatever write the power cuts prevent, and however many there are: the  *)
(* files a boot finds without a gap are all full but the last, and only    *)
(* the last record lacks its end; and they have a gap only while all       *)
(* charges are removed, or after such a removal has been cut off.          *)
THEOREM LogAlwaysBoots == Spec => []LogBoots
<1>1. Inv => LogBoots
  <2> SUFFICES ASSUME Inv  PROVE LogBoots
      OBVIOUS
  <2>1. FileTypes /\ Orderly /\ RemovalWaits  BY DEF Inv, TypeOK
  <2>2. Acceptable(Found)  BY <2>1, FoundIsOrderly
  <2>3. ~Consecutive => Doing("wipe") \/ Refused
      BY <2>1, GapsAreMissing DEF RemovalWaits
  <2> QED  BY <2>2, <2>3 DEF LogBoots
<1> QED  BY <1>1, AlwaysInv, PTL

(* The slot info, lost in every restart and kept over every other command, *)
(* names the user of the charge that is tracked, whenever stop is asked.   *)
THEOREM OwnerCanStop == Spec => []OwnerMayStop
<1>1. Inv => OwnerMayStop
  <2> SUFFICES ASSUME Inv, Open, Idle  PROVE slot = Last(LastFile).id
      BY DEF OwnerMayStop
  <2>1. ~Pending("end")  BY NothingPending
  <2> QED  BY <2>1 DEF Inv, Waits, OwnerWaits, Refused, Doing, Idle
<1> QED  BY <1>1, AlwaysInv, PTL

=============================================================================
