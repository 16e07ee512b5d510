----------------------------- MODULE ChargeLog -----------------------------
(***************************************************************************)
(* The charge log of the box and its users: charge_tracker.cpp (records    *)
(* in flash files of a fixed size, of which the oldest is dropped),        *)
(* users.cpp (the list of users, the file of user names that gives the     *)
(* records their names, the next free user ID, the task that watches the   *)
(* charger) and writeConfig of api.cpp, with power cuts between any two    *)
(* writes to flash.                                                        *)
(*                                                                         *)
(* A person stands for a user name: names are unique, and renaming a user  *)
(* writes the entry of the same person again.  A record keeps, as a ghost, *)
(* the person whose account it was charged to.                             *)
(***************************************************************************)
EXTENDS Naturals, FiniteSets, Sequences, SequencesExt

CONSTANTS
  MaxId,           \* the largest user ID (255)
  Persons,         \* the people who are made users
  Anonymous,       \* the name of ID 0, and of nobody
  NoFile,          \* a file that does not exist
  RecordsPerFile,  \* records of one file (256)
  MaxFiles,        \* CHARGE_RECORD_FILE_COUNT (30)
  MaxActive,       \* MAX_ACTIVE_USERS (10), the anonymous user included
  Statuses,        \* charger_state while a vehicle is plugged in
  MaxCuts,         \* bound: power cuts of a behaviour
  Sturdy,          \* writes before which the power is not cut
  Unhurried        \* is the plug slower than the task that watches it?

ASSUME LogAssumption ==
  /\ MaxId \in Nat \ {0} /\ RecordsPerFile \in Nat \ {0}
  /\ MaxFiles \in Nat \ {0, 1} /\ MaxActive \in Nat \ {0} /\ MaxCuts \in Nat
  /\ IsFiniteSet(Persons) /\ Anonymous \notin Persons /\ Unhurried \in BOOLEAN
  /\ NoFile \notin [1..MaxId -> Persons \union {Anonymous}]
  /\ Statuses \subseteq {"waiting", "ready", "charging", "error"}

VARIABLES
  files,     \* flash: the record files, oldest first
  removed,   \* flash: which of them remove_all_charges has unlinked so far
  names,     \* flash: /users/all_usernames, or NoFile
  stored,    \* flash: users/config, or NoFile
  config,    \* RAM: user_config
  slot,      \* RAM: the user slot info, the ID that started the charge
  todo,      \* what the main thread is in the middle of, write by write
  request,   \* a users/ command: validated, its callback not finished
  charger,   \* RAM: charger_state of the last status of the GD
  last,      \* RAM: last_charger_state of the task
  userSlot,  \* is the user slot active?
  plugged,   \* is there a vehicle?
  cuts       \* the bound on power cuts

flash == <<files, removed, names, stored>>
control == <<slot, charger, last>>
outside == <<userSlot, plugged, cuts>>
vars == <<flash, config, todo, request, control, outside>>

Ids == 1..MaxId
NoId == MaxId + 1            \* zeroed slot info: its checksum does not match
Command(do, id, who) == [do |-> do, id |-> id, who |-> who]
NoRequest == Command("none", 0, Anonymous)
Booting == Command("boot", 0, Anonymous)

-----------------------------------------------------------------------------
(* The stored data *)

LastFile == files[Len(files)]
Open == LastFile # <<>> /\ ~Last(LastFile).ended            \* currentlyCharging
\* Variant: the file is taken for full one record early.
FullTooEarly(file) == Len(file) >= RecordsPerFile - 1
Full(file) == Len(file) = RecordsPerFile
IdsOf(file) == {file[r].id : r \in DOMAIN file}
\* Variant: the last file is left out, as in removeOldRecords.
TrackedButInLast(id) == \E f \in 1..Len(files) - 1 : id \in IdsOf(files[f])
Tracked(id) == \E f \in DOMAIN files : id \in IdsOf(files[f])
IsUser(id) == \E u \in config.users : u.id = id

\* The search goes round: start + 1, ..., MaxId, 1, ..., start - 1; 0 is "none".
NextFree(start) ==
  LET Distance(id) == (id + MaxId + 1 - start) % (MaxId + 1)
      free == {id \in Ids \ {start} : names[id] = Anonymous}
  IN  IF free = {} THEN 0
      ELSE CHOOSE id \in free : \A j \in free : Distance(id) <= Distance(j)

\* removeOldRecords: the IDs only the dropped file knew, without a user.
Orphans == {id \in IdsOf(Head(files)) \ {0} :
              /\ \A f \in 2..Len(files) : id \notin IdsOf(files[f])
              /\ ~IsUser(id)}

-----------------------------------------------------------------------------
(* Work of the main thread, as the sequence of its writes *)

Work(do) == <<Command(do, 0, Anonymous)>>
WorkOn(do, id, who) == <<Command(do, id, who)>>
\* The loop over all IDs, of which some are freed.
FreeAll(ids) ==
  [id \in Ids |-> Command(IF id \in ids THEN "free" ELSE "keep", id, Anonymous)]
NameAll(us) == LET some == SetToSeq(us)
               IN  [i \in DOMAIN some |-> Command("name", some[i].id, some[i].who)]

\* writeConfig: the old file is removed before the new one gets its name.
Save == Work("unlink") \o Work("rename")

\* Variant: one file too many is kept.
RollOverLater ==
  (IF Len(files) > MaxFiles THEN Work("drop") \o FreeAll(Orphans) ELSE <<>>)
    \o Work("create")

\* ++last_charge_record, removeOldRecords, and the new file.
RollOver ==
  (IF Len(files) >= MaxFiles THEN Work("drop") \o FreeAll(Orphans) ELSE <<>>)
    \o Work("create")

StartWork(id, who) ==
  (IF Full(LastFile) THEN RollOver ELSE <<>>) \o WorkOn("start", id, who)

Doing(do) == todo # <<>> /\ Head(todo).do = do
Done == todo' = Tail(todo)
Idle == todo = <<>>

UnlinkConfig ==
  /\ Doing("unlink") /\ Done
  /\ stored' = NoFile
  /\ UNCHANGED <<files, removed, names, config, request, control, outside>>

RenameConfig ==
  /\ Doing("rename") /\ Done
  /\ stored' = config
  /\ UNCHANGED <<files, removed, names, config, request, control, outside>>

WriteName ==
  /\ Doing("name") /\ Done
  /\ names' = [names EXCEPT ![Head(todo).id] = Head(todo).who]
  /\ UNCHANGED <<files, removed, stored, config, request, control, outside>>

\* The entry is cleared, and the ID is the next one if there was none.
FreeId ==
  /\ Doing("free")
  /\ names' = [names EXCEPT ![Head(todo).id] = Anonymous]
  /\ config' = [config EXCEPT !.next = IF @ = 0 THEN Head(todo).id ELSE @]
  /\ todo' = (IF config.next = 0 THEN Save ELSE <<>>) \o Tail(todo)
  /\ UNCHANGED <<files, removed, stored, request, control, outside>>

KeepId ==
  /\ Doing("keep") /\ Done
  /\ UNCHANGED <<flash, config, request, control, outside>>

DropOldest ==
  /\ Doing("drop") /\ Done
  /\ files' = Tail(files)
  /\ UNCHANGED <<removed, names, stored, config, request, control, outside>>

CreateFile ==
  /\ Doing("create") /\ Done
  /\ files' = Append(files, <<>>)
  /\ UNCHANGED <<removed, names, stored, config, request, control, outside>>

WriteStart ==
  /\ Doing("start") /\ Done
  /\ files' = [files EXCEPT ![Len(files)] = Append(@,
                 [id |-> Head(todo).id, who |-> Head(todo).who, ended |-> FALSE])]
  /\ UNCHANGED <<removed, names, stored, config, request, control, outside>>

WriteEnd ==
  /\ Doing("end") /\ Done
  /\ files' = [files EXCEPT ![Len(files)][Len(LastFile)].ended = TRUE]
  /\ UNCHANGED <<removed, names, stored, config, request, control, outside>>

\* remove_all_charges: the files, in the order of the directory; then the
\* directory, the file of names, ESP.restart.
RemoveFile ==
  /\ Doing("wipe")
  /\ \E f \in DOMAIN files \ removed : removed' = removed \union {f}
  /\ UNCHANGED <<files, names, stored, config, todo, request, control, outside>>

Wipe ==
  /\ Doing("wipe") /\ Done
  /\ removed = DOMAIN files
  /\ files' = <<<<>>>> /\ removed' = {}
  /\ UNCHANGED <<names, stored, config, request, control, outside>>

RemoveNames ==
  /\ Doing("removeNames") /\ Done
  /\ names' = NoFile
  /\ UNCHANGED <<files, removed, stored, config, request, control, outside>>

CreateNames ==
  /\ Doing("createNames") /\ Done
  /\ names' = [id \in Ids |-> Anonymous]
  /\ UNCHANGED <<files, removed, stored, config, request, control, outside>>

SearchNext ==
  /\ Doing("search") /\ Done
  /\ config' = [config EXCEPT !.next = NextFree(0)]
  /\ UNCHANGED <<flash, request, control, outside>>

Unblock ==
  /\ Doing("unblock") /\ Done
  /\ request' = NoRequest
  /\ UNCHANGED <<flash, config, control, outside>>

WriteNext ==
  \/ UnlinkConfig \/ RenameConfig \/ WriteName \/ FreeId \/ KeepId
  \/ DropOldest \/ CreateFile \/ WriteStart \/ WriteEnd
  \/ Wipe \/ RemoveNames \/ CreateNames \/ SearchNext \/ Unblock

-----------------------------------------------------------------------------
(* A restart, from ESP.restart or after a power cut: setupRecords and      *)
(* Users::setup.  The status of the GD is not yet known, so a charge that  *)
(* was tracked ends.                                                       *)

Left == DOMAIN files \ removed
Consecutive == \A f, g \in Left : f..g \subseteq Left

\* The log of the files that are left; the first charge makes a new file.
Found == IF Left = {} THEN <<<<>>>> ELSE SubSeq(files, Min(Left), Max(Left))

User(id, who) == [id |-> id, who |-> who]
Restored == IF stored = NoFile THEN [users |-> {}, next |-> 0] ELSE stored

SetupWork(open) ==
  (IF names = NoFile THEN Work("createNames") \o NameAll(Restored.users) ELSE <<>>)
    \o (IF Restored.next = 0 THEN Work("search") ELSE <<>>)
    \o (IF open THEN Work("end") ELSE <<>>)
    \o Work("unblock")

\* "Non-consecutive charge records found!": what the box does then, without its
\* log, is not followed.
FindLog ==
  IF Consecutive
  THEN files' = Found /\ removed' = {} /\ todo' = SetupWork(Open')
  ELSE UNCHANGED <<files, removed>> /\ todo' = Work("refused")

Restart ==
  /\ FindLog
  /\ config' = Restored
  /\ request' = Booting
  /\ slot' = NoId /\ charger' = "unplugged" /\ last' = "unset"
  /\ userSlot' = (userSlot /\ Restored.users # {})
  /\ UNCHANGED <<names, stored, plugged>>

EspRestart ==
  /\ Doing("restart") \/ Doing("refused")
  /\ Restart /\ UNCHANGED cuts

PowerCut ==
  /\ cuts < MaxCuts /\ cuts' = cuts + 1
  /\ \A do \in Sturdy : ~Doing(do)
  /\ Restart

-----------------------------------------------------------------------------
(* The commands users/add, users/remove and users/modify: checked on the   *)
(* HTTP thread, applied by the main thread, one at a time.                 *)

NamedElsewhere(who, id) ==
  names # NoFile /\ \E j \in Ids \ {id} : names[j] = who

MayAsk == request = NoRequest /\ UNCHANGED <<flash, config, todo, control, outside>>

AskAdd(who) ==
  /\ MayAsk
  /\ config.next # 0
  /\ Cardinality(config.users) + 1 < MaxActive
  /\ \A u \in config.users : u.who # who
  /\ ~NamedElsewhere(who, 0)
  /\ request' = Command("add", config.next, who)

AskRemove(u) ==
  /\ MayAsk /\ u \in config.users
  /\ request' = Command("remove", u.id, u.who)

AskModify(u) ==
  /\ MayAsk /\ u \in config.users
  /\ ~NamedElsewhere(u.who, u.id)
  /\ request' = Command("modify", u.id, u.who)

AddUser ==
  /\ Idle /\ request.do = "add"
  /\ config' = [users |-> config.users \union {User(request.id, request.who)},
                next |-> NextFree(config.next)]
  /\ todo' = Save \o WorkOn("name", request.id, request.who) \o Work("unblock")
  /\ UNCHANGED <<flash, request, control, outside>>

RemoveUser ==
  /\ Idle /\ request.do = "remove"
  /\ config' = [config EXCEPT !.users = @ \ {User(request.id, request.who)}]
  /\ todo' = Save
               \o (IF Tracked(request.id) THEN <<>>
                   ELSE WorkOn("free", request.id, Anonymous))
               \o Work("unblock")
  /\ UNCHANGED <<flash, request, control, outside>>

ModifyUser ==
  /\ Idle /\ request.do = "modify"
  /\ todo' = Save \o WorkOn("name", request.id, request.who) \o Work("unblock")
  /\ UNCHANGED <<flash, config, request, control, outside>>

RemoveAllCharges ==
  /\ Idle
  /\ todo' = Work("wipe") \o Work("removeNames") \o Work("restart")
  /\ UNCHANGED <<flash, config, request, control, outside>>

-----------------------------------------------------------------------------
(* Charging *)

Start(id, who) == ~Open /\ slot' = id /\ todo' = StartWork(id, who)

\* Variant: a forced stop is refused like that of another user.
StopOwnOnly(id, force) ==
  IF Open /\ slot \notin {id, NoId} THEN UNCHANGED <<slot, todo>>
  ELSE /\ slot' = NoId
       /\ todo' = IF Open THEN Work("end") ELSE <<>>

\* Variant: the slot info is zeroed before the user is compared.
StopForgets(id, force) ==
  /\ slot' = NoId
  /\ todo' = IF Open /\ (force \/ slot \in {id, NoId}) THEN Work("end") ELSE <<>>

Stop(id, force) ==
  /\ Open /\ ~force => slot \in {id, NoId}
  /\ slot' = NoId
  /\ todo' = IF Open THEN Work("end") ELSE <<>>

\* Users::trigger_charge_action, for a tag or a command of the user u.
Trigger(u) ==
  /\ Idle /\ userSlot /\ u \in config.users
  /\ \/ charger \in {"waiting", "ready"} /\ Start(u.id, u.who)
     \/ charger \in {"waiting", "ready", "charging"} /\ Open /\ Stop(u.id, FALSE)
  /\ UNCHANGED <<flash, config, request, charger, last, outside>>

\* The task of Users::setup, every second.
WatchCharger ==
  /\ Idle /\ charger # last
  /\ last' = charger
  /\ \/ /\ last # "unset" /\ charger = "unplugged"
        /\ Stop(0, TRUE)
     \/ /\ last # "unset" /\ charger \in {"ready", "charging"}
        /\ ~userSlot /\ Start(0, Anonymous)
     \/ /\ \/ last = "unset"
           \/ charger \in {"waiting", "error"}
           \/ charger \in {"ready", "charging"} /\ (userSlot \/ Open)
        /\ UNCHANGED <<slot, todo>>
  /\ UNCHANGED <<flash, config, request, charger, outside>>

-----------------------------------------------------------------------------
(* Surroundings *)

\* A status frame of the GD.
Status(s) ==
  /\ Idle /\ s # charger
  /\ s \in IF plugged THEN Statuses ELSE {"unplugged"}
  /\ charger' = s
  /\ UNCHANGED <<flash, config, todo, request, slot, last, outside>>

Seen == charger = last /\ Idle /\ (charger = "unplugged" <=> ~plugged)

MovePlug ==
  /\ Unhurried => Seen
  /\ plugged' = ~plugged
  /\ UNCHANGED <<flash, config, todo, request, control, userSlot, cuts>>

\* evse/user_enabled_update: to enable it ends a running charge.
SwitchUserSlot ==
  /\ Idle
  /\ userSlot' = ~userSlot
  /\ IF userSlot THEN UNCHANGED <<slot, todo>> ELSE Stop(0, TRUE)
  /\ UNCHANGED <<flash, config, request, charger, last, plugged, cuts>>

-----------------------------------------------------------------------------
Init ==
  /\ files = <<<<>>>> /\ removed = {} /\ names = [id \in Ids |-> Anonymous] /\ stored = NoFile
  /\ config = [users |-> {}, next |-> 1]
  /\ slot = NoId /\ todo = <<>> /\ request = NoRequest
  /\ charger = "unplugged" /\ last = "unset"
  /\ userSlot = FALSE /\ plugged = FALSE /\ cuts = 0

Next ==
  \/ WriteNext \/ RemoveFile \/ EspRestart \/ PowerCut
  \/ \E who \in Persons : AskAdd(who)
  \/ \E u \in config.users : AskRemove(u) \/ AskModify(u) \/ Trigger(u)
  \/ AddUser \/ RemoveUser \/ ModifyUser \/ RemoveAllCharges
  \/ WatchCharger \/ MovePlug \/ SwitchUserSlot
  \/ \E s \in Statuses \union {"unplugged"} : Status(s)

\* The main thread goes on; however many commands come in between, it comes
\* back to its tasks and to the status frames of the GD.
Fairness ==
  /\ WF_vars(WriteNext) /\ WF_vars(RemoveFile) /\ WF_vars(EspRestart)
  /\ SF_vars(WatchCharger) /\ SF_vars(Status("unplugged"))

Spec == Init /\ [][Next]_vars /\ Fairness

-----------------------------------------------------------------------------
(* Properties *)

WriteKinds ==
  {"unlink", "rename", "name", "free", "keep", "drop", "create", "start", "end",
   "wipe", "removeNames", "createNames", "search", "unblock", "restart",
   "refused"}
Writes == [do : WriteKinds, id : 0..MaxId, who : Persons \union {Anonymous}]
Commands == [do : {"none", "boot", "add", "remove", "modify"},
             id : 0..MaxId, who : Persons \union {Anonymous}]
Accounts == [id : Ids, who : Persons]
Configs == [users : SUBSET Accounts, next : 0..MaxId]
Records == [id : 0..MaxId, who : Persons \union {Anonymous}, ended : BOOLEAN]

FileTypes ==
  /\ files \in Seq(Seq(Records)) /\ Len(files) \in 1..MaxFiles
  /\ \A f \in DOMAIN files : Len(files[f]) <= RecordsPerFile

UserTypes ==
  /\ names \in [Ids -> Persons \union {Anonymous}] \union {NoFile}
  /\ stored \in Configs \union {NoFile} /\ config \in Configs
  /\ Cardinality(config.users) < MaxActive

WorkTypes == todo \in Seq(Writes) /\ request \in Commands /\ slot \in 0..NoId

SurroundingTypes ==
  /\ charger \in Statuses \union {"unplugged"}
  /\ last \in Statuses \union {"unplugged", "unset"}
  /\ userSlot \in BOOLEAN /\ plugged \in BOOLEAN /\ cuts \in 0..MaxCuts

TypeOK ==
  /\ FileTypes /\ removed \subseteq DOMAIN files
  /\ UserTypes /\ WorkTypes /\ SurroundingTypes

\* What setupRecords asks of the files, and what the layout asks of the records:
\* every file but the last is full, and only the last record has no end.
Acceptable(log) ==
  \A f \in DOMAIN log :
    /\ f < Len(log) => Len(log[f]) = RecordsPerFile
    /\ \A r \in DOMAIN log[f] :
         log[f][r].ended \/ (f = Len(log) /\ r = Len(log[f]))

\* Whatever write a power cut prevents, the next boot accepts the log, unless
\* the cut interrupts the removal of all charges: only that leaves gaps.
Refused == Doing("refused")
LogBoots ==
  IF Consecutive THEN Acceptable(Found) ELSE Doing("wipe") \/ Refused

\* A stored charge is shown under the name of the person it was charged to:
\* no user ID is given to another person while the log holds one of its charges.
ChargesKeepTheirName ==
  \A f \in DOMAIN files : \A r \in DOMAIN files[f] :
    files[f][r].id # 0 => names[files[f][r].id] = files[f][r].who

\* While a charge is tracked, the slot info names the user who may stop it.
OwnerMayStop == Open /\ Idle => slot = Last(LastFile).id

\* A charge does not stay open for ever when its vehicle has left, unless the
\* box has refused its log.
GoneVehicleIsLogged == []<>(plugged \/ ~Open \/ Refused)

=============================================================================
