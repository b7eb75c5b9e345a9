------------------------------ MODULE Rooms_proofs -------------------------------
(***************************************************************************)
(* Theorems about rooms.                                                    *)
(*                                                                         *)
(* BridgedRooms, the rooms the bridge makes, for any rooms, identities,     *)
(* inbox lanes and bounds: the history has the row's room as its one        *)
(* current one, tombstones lead on to a room the bridge knows, and a slot   *)
(* is backfilled once.                                                      *)
(*                                                                         *)
(* HostedActors, the actors a bridge hosts in rooms, for any users, handles *)
(* and rooms and any commands, state events and restarts: a handle and a    *)
(* room are one actor's, what exists keeps its owner and room, and an actor *)
(* says what its room says.                                                 *)
(***************************************************************************)
EXTENDS BridgedRooms, HostedActors, FiniteSetTheorems, TLAPS

-----------------------------------------------------------------------------
(* The rooms the bridge makes. *)


Makes(t) == t.op \in {"ensure", "replace"} /\ t.pc = "register"

\* What a lane that is at t relies on.  Replacements and joins come from Matrix
\* alone, and an operation that looked a row up goes by that row.
Sound(l, t) ==
  /\ t.op = "none" => t.pc = "lookup"
  /\ t.op = "ensure" => t.pc \in {"profile", "lookup", "create", "register"}
  /\ t.op = "replace" =>
       /\ t.pc \in {"profile", "lookup", "create", "register", "tombstone"}
       /\ l = Matrix /\ kind \in Replaceable /\ t.room \in known
  /\ t.op = "join" =>
       /\ t.pc \in {"lookup", "mark", "backfill"}
       /\ l = Matrix /\ kind \in Backfilled /\ t.room \in known
  /\ t.op = "invite" =>
       /\ t.pc \in {"lookup", "register"}
       /\ kind = "chat" /\ t.room \in RoomIds /\ madeAs[t.room] # "unused"
  /\ t.op = "update" => t.pc \in {"lookup", "lock", "register", "wipe"}
  /\ t.op = "refresh" => t.pc \in {"lookup", "profile", "register"} /\ kind = "remote"
  /\ t.op \in {"update", "refresh"} /\ t.pc \in {"lock", "profile", "register"} =>
       t.seen \in Row /\ t.seen.room \in known
  /\ t.op = "ensure" /\ kind # "channel" => t.seen = Nothing
  /\ t.op = "replace" /\ t.pc \in {"profile", "create", "register"} =>
       t.seen \in Row /\ t.seen.room = t.room
  /\ Makes(t) =>
       t.new \in RoomIds /\ madeAs[t.new] # "unused" /\ (kind \notin Pairs => t.new \notin known)
  /\ t.pc = "tombstone" =>
       /\ kind \notin Pairs
       /\ t.new \in known /\ t.new # t.room /\ moved[t.new] = Nothing
       /\ ~ overtaken => Current # t.room
  /\ t.pc = "mark" /\ ~ overtaken => Current = t.room /\ row.pending
  /\ t.pc = "backfill" /\ ~ overtaken => backfills = 0 /\ row # Nothing /\ ~ row.pending

\* Two lanes never make the same room.
Apart == \A l, m \in Lanes : Makes(task[l]) /\ Makes(task[m]) /\ l # m => task[l].new # task[m].new

TablesSound ==
  /\ known = {} <=> row = Nothing
  /\ row # Nothing => row.room \in known
  /\ \A r \in known : madeAs[r] # "unused"
  /\ \A r \in RoomIds : moved[r] # Nothing => kind \notin Pairs /\ {r, moved[r]} \subseteq known
  /\ ~ overtaken /\ (row = Nothing \/ row.pending) => backfills = 0

\* The inductive invariant.
IInv == /\ RoomsInv /\ TombstonesLead /\ BackfilledOnce
        /\ TablesSound /\ Apart
        /\ \A l \in Lanes : Sound(l, task[l])


-------------------------------------------------------------------------------
LEMMA RowFacts ==
  /\ Nothing \notin Row
  /\ Nothing \notin RoomIds
  BY RoomsAssumption

LEMMA InitInv == RoomsInit => IInv
<1> SUFFICES ASSUME RoomsInit PROVE IInv OBVIOUS
<1> USE DEF RoomsInit
<1>1. Free \in Task BY DEF Free, Task, Stages
<1>2. RoomsInv BY <1>1, RowFacts DEF RoomsInv, CurrentIsOpen, Current, RoomOf
<1>3. TombstonesLead BY RowFacts DEF TombstonesLead, Ends
<1>4. TablesSound /\ Apart /\ BackfilledOnce
  BY DEF TablesSound, Apart, BackfilledOnce, Makes, Free
<1>5. \A l \in Lanes : Sound(l, task[l]) BY DEF Sound, Makes, Free
<1> QED BY <1>2, <1>3, <1>4, <1>5 DEF IInv

Profiles == {"none", "named", "nameless"}

\* A step of one lane that leaves the tables, the rooms and the tombstones alone.
LEMMA LaneStep ==
  ASSUME IInv, NEW l \in Lanes, NEW t \in Task, Sound(l, t),
         Makes(t) => Makes(task[l]) /\ t.new = task[l].new,
         task' = [task EXCEPT ![l] = t], profile' \in Profiles,
         UNCHANGED <<kind, tables, madeAs, moved, backfills>>
  PROVE  IInv'
<1> USE DEF IInv, tables
<1>1. task \in [Lanes -> Task] /\ task' \in [Lanes -> Task] BY DEF RoomsInv
<1>2. \A m \in Lanes : task'[m] = IF m = l THEN t ELSE task[m] BY <1>1
<1>3. RoomsInv' BY <1>1 DEF RoomsInv, CurrentIsOpen, Current, RoomOf, Profiles
<1>4. TombstonesLead' BY DEF TombstonesLead, Ends
<1>5. BackfilledOnce' /\ TablesSound' BY DEF BackfilledOnce, TablesSound
<1>6. Apart' BY <1>2 DEF Apart, Makes
<1>7. \A m \in Lanes : Sound(m, task[m])'
  <2> SUFFICES ASSUME NEW m \in Lanes PROVE Sound(m, task[m])' OBVIOUS
  <2>1. Sound(m, task'[m]) BY <1>2
  <2> QED BY <2>1 DEF Sound, Makes, Current, RoomOf
<1> QED BY <1>3, <1>4, <1>5, <1>6, <1>7


LEMMA LaneFacts ==
  ASSUME IInv, NEW l \in Lanes
  PROVE  task[l] \in Task /\ Sound(l, task[l]) /\ profile \in Profiles /\ task \in [Lanes -> Task]
         /\ row \in Row \cup {Nothing}
BY DEF IInv, RoomsInv, Profiles

LEMMA FreeSound == \A l \in Lanes : Free \in Task /\ Sound(l, Free) /\ ~ Makes(Free)
  BY DEF Free, Task, Stages, Sound, Makes

LEMMA FinishInv ==
  ASSUME IInv, NEW l \in Lanes, Finish(l), profile' \in Profiles,
         UNCHANGED <<kind, tables, madeAs, moved, backfills>>
  PROVE  IInv'
  BY LaneStep, FreeSound DEF Finish

LEMMA StartsInv ==
  ASSUME IInv, NEW l \in Lanes,
         EnsureComes(l) \/ UpdateComes(l) \/ ReplaceComes \/ JoinComes \/ RefreshComes
  PROVE  IInv'
<1> USE DEF IInv
<1> DEFINE Starting(op, pc, r, follow, as) ==
      [op |-> op, pc |-> pc, seen |-> Nothing, room |-> r, new |-> Nothing,
       follow |-> follow, as |-> as]
<1>1. Matrix \in Lanes /\ known \subseteq RoomIds BY DEF Lanes, RoomsInv
<1>2. ASSUME NEW m \in Lanes, NEW op, NEW pc, NEW r, NEW follow, NEW as,
             Start(m, op, pc, r, follow, as), madeAs' = madeAs,
             Starting(op, pc, r, follow, as) \in Task,
             Sound(m, Starting(op, pc, r, follow, as)),
             pc \in {"profile", "lookup", "wipe"}
      PROVE  IInv'
  <2> DEFINE t == Starting(op, pc, r, follow, as)
  <2>1. ~ Makes(t) BY <1>2 DEF Makes
  <2>2. task' = [task EXCEPT ![m] = t] /\ UNCHANGED <<kind, tables, moved, backfills, profile>>
    BY <1>2 DEF Start
  <2>3. profile' \in Profiles BY <2>2, LaneFacts
  <2> HIDE DEF t
  <2> QED BY <1>2, <2>1, <2>2, <2>3, LaneStep DEF t
<1>3. CASE EnsureComes(l)
  <2>1. PICK follow \in BOOLEAN, as \in LocalNames \cup {Nothing},
             pc \in {"profile", "lookup"} :
             Start(l, "ensure", pc, Nothing, follow, as)
    BY <1>3 DEF EnsureComes
  <2>2. Starting("ensure", pc, Nothing, follow, as) \in Task BY DEF Task, Stages
  <2>3. Sound(l, Starting("ensure", pc, Nothing, follow, as)) BY DEF Sound, Makes
  <2> QED BY <1>2, <1>3, <2>1, <2>2, <2>3 DEF EnsureComes
<1>4. CASE UpdateComes(l)
  <2>1. PICK pc \in {"wipe", "lookup"} : Start(l, "update", pc, Nothing, FALSE, Nothing)
    BY <1>4 DEF UpdateComes
  <2>2. Starting("update", pc, Nothing, FALSE, Nothing) \in Task BY DEF Task, Stages
  <2>3. Sound(l, Starting("update", pc, Nothing, FALSE, Nothing)) BY DEF Sound, Makes
  <2> QED BY <1>2, <1>4, <2>1, <2>2, <2>3 DEF UpdateComes
<1>5. CASE ReplaceComes
  <2>1. PICK r \in known : Start(Matrix, "replace", "lookup", r, FALSE, Nothing)
    BY <1>5 DEF ReplaceComes
  <2>2. Starting("replace", "lookup", r, FALSE, Nothing) \in Task BY <1>1 DEF Task, Stages
  <2>3. Sound(Matrix, Starting("replace", "lookup", r, FALSE, Nothing))
    BY <1>5 DEF Sound, Makes, ReplaceComes
  <2> QED BY <1>1, <1>2, <1>5, <2>1, <2>2, <2>3 DEF ReplaceComes
<1>6. CASE JoinComes
  <2>1. PICK r \in known : Start(Matrix, "join", "lookup", r, FALSE, Nothing)
    BY <1>6 DEF JoinComes
  <2>2. Starting("join", "lookup", r, FALSE, Nothing) \in Task BY <1>1 DEF Task, Stages
  <2>3. Sound(Matrix, Starting("join", "lookup", r, FALSE, Nothing))
    BY <1>6 DEF Sound, Makes, JoinComes
  <2> QED BY <1>1, <1>2, <1>6, <2>1, <2>2, <2>3 DEF JoinComes
<1>7. CASE RefreshComes
  <2>2. Starting("refresh", "lookup", Nothing, FALSE, Nothing) \in Task BY DEF Task, Stages
  <2>3. Sound(Matrix, Starting("refresh", "lookup", Nothing, FALSE, Nothing))
    BY <1>7 DEF Sound, Makes, RefreshComes
  <2> QED BY <1>1, <1>2, <1>7, <2>2, <2>3 DEF RefreshComes
<1> QED BY <1>3, <1>4, <1>5, <1>6, <1>7

\* The steps between two awaits that write nothing.
LEMMA ThinkingInv ==
  ASSUME IInv, NEW l \in Lanes,
         \/ RecordProfile(l) \/ EnsureLookup(l) \/ ReplaceLookup(l) \/ CannotCreate(l)
         \/ ReplaceRaises(l) \/ JoinLookup(l) \/ InviteLookup(l) \/ SyncLookup(l)
         \/ ResyncLock(l) \/ WipeProfile(l)
  PROVE  IInv'
<1> DEFINE t == task[l]
<1>0. /\ t \in Task /\ Sound(l, t) /\ profile \in Profiles /\ task \in [Lanes -> Task]
      /\ row \in Row \cup {Nothing}
  BY LaneFacts
<1>1. ASSUME NEW pc \in Stages, LaneGoes(l, pc), profile' \in Profiles,
             UNCHANGED <<kind, tables, madeAs, moved, backfills>>,
             Sound(l, [t EXCEPT !.pc = pc]),
             t.pc = "register" \/ pc # "register" \/ t.op \notin {"ensure", "replace"}
      PROVE  IInv'
  <2> DEFINE u == [t EXCEPT !.pc = pc]
  <2>1. u \in Task BY <1>0, <1>1 DEF Task
  <2>2. task' = [task EXCEPT ![l] = u] BY <1>0, <1>1 DEF LaneGoes, Task
  <2>3. Makes(u) => Makes(t) /\ u.new = t.new BY <1>0, <1>1 DEF Makes, Task
  <2> HIDE DEF u
  <2> QED BY <1>1, <2>1, <2>2, <2>3, LaneStep DEF u
<1>2. ASSUME NEW pc \in Stages, See(l, pc), UNCHANGED <<kind, tables, madeAs, moved, backfills, profile>>,
             Sound(l, [t EXCEPT !.pc = pc, !.seen = row]),
             t.pc = "register" \/ pc # "register" \/ t.op \notin {"ensure", "replace"}
      PROVE  IInv'
  <2> DEFINE u == [t EXCEPT !.pc = pc, !.seen = row]
  <2>1. u \in Task BY <1>0, <1>2 DEF Task
  <2>2. task' = [task EXCEPT ![l] = u] BY <1>0, <1>2 DEF See, Task
  <2>3. Makes(u) => Makes(t) /\ u.new = t.new BY <1>0, <1>2 DEF Makes, Task
  <2> HIDE DEF u
  <2> QED BY <1>0, <1>2, <2>1, <2>2, <2>3, LaneStep DEF u
<1>3. CASE RecordProfile(l)
  <2> DEFINE pc == CASE t.op = "refresh" -> "register"
                     [] t.op = "ensure" /\ kind \in Pairs -> "lookup"
                     [] OTHER -> "create"
  <2>1. \/ t.op = "refresh" /\ pc = "register"
        \/ t.op = "ensure" /\ pc \in {"lookup", "create"}
        \/ t.op = "replace" /\ pc = "create"
    BY <1>0, <1>3 DEF RecordProfile, LaneAt, Doing, Sound, Task
  <2>2. LaneGoes(l, pc) /\ t.pc = "profile" /\ profile' \in Profiles
    BY <1>3 DEF RecordProfile, LaneAt, Doing, Profiles
  <2> HIDE DEF pc
  <2>3. pc \in Stages BY <2>1 DEF Stages
  <2>4. Sound(l, [t EXCEPT !.pc = pc]) BY <1>0, <2>1, <2>2 DEF Sound, Makes, Task
  <2> QED BY <1>1, <1>3, <2>1, <2>2, <2>3, <2>4 DEF RecordProfile
<1>4. CASE EnsureLookup(l)
  <2>1. CASE Reusable BY <1>0, <1>4, <2>1, FinishInv DEF EnsureLookup
  <2>2. CASE ~ Reusable
    <3>1. PICK pc \in {"profile", "create"} : See(l, pc)
      BY <1>4, <2>2 DEF EnsureLookup
    <3>2. pc \in Stages BY DEF Stages
    <3>3. Sound(l, [t EXCEPT !.pc = pc, !.seen = row])
      BY <1>0, <1>4, <2>2 DEF EnsureLookup, Doing, Reusable, Sound, Makes, Task
    <3> QED BY <1>2, <1>4, <3>1, <3>2, <3>3 DEF EnsureLookup
  <2> QED BY <2>1, <2>2
<1>5. CASE ReplaceLookup(l)
  <2>1. CASE task[l].room # Current \/ (kind \in Pairs /\ profile # "named")
    BY <1>0, <1>5, <2>1, FinishInv DEF ReplaceLookup
  <2>2. CASE ~ (task[l].room # Current \/ (kind \in Pairs /\ profile # "named"))
    <3>1. PICK pc \in {"profile", "create"} : See(l, pc)
      BY <1>5, <2>2 DEF ReplaceLookup
    <3>2. pc \in Stages BY DEF Stages
    <3>3. t.op = "replace" /\ t.room \in known BY <1>0, <1>5 DEF ReplaceLookup, Doing, Sound
    <3>4. row \in Row /\ row.room = t.room
      BY <1>0, <2>2, <3>3, RowFacts DEF Current, RoomOf, IInv, RoomsInv
    <3>5. Sound(l, [t EXCEPT !.pc = pc, !.seen = row])
      BY <1>0, <3>3, <3>4 DEF Sound, Makes, Task
    <3> QED BY <1>2, <1>5, <3>1, <3>2, <3>5 DEF ReplaceLookup
  <2> QED BY <2>1, <2>2
<1>6. CASE CannotCreate(l) \/ ReplaceRaises(l)
  BY <1>0, <1>6, FinishInv DEF CannotCreate, ReplaceRaises
<1>7. CASE JoinLookup(l)
  <2>1. CASE ~ (Current = task[l].room /\ row.pending)
    BY <1>0, <1>7, <2>1, FinishInv DEF JoinLookup
  <2>2. CASE Current = task[l].room /\ row.pending
    <3>1. "mark" \in Stages BY DEF Stages
    <3>2. Sound(l, [t EXCEPT !.pc = "mark"])
      BY <1>0, <1>7, <2>2 DEF JoinLookup, Doing, Sound, Makes, Task
    <3> QED BY <1>0, <1>1, <1>7, <2>2, <3>1, <3>2 DEF JoinLookup
  <2> QED BY <2>1, <2>2
<1>8. CASE InviteLookup(l)
  <2>1. CASE task[l].room = Current \/ profile # "named"
    BY <1>0, <1>8, <2>1, FinishInv DEF InviteLookup
  <2>2. CASE ~ (task[l].room = Current \/ profile # "named")
    <3>1. "register" \in Stages BY DEF Stages
    <3>2. t.op = "invite" BY <1>8 DEF InviteLookup, Doing
    <3>3. Sound(l, [t EXCEPT !.pc = "register", !.seen = row])
      BY <1>0, <3>2 DEF Sound, Makes, Task
    <3> QED BY <1>2, <1>8, <2>2, <3>1, <3>2, <3>3 DEF InviteLookup
  <2> QED BY <2>1, <2>2
<1>9. CASE SyncLookup(l)
  <2>1. CASE row = Nothing BY <1>0, <1>9, <2>1, FinishInv DEF SyncLookup
  <2>2. CASE row # Nothing
    <3> DEFINE pc == CASE kind = "lemmy" -> "lock" [] t.op = "refresh" -> "profile"
                       [] OTHER -> "register"
    <3>1. pc \in {"lock", "profile", "register"} /\ (pc = "lock" => kind = "lemmy")
          /\ (pc = "profile" => t.op = "refresh")
      OBVIOUS
    <3>2. See(l, pc) /\ t.op \in {"update", "refresh"}
      BY <1>9, <2>2 DEF SyncLookup, Doing
    <3> HIDE DEF pc
    <3>3. pc \in Stages BY <3>1 DEF Stages
    <3>4. row \in Row /\ row.room \in known BY <2>2, <1>0 DEF IInv, TablesSound
    <3>5. t.op = "refresh" => pc # "lock"
      BY <1>0, <3>1 DEF Sound
    <3>6. Sound(l, [t EXCEPT !.pc = pc, !.seen = row])
      BY <1>0, <3>1, <3>2, <3>4, <3>5 DEF Sound, Makes, Task
    <3> QED BY <1>2, <1>9, <3>2, <3>3, <3>6 DEF SyncLookup
  <2> QED BY <2>1, <2>2
<1>10. CASE ResyncLock(l)
  <2>1. "register" \in Stages BY DEF Stages
  <2>2. t.op = "update" /\ t.pc = "lock" BY <1>0, <1>10 DEF ResyncLock, LaneAt, Doing, Sound, Task
  <2>3. Sound(l, [t EXCEPT !.pc = "register"]) BY <1>0, <2>2 DEF Sound, Makes, Task
  <2> QED BY <1>0, <1>1, <1>10, <2>1, <2>2, <2>3 DEF ResyncLock
<1>11. CASE WipeProfile(l)
  BY <1>0, <1>11, FinishInv DEF WipeProfile, Profiles
<1> QED BY <1>3, <1>4, <1>5, <1>6, <1>7, <1>8, <1>9, <1>10, <1>11

\* A room is made, or comes from outside, and one lane remembers it.
LEMMA MadeStep ==
  ASSUME IInv, NEW l \in Lanes, NEW t \in Task, NEW r \in Fresh,
         NEW how \in {"room", "replacement", "outside", "encrypted"},
         madeAs' = [madeAs EXCEPT ![r] = how], Sound(l, t)',
         Makes(t) => t.new = r,
         task' = [task EXCEPT ![l] = t],
         UNCHANGED <<kind, tables, profile, moved, backfills>>
  PROVE  IInv'
<1> USE DEF IInv, tables
<1>1. task \in [Lanes -> Task] /\ task' \in [Lanes -> Task] BY DEF RoomsInv
<1>2. \A m \in Lanes : task'[m] = IF m = l THEN t ELSE task[m] BY <1>1
<1>3. /\ r \in RoomIds /\ madeAs[r] = "unused"
      /\ madeAs' \in [RoomIds -> {"unused", "room", "replacement", "outside", "encrypted"}]
      /\ \A x \in RoomIds : madeAs[x] # "unused" => madeAs'[x] # "unused"
  BY DEF Fresh, RoomsInv
<1>4. RoomsInv' BY <1>1, <1>3 DEF RoomsInv, CurrentIsOpen, Current, RoomOf
<1>5. TombstonesLead' /\ BackfilledOnce' BY DEF TombstonesLead, Ends, BackfilledOnce
<1>6. TablesSound' BY <1>3 DEF TablesSound, RoomsInv
<1>7. \A m \in Lanes : Makes(task[m]) => task[m].new # r
  BY <1>3 DEF Sound
<1>8. Apart' BY <1>2, <1>7 DEF Apart, Makes
<1>9. \A m \in Lanes : Sound(m, task[m])'
  <2> SUFFICES ASSUME NEW m \in Lanes PROVE Sound(m, task[m])' OBVIOUS
  <2>1. CASE m = l BY <1>2, <2>1
  <2>2. CASE m # l
    <3>1. task'[m] = task[m] /\ Sound(m, task[m]) /\ task[m] \in Task BY <1>1, <1>2, <2>2
    <3> QED BY <1>3, <3>1 DEF Sound, Makes, Current, RoomOf, Task
  <2> QED BY <2>1, <2>2
<1> QED BY <1>4, <1>5, <1>6, <1>8, <1>9

LEMMA MakingInv ==
  ASSUME IInv, NEW l \in Lanes, Create(l) \/ InviteComes
  PROVE  IInv'
<1> DEFINE t == task[l]
<1>0. /\ t \in Task /\ Sound(l, t) /\ profile \in Profiles /\ task \in [Lanes -> Task]
      /\ known \subseteq RoomIds /\ Fresh \cap known = {}
      /\ madeAs \in [RoomIds -> {"unused", "room", "replacement", "outside", "encrypted"}]
  BY LaneFacts DEF Fresh, IInv, RoomsInv, TablesSound
<1>1. CASE Create(l)
  <2>1. PICK r \in Fresh :
          \/ /\ madeAs' = [madeAs EXCEPT ![r] = IF Doing(l, "replace") THEN "replacement" ELSE "room"]
             /\ task' = [task EXCEPT ![l].new = r, ![l].pc = "register"]
          \/ /\ kind \in Pairs
             /\ madeAs' = [madeAs EXCEPT ![r] = "encrypted"]
             /\ Finish(l)
    BY <1>1 DEF Create
  <2>2. /\ t.pc = "create" /\ t.op \in {"ensure", "replace"}
        /\ UNCHANGED <<kind, tables, profile, moved, backfills>>
    BY <1>0, <1>1 DEF Create, LaneAt, Doing, Sound, Task
  <2>3. CASE /\ kind \in Pairs
             /\ madeAs' = [madeAs EXCEPT ![r] = "encrypted"]
             /\ Finish(l)
    <3>1. Sound(l, Free)' BY DEF Sound, Free, Makes
    <3>2. task' = [task EXCEPT ![l] = Free] /\ Free \in Task /\ ~ Makes(Free)
      BY <2>3, FreeSound DEF Finish
    <3> QED BY <2>2, <2>3, <3>1, <3>2, MadeStep
  <2>4. CASE /\ madeAs' = [madeAs EXCEPT ![r] = IF Doing(l, "replace") THEN "replacement" ELSE "room"]
             /\ task' = [task EXCEPT ![l].new = r, ![l].pc = "register"]
    <3> DEFINE how == IF Doing(l, "replace") THEN "replacement" ELSE "room"
    <3>0. PICK u \in Task : u = [t EXCEPT !.new = r, !.pc = "register"]
      BY <1>0 DEF Task, Stages, Fresh
    <3>1. r \in RoomIds BY DEF Fresh
    <3>2. task' = [task EXCEPT ![l] = u] BY <1>0, <2>4, <3>0 DEF Task
    <3>3. u.new = r /\ u.pc = "register" /\ u.op = t.op /\ u.seen = t.seen /\ u.room = t.room
      BY <1>0, <3>0 DEF Task
    <3>4. madeAs'[r] # "unused" /\ r \notin known BY <1>0, <2>4, <3>1
    <3>5. Sound(l, u)' BY <1>0, <2>2, <3>1, <3>3, <3>4 DEF Sound, Makes, tables
    <3>6. how \in {"room", "replacement", "outside", "encrypted"} /\ madeAs' = [madeAs EXCEPT ![r] = how]
      BY <2>4
    <3> QED BY <2>2, <3>1, <3>2, <3>3, <3>5, <3>6, MadeStep
  <2> QED BY <2>1, <2>3, <2>4
<1>2. CASE InviteComes
  <2>1. PICK r \in known \cup Fresh, as \in LocalNames :
          /\ Start(Matrix, "invite", "lookup", r, FALSE, as)
          /\ madeAs' = IF r \in Fresh THEN [madeAs EXCEPT ![r] = "outside"] ELSE madeAs
    BY <1>2 DEF InviteComes
  <2> DEFINE u == [op |-> "invite", pc |-> "lookup", seen |-> Nothing, room |-> r,
                   new |-> Nothing, follow |-> FALSE, as |-> as]
  <2>2. /\ Matrix \in Lanes /\ kind = "chat" /\ task' = [task EXCEPT ![Matrix] = u]
        /\ UNCHANGED <<kind, tables, profile, moved, backfills>>
    BY <1>2, <2>1 DEF Lanes, Start, InviteComes
  <2>3. r \in RoomIds /\ u \in Task /\ ~ Makes(u) BY <1>0 DEF Task, Stages, Fresh, Makes
  <2>4. madeAs'[r] # "unused" BY <1>0, <2>1, <2>3 DEF IInv, TablesSound
  <2>5. Sound(Matrix, u)' BY <2>2, <2>3, <2>4 DEF Sound, Makes
  <2>6. CASE r \in Fresh
    BY <2>1, <2>2, <2>3, <2>5, <2>6, MadeStep
  <2>7. CASE r \notin Fresh
    <3>1. madeAs' = madeAs BY <2>1, <2>7
    <3>2. Sound(Matrix, u) BY <2>2, <2>3, <2>4, <3>1 DEF Sound, Makes
    <3> HIDE DEF u
    <3> QED BY <1>0, <2>2, <2>3, <3>1, <3>2, LaneStep
  <2> QED BY <2>6, <2>7
<1> QED BY <1>1, <1>2

\* What register_* leaves in the row.
LEMMA UpsertRow ==
  ASSUME row \in Row \cup {Nothing}, NEW r \in RoomIds, NEW flag \in BOOLEAN,
         NEW as \in LocalNames \cup {Nothing}, Upsert(r, flag, as)
  PROVE  /\ row' \in Row /\ row'.room = r /\ row' # Nothing
         /\ row # Nothing => row'.pending = row.pending
<1>1. CASE row = Nothing
  <2>1. row' = [room |-> r, pending |-> flag, as |-> as] BY <1>1 DEF Upsert
  <2>2. row' \in Row /\ row'.room = r BY <2>1 DEF Row
  <2> QED BY <1>1, <2>2, RowFacts
<1>2. CASE row # Nothing
  <2>1. row \in Row /\ row' = [row EXCEPT !.room = r] BY <1>2 DEF Upsert
  <2>2. row' \in Row /\ row'.room = r /\ row'.pending = row.pending BY <2>1 DEF Row
  <2> QED BY <2>2, RowFacts
<1> QED BY <1>1, <1>2

\* A registration: of a room new to the slot, or of the one the caller saw.
LEMMA RegisterStep ==
  ASSUME IInv, NEW l \in Lanes, NEW t \in Task, NEW seen \in Row \cup {Nothing},
         NEW r \in RoomIds, NEW flag \in BOOLEAN, NEW as \in LocalNames \cup {Nothing},
         Register(seen, r, flag, as), madeAs[r] # "unused",
         \/ kind \in Pairs
         \/ r \notin known /\ \A m \in Lanes \ {l} : Makes(task[m]) => task[m].new # r
         \/ r \in known /\ r = RoomOf(seen),
         kind \in Backfilled /\ ~ overtaken' => row = Nothing \/ l = Matrix \/ r = Current,
         Sound(l, t)', ~ Makes(t), task' = [task EXCEPT ![l] = t],
         UNCHANGED <<kind, profile, madeAs, moved, backfills>>
  PROVE  IInv'
<1> USE DEF IInv
<1>1. task \in [Lanes -> Task] /\ task' \in [Lanes -> Task] BY DEF RoomsInv
<1>2. \A m \in Lanes : task'[m] = IF m = l THEN t ELSE task[m] BY <1>1
<1>3. /\ known' = known \cup {r} /\ known \subseteq RoomIds
      /\ overtaken' = (overtaken \/ RoomOf(seen) # Current) /\ overtaken \in BOOLEAN
      /\ row \in Row \cup {Nothing}
  BY DEF Register, Current, RoomsInv
<1>4. /\ row' \in Row /\ row'.room = r /\ row' # Nothing
      /\ row # Nothing => row'.pending = row.pending
  BY <1>3, UpsertRow DEF Register
<1>5. Current' = r BY <1>4 DEF Current, RoomOf
<1>6. ~ overtaken' /\ kind # "channel" => moved[r] = Nothing
  <2>1. CASE kind \in Pairs \/ r \notin known BY <2>1 DEF TablesSound
  <2>2. CASE r = RoomOf(seen)
    BY <2>2, <1>3, RowFacts DEF RoomsInv, CurrentIsOpen, Current, RoomOf
  <2> QED BY <2>1, <2>2
<1>7. /\ history' \in [RoomIds -> {"unknown", "past", "current"}]
      /\ kind \in Ghosts => \A x \in RoomIds :
           /\ history'[x] = "current" <=> x = r
           /\ history'[x] # "unknown" <=> x \in known'
  <2>1. history \in [RoomIds -> {"unknown", "past", "current"}] BY DEF RoomsInv
  <2>2. CASE kind \notin Ghosts BY <2>1, <2>2 DEF Register, RememberRoom
  <2>3. CASE kind \in Ghosts
    <3>1. history' = [x \in RoomIds |-> IF x = r THEN "current"
                                        ELSE IF history[x] = "current" THEN "past"
                                        ELSE history[x]]
      BY <2>3 DEF Register, RememberRoom
    <3>2. \A x \in RoomIds : history[x] # "unknown" <=> x \in known BY <2>3 DEF RoomsInv
    <3> QED BY <1>3, <2>1, <3>1, <3>2
  <2> QED BY <2>2, <2>3
<1>8. RoomsInv'
  BY <1>1, <1>3, <1>4, <1>5, <1>6, <1>7 DEF RoomsInv, CurrentIsOpen
<1>9. TombstonesLead' BY <1>3 DEF TombstonesLead, Ends
<1>10. BackfilledOnce' BY <1>3 DEF BackfilledOnce
<1>11. TablesSound'
  <2>1. \A x \in known' : madeAs'[x] # "unused" BY <1>3 DEF TablesSound
  <2>2. \A x \in RoomIds : moved'[x] # Nothing => kind' \notin Pairs /\ {x, moved'[x]} \subseteq known'
    BY <1>3 DEF TablesSound
  <2>3. ~ overtaken' /\ row'.pending => backfills' = 0
    BY <1>3, <1>4 DEF TablesSound
  <2> QED BY <1>3, <1>4, <2>1, <2>2, <2>3 DEF TablesSound
<1>12. Apart' BY <1>2 DEF Apart, Makes
<1>13. ASSUME NEW m \in Lanes PROVE Sound(m, task[m])'
  <2>1. CASE m = l BY <1>2, <2>1
  <2>2. CASE m # l
    <3>0. PICK u \in Task : u = task[m] BY <1>1
    <3>1. task'[m] = u /\ Sound(m, u) BY <1>2, <2>2, <3>0
    <3>2. Makes(u) => (kind \notin Pairs => u.new \notin known')
      BY <1>3, <2>2, <3>0, <3>1 DEF Sound
    <3>3. u.pc = "tombstone" /\ ~ overtaken' => r # u.room
      <4> SUFFICES ASSUME u.pc = "tombstone", ~ overtaken' PROVE r # u.room OBVIOUS
      <4>1. kind \notin Pairs /\ Current # u.room /\ u.op = "replace"
        BY <1>3, <3>1 DEF Sound, Task
      <4>2. u.room \in known BY <3>1, <4>1 DEF Sound
      <4> QED BY <1>3, <4>1, <4>2
    <3>4. ~ overtaken' /\ u.pc \in {"mark", "backfill"} =>
             row # Nothing /\ r = Current /\ (u.pc = "mark" => r = u.room)
      <4> SUFFICES ASSUME ~ overtaken', u.pc \in {"mark", "backfill"}
                   PROVE  row # Nothing /\ r = Current /\ (u.pc = "mark" => r = u.room)
        OBVIOUS
      <4>1. u.op = "join" /\ m = Matrix /\ kind \in Backfilled /\ u.room \in known
        BY <3>1 DEF Sound, Task
      <4>2. row # Nothing BY <4>1 DEF TablesSound
      <4>3. r = Current BY <2>2, <4>1, <4>2
      <4> QED BY <1>3, <3>1, <4>2, <4>3 DEF Sound
    <3>5. Sound(m, u)'
      BY <1>3, <1>4, <1>5, <3>1, <3>2, <3>3, <3>4 DEF Sound, Makes
    <3> QED BY <3>1, <3>5
  <2> QED BY <2>1, <2>2
<1> QED BY <1>8, <1>9, <1>10, <1>11, <1>12, <1>13

LEMMA RegistersInv ==
  ASSUME IInv, NEW l \in Lanes,
         EnsureRegister(l) \/ ReplaceRegister(l) \/ InviteRegister(l) \/ SyncRegister(l)
  PROVE  IInv'
<1> DEFINE t == task[l]
<1>0. /\ t \in Task /\ Sound(l, t) /\ profile \in Profiles /\ task \in [Lanes -> Task]
      /\ row \in Row \cup {Nothing} /\ known \subseteq RoomIds
      /\ \A r \in known : madeAs[r] # "unused"
  BY LaneFacts DEF IInv, RoomsInv, TablesSound
<1>1. Free \in Task /\ ~ Makes(Free) BY FreeSound
<1>2. Sound(l, Free)' BY DEF Sound, Free, Makes
<1>3. kind \notin Pairs => \A m \in Lanes \ {l} : Makes(t) /\ Makes(task[m]) => task[m].new # t.new
  BY DEF IInv, Apart
<1>4. CASE EnsureRegister(l)
  <2>1. /\ t.op = "ensure" /\ t.pc = "register" /\ task' = [task EXCEPT ![l] = Free]
        /\ Register(t.seen, t.new, t.follow, t.as)
        /\ UNCHANGED <<kind, profile, madeAs, moved, backfills>>
    BY <1>4 DEF EnsureRegister, LaneAt, Doing, Finish
  <2>2. Makes(t) BY <2>1 DEF Makes
  <2>3. /\ t.new \in RoomIds /\ madeAs[t.new] # "unused" /\ (kind \notin Pairs => t.new \notin known)
        /\ kind # "channel" => t.seen = Nothing
    BY <1>0, <2>1, <2>2 DEF Sound
  <2>4. kind \in Backfilled /\ ~ overtaken' => row = Nothing
    BY <1>0, <2>1, <2>3, RowFacts DEF Register, RoomOf, Backfilled, Communities, Row
  <2>5. t.seen \in Row \cup {Nothing} /\ t.follow \in BOOLEAN /\ t.as \in LocalNames \cup {Nothing}
    BY <1>0 DEF Task
  <2> QED BY <1>1, <1>2, <1>3, <2>1, <2>2, <2>3, <2>4, <2>5, RegisterStep
<1>5. CASE ReplaceRegister(l)
  <2>1. /\ t.op = "replace" /\ t.pc = "register" /\ kind \notin Pairs
        /\ LaneGoes(l, "tombstone")
        /\ Register(t.seen, t.new, FALSE, Nothing)
        /\ UNCHANGED <<kind, profile, madeAs, moved, backfills>>
    BY <1>5 DEF ReplaceRegister, LaneAt, Doing
  <2>2. Makes(t) BY <2>1 DEF Makes
  <2>3. /\ t.new \in RoomIds /\ madeAs[t.new] # "unused" /\ t.new \notin known
        /\ t.seen \in Row /\ t.seen.room = t.room /\ l = Matrix
        /\ kind \in Replaceable /\ t.room \in known
    BY <1>0, <2>1, <2>2 DEF Sound
  <2>4. PICK u \in Task : u = [t EXCEPT !.pc = "tombstone"] BY <1>0 DEF Task, Stages
  <2>5. /\ u.op = "replace" /\ u.pc = "tombstone" /\ u.room = t.room /\ u.new = t.new
        /\ task' = [task EXCEPT ![l] = u] /\ ~ Makes(u)
    BY <1>0, <2>1, <2>4 DEF Task, LaneGoes, Makes
  <2>6. moved[t.new] = Nothing BY <2>3 DEF IInv, TablesSound
  <2>7. known' = known \cup {t.new} /\ Current' = t.new
    <3>1. row' # Nothing /\ row'.room = t.new
      BY <1>0, <2>1, <2>3, UpsertRow DEF Register
    <3> QED BY <2>1, <3>1 DEF Register, Current, RoomOf
  <2>8. Sound(l, u)'
    BY <2>1, <2>3, <2>5, <2>6, <2>7 DEF Sound, Makes
  <2>9. Nothing \in LocalNames \cup {Nothing} OBVIOUS
  <2> QED BY <1>3, <2>1, <2>2, <2>3, <2>5, <2>8, <2>9, RegisterStep
<1>6. CASE InviteRegister(l)
  <2>1. /\ t.op = "invite" /\ t.pc = "register" /\ task' = [task EXCEPT ![l] = Free]
        /\ Register(row, t.room, FALSE, t.as)
        /\ UNCHANGED <<kind, profile, madeAs, moved, backfills>>
    BY <1>6 DEF InviteRegister, LaneAt, Doing, Finish
  <2>2. kind = "chat" /\ t.room \in RoomIds /\ madeAs[t.room] # "unused" /\ t.as \in LocalNames \cup {Nothing}
    BY <1>0, <2>1 DEF Sound, Task
  <2>3. kind \in Pairs /\ kind \notin Backfilled BY <2>2 DEF Pairs, Backfilled, Communities
  <2> QED BY <1>0, <1>1, <1>2, <2>1, <2>2, <2>3, RegisterStep
<1>7. CASE SyncRegister(l)
  <2>1. /\ t.op \in {"update", "refresh"} /\ t.pc = "register"
        /\ Register(t.seen, t.seen.room, kind = "lemmy" /\ t.seen.pending, t.seen.as)
        /\ UNCHANGED <<kind, profile, madeAs, moved, backfills>>
        /\ IF kind = "remote" /\ t.op = "update" THEN LaneGoes(l, "wipe") ELSE Finish(l)
    BY <1>7 DEF SyncRegister, LaneAt, Doing
  <2>2. t.seen \in Row /\ t.seen.room \in known BY <1>0, <2>1 DEF Sound
  <2>3. /\ RoomOf(t.seen) = t.seen.room /\ t.seen.room \in RoomIds /\ madeAs[t.seen.room] # "unused"
        /\ (kind = "lemmy" /\ t.seen.pending) \in BOOLEAN /\ t.seen.as \in LocalNames \cup {Nothing}
    BY <1>0, <2>2, RowFacts DEF RoomOf, Row
  <2>4. ~ overtaken' => t.seen.room = Current
    BY <2>1, <2>3 DEF Register, Current, RoomOf
  <2>5. CASE kind = "remote" /\ t.op = "update"
    <3>1. PICK u \in Task : u = [t EXCEPT !.pc = "wipe"] BY <1>0 DEF Task, Stages
    <3>2. /\ task' = [task EXCEPT ![l] = u] /\ u.op = "update" /\ u.pc = "wipe" /\ ~ Makes(u)
      BY <1>0, <2>1, <2>5, <3>1 DEF LaneGoes, Task, Makes
    <3>3. Sound(l, u)' BY <3>2 DEF Sound, Makes
    <3> QED BY <2>1, <2>2, <2>3, <2>4, <3>2, <3>3, RegisterStep
  <2>6. CASE ~ (kind = "remote" /\ t.op = "update")
    <3>1. task' = [task EXCEPT ![l] = Free] BY <2>1, <2>6 DEF Finish
    <3> QED BY <1>1, <1>2, <2>1, <2>2, <2>3, <2>4, <3>1, RegisterStep
  <2> QED BY <2>5, <2>6
<1> QED BY <1>4, <1>5, <1>6, <1>7

\* A tombstone leads from a room that was left to one nobody has left.
LEMMA TombstonesInv ==
  ASSUME IInv, NEW l \in Lanes, Tombstone(l)
  PROVE  IInv'
<1> DEFINE t == task[l]
<1>0. /\ t \in Task /\ Sound(l, t) /\ profile \in Profiles /\ task \in [Lanes -> Task]
      /\ known \subseteq RoomIds /\ moved \in [RoomIds -> RoomIds \cup {Nothing}]
  BY LaneFacts DEF IInv, RoomsInv
<1>1. /\ Finish(l) /\ t.pc = "tombstone" /\ t.op = "replace"
      /\ UNCHANGED <<kind, tables, profile, madeAs, backfills>>
  BY <1>0 DEF Tombstone, LaneAt, Doing, Sound, Task
<1>2. /\ l = Matrix /\ t.room \in known /\ t.new \in known /\ t.new # t.room
      /\ kind \notin Pairs /\ moved[t.new] = Nothing /\ (~ overtaken => Current # t.room)
  BY <1>0, <1>1 DEF Sound
<1>3. CASE UNCHANGED moved BY <1>0, <1>1, <1>3, FinishInv
<1>4. CASE moved' = [moved EXCEPT ![t.room] = t.new]
  <2> USE DEF IInv, tables
  <2>1. moved' \in [RoomIds -> RoomIds \cup {Nothing}] BY <1>0, <1>2, <1>4
  <2>2. \A x \in RoomIds : moved'[x] = IF x = t.room THEN t.new ELSE moved[x]
    BY <1>0, <1>2, <1>4
  <2>3. task' = [task EXCEPT ![l] = Free] BY <1>1 DEF Finish
  <2>4. task' \in [Lanes -> Task] /\ \A m \in Lanes : task'[m] = IF m = l THEN Free ELSE task[m]
    BY <1>0, <2>3, FreeSound
  <2>5. CurrentIsOpen'
    <3>1. row # Nothing => row.room \in RoomIds /\ row.room = Current
      BY <1>0 DEF TablesSound, Current, RoomOf
    <3> QED BY <1>1, <1>2, <2>2, <3>1 DEF RoomsInv, CurrentIsOpen
  <2>6. RoomsInv' BY <1>1, <2>1, <2>4, <2>5 DEF RoomsInv, Current, RoomOf
  <2>7. TombstonesLead'
    <3>1. \A r \in RoomIds : moved'[r] # Nothing => {r, moved'[r]} \subseteq known
      BY <1>2, <2>2 DEF TablesSound
    <3>2. ASSUME NEW s \in SUBSET RoomIds, s # {}, kind \in Replaceable PROVE Ends(s)'
      <4>1. CASE t.new \in s
        <5>1. moved'[t.new] = Nothing BY <1>0, <1>2, <2>2
        <5> QED BY <4>1, <5>1, RowFacts DEF Ends
      <4>2. CASE t.room \in s /\ t.new \notin s
        BY <1>0, <1>2, <2>2, <4>2 DEF Ends
      <4>3. CASE t.room \notin s
        <5>1. PICK r \in s : moved[r] \notin s BY <3>2 DEF TombstonesLead, Ends
        <5> QED BY <2>2, <4>3, <5>1 DEF Ends
      <4> QED BY <4>1, <4>2, <4>3
    <3> QED BY <1>1, <3>1, <3>2 DEF TombstonesLead
  <2>8. BackfilledOnce' BY <1>1 DEF BackfilledOnce
  <2>9. TablesSound' BY <1>1, <1>2, <2>2 DEF TablesSound
  <2>10. Apart' BY <2>4, FreeSound DEF Apart, Makes
  <2>11. ASSUME NEW m \in Lanes PROVE Sound(m, task[m])'
    <3>1. CASE m = l
      <4>1. Sound(l, Free)' BY DEF Sound, Free, Makes
      <4> QED BY <2>4, <3>1, <4>1
    <3>2. CASE m # l
      <4>0. PICK u \in Task : u = task[m] BY <1>0
      <4>1. task'[m] = u /\ Sound(m, u) BY <2>4, <3>2, <4>0
      <4>2. u.op # "replace" BY <1>2, <3>2, <4>1 DEF Sound
      <4>3. u.pc # "tombstone" BY <4>0, <4>1, <4>2 DEF Sound, Task
      <4>4. Sound(m, u)' BY <1>1, <4>1, <4>3 DEF Sound, Makes, Current, RoomOf
      <4> QED BY <4>1, <4>4
    <3> QED BY <3>1, <3>2
  <2> QED BY <2>6, <2>7, <2>8, <2>9, <2>10, <2>11
<1> QED BY <1>3, <1>4 DEF Tombstone

\* An administrator's tombstone is on a channel's room.
LEMMA UpgradeInv ==
  ASSUME IInv, ChannelUpgraded
  PROVE  IInv'
<1> USE DEF IInv, tables
<1>1. PICK r \in known, s \in known :
        kind = "channel" /\ moved' = [moved EXCEPT ![r] = s]
        /\ UNCHANGED <<kind, tables, profile, madeAs, task, backfills>>
  BY DEF ChannelUpgraded
<1>2. known \subseteq RoomIds /\ moved \in [RoomIds -> RoomIds \cup {Nothing}]
      /\ task \in [Lanes -> Task]
  BY DEF RoomsInv
<1>3. /\ moved' \in [RoomIds -> RoomIds \cup {Nothing}]
      /\ \A x \in RoomIds : moved'[x] = IF x = r THEN s ELSE moved[x]
  BY <1>1, <1>2
<1>4. kind \notin Replaceable /\ kind \notin Pairs
  BY <1>1 DEF Replaceable, Ghosts, Pairs
<1>5. RoomsInv' BY <1>1, <1>3 DEF RoomsInv, CurrentIsOpen, Current, RoomOf
<1>6. TombstonesLead' /\ BackfilledOnce' BY <1>1, <1>4 DEF TombstonesLead, BackfilledOnce
<1>7. TablesSound' BY <1>1, <1>3, <1>4 DEF TablesSound
<1>8. Apart' BY <1>1 DEF Apart, Makes
<1>9. ASSUME NEW m \in Lanes PROVE Sound(m, task[m])'
  <2>1. PICK u \in Task : u = task[m] BY <1>2
  <2>2. task'[m] = u /\ Sound(m, u) BY <1>1, <2>1
  <2>3. u.pc # "tombstone" BY <1>4, <2>1, <2>2 DEF Sound, Task
  <2>4. Sound(m, u)' BY <1>1, <2>2, <2>3 DEF Sound, Makes, Current, RoomOf
  <2> QED BY <2>2, <2>4
<1> QED BY <1>5, <1>6, <1>7, <1>8, <1>9

\* A join of the room: the flag goes down first, then the backfill starts.
LEMMA JoinsInv ==
  ASSUME IInv, NEW l \in Lanes, Mark(l) \/ Backfill(l)
  PROVE  IInv'
<1> USE DEF IInv
<1> DEFINE t == task[l]
<1>0. /\ t \in Task /\ Sound(l, t) /\ profile \in Profiles /\ task \in [Lanes -> Task]
      /\ row \in Row \cup {Nothing} /\ known \subseteq RoomIds
  BY LaneFacts DEF RoomsInv
<1>1. /\ t.pc \in {"mark", "backfill"} /\ t.op = "join" /\ l = Matrix /\ t.room \in known
      /\ row # Nothing
  <2>1. t.pc \in {"mark", "backfill"} BY DEF Mark, Backfill, LaneAt
  <2>2. t.op = "join" BY <1>0, <2>1 DEF Sound, Task
  <2> QED BY <1>0, <2>1, <2>2 DEF Sound, TablesSound
<1>2. \A m \in Lanes \ {l} : task[m].pc \notin {"mark", "backfill"}
  <2> SUFFICES ASSUME NEW m \in Lanes \ {l}, task[m].pc \in {"mark", "backfill"} PROVE FALSE
    OBVIOUS
  <2>1. task[m] \in Task /\ Sound(m, task[m]) BY <1>0
  <2> QED BY <1>1, <2>1 DEF Sound, Task
<1>3. CASE Mark(l)
  <2>1. /\ row' = IF Current = t.room THEN [row EXCEPT !.pending = FALSE] ELSE row
        /\ LaneGoes(l, "backfill") /\ t.pc = "mark"
        /\ UNCHANGED <<kind, history, known, overtaken, profile, madeAs, moved, backfills>>
    BY <1>3 DEF Mark, MarkDone, LaneAt
  <2>2. row' \in Row /\ row'.room = row.room /\ row'.pending \in {FALSE, row.pending}
    <3>1. row \in Row BY <1>0, <1>1
    <3> QED BY <2>1, <3>1 DEF Row
  <2>3. row' # Nothing BY <2>2, RowFacts
  <2>4. Current' = Current /\ Current = row.room BY <1>1, <2>2, <2>3 DEF Current, RoomOf
  <2>5. ~ overtaken => row.pending /\ backfills = 0 /\ ~ row'.pending
    <3> SUFFICES ASSUME ~ overtaken PROVE row.pending /\ backfills = 0 /\ ~ row'.pending
      OBVIOUS
    <3>1. Current = t.room /\ row.pending BY <1>0, <2>1 DEF Sound
    <3>2. row \in Row /\ row' = [row EXCEPT !.pending = FALSE] BY <1>0, <1>1, <2>1, <3>1
    <3>3. row'.pending = FALSE BY <3>2 DEF Row
    <3> QED BY <3>1, <3>3 DEF TablesSound
  <2>6. PICK u \in Task : u = [t EXCEPT !.pc = "backfill"] BY <1>0 DEF Task, Stages
  <2>7. /\ task' = [task EXCEPT ![l] = u] /\ u.pc = "backfill" /\ u.op = "join"
        /\ u.room = t.room
    BY <1>0, <1>1, <2>1, <2>6 DEF LaneGoes, Task
  <2>8. task' \in [Lanes -> Task] /\ \A m \in Lanes : task'[m] = IF m = l THEN u ELSE task[m]
    BY <1>0, <2>7
  <2>9. RoomsInv'
    <3>1. CurrentIsOpen' BY <1>1, <2>1, <2>2 DEF RoomsInv, CurrentIsOpen
    <3> QED BY <2>1, <2>2, <2>4, <2>8, <3>1 DEF RoomsInv
  <2>10. TombstonesLead' /\ BackfilledOnce'
    BY <2>1 DEF TombstonesLead, Ends, BackfilledOnce
  <2>11. TablesSound' BY <1>1, <2>1, <2>2, <2>3, <2>5 DEF TablesSound
  <2>12. Apart' BY <2>7, <2>8 DEF Apart, Makes
  <2>13. ASSUME NEW m \in Lanes PROVE Sound(m, task[m])'
    <3>1. CASE m = l
      <4>1. kind \in Backfilled BY <1>0, <1>1 DEF Sound
      <4>2. Sound(l, u)' BY <1>1, <2>1, <2>3, <2>5, <2>7, <4>1 DEF Sound, Makes
      <4> QED BY <2>8, <3>1, <4>2
    <3>2. CASE m # l
      <4>1. PICK v \in Task : v = task[m] BY <1>0
      <4>2. task'[m] = v /\ Sound(m, v) /\ v.pc \notin {"mark", "backfill"}
        BY <1>2, <2>8, <3>2, <4>1
      <4>3. Sound(m, v)' BY <2>1, <2>4, <4>2 DEF Sound, Makes
      <4> QED BY <4>2, <4>3
    <3> QED BY <3>1, <3>2
  <2> QED BY <2>9, <2>10, <2>11, <2>12, <2>13
<1>4. CASE Backfill(l)
  <2>1. /\ backfills' = backfills + 1 /\ task' = [task EXCEPT ![l] = Free] /\ t.pc = "backfill"
        /\ UNCHANGED <<kind, tables, profile, madeAs, moved>>
    BY <1>4 DEF Backfill, Finish, LaneAt
  <2>2. ~ overtaken => backfills = 0 /\ ~ row.pending BY <1>0, <2>1 DEF Sound
  <2>3. task' \in [Lanes -> Task] /\ \A m \in Lanes : task'[m] = IF m = l THEN Free ELSE task[m]
    BY <1>0, <2>1, FreeSound
  <2>4. RoomsInv' BY <2>1, <2>3 DEF RoomsInv, CurrentIsOpen, Current, RoomOf, tables
  <2>5. TombstonesLead' /\ BackfilledOnce'
    BY <2>1, <2>2 DEF TombstonesLead, Ends, BackfilledOnce, tables
  <2>6. TablesSound' BY <1>1, <2>1, <2>2 DEF TablesSound, tables
  <2>7. Apart' BY <2>3, FreeSound DEF Apart, Makes
  <2>8. ASSUME NEW m \in Lanes PROVE Sound(m, task[m])'
    <3>1. CASE m = l
      <4>1. Sound(l, Free)' BY DEF Sound, Free, Makes
      <4> QED BY <2>3, <3>1, <4>1
    <3>2. CASE m # l
      <4>1. PICK v \in Task : v = task[m] BY <1>0
      <4>2. task'[m] = v /\ Sound(m, v) /\ v.pc \notin {"mark", "backfill"}
        BY <1>2, <2>3, <3>2, <4>1
      <4>3. Sound(m, v)' BY <2>1, <4>2 DEF Sound, Makes, Current, RoomOf, tables
      <4> QED BY <4>2, <4>3
    <3> QED BY <3>1, <3>2
  <2> QED BY <2>4, <2>5, <2>6, <2>7, <2>8
<1> QED BY <1>3, <1>4

\* Nothing of an operation outlives a restart.
LEMMA RestartInv ==
  ASSUME IInv, Restart
  PROVE  IInv'
<1> USE DEF IInv, tables
<1>1. task' = [l \in Lanes |-> Free] /\ UNCHANGED <<kind, tables, profile, madeAs, moved, backfills>>
  BY DEF Restart
<1>2. task' \in [Lanes -> Task] BY <1>1, FreeSound
<1>3. RoomsInv' BY <1>1, <1>2 DEF RoomsInv, CurrentIsOpen, Current, RoomOf
<1>4. TombstonesLead' /\ BackfilledOnce' /\ TablesSound'
  BY <1>1 DEF TombstonesLead, Ends, BackfilledOnce, TablesSound
<1>5. Apart' BY <1>1, FreeSound DEF Apart, Makes
<1>6. ASSUME NEW m \in Lanes PROVE Sound(m, task[m])'
  BY <1>1 DEF Sound, Free, Makes
<1> QED BY <1>3, <1>4, <1>5, <1>6

LEMMA NextInv == IInv /\ [RoomsNext]_roomsVars => IInv'
<1> SUFFICES ASSUME IInv, [RoomsNext]_roomsVars PROVE IInv' OBVIOUS
<1>1. CASE UNCHANGED roomsVars
  BY <1>1 DEF roomsVars, tables, IInv, RoomsInv, CurrentIsOpen, Current, RoomOf, TombstonesLead, Ends,
              BackfilledOnce, TablesSound, Apart, Makes, Sound
<1>2. ASSUME NEW l \in Lanes, EnsureComes(l) \/ UpdateComes(l) PROVE IInv'
  BY <1>2, StartsInv
<1>3. ASSUME NEW l \in Lanes, LaneSteps(l) PROVE IInv'
  BY <1>3, ThinkingInv, MakingInv, RegistersInv, TombstonesInv, JoinsInv DEF LaneSteps
<1>4. CASE ReplaceComes \/ JoinComes \/ RefreshComes BY <1>4, StartsInv DEF Lanes
<1>5. CASE InviteComes BY <1>5, MakingInv DEF Lanes
<1>6. CASE ChannelUpgraded BY <1>6, UpgradeInv
<1>7. CASE Restart BY <1>7, RestartInv
<1>8. CASE Rest BY <1>1, <1>8 DEF Rest
<1> QED BY <1>1, <1>2, <1>3, <1>4, <1>5, <1>6, <1>7, <1>8 DEF RoomsNext

LEMMA Inductive == RoomsSpec => []IInv
<1>1. RoomsInit => IInv BY InitInv
<1>2. IInv /\ [RoomsNext]_roomsVars => IInv' BY NextInv
<1> QED BY <1>1, <1>2, PTL DEF RoomsSpec

-------------------------------------------------------------------------------
\* Every history has the row's room, and no other, as its current one, and the
\* room of a slot has not been left for another (register_remote_actor_room,
\* register_ghost_dm_room, register_ghost_chat_room).
THEOREM HistoryAgrees == RoomsSpec => []RoomsInv
<1>1. IInv => RoomsInv BY DEF IInv
<1> QED BY <1>1, Inductive, PTL

\* The tombstones that replacements of a room set lead to a room the bridge
\* knows and never in a circle, however many replacements there were and
\* whichever registrations overtook them (_replace_remote_actor_room).
THEOREM TombstonesLeadOn == RoomsSpec => []TombstonesLead
<1>1. IInv => TombstonesLead BY DEF IInv
<1> QED BY <1>1, Inductive, PTL

\* A slot is backfilled once, unless a room was registered over another unseen
\* (mark_backfill_pending_done).
THEOREM OneBackfill == RoomsSpec => []BackfilledOnce
<1>1. IInv => BackfilledOnce BY DEF IInv
<1> QED BY <1>1, Inductive, PTL

-----------------------------------------------------------------------------
(* The actors a bridge hosts in rooms. *)

Live == OldRooms \cup made \cup {NoRoom}
Typed ==
  /\ rec \in [Kinds -> [Handles -> Record \cup {NoRecord}]]
  /\ accounts \subseteq Users /\ made \subseteq NewRooms
  /\ text \in [Rooms -> Texts] /\ power \in [Rooms -> SUBSET Users]
  /\ pending \in Seq(Event)
  /\ run \in [Workers -> Work \cup {Idle}]
  /\ modsHeard \in [Handles -> SUBSET Handles]
  /\ commands \in 0..MaxCommands /\ changes \in 0..MaxChanges /\ crashes \in 0..MaxCrashes

\* Of a room that is not made yet nobody knows.
RoomsSound ==
  /\ \A k \in Kinds, n \in Handles : Known(k, n) =>
       rec[k][n].room \in Live /\ (k \in Hosted => rec[k][n].room # NoRoom)
  /\ \A i \in DOMAIN pending : pending[i].room \in Live
  /\ \A r \in NewRooms \ made : power[r] = {} /\ text[r] = "plain"

\* What both workers have in hand is known to be.
HandsSound == (InHand("chat") \cap InHand("widget")) \ {NoRoom} \subseteq raced

\* Where a task may be, and what it has in hand there.
EventStation(w) ==
  LET j == run[w] e == Head(pending) IN
  /\ w = "chat" /\ j.pc \in {"write", "push", "mods"} /\ pending # <<>> /\ e.room = j.new.room
  /\ j.pc = "mods" => e.what = "power"
  /\ j.pc = "push" => e.what = "text"
  /\ e.what = "text" => j.new.text = e.text
  /\ e.what = "power" => j.kind = "community"
CommandStation(w) ==
  LET j == run[w] IN
  /\ j.cmd \in Command /\ j.name = j.cmd.name /\ j.kind = j.cmd.kind
  /\ j.cmd.what = "create" => j.pc \in {"room", "write", "again"}
  /\ j.cmd.what = "link" => j.pc \in {"adopt", "write", "again"}
  /\ j.cmd.what = "unlink" => j.pc \in {"write", "again"} /\ j.new.room = NoRoom
  /\ j.cmd.what = "delete" => j.pc \in {"gone", "detach", "rename", "erase", "again"}
  /\ j.pc = "room" => j.new.room = NoRoom /\ j.new.text = "plain"
  /\ j.pc = "adopt" => j.kind # "profile"
  /\ j.pc = "detach" => j.kind = "profile"
  /\ j.pc = "write" /\ j.cmd.what = "create" => j.new.room \in made
  /\ w = "widget" => FromWidget(j.cmd) /\ j.pc # "again"
Station(w) ==
  /\ run[w].new.room \in Live
  /\ run[w].kind \in Hosted /\ run[w].pc \notin {"room", "again"} => run[w].new.room # NoRoom
  /\ IF ForEvent(w) THEN EventStation(w) ELSE CommandStation(w)

\* What a task may rely on of its handle, unless the other one is at it too: it is
\* no other kind's, it is still free if it was, and the seat is the one that was read.
Keep(w) ==
  LET j == run[w] k == run[w].kind n == run[w].name IN
  j.pc # "again" /\ n \notin raced =>
    /\ \A l \in Kinds \ {k} : ~ Known(l, n)
    /\ ForEvent(w) \/ j.cmd.what \in {"unlink", "delete"} => Known(k, n) /\ rec[k][n].owner = j.new.owner
    /\ ForEvent(w) => rec[k][n].room = j.new.room
    /\ ~ ForEvent(w) /\ j.cmd.what \in {"create", "link"} /\ Known(k, n) =>
         k = "profile" /\ rec[k][n].owner = j.new.owner

\* And of its room.
House(w) ==
  LET j == run[w] r == run[w].new.room IN
  /\ j.pc \in {"write", "mods", "push"} /\ r # NoRoom /\ r \notin raced \cup relinked
       /\ ~ (Linking(w) /\ j.kind # "profile") =>
     Serves(r) \subseteq {<<j.kind, j.name>>}
  /\ j.pc = "write" /\ ~ ForEvent(w) /\ j.cmd.what = "create" /\ r \notin raced => Serves(r) = {}

Own(w) == Station(w) /\ Keep(w) /\ House(w)
TasksKeep == \A w \in Workers : run[w] # Idle => Own(w)

HandlesApart == \A n \in Handles \ raced : \A k, l \in Kinds : Known(k, n) /\ Known(l, n) => k = l
RoomsApart == \A r \in Rooms \ (raced \cup relinked) : \A x, y \in Serves(r) : x = y

\* The inductive invariant.
SeatInv == Typed /\ RoomsSound /\ HandsSound /\ TasksKeep /\ HandlesApart /\ RoomsApart

-----------------------------------------------------------------------------
(* Queues, records and what a command starts. *)

LEMMA AppendFacts ==
  ASSUME NEW S, NEW q \in Seq(S), NEW e \in S
  PROVE  /\ Append(q, e) \in Seq(S) /\ Append(q, e) # <<>>
         /\ DOMAIN q = 1..Len(q) /\ Len(q) \in Nat /\ DOMAIN Append(q, e) = 1..(Len(q) + 1)
         /\ \A i \in 1..Len(q) : Append(q, e)[i] = q[i]
         /\ Append(q, e)[Len(q) + 1] = e
         /\ q # <<>> => Head(Append(q, e)) = Head(q)
  OBVIOUS

LEMMA TailFacts ==
  ASSUME NEW S, NEW q \in Seq(S), q # <<>>
  PROVE  /\ Tail(q) \in Seq(S) /\ Len(q) \in Nat /\ Len(q) >= 1 /\ DOMAIN q = 1..Len(q)
         /\ DOMAIN Tail(q) = 1..(Len(q) - 1)
         /\ \A i \in 1..(Len(q) - 1) : Tail(q)[i] = q[i + 1]
         /\ Head(q) = q[1] /\ Head(q) \in S
  OBVIOUS

LEMMA NothingFacts ==
  /\ \A k \in Kinds, n \in Handles : Typed /\ Known(k, n) => rec[k][n] \in Record
  /\ \A w \in Workers : Typed /\ run[w] # Idle => run[w] \in Work
  /\ NoRecord \notin Record /\ NoRecord \notin Command /\ Idle \notin Work
BY NothingAssumption DEF Typed, Known

LEMMA CommandFacts ==
  ASSUME NEW c \in Command
  PROVE  /\ c.what \in {"create", "link", "unlink", "delete"} /\ c.user \in Users /\ c.kind \in Kinds /\ c.name \in Handles
         /\ c.room \in Rooms \cup {NoRoom} /\ (c.what = "link" <=> c.room # NoRoom)
         /\ c.what = "link" => c.kind # "channel"
         /\ c.what = "unlink" => c.kind = "profile"
         /\ c.user \in Handles /\ c # NoRecord
BY NothingAssumption, HostedAssumption DEF Command

LEMMA BlankFacts ==
  ASSUME NEW o \in Handles, NEW r \in Rooms \cup {NoRoom}, NEW M \in SUBSET Handles
  PROVE  /\ Blank(o, r, M) \in Record
         /\ Blank(o, r, M).owner = o /\ Blank(o, r, M).room = r /\ Blank(o, r, M).text = "plain" /\ Blank(o, r, M).mods = M
BY DEF Blank, Record, Texts

LEMMA JobFacts ==
  ASSUME NEW c \in Command \cup {NoRecord}, NEW k \in Kinds, NEW n \in Handles, NEW new \in Record,
         NEW p \in {"room", "adopt", "write", "push", "mods", "gone", "detach", "rename", "erase", "again"}
  PROVE  /\ Job(c, k, n, new, p) \in Work
         /\ Job(c, k, n, new, p).cmd = c /\ Job(c, k, n, new, p).kind = k /\ Job(c, k, n, new, p).name = n
         /\ Job(c, k, n, new, p).new = new /\ Job(c, k, n, new, p).pc = p
BY DEF Job, Work

\* What a command starts with.
StartsSoundly(c, job) ==
  /\ job \in Work /\ job.cmd = c /\ job.kind = c.kind /\ job.name = c.name
  /\ c.what = "create" =>
       /\ job.pc = "room" /\ job.new.room = NoRoom /\ job.new.text = "plain"
       /\ ~ Taken(c.name) \/ (c.kind = "profile" /\ Known("profile", c.name) /\ rec["profile"][c.name].owner = job.new.owner)
  /\ c.what = "link" =>
       /\ job.pc = IF c.kind = "profile" THEN "write" ELSE "adopt"
       /\ job.new.room = c.room /\ c.user \in power[c.room]
       /\ \/ ~ TakenByHosted(c.name) /\ c.kind = "profile" /\ ~ Known("profile", c.name)
          \/ c.kind = "profile" /\ Known("profile", c.name) /\ rec["profile"][c.name].owner = job.new.owner
          \/ ~ Taken(c.name)
       /\ c.kind = "profile" => Serves(c.room) = {}
  /\ c.what = "unlink" =>
       /\ job.pc = "write" /\ job.new.room = NoRoom
       /\ Known("profile", c.name) /\ rec["profile"][c.name].owner = job.new.owner
  /\ c.what = "delete" =>
       job.pc = "gone" /\ Known(c.kind, c.name) /\ job.new = rec[c.kind][c.name]

LEMMA StartedFacts ==
  ASSUME Typed, NEW c \in Command, NEW job \in Started(c)
  PROVE  StartsSoundly(c, job)
<1>1. /\ c.what \in {"create", "link", "unlink", "delete"} /\ c.user \in Handles /\ c.kind \in Kinds /\ c.name \in Handles
      /\ c.room \in Rooms \cup {NoRoom}
      /\ c.what = "link" => c.kind # "channel" /\ c.room # NoRoom
      /\ c.what = "unlink" => c.kind = "profile"
      /\ "profile" \in Kinds /\ Rooted(c.user) \subseteq Handles /\ {} \in SUBSET Handles
      /\ \A o \in Handles : {o} \in SUBSET Handles
      /\ c.kind \in {"profile", "channel", "community", "group"}
  BY CommandFacts DEF Kinds, Hosted, Rooted
<1>2. CASE c.what = "create" /\ c.kind = "profile"
  <2>1. job \in CreateProfile(c)
    BY <1>2 DEF Started
  <2>2. job = Job(c, "profile", c.name, Blank(c.user, NoRoom, {}), "room")
    BY <2>1 DEF CreateProfile
  <2>3. ~ Taken(c.name) \/ (Known("profile", c.name) /\ rec["profile"][c.name].owner = c.user)
    BY <1>1, <2>1 DEF CreateProfile, FreeForProfile, Identities
  <2>4. Blank(c.user, NoRoom, {}) \in Record /\ Blank(c.user, NoRoom, {}).owner = c.user
        /\ Blank(c.user, NoRoom, {}).room = NoRoom /\ Blank(c.user, NoRoom, {}).text = "plain"
    BY <1>1, BlankFacts
  <2>5. job \in Work /\ job.cmd = c /\ job.kind = c.kind /\ job.name = c.name /\ job.pc = "room"
        /\ job.new = Blank(c.user, NoRoom, {})
    BY <1>1, <1>2, <2>2, <2>4, JobFacts
  <2> QED
    BY <1>2, <2>3, <2>4, <2>5 DEF StartsSoundly
<1>3. CASE c.what = "create" /\ c.kind # "profile"
  <2>1. job \in CreateChannel(c) \/ job \in CreateCommunity(c) \/ job \in CreateGroup(c)
    <3>1. CASE c.kind = "channel"
      BY <1>3, <3>1 DEF Started
    <3>2. CASE c.kind = "community"
      BY <1>3, <3>2 DEF Started
    <3>3. CASE c.kind = "group"
      BY <1>3, <3>3 DEF Started
    <3> QED
      BY <1>1, <1>3, <3>1, <3>2, <3>3
  <2>2. ~ Taken(c.name) /\ \E o \in Handles, M \in SUBSET Handles : job = Job(c, c.kind, c.name, Blank(o, NoRoom, M), "room")
    BY <1>1, <2>1 DEF CreateChannel, CreateCommunity, CreateGroup, HandleFree
  <2>3. PICK o \in Handles, M \in SUBSET Handles : job = Job(c, c.kind, c.name, Blank(o, NoRoom, M), "room")
    BY <2>2
  <2>4. Blank(o, NoRoom, M) \in Record /\ Blank(o, NoRoom, M).room = NoRoom /\ Blank(o, NoRoom, M).text = "plain"
    BY BlankFacts
  <2>5. job \in Work /\ job.cmd = c /\ job.kind = c.kind /\ job.name = c.name /\ job.pc = "room" /\ job.new = Blank(o, NoRoom, M)
    BY <1>1, <2>3, <2>4, JobFacts
  <2> QED
    BY <1>3, <2>2, <2>4, <2>5 DEF StartsSoundly
<1>4. CASE c.what = "link" /\ c.kind = "profile"
  <2>1. job \in LinkProfile(c)
    BY <1>4 DEF Started
  <2>2. job = Job(c, "profile", c.name, Blank(c.user, c.room, {}), "write") /\ ProfileLinkable(c)
    BY <2>1 DEF LinkProfile
  <2>3. /\ Known("profile", c.name) => rec["profile"][c.name].owner = c.user
        /\ ~ Known("profile", c.name) => ~ TakenByHosted(c.name)
        /\ Serves(c.room) = {} /\ c.user \in power[c.room]
    BY <2>2 DEF ProfileLinkable, AlreadyBridged, Controls
  <2>4. Blank(c.user, c.room, {}) \in Record /\ Blank(c.user, c.room, {}).owner = c.user
        /\ Blank(c.user, c.room, {}).room = c.room
    BY <1>1, BlankFacts
  <2>5. job \in Work /\ job.cmd = c /\ job.kind = c.kind /\ job.name = c.name /\ job.pc = "write"
        /\ job.new = Blank(c.user, c.room, {})
    BY <1>1, <1>4, <2>2, <2>4, JobFacts
  <2> QED
    BY <1>4, <2>3, <2>4, <2>5 DEF StartsSoundly
<1>5. CASE c.what = "link" /\ c.kind # "profile"
  <2>1. job \in LinkCommunity(c) \/ job \in LinkGroup(c)
    <3>1. CASE c.kind = "community"
      BY <1>5, <3>1 DEF Started
    <3>2. CASE c.kind = "group"
      BY <1>5, <3>2 DEF Started
    <3> QED
      BY <1>1, <1>5, <3>1, <3>2
  <2>2. /\ ~ Taken(c.name) /\ c.user \in power[c.room]
        /\ \E o \in Handles, M \in SUBSET Handles : job = Job(c, c.kind, c.name, Blank(o, c.room, M), "adopt")
    BY <1>1, <2>1 DEF LinkCommunity, LinkGroup, LinkConfirmed, HandleFree, Controls
  <2>3. PICK o \in Handles, M \in SUBSET Handles : job = Job(c, c.kind, c.name, Blank(o, c.room, M), "adopt")
    BY <2>2
  <2>4. Blank(o, c.room, M) \in Record /\ Blank(o, c.room, M).room = c.room
    BY <1>1, BlankFacts
  <2>5. job \in Work /\ job.cmd = c /\ job.kind = c.kind /\ job.name = c.name /\ job.pc = "adopt" /\ job.new = Blank(o, c.room, M)
    BY <1>1, <2>3, <2>4, JobFacts
  <2> QED
    BY <1>5, <2>2, <2>4, <2>5 DEF StartsSoundly
<1>6. CASE c.what = "unlink"
  <2>1. job \in UnlinkProfile(c)
    BY <1>6 DEF Started
  <2>2. /\ job = Job(c, "profile", c.name, [rec["profile"][c.name] EXCEPT !.room = NoRoom], "write")
        /\ Known("profile", c.name)
    BY <2>1 DEF UnlinkProfile, Identities
  <2>3. rec["profile"][c.name] \in Record
    BY <1>1, <2>2, NothingFacts
  <2>4. /\ [rec["profile"][c.name] EXCEPT !.room = NoRoom] \in Record
        /\ [rec["profile"][c.name] EXCEPT !.room = NoRoom].room = NoRoom
        /\ [rec["profile"][c.name] EXCEPT !.room = NoRoom].owner = rec["profile"][c.name].owner
    BY <2>3 DEF Record
  <2>5. job \in Work /\ job.cmd = c /\ job.kind = c.kind /\ job.name = c.name /\ job.pc = "write"
        /\ job.new = [rec["profile"][c.name] EXCEPT !.room = NoRoom]
    BY <1>1, <1>6, <2>2, <2>4, JobFacts
  <2> QED
    BY <1>6, <2>2, <2>4, <2>5 DEF StartsSoundly
<1>7. CASE c.what = "delete"
  <2>1. job \in DeleteProfile(c) \/ job \in DeleteHosted(c)
    BY <1>1, <1>7 DEF Started
  <2>2. job = Job(c, c.kind, c.name, rec[c.kind][c.name], "gone") /\ Known(c.kind, c.name)
    BY <2>1 DEF DeleteProfile, DeleteHosted, Deletable
  <2>3. rec[c.kind][c.name] \in Record
    BY <1>1, <2>2, NothingFacts
  <2>4. job \in Work /\ job.cmd = c /\ job.kind = c.kind /\ job.name = c.name /\ job.pc = "gone"
        /\ job.new = rec[c.kind][c.name]
    BY <1>1, <1>7, <2>2, <2>3, JobFacts
  <2> QED
    BY <1>7, <2>2, <2>4 DEF StartsSoundly
<1> QED
  BY <1>1, <1>2, <1>3, <1>4, <1>5, <1>6, <1>7

-----------------------------------------------------------------------------
(* What a step of one worker leaves to everybody. *)

LEMMA WorkerFacts ==
  /\ "chat" \in Workers /\ "widget" \in Workers /\ "nobody" \notin Workers
  /\ \A v, w \in Workers : v # w => (v = "chat" /\ w = "widget") \/ (v = "widget" /\ w = "chat")
BY DEF Workers

\* A task in full.
LEMMA TaskFacts ==
  ASSUME Typed, NEW w \in Workers, run[w] # Idle
  PROVE  /\ run[w] \in Work /\ run[w].name \in Handles /\ run[w].kind \in Kinds /\ run[w].new \in Record
         /\ run[w].cmd \in Command \cup {NoRecord}
         /\ run[w].new.room \in Rooms \cup {NoRoom} /\ run[w].new.owner \in Handles
         /\ run[w].name # NoRoom /\ run[w].name \in InHand(w) /\ run[w].new.room \in InHand(w)
<1>1. run[w] \in Work
  BY NothingFacts
<1>2. run[w].name \in Handles /\ run[w].kind \in Kinds /\ run[w].new \in Record /\ run[w].cmd \in Command \cup {NoRecord}
  BY <1>1 DEF Work
<1>3. run[w].new.room \in Rooms \cup {NoRoom} /\ run[w].new.owner \in Handles
  BY <1>2 DEF Record
<1>4. run[w].name \in InHand(w) /\ run[w].new.room \in InHand(w)
  BY DEF InHand
<1> QED
  BY <1>1, <1>2, <1>3, <1>4, HostedAssumption

LEMMA GoFacts ==
  ASSUME Typed, NEW w \in Workers, NEW job \in Work \cup {Idle}, Go(w, job)
  PROVE  /\ run' \in [Workers -> Work \cup {Idle}] /\ run'[w] = job
         /\ \A v \in Workers : v # w => run'[v] = run[v]
BY DEF Typed, Go

LEMMA StepFacts ==
  ASSUME Typed, NEW w \in Workers, run[w] # Idle,
         NEW p \in {"room", "adopt", "write", "push", "mods", "gone", "detach", "rename", "erase", "again"}, Step(w, p)
  PROVE  /\ run' \in [Workers -> Work \cup {Idle}] /\ run'[w] \in Work /\ run'[w] # Idle
         /\ run'[w].cmd = run[w].cmd /\ run'[w].kind = run[w].kind /\ run'[w].name = run[w].name
         /\ run'[w].new = run[w].new /\ run'[w].pc = p
         /\ \A v \in Workers : v # w => run'[v] = run[v]
         /\ ForEvent(w)' <=> ForEvent(w)
         /\ Linking(w)' <=> Linking(w)
<1>1. run[w] \in Work
  BY NothingFacts
<1>2. [run[w] EXCEPT !.pc = p] \in Work /\ [run[w] EXCEPT !.pc = p] # Idle
  BY <1>1, NothingAssumption DEF Work
<1>3. /\ [run[w] EXCEPT !.pc = p].cmd = run[w].cmd /\ [run[w] EXCEPT !.pc = p].kind = run[w].kind
      /\ [run[w] EXCEPT !.pc = p].name = run[w].name /\ [run[w] EXCEPT !.pc = p].new = run[w].new
      /\ [run[w] EXCEPT !.pc = p].pc = p
  BY <1>1 DEF Work
<1>4. /\ run' \in [Workers -> Work \cup {Idle}] /\ run'[w] = [run[w] EXCEPT !.pc = p]
      /\ \A v \in Workers : v # w => run'[v] = run[v]
  BY <1>2, GoFacts DEF Step
<1>5. run'[w].cmd = run[w].cmd
  BY <1>3, <1>4
<1>6. (ForEvent(w)' <=> ForEvent(w)) /\ (Linking(w)' <=> Linking(w))
  BY <1>5 DEF ForEvent, Linking
<1> QED
  BY <1>2, <1>3, <1>4, <1>6

\* Only this worker moves: the others' tasks and the head of the queue they are on
\* stay, and what it writes is at its own handle and in its own room.
Moves(w) ==
  /\ \A v \in Workers : v # w => run'[v] = run[v]
  /\ made \subseteq made' /\ raced \subseteq raced' /\ relinked \subseteq relinked'
  /\ \A k \in Kinds, n \in Handles : rec'[k][n] # rec[k][n] =>
       /\ w \in Workers /\ run[w] # Idle /\ n = run[w].name
       /\ rec'[k][n] = NoRecord \/ rec'[k][n].room \in {NoRoom, run[w].new.room}
  /\ \A v \in Workers : v # w /\ run[v] # Idle /\ ForEvent(v) => pending' # <<>> /\ Head(pending') = Head(pending)

LEMMA RememberFacts ==
  ASSUME Remember
  PROVE  HandsSound' /\ raced \subseteq raced'
BY DEF Remember, HandsSound

\* What it takes to be in both hands.
LEMMA BothHands ==
  ASSUME Typed, HandsSound, NEW v \in Workers, NEW w \in Workers, v # w, run[v] # Idle, run[w] # Idle
  PROVE  /\ run[v].name = run[w].name => run[v].name \in raced
         /\ run[v].new.room = run[w].new.room /\ run[v].new.room # NoRoom => run[v].new.room \in raced
<1>1. /\ run[v].name # NoRoom /\ run[v].name \in InHand(v) /\ run[v].new.room \in InHand(v)
      /\ run[w].name \in InHand(w) /\ run[w].new.room \in InHand(w)
  BY TaskFacts
<1>2. \A x : x \in InHand(v) /\ x \in InHand(w) /\ x # NoRoom => x \in raced
  BY WorkerFacts DEF HandsSound
<1> QED
  BY <1>1, <1>2

LEMMA OthersKeep ==
  ASSUME SeatInv, NEW w, Moves(w), NEW v \in Workers, v # w, run[v] # Idle
  PROVE  Own(v)'
<1> DEFINE j == run[v]
           r == run[v].new.room
<1>0. Typed /\ HandsSound /\ Own(v)
  BY DEF SeatInv, TasksKeep
<1>1. run'[v] = run[v] /\ j \in Work /\ j.name \in Handles /\ j.kind \in Kinds /\ r \in Rooms \cup {NoRoom}
  BY <1>0, TaskFacts DEF Moves
<1>2. (ForEvent(v)' <=> ForEvent(v)) /\ (Linking(v)' <=> Linking(v))
  BY <1>1 DEF ForEvent, Linking
<1>3. j.name \notin raced' => \A k \in Kinds : rec'[k][j.name] = rec[k][j.name]
  <2> SUFFICES ASSUME NEW k \in Kinds, rec'[k][j.name] # rec[k][j.name]
               PROVE  j.name \in raced'
    OBVIOUS
  <2>1. w \in Workers /\ run[w] # Idle /\ j.name = run[w].name /\ raced \subseteq raced'
    BY <1>1 DEF Moves
  <2> QED
    BY <1>0, <2>1, BothHands
<1>4. r # NoRoom /\ r \notin raced' => Serves(r)' \subseteq Serves(r)
  <2> SUFFICES ASSUME r # NoRoom, r \notin raced', NEW k \in Kinds, NEW n \in Handles,
                      rec'[k][n] # NoRecord, rec'[k][n].room = r
               PROVE  rec'[k][n] = rec[k][n]
    BY <1>1 DEF Serves, Known
  <2> SUFFICES ASSUME rec'[k][n] # rec[k][n]
               PROVE  FALSE
    OBVIOUS
  <2>1. w \in Workers /\ run[w] # Idle /\ r = run[w].new.room /\ raced \subseteq raced'
    BY DEF Moves
  <2> QED
    BY <1>0, <2>1, BothHands
<1>5. Station(v)'
  <2>1. Station(v) /\ made \subseteq made' /\ Live \subseteq Live'
    BY <1>0 DEF Own, Moves, Live
  <2>2. ForEvent(v) => pending' # <<>> /\ Head(pending)' = Head(pending)
    BY DEF Moves
  <2>3. r \in Live' /\ (j.kind \in Hosted /\ j.pc \notin {"room", "again"} => r # NoRoom)
    BY <2>1 DEF Station
  <2>4. ForEvent(v) => EventStation(v)'
    BY <1>1, <2>1, <2>2 DEF Station, EventStation
  <2>5. ~ ForEvent(v) => CommandStation(v)'
    BY <1>1, <2>1 DEF Station, CommandStation
  <2> QED
    BY <1>1, <1>2, <2>3, <2>4, <2>5 DEF Station
<1>6. Keep(v)'
  <2> SUFFICES ASSUME j.pc # "again", j.name \notin raced'
               PROVE  Keep(v)'
    BY <1>1 DEF Keep
  <2>1. Keep(v) /\ j.name \notin raced /\ \A k \in Kinds : rec'[k][j.name] = rec[k][j.name]
    BY <1>0, <1>3 DEF Own, Moves
  <2>2. \A k \in Kinds : Known(k, j.name)' <=> Known(k, j.name)
    BY <1>1, <2>1 DEF Known
  <2> QED
    BY <1>1, <1>2, <2>1, <2>2 DEF Keep
<1>7. House(v)'
  <2>1. House(v) /\ raced \subseteq raced' /\ relinked \subseteq relinked'
    BY <1>0 DEF Own, Moves
  <2>2. j.pc = "write" /\ ~ ForEvent(v) /\ j.cmd.what = "create" => r # NoRoom
    BY <1>0, HostedAssumption DEF Own, Station, CommandStation, Typed, Rooms
  <2> QED
    BY <1>1, <1>2, <1>4, <2>1, <2>2 DEF House
<1> QED
  BY <1>5, <1>6, <1>7 DEF Own

\* So a step keeps the invariant where the tables are kept and its own task is sound.
LEMMA Inherits ==
  ASSUME SeatInv, NEW w, Moves(w), Typed', RoomsSound', HandsSound', HandlesApart', RoomsApart',
         w \in Workers /\ run'[w] # Idle => Own(w)'
  PROVE  SeatInv'
<1>1. ASSUME NEW v \in Workers, run'[v] # Idle PROVE Own(v)'
  <2>1. CASE v = w
    BY <1>1, <2>1
  <2>2. CASE v # w
    <3>1. run[v] # Idle
      BY <1>1, <2>2 DEF Moves
    <3> QED
      BY <2>2, <3>1, OthersKeep
  <2> QED
    BY <2>1, <2>2
<1>2. TasksKeep'
  BY <1>1 DEF TasksKeep
<1> QED
  BY <1>2 DEF SeatInv

\* Writes that leave a room or remove a record keep the tables apart.
LEMMA TablesRest ==
  ASSUME SeatInv, raced \subseteq raced', relinked \subseteq relinked',
         \A k \in Kinds, n \in Handles :
           rec'[k][n] # NoRecord =>
             rec'[k][n] = rec[k][n] \/ (rec'[k][n].room = NoRoom /\ (n \notin raced' => Known(k, n)))
  PROVE  HandlesApart' /\ RoomsApart'
<1>0. HandlesApart /\ RoomsApart
  BY DEF SeatInv
<1>1. \A k \in Kinds, n \in Handles : n \notin raced' /\ Known(k, n)' => Known(k, n)
  BY DEF Known
<1>2. HandlesApart'
  BY <1>0, <1>1 DEF HandlesApart
<1>3. \A r \in Rooms : Serves(r)' \subseteq Serves(r)
  <2> SUFFICES ASSUME NEW r \in Rooms, NEW x \in Serves(r)'
               PROVE  x \in Serves(r)
    OBVIOUS
  <2>1. PICK k \in Kinds, n \in Handles : x = <<k, n>> /\ rec'[k][n] # NoRecord /\ rec'[k][n].room = r
    BY DEF Serves, Known
  <2>2. rec'[k][n] = rec[k][n]
    BY <2>1, HostedAssumption
  <2> QED
    BY <2>1, <2>2 DEF Serves, Known
<1>4. RoomsApart'
  BY <1>0, <1>3 DEF RoomsApart
<1> QED
  BY <1>2, <1>4

LEMMA RoomsRest ==
  ASSUME SeatInv, made \subseteq made', 
         \A k \in Kinds, n \in Handles : rec'[k][n] # NoRecord =>
           \/ rec'[k][n] = rec[k][n]
           \/ rec'[k][n].room \in Live /\ (k \in Hosted => rec'[k][n].room # NoRoom),
         \A i \in DOMAIN pending' : pending'[i].room \in Live,
         \A r \in NewRooms \ made' : power'[r] = power[r] /\ text'[r] = text[r]
  PROVE  RoomsSound'
<1>0. RoomsSound /\ Live \subseteq Live'
  BY DEF SeatInv, Live
<1>1. \A k \in Kinds, n \in Handles : Known(k, n)' => rec'[k][n].room \in Live' /\ (k \in Hosted => rec'[k][n].room # NoRoom)
  <2> SUFFICES ASSUME NEW k \in Kinds, NEW n \in Handles, rec'[k][n] # NoRecord
               PROVE  rec'[k][n].room \in Live' /\ (k \in Hosted => rec'[k][n].room # NoRoom)
    BY DEF Known
  <2>1. CASE rec'[k][n] = rec[k][n]
    BY <1>0, <2>1 DEF RoomsSound, Known
  <2>2. CASE rec'[k][n].room \in Live /\ (k \in Hosted => rec'[k][n].room # NoRoom)
    BY <1>0, <2>2
  <2> QED
    BY <2>1, <2>2
<1>2. \A i \in DOMAIN pending' : pending'[i].room \in Live'
  BY <1>0
<1>3. \A r \in NewRooms \ made' : power'[r] = {} /\ text'[r] = "plain"
  BY <1>0 DEF RoomsSound
<1> QED
  BY <1>1, <1>2, <1>3 DEF RoomsSound

-----------------------------------------------------------------------------
(* Commands begin. *)

\* A task just started is sound.
LEMMA StartedOwn ==
  ASSUME SeatInv, NEW c \in Command, NEW job \in Started(c), NEW w \in Workers, Go(w, job),
         UNCHANGED <<rec, made, relinked>>, raced \subseteq raced', w = "widget" => FromWidget(c)
  PROVE  Own(w)'
<1> DEFINE k == c.kind
           n == c.name
<1>0. Typed /\ RoomsSound /\ HandlesApart /\ StartsSoundly(c, job)
  BY StartedFacts DEF SeatInv
<1>1. run'[w] = job /\ job \in Work /\ job.cmd = c /\ job.kind = k /\ job.name = n
  BY <1>0, GoFacts DEF StartsSoundly
<1>2. /\ c # NoRecord /\ k \in Kinds /\ n \in Handles /\ c.what \in {"create", "link", "unlink", "delete"}
      /\ c.room \in Rooms \cup {NoRoom}
      /\ c.what = "link" => c.kind # "channel" /\ c.room # NoRoom
      /\ c.what = "unlink" => k = "profile"
  BY CommandFacts
<1>3. ~ ForEvent(w)' /\ (Linking(w)' <=> c.what = "link")
  BY <1>1, <1>2 DEF ForEvent, Linking
<1>4. c.what = "link" => job.new.room = c.room /\ c.room \in Live
  <2> SUFFICES ASSUME c.what = "link"
               PROVE  job.new.room = c.room /\ c.room \in Live
    OBVIOUS
  <2>1. job.new.room = c.room /\ c.user \in power[c.room] /\ c.room \in Rooms
    BY <1>0, <1>2 DEF StartsSoundly
  <2>2. c.room \notin NewRooms \ made
    BY <1>0, <2>1 DEF RoomsSound
  <2> QED
    BY <2>1, <2>2 DEF Rooms, Live
<1>5. job.new.room \in Live
  <2>1. CASE c.what = "delete"
    BY <1>0, <1>2, <2>1 DEF StartsSoundly, RoomsSound
  <2>2. CASE c.what # "delete"
    BY <1>0, <1>2, <1>4, <2>2 DEF StartsSoundly, Live
  <2> QED
    BY <2>1, <2>2
<1>6. job.kind \in Hosted /\ job.pc \notin {"room", "again"} => job.new.room # NoRoom
  <2>1. CASE c.what = "delete"
    BY <1>0, <1>1, <1>2, <2>1 DEF StartsSoundly, RoomsSound
  <2>2. CASE c.what = "unlink"
    BY <1>1, <1>2, <2>2 DEF Hosted
  <2>3. CASE c.what \in {"create", "link"}
    BY <1>0, <1>2, <1>4, <2>3 DEF StartsSoundly
  <2> QED
    BY <1>2, <2>1, <2>2, <2>3
<1>7. CommandStation(w)'
  <2>1. /\ c.what = "create" => job.pc = "room" /\ job.new.room = NoRoom /\ job.new.text = "plain"
        /\ c.what = "link" => job.pc = IF k = "profile" THEN "write" ELSE "adopt"
        /\ c.what = "unlink" => job.pc = "write" /\ job.new.room = NoRoom
        /\ c.what = "delete" => job.pc = "gone"
    BY <1>0 DEF StartsSoundly
  <2>2. w = "widget" => FromWidget(c) /\ job.pc # "again"
    BY <1>2, <2>1
  <2> QED
    BY <1>1, <1>2, <2>1, <2>2 DEF CommandStation
<1>8. Station(w)'
  BY <1>1, <1>3, <1>5, <1>6, <1>7 DEF Station, Live
<1>9. Keep(w)'
  <2> SUFFICES ASSUME n \notin raced
               PROVE  Keep(w)'
    BY <1>1 DEF Keep
  <2>1. \A l \in Kinds : Known(l, n)' <=> Known(l, n)
    BY DEF Known
  <2>2. \A l, m \in Kinds : Known(l, n) /\ Known(m, n) => l = m
    BY <1>0, <1>2 DEF HandlesApart
  <2>3. ~ Taken(n) => \A l \in Kinds : ~ Known(l, n)
    BY DEF Taken
  <2>4. ~ TakenByHosted(n) => \A l \in Kinds \ {"profile"} : ~ Known(l, n)
    BY DEF TakenByHosted, Kinds
  <2>5. CASE c.what = "create"
    <3>1. ~ Taken(n) \/ (k = "profile" /\ Known("profile", n) /\ rec["profile"][n].owner = job.new.owner)
      BY <1>0, <2>5 DEF StartsSoundly
    <3> QED
      BY <1>1, <1>2, <1>3, <2>1, <2>2, <2>3, <2>5, <3>1 DEF Keep
  <2>6. CASE c.what = "link"
    <3>1. \/ ~ TakenByHosted(n) /\ k = "profile" /\ ~ Known("profile", n)
          \/ k = "profile" /\ Known("profile", n) /\ rec["profile"][n].owner = job.new.owner
          \/ ~ Taken(n)
      BY <1>0, <2>6 DEF StartsSoundly
    <3> QED
      BY <1>1, <1>2, <1>3, <2>1, <2>2, <2>3, <2>4, <2>6, <3>1 DEF Keep
  <2>7. CASE c.what = "unlink"
    <3>1. Known(k, n) /\ rec[k][n].owner = job.new.owner
      BY <1>0, <1>2, <2>7 DEF StartsSoundly
    <3> QED
      BY <1>1, <1>2, <1>3, <2>1, <2>2, <2>7, <3>1 DEF Keep
  <2>8. CASE c.what = "delete"
    <3>1. Known(k, n) /\ rec[k][n] = job.new
      BY <1>0, <1>2, <2>8 DEF StartsSoundly
    <3> QED
      BY <1>1, <1>2, <1>3, <2>1, <2>2, <2>8, <3>1 DEF Keep
  <2> QED
    BY <1>2, <2>5, <2>6, <2>7, <2>8
<1>10. House(w)'
  <2>1. \A r : Serves(r)' = Serves(r)
    BY DEF Serves, Known
  <2>2. CASE job.pc \notin {"write", "mods", "push"}
    BY <1>1, <2>2 DEF House
  <2>3. CASE job.pc \in {"write", "mods", "push"} /\ c.what = "link"
    <3>1. k = "profile" /\ Serves(job.new.room) = {}
      BY <1>0, <2>3 DEF StartsSoundly
    <3> QED
      BY <1>1, <2>1, <2>3, <3>1 DEF House
  <2>4. CASE job.pc \in {"write", "mods", "push"} /\ c.what = "unlink"
    <3>1. job.new.room = NoRoom
      BY <1>0, <2>4 DEF StartsSoundly
    <3> QED
      BY <1>1, <2>4, <3>1 DEF House
  <2>5. CASE c.what \in {"create", "delete"}
    BY <1>0, <2>2, <2>5 DEF StartsSoundly
  <2> QED
    BY <1>2, <2>2, <2>3, <2>4, <2>5
<1> QED
  BY <1>8, <1>9, <1>10 DEF Own

\* Steps that leave tables, rooms and the queue alone.
LEMMA StillTables ==
  ASSUME SeatInv, UNCHANGED <<rec, made, text, power, pending>>, raced \subseteq raced', relinked \subseteq relinked'
  PROVE  RoomsSound' /\ HandlesApart' /\ RoomsApart'
<1>1. HandlesApart' /\ RoomsApart'
  BY TablesRest
<1>2. \A i \in DOMAIN pending' : pending'[i].room \in Live
  BY DEF SeatInv, RoomsSound
<1>3. RoomsSound'
  BY <1>2, RoomsRest
<1> QED
  BY <1>1, <1>3

LEMMA AskKeeps ==
  ASSUME SeatInv, NEW c \in Command, Ask(c)
  PROVE  SeatInv'
<1>0. Typed /\ HandsSound
  BY DEF SeatInv
<1>1. Typed'
  BY <1>0, HostedAssumption DEF Ask, Typed
<1>2. UNCHANGED <<rec, made, text, power, pending, run, raced, relinked>>
  BY DEF Ask
<1>3. HandsSound'
  BY <1>0, <1>2 DEF HandsSound, InHand
<1>4. RoomsSound' /\ HandlesApart' /\ RoomsApart'
  BY <1>2, StillTables
<1>5. \A v \in Workers : run[v] # Idle /\ ForEvent(v) => pending # <<>>
  BY DEF SeatInv, TasksKeep, Own, Station, EventStation
<1>6. Moves("nobody")
  BY <1>2, <1>5 DEF Moves
<1> QED
  BY <1>1, <1>3, <1>4, <1>6, Inherits, WorkerFacts

\* A worker with no effect but on its own task.
LEMMA OnlyTask ==
  ASSUME SeatInv, NEW w \in Workers, NEW job \in Work \cup {Idle}, Go(w, job),
         UNCHANGED <<rec, accounts, made, text, power, pending, modsHeard, changes, crashes, relinked>>,
         commands' \in 0..MaxCommands, Remember,
         job # Idle => Own(w)'
  PROVE  SeatInv'
<1>0. Typed
  BY DEF SeatInv
<1>1. run' \in [Workers -> Work \cup {Idle}] /\ run'[w] = job /\ \A v \in Workers : v # w => run'[v] = run[v]
  BY <1>0, GoFacts
<1>2. Typed'
  BY <1>0, <1>1 DEF Typed
<1>3. HandsSound' /\ raced \subseteq raced'
  BY RememberFacts
<1>4. RoomsSound' /\ HandlesApart' /\ RoomsApart'
  BY <1>3, StillTables
<1>5. \A v \in Workers : run[v] # Idle /\ ForEvent(v) => pending # <<>>
  BY DEF SeatInv, TasksKeep, Own, Station, EventStation
<1>6. Moves(w)
  BY <1>1, <1>3, <1>5 DEF Moves
<1> QED
  BY <1>1, <1>2, <1>3, <1>4, <1>6, Inherits

LEMMA BeginKeeps ==
  ASSUME SeatInv, NEW w \in Workers, NEW c \in Command, Begin(w, c)
  PROVE  SeatInv'
<1>0. Typed
  BY DEF SeatInv
<1>1. PICK job \in Started(c) : Go(w, job)
  BY DEF Begin
<1>2. job \in Work
  BY <1>0, StartedFacts DEF StartsSoundly
<1>3. UNCHANGED <<rec, accounts, made, text, power, pending, modsHeard, changes, crashes, relinked>> /\ Remember
  BY DEF Begin
<1>4. commands' \in 0..MaxCommands
  BY <1>0, HostedAssumption DEF Begin, Typed
<1>5. raced \subseteq raced' /\ (w = "widget" => FromWidget(c))
  BY <1>3, RememberFacts DEF Begin
<1>6. Own(w)'
  BY <1>1, <1>3, <1>5, StartedOwn
<1> QED
  BY <1>1, <1>2, <1>3, <1>4, <1>6, OnlyTask

LEMMA RedoKeeps ==
  ASSUME SeatInv, Redo
  PROVE  SeatInv'
<1>0. Typed /\ "chat" \in Workers /\ "chat" # "widget"
  BY WorkerFacts DEF SeatInv
<1>1. run["chat"] # Idle /\ run["chat"].pc = "again" /\ Own("chat")
  BY <1>0 DEF Redo, At, SeatInv, TasksKeep
<1>2. run["chat"].cmd \in Command
  BY <1>1, NothingAssumption DEF Own, Station, EventStation, CommandStation
<1>3. UNCHANGED <<rec, accounts, made, text, power, pending, modsHeard, commands, changes, crashes, relinked>> /\ Remember
  BY DEF Redo
<1>4. commands' \in 0..MaxCommands /\ raced \subseteq raced'
  BY <1>0, <1>3, RememberFacts DEF Typed
<1>5. CASE Go("chat", Idle)
  BY <1>0, <1>3, <1>4, <1>5, OnlyTask
<1>6. CASE \E job \in Started(run["chat"].cmd) : Go("chat", job)
  <2>1. PICK job \in Started(run["chat"].cmd) : Go("chat", job)
    BY <1>6
  <2>2. job \in Work
    BY <1>0, <1>2, StartedFacts DEF StartsSoundly
  <2>3. Own("chat")'
    BY <1>0, <1>2, <1>3, <1>4, <2>1, StartedOwn
  <2> QED
    BY <1>0, <1>3, <1>4, <2>1, <2>2, <2>3, OnlyTask
<1> QED
  BY <1>5, <1>6 DEF Redo

-----------------------------------------------------------------------------
(* Tasks that go on. *)

\* Where a task stands, from the invariant.
LEMMA Stand ==
  ASSUME SeatInv, NEW w \in Workers, run[w] # Idle
  PROVE  /\ Typed /\ Own(w)
         /\ ForEvent(w) => w = "chat" /\ pending # <<>> /\ run[w].pc \in {"write", "push", "mods"} /\ EventStation(w)
         /\ ~ ForEvent(w) => CommandStation(w)
         /\ ForEvent(w) => \A v \in Workers : v # w /\ run[v] # Idle => ~ ForEvent(v)
<1>1. Typed /\ \A v \in Workers : run[v] # Idle => Own(v)
  BY DEF SeatInv, TasksKeep
<1>2. \A v \in Workers : run[v] # Idle /\ ForEvent(v) => v = "chat"
  BY <1>1 DEF Own, Station, EventStation
<1> QED
  BY <1>1, <1>2 DEF Own, Station, EventStation

LEMMA MakeRoomKeeps ==
  ASSUME SeatInv, NEW w \in Workers, MakeRoom(w)
  PROVE  SeatInv'
<1> DEFINE j == run[w]
<1>0. Typed /\ RoomsSound /\ HandsSound /\ j # Idle /\ j.pc = "room" /\ j \in Work /\ ~ ForEvent(w) /\ CommandStation(w) /\ Keep(w)
  BY Stand, NothingFacts DEF MakeRoom, At, SeatInv, Own
<1>1. PICK r \in NewRooms \ made : /\ made' = made \cup {r} /\ power' = [power EXCEPT ![r] = {j.cmd.user}]
                                   /\ Go(w, [j EXCEPT !.new.room = r, !.pc = "write"])
  BY DEF MakeRoom
<1> DEFINE job == [j EXCEPT !.new.room = r, !.pc = "write"]
<1>2. /\ j.new \in Record /\ j.cmd \in Command /\ r \in Rooms /\ r # NoRoom /\ r \notin OldRooms
      /\ j.name \in Handles /\ j.kind \in Kinds
  BY <1>0, HostedAssumption DEF Work, CommandStation, Rooms
<1>3. /\ job.cmd = j.cmd /\ job.kind = j.kind /\ job.name = j.name /\ job.pc = "write"
      /\ job.new.room = r /\ job.new.owner = j.new.owner /\ job.new \in Record
  BY <1>0, <1>2 DEF Work, Record
<1>4. job \in Work
  BY <1>0, <1>2, <1>3 DEF Work
<1>5. run' \in [Workers -> Work \cup {Idle}] /\ run'[w] = job /\ \A v \in Workers : v # w => run'[v] = run[v]
  BY <1>0, <1>1, <1>4, GoFacts
<1>6. /\ UNCHANGED <<rec, accounts, text, pending, modsHeard, commands, changes, crashes, relinked>>
      /\ HandsSound' /\ raced \subseteq raced' /\ made \subseteq made' /\ r \in made'
  BY <1>1, RememberFacts DEF MakeRoom
<1>7. Typed'
  <2>1. j.cmd.user \in Users /\ power' \in [Rooms -> SUBSET Users]
    BY <1>0, <1>1, <1>2, CommandFacts DEF Typed
  <2> QED
    BY <1>0, <1>1, <1>5, <1>6, <2>1 DEF Typed
<1>8. RoomsSound'
  <2>1. \A q \in NewRooms \ made' : power'[q] = power[q] /\ text'[q] = text[q]
    BY <1>0, <1>1, <1>2, <1>6 DEF Typed, Rooms
  <2>2. \A i \in DOMAIN pending' : pending'[i].room \in Live
    BY <1>0, <1>6 DEF RoomsSound
  <2> QED
    BY <1>6, <2>1, <2>2, RoomsRest
<1>9. HandlesApart' /\ RoomsApart'
  BY <1>6, TablesRest
<1>10. Moves(w)
  <2>1. \A v \in Workers : run[v] # Idle /\ ForEvent(v) => pending # <<>>
    BY Stand
  <2> QED
    BY <1>5, <1>6, <2>1 DEF Moves
<1>11. ~ ForEvent(w)' /\ (Linking(w)' <=> Linking(w)) /\ ~ Linking(w)
  BY <1>0, <1>3, <1>5 DEF ForEvent, Linking, CommandStation
<1>12. Station(w)'
  <2>1. job.new.room \in Live'
    BY <1>3, <1>6 DEF Live
  <2>2. CommandStation(w)'
    BY <1>0, <1>3, <1>5, <1>6 DEF CommandStation
  <2> QED
    BY <1>2, <1>3, <1>5, <1>11, <2>1, <2>2 DEF Station
<1>13. Keep(w)'
  <2>1. \A l \in Kinds, n \in Handles : Known(l, n)' <=> Known(l, n)
    BY <1>6 DEF Known
  <2> QED
    BY <1>0, <1>2, <1>3, <1>5, <1>6, <1>11, <2>1 DEF Keep
<1>14. House(w)'
  <2>1. Serves(r)' = {}
    <3>1. Serves(r)' = Serves(r)
      BY <1>6 DEF Serves, Known
    <3>2. r \notin Live
      BY <1>1, <1>2 DEF Live
    <3> QED
      BY <1>0, <3>1, <3>2 DEF Serves, RoomsSound
  <2> QED
    BY <1>3, <1>5, <2>1 DEF House
<1> QED
  BY <1>6, <1>7, <1>8, <1>9, <1>10, <1>12, <1>13, <1>14, Inherits DEF Own

LEMMA NoRoomMadeKeeps ==
  ASSUME SeatInv, NEW w \in Workers, NoRoomMade(w)
  PROVE  SeatInv'
<1>1. Typed /\ Go(w, Idle) /\ Remember
      /\ UNCHANGED <<rec, accounts, made, text, power, pending, modsHeard, commands, changes, crashes, relinked>>
  BY DEF NoRoomMade, SeatInv
<1>2. commands' \in 0..MaxCommands
  BY <1>1 DEF Typed
<1> QED
  BY <1>1, <1>2, OnlyTask

\* A task that goes on with what it holds is as sound as it was.
LEMMA OwnGoesOn ==
  ASSUME SeatInv, NEW w \in Workers, run[w] # Idle, NEW job \in Work, Go(w, job),
         NEW k \in Kinds, NEW n \in Handles, run[w].kind = k, run[w].name = n,
         job.cmd = run[w].cmd, job.kind = k, job.name = n,
         job.new.room = run[w].new.room, job.new.owner = run[w].new.owner,
         run[w].pc \notin {"again", "room"},
         \A l \in Kinds \ {k} : rec'[l][n] = rec[l][n],
         n \notin raced' =>
           /\ Known(k, n)' <=> Known(k, n)
           /\ Known(k, n) =>
                /\ rec'[k][n].owner = rec[k][n].owner
                /\ ForEvent(w) => rec'[k][n].room = rec[k][n].room,
         made \subseteq made', raced \subseteq raced',
         EventStation(w)' \/ ~ ForEvent(w), CommandStation(w)' \/ ForEvent(w)
  PROVE  Station(w)' /\ Keep(w)'
<1>0. Typed /\ Station(w) /\ Keep(w)
  BY Stand DEF Own
<1>1. run'[w] = job /\ Live \subseteq Live'
  BY <1>0, GoFacts DEF Live
<1>2. (ForEvent(w)' <=> ForEvent(w))
  BY <1>1 DEF ForEvent
<1>3. Station(w)'
  BY <1>0, <1>1, <1>2 DEF Station
<1>4. Keep(w)'
  <2>1. \A l \in Kinds \ {k} : Known(l, n)' <=> Known(l, n)
    BY DEF Known
  <2> QED
    BY <1>0, <1>1, <1>2, <2>1 DEF Keep
<1> QED
  BY <1>3, <1>4

LEMMA AdoptKeeps ==
  ASSUME SeatInv, NEW w \in Workers, Adopt(w)
  PROVE  SeatInv'
<1> DEFINE j == run[w]
<1>0. Typed /\ j # Idle /\ j.pc = "adopt" /\ j \in Work /\ ~ ForEvent(w) /\ CommandStation(w)
  BY Stand, NothingFacts DEF Adopt, At
<1>1. /\ UNCHANGED <<rec, accounts, made, text, power, pending, modsHeard, commands, changes, crashes, relinked>>
      /\ Remember /\ raced \subseteq raced' /\ commands' \in 0..MaxCommands
  BY <1>0, RememberFacts DEF Adopt, Typed
<1>2. \E t \in Texts : Go(w, [j EXCEPT !.new.text = t, !.pc = "write"])
  <2>1. CASE Go(w, [j EXCEPT !.new.text = text[j.new.room], !.pc = "write"])
    <3>1. j.new.room # NoRoom /\ j.kind \in Hosted
      <4>1. Station(w) /\ j.kind # "profile" /\ j.kind \in Kinds
        BY <1>0, Stand DEF Own, CommandStation, Work
      <4> QED
        BY <1>0, <4>1 DEF Station, Kinds
    <3>2. text[j.new.room] \in Texts
      BY <1>0, <3>1, TaskFacts DEF Typed
    <3> QED
      BY <2>1, <3>2
  <2>2. CASE Step(w, "write")
    <3>1. j.new.text \in Texts /\ [j EXCEPT !.new.text = j.new.text, !.pc = "write"] = [j EXCEPT !.pc = "write"]
      BY <1>0 DEF Work, Record
    <3> QED
      BY <2>2, <3>1 DEF Step
  <2> QED
    BY <2>1, <2>2 DEF Adopt
<1>3. PICK t \in Texts : Go(w, [j EXCEPT !.new.text = t, !.pc = "write"])
  BY <1>2
<1> DEFINE job == [j EXCEPT !.new.text = t, !.pc = "write"]
<1>4. /\ job \in Work /\ job.cmd = j.cmd /\ job.kind = j.kind /\ job.name = j.name /\ job.pc = "write"
      /\ job.new.room = j.new.room /\ job.new.owner = j.new.owner
  BY <1>0 DEF Work, Record
<1>5. run'[w] = job
  BY <1>0, <1>3, <1>4, GoFacts
<1>6. CommandStation(w)'
  BY <1>0, <1>1, <1>4, <1>5 DEF CommandStation
<1>7. \A l \in Kinds, n \in Handles : Known(l, n)' <=> Known(l, n)
  BY <1>1 DEF Known
<1>8. j.name \in Handles /\ j.kind \in Kinds
  BY <1>0 DEF Work
<1>9. Station(w)' /\ Keep(w)'
  BY <1>0, <1>1, <1>3, <1>4, <1>6, <1>7, <1>8, OwnGoesOn
<1>10. House(w)'
  <2>1. j.cmd.what = "link" /\ j.kind # "profile"
    BY <1>0 DEF CommandStation, Command
  <2>2. ~ ForEvent(w)' /\ Linking(w)'
    BY <1>0, <1>4, <1>5, <2>1 DEF ForEvent, Linking
  <2> QED
    BY <1>4, <1>5, <2>1, <2>2 DEF House
<1> QED
  BY <1>1, <1>3, <1>4, <1>9, <1>10, OnlyTask DEF Own

\* The end of a task takes its event from the queue, nobody else's.
LEMMA EndFacts ==
  ASSUME SeatInv, NEW w \in Workers, run[w] # Idle, End(w)
  PROVE  /\ run' \in [Workers -> Work \cup {Idle}] /\ run'[w] = Idle
         /\ \A v \in Workers : v # w => run'[v] = run[v]
         /\ pending' \in Seq(Event) /\ \A i \in DOMAIN pending' : pending'[i].room \in Live
         /\ \A v \in Workers : v # w /\ run[v] # Idle /\ ForEvent(v) =>
              pending' # <<>> /\ Head(pending') = Head(pending)
<1>0. Typed /\ RoomsSound /\ Go(w, Idle) /\ pending \in Seq(Event)
  BY DEF End, SeatInv, Typed
<1>1. run' \in [Workers -> Work \cup {Idle}] /\ run'[w] = Idle /\ \A v \in Workers : v # w => run'[v] = run[v]
  BY <1>0, GoFacts
<1>2. CASE ForEvent(w)
  <2>1. pending' = Tail(pending) /\ pending # <<>>
    BY <1>2, Stand DEF End
  <2>2. pending' \in Seq(Event) /\ \A i \in DOMAIN pending' : i + 1 \in DOMAIN pending /\ pending'[i] = pending[i + 1]
    BY <1>0, <2>1, TailFacts
  <2>3. \A i \in DOMAIN pending' : pending'[i].room \in Live
    BY <1>0, <2>2 DEF RoomsSound
  <2>4. \A v \in Workers : v # w /\ run[v] # Idle => ~ ForEvent(v)
    BY <1>2, Stand
  <2> QED
    BY <1>1, <2>2, <2>3, <2>4
<1>3. CASE ~ ForEvent(w)
  <2>1. pending' = pending
    BY <1>3 DEF End
  <2>2. \A i \in DOMAIN pending' : pending'[i].room \in Live
    BY <1>0, <2>1 DEF RoomsSound
  <2>3. \A v \in Workers : v # w /\ run[v] # Idle /\ ForEvent(v) => pending' # <<>> /\ Head(pending') = Head(pending)
    BY <2>1, Stand
  <2> QED
    BY <1>0, <1>1, <2>1, <2>2, <2>3
<1> QED
  BY <1>2, <1>3

\* A step with its effect on one record, none on the rooms.
LEMMA TaskGoesOn ==
  ASSUME SeatInv, NEW w \in Workers, run[w] # Idle, Remember, Typed',
         UNCHANGED <<made, text, power>>, relinked \subseteq relinked',
         \A v \in Workers : v # w => run'[v] = run[v],
         \A k \in Kinds, n \in Handles : rec'[k][n] # rec[k][n] =>
            n = run[w].name /\ (rec'[k][n] = NoRecord \/ rec'[k][n].room \in {NoRoom, run[w].new.room}),
         \A i \in DOMAIN pending' : pending'[i].room \in Live,
         \A v \in Workers : v # w /\ run[v] # Idle /\ ForEvent(v) => pending' # <<>> /\ Head(pending') = Head(pending),
         \A k \in Kinds, n \in Handles : rec'[k][n] # NoRecord =>
           \/ rec'[k][n] = rec[k][n]
           \/ rec'[k][n].room \in Live /\ (k \in Hosted => rec'[k][n].room # NoRoom),
         HandlesApart', RoomsApart',
         run'[w] # Idle => Own(w)'
  PROVE  SeatInv'
<1>1. HandsSound' /\ raced \subseteq raced'
  BY RememberFacts
<1>2. RoomsSound'
  BY RoomsRest
<1>3. Moves(w)
  BY <1>1 DEF Moves
<1> QED
  BY <1>1, <1>2, <1>3, Inherits

LEMMA WriteKeeps ==
  ASSUME SeatInv, NEW w \in Workers, Write(w)
  PROVE  SeatInv'
<1> DEFINE j == run[w]
<1>0. /\ Typed /\ HandlesApart /\ RoomsApart /\ j # Idle /\ j.pc = "write" /\ j \in Work /\ Own(w)
      /\ j.new \in Record /\ j.new.room \in Live
  BY Stand, TaskFacts DEF Write, At, Own, Station, SeatInv
<1>1. PICK k \in Kinds, n \in Handles, r \in Live : k = j.kind /\ n = j.name /\ r = j.new.room
  BY <1>0, TaskFacts
<1>2. /\ UNCHANGED <<accounts, made, text, power, commands, changes, crashes>>
      /\ Remember /\ raced \subseteq raced' /\ HandsSound'
  BY RememberFacts DEF Write
<1>3. CASE Clashes(k, n, r)
  <2>1. End(w) /\ UNCHANGED <<rec, modsHeard, relinked>>
    BY <1>1, <1>3 DEF Write
  <2>2. Typed'
    BY <1>0, <1>2, <2>1, EndFacts DEF Typed
  <2>3. HandlesApart' /\ RoomsApart'
    BY <1>2, <2>1, TablesRest
  <2> QED
    BY <1>0, <1>2, <2>1, <2>2, <2>3, EndFacts, TaskGoesOn
<1>4. CASE ~ Clashes(k, n, r)
  <2>1. /\ rec' = [rec EXCEPT ![k][n] = j.new]
        /\ relinked' = IF Linking(w) /\ k # "profile" /\ Serves(r) # {} THEN relinked \cup {r} ELSE relinked
        /\ modsHeard' = modsHeard \/ modsHeard' = [modsHeard EXCEPT ![n] = j.new.mods]
        /\ \/ ForEvent(w) /\ Head(pending).what = "text" /\ Step(w, "push") /\ UNCHANGED pending
           \/ End(w)
    BY <1>1, <1>4 DEF Write
  <2>2. /\ rec'[k][n] = j.new /\ j.new # NoRecord
        /\ \A l \in Kinds, m \in Handles : l # k \/ m # n => rec'[l][m] = rec[l][m]
        /\ rec' \in [Kinds -> [Handles -> Record \cup {NoRecord}]]
    BY <1>0, <2>1, NothingFacts DEF Typed
  <2>3. modsHeard' \in [Handles -> SUBSET Handles]
    BY <1>0, <2>1 DEF Typed, Record
  <2>4. /\ run' \in [Workers -> Work \cup {Idle}] /\ \A v \in Workers : v # w => run'[v] = run[v]
        /\ pending' \in Seq(Event) /\ \A i \in DOMAIN pending' : pending'[i].room \in Live
        /\ \A v \in Workers : v # w /\ run[v] # Idle /\ ForEvent(v) => pending' # <<>> /\ Head(pending') = Head(pending)
    <3>1. CASE End(w)
      BY <1>0, <3>1, EndFacts
    <3>2. CASE ForEvent(w) /\ Step(w, "push") /\ UNCHANGED pending
      <4>1. run' \in [Workers -> Work \cup {Idle}] /\ \A v \in Workers : v # w => run'[v] = run[v]
        BY <1>0, <3>2, StepFacts
      <4>2. pending' \in Seq(Event) /\ \A i \in DOMAIN pending' : pending'[i].room \in Live
        BY <1>0, <3>2 DEF SeatInv, RoomsSound, Typed
      <4>3. \A v \in Workers : v # w /\ run[v] # Idle => ~ ForEvent(v)
        BY <1>0, <3>2, Stand
      <4> QED
        BY <4>1, <4>2, <4>3
    <3> QED
      BY <2>1, <3>1, <3>2
  <2>5. Typed'
    BY <1>0, <1>2, <2>2, <2>3, <2>4 DEF Typed
  <2>6. n \notin raced' => \A l \in Kinds \ {k} : ~ Known(l, n)
    BY <1>0, <1>1, <1>2 DEF Own, Keep
  <2>7. HandlesApart'
    <3> SUFFICES ASSUME NEW m \in Handles \ raced', NEW l \in Kinds, NEW q \in Kinds, Known(l, m)', Known(q, m)'
                 PROVE  l = q
      BY DEF HandlesApart
    <3>1. CASE m = n
      <4>1. \A x \in Kinds \ {k} : ~ Known(x, n)'
        BY <2>2, <2>6, <3>1 DEF Known
      <4> QED
        BY <3>1, <4>1
    <3>2. CASE m # n
      <4>1. Known(l, m) /\ Known(q, m)
        BY <2>2, <3>2 DEF Known
      <4> QED
        BY <1>0, <1>2, <4>1 DEF HandlesApart
    <3> QED
      BY <3>1, <3>2
  <2>8. \A q \in Rooms : Serves(q)' \subseteq Serves(q) \cup (IF q = r THEN {<<k, n>>} ELSE {})
    BY <1>1, <2>2 DEF Serves, Known
  <2>9. r # NoRoom /\ r \notin raced' \cup relinked' => Serves(r) \subseteq {<<k, n>>}
    <3> SUFFICES ASSUME r # NoRoom, r \notin raced' \cup relinked'
                 PROVE  Serves(r) \subseteq {<<k, n>>}
      OBVIOUS
    <3>1. r \notin raced \cup relinked
      BY <1>2, <2>1
    <3>2. CASE Linking(w) /\ k # "profile"
      BY <2>1, <3>2
    <3>3. CASE ~ (Linking(w) /\ k # "profile")
      BY <1>0, <1>1, <3>1, <3>3 DEF Own, House
    <3> QED
      BY <3>2, <3>3
  <2>10. relinked \subseteq relinked'
    BY <2>1
  <2>11. RoomsApart'
    <3> SUFFICES ASSUME NEW q \in Rooms, q \notin raced' \cup relinked', NEW x \in Serves(q)', NEW y \in Serves(q)'
                 PROVE  x = y
      BY DEF RoomsApart
    <3>1. CASE q = r
      BY <2>8, <2>9, <3>1, HostedAssumption
    <3>2. CASE q # r
      BY <1>0, <1>2, <2>8, <2>10, <3>2 DEF RoomsApart
    <3> QED
      BY <3>1, <3>2
  <2>12. r \in Live /\ (k \in Hosted => r # NoRoom)
    BY <1>0, <1>1 DEF Own, Station
  <2>13. run'[w] # Idle => Own(w)'
    <3> SUFFICES ASSUME run'[w] # Idle
                 PROVE  Own(w)'
      OBVIOUS
    <3>1. ForEvent(w) /\ Head(pending).what = "text" /\ Step(w, "push") /\ UNCHANGED pending
      BY <1>0, <2>1, EndFacts
    <3>2. /\ run'[w] \in Work /\ run'[w].cmd = j.cmd /\ run'[w].kind = k /\ run'[w].name = n
          /\ run'[w].new = j.new /\ run'[w].pc = "push" /\ Go(w, run'[w])
          /\ ForEvent(w)' /\ ~ Linking(w)'
      <4>1. /\ run'[w] \in Work /\ run'[w].cmd = j.cmd /\ run'[w].kind = j.kind /\ run'[w].name = j.name
            /\ run'[w].new = j.new /\ run'[w].pc = "push" /\ ForEvent(w)'
        BY <1>0, <3>1, StepFacts
      <4>2. Go(w, run'[w])
        BY <1>0, <3>1, StepFacts DEF Step, Go, Typed
      <4> QED
        BY <1>1, <4>1, <4>2 DEF Linking, ForEvent
    <3>3. EventStation(w) /\ Keep(w)
      BY <1>0, <3>1, Stand DEF Own
    <3>4. EventStation(w)'
      BY <3>1, <3>2, <3>3 DEF EventStation
    <3>5. n \notin raced' => Known(k, n) /\ rec[k][n].owner = j.new.owner /\ rec[k][n].room = j.new.room
      BY <1>0, <1>1, <1>2, <3>1, <3>3 DEF Keep
    <3>6. Known(k, n)'
      BY <2>2 DEF Known
    <3>7. Station(w)' /\ Keep(w)'
      BY <1>0, <1>1, <1>2, <2>2, <3>1, <3>2, <3>4, <3>5, <3>6, OwnGoesOn
    <3>8. House(w)'
      <4>1. r # NoRoom => r \in Rooms
        BY <1>0, <1>1, TaskFacts
      <4>2. r # NoRoom /\ r \notin raced' \cup relinked' => Serves(r)' \subseteq {<<k, n>>}
        BY <2>8, <2>9, <4>1
      <4> QED
        BY <1>1, <3>2, <4>2 DEF House
    <3> QED
      BY <3>7, <3>8 DEF Own
  <2> QED
    BY <1>0, <1>1, <1>2, <2>2, <2>4, <2>5, <2>7, <2>10, <2>11, <2>12, <2>13, TaskGoesOn
<1> QED
  BY <1>3, <1>4

-----------------------------------------------------------------------------
(* Deletion. *)

LEMMA ToldKeeps ==
  ASSUME SeatInv, NEW w \in Workers, At(w, "gone"), NEW p \in {"detach", "rename"}, Told(w, p),
         p = "detach" => run[w].kind = "profile"
  PROVE  SeatInv'
<1> DEFINE j == run[w]
<1>0. /\ Typed /\ j # Idle /\ j.pc = "gone" /\ Own(w) /\ j.name \in Handles /\ j.kind \in Kinds
      /\ ~ ForEvent(w) /\ CommandStation(w)
  BY Stand, TaskFacts DEF At
<1>1. /\ UNCHANGED <<rec, accounts, made, text, power, pending, modsHeard, commands, changes, crashes, relinked>>
      /\ Remember /\ raced \subseteq raced' /\ commands' \in 0..MaxCommands /\ Step(w, p)
  BY <1>0, RememberFacts DEF Told, Typed
<1>2. /\ run'[w] \in Work /\ run'[w].cmd = j.cmd /\ run'[w].kind = j.kind /\ run'[w].name = j.name
      /\ run'[w].new = j.new /\ run'[w].pc = p /\ ~ ForEvent(w)' /\ (Linking(w)' <=> Linking(w))
  BY <1>0, <1>1, StepFacts
<1>3. Go(w, run'[w])
  BY <1>0, <1>1, StepFacts DEF Step, Go, Typed
<1>4. CommandStation(w)'
  BY <1>0, <1>1, <1>2 DEF CommandStation, Command
<1>5. \A l \in Kinds, n \in Handles : Known(l, n)' <=> Known(l, n)
  BY <1>1 DEF Known
<1>6. Station(w)' /\ Keep(w)'
  BY <1>0, <1>1, <1>2, <1>3, <1>4, <1>5, OwnGoesOn
<1>7. House(w)'
  BY <1>2 DEF House
<1> QED
  BY <1>1, <1>2, <1>3, <1>6, <1>7, OnlyTask DEF Own

LEMMA TellGoneKeeps ==
  ASSUME SeatInv, NEW w \in Workers, TellProfileGone(w) \/ TellHostedGone(w)
  PROVE  SeatInv'
<1>1. CASE TellProfileGone(w)
  BY <1>1, ToldKeeps DEF TellProfileGone
<1>2. CASE TellHostedGone(w)
  BY <1>2, ToldKeeps DEF TellHostedGone
<1> QED
  BY <1>1, <1>2

LEMMA DetachKeeps ==
  ASSUME SeatInv, NEW w \in Workers, Detach(w)
  PROVE  SeatInv'
<1> DEFINE j == run[w]
           new == [j.new EXCEPT !.room = NoRoom]
<1>0. /\ Typed /\ j # Idle /\ j.pc = "detach" /\ Own(w) /\ j.new \in Record
      /\ ~ ForEvent(w) /\ CommandStation(w) /\ j.kind = "profile" /\ j.cmd.what = "delete"
  BY Stand, TaskFacts DEF Detach, At, CommandStation, Command
<1>1. PICK n \in Handles : n = j.name
  BY <1>0, TaskFacts
<1>2. /\ UNCHANGED <<accounts, made, text, power, pending, modsHeard, commands, changes, crashes, relinked>>
      /\ Remember /\ raced \subseteq raced' /\ Step(w, "rename")
      /\ rec' = [rec EXCEPT !["profile"][n] = new]
  BY <1>1, RememberFacts DEF Detach
<1>3. new \in Record /\ new.room = NoRoom /\ new.owner = j.new.owner /\ new # NoRecord
  BY <1>0, NothingAssumption DEF Record
<1>4. /\ rec'["profile"][n] = new /\ "profile" \in Kinds /\ "profile" \notin Hosted
      /\ \A l \in Kinds, m \in Handles : l # "profile" \/ m # n => rec'[l][m] = rec[l][m]
      /\ rec' \in [Kinds -> [Handles -> Record \cup {NoRecord}]]
  BY <1>0, <1>2, <1>3 DEF Typed, Kinds, Hosted
<1>5. /\ run' \in [Workers -> Work \cup {Idle}] /\ \A v \in Workers : v # w => run'[v] = run[v]
      /\ run'[w] \in Work /\ run'[w].cmd = j.cmd /\ run'[w].kind = "profile" /\ run'[w].name = n
      /\ run'[w].new = j.new /\ run'[w].pc = "rename" /\ ~ ForEvent(w)' /\ (Linking(w)' <=> Linking(w))
  BY <1>0, <1>1, <1>2, StepFacts
<1>6. Go(w, run'[w])
  BY <1>0, <1>2, StepFacts DEF Step, Go, Typed
<1>7. Typed'
  BY <1>0, <1>2, <1>4, <1>5 DEF Typed
<1>8. n \notin raced' => Known("profile", n) /\ rec["profile"][n].owner = j.new.owner
  BY <1>0, <1>1, <1>2 DEF Own, Keep
<1>9. HandlesApart' /\ RoomsApart'
  BY <1>2, <1>3, <1>4, <1>8, TablesRest
<1>10. Station(w)' /\ Keep(w)'
  <2>1. CommandStation(w)'
    BY <1>0, <1>1, <1>5 DEF CommandStation
  <2>2. Known("profile", n)'
    BY <1>3, <1>4 DEF Known
  <2> QED
    BY <1>0, <1>1, <1>2, <1>3, <1>4, <1>5, <1>6, <1>8, <2>1, <2>2, OwnGoesOn
<1>11. House(w)'
  BY <1>5 DEF House
<1>12. \A i \in DOMAIN pending' : pending'[i].room \in Live
  BY <1>2 DEF SeatInv, RoomsSound
<1>13. \A v \in Workers : v # w /\ run[v] # Idle /\ ForEvent(v) => pending' # <<>> /\ Head(pending') = Head(pending)
  BY <1>2, Stand
<1>14. NoRoom \in Live
  BY DEF Live
<1> QED
  BY <1>0, <1>1, <1>2, <1>3, <1>4, <1>5, <1>7, <1>9, <1>10, <1>11, <1>12, <1>13, <1>14, TaskGoesOn DEF Own

\* An event more in the queue.
LEMMA QueueGrows ==
  ASSUME SeatInv, NEW e \in Event, e.room \in Live, pending' = Append(pending, e)
  PROVE  /\ pending' \in Seq(Event) /\ \A i \in DOMAIN pending' : pending'[i].room \in Live
         /\ pending # <<>> => pending' # <<>> /\ Head(pending') = Head(pending)
<1>1. pending \in Seq(Event) /\ \A i \in DOMAIN pending : pending[i].room \in Live
  BY DEF SeatInv, Typed, RoomsSound
<1> QED
  BY <1>1, AppendFacts

LEMMA RenameKeeps ==
  ASSUME SeatInv, NEW w \in Workers, Rename(w)
  PROVE  SeatInv'
<1> DEFINE j == run[w]
           r == run[w].new.room
<1>0. /\ Typed /\ j # Idle /\ j.pc = "rename" /\ Own(w) /\ r \in Live
      /\ ~ ForEvent(w) /\ CommandStation(w) /\ j.name \in Handles /\ j.kind \in Kinds
  BY Stand, TaskFacts DEF Rename, At, Own, Station
<1>1. /\ UNCHANGED <<rec, accounts, made, power, modsHeard, commands, changes, crashes, relinked>>
      /\ Remember /\ raced \subseteq raced' /\ HandsSound' /\ Step(w, "erase")
  BY RememberFacts DEF Rename
<1>2. /\ text' \in [Rooms -> Texts] /\ pending' \in Seq(Event) /\ \A i \in DOMAIN pending' : pending'[i].room \in Live
      /\ \A q \in NewRooms \ made : text'[q] = text[q]
      /\ pending # <<>> => pending' # <<>> /\ Head(pending') = Head(pending)
  <2>1. CASE UNCHANGED <<text, pending>>
    BY <1>0, <2>1 DEF SeatInv, RoomsSound, Typed
  <2>2. CASE /\ r # NoRoom /\ text' = [text EXCEPT ![r] = "deleted"]
             /\ pending' = Append(pending, [what |-> "text", room |-> r, text |-> "deleted", up |-> {}, down |-> {}])
    <3>1. r \in Rooms /\ r \notin NewRooms \ made /\ made \subseteq NewRooms
      BY <1>0, <2>2, HostedAssumption DEF Live, Typed, Rooms
    <3>2. [what |-> "text", room |-> r, text |-> "deleted", up |-> {}, down |-> {}] \in Event
      BY <3>1 DEF Event, Texts
    <3>3. /\ pending' \in Seq(Event) /\ \A i \in DOMAIN pending' : pending'[i].room \in Live
          /\ pending # <<>> => pending' # <<>> /\ Head(pending') = Head(pending)
      BY <1>0, <2>2, <3>2, QueueGrows
    <3>4. text' \in [Rooms -> Texts] /\ \A q \in NewRooms \ made : text'[q] = text[q]
      BY <1>0, <2>2, <3>1 DEF Typed, Texts, Rooms
    <3> QED
      BY <3>3, <3>4
  <2> QED
    BY <2>1, <2>2 DEF Rename
<1>3. /\ run' \in [Workers -> Work \cup {Idle}] /\ \A v \in Workers : v # w => run'[v] = run[v]
      /\ run'[w] \in Work /\ run'[w].cmd = j.cmd /\ run'[w].kind = j.kind /\ run'[w].name = j.name
      /\ run'[w].new = j.new /\ run'[w].pc = "erase" /\ ~ ForEvent(w)' /\ (Linking(w)' <=> Linking(w))
  BY <1>0, <1>1, StepFacts
<1>4. Go(w, run'[w])
  BY <1>0, <1>1, StepFacts DEF Step, Go, Typed
<1>5. Typed'
  BY <1>0, <1>1, <1>2, <1>3 DEF Typed
<1>6. HandlesApart' /\ RoomsApart'
  BY <1>1, TablesRest
<1>7. RoomsSound'
  BY <1>1, <1>2, RoomsRest
<1>8. Station(w)' /\ Keep(w)'
  <2>1. CommandStation(w)'
    BY <1>0, <1>1, <1>3 DEF CommandStation, Command
  <2>2. \A l \in Kinds, n \in Handles : Known(l, n)' <=> Known(l, n)
    BY <1>1 DEF Known
  <2> QED
    BY <1>0, <1>1, <1>3, <1>4, <2>1, <2>2, OwnGoesOn
<1>9. House(w)'
  BY <1>3 DEF House
<1>10. Moves(w)
  <2>1. \A v \in Workers : run[v] # Idle /\ ForEvent(v) => pending # <<>>
    BY Stand
  <2> QED
    BY <1>1, <1>2, <1>3, <2>1 DEF Moves
<1> QED
  BY <1>1, <1>5, <1>6, <1>7, <1>8, <1>9, <1>10, Inherits DEF Own

LEMMA EraseKeeps ==
  ASSUME SeatInv, NEW w \in Workers, Erase(w)
  PROVE  SeatInv'
<1> DEFINE j == run[w]
<1>0. Typed /\ j # Idle
  BY Stand DEF Erase, At
<1>1. PICK k \in Kinds, n \in Handles : k = j.kind /\ n = j.name
  BY <1>0, TaskFacts
<1>2. /\ UNCHANGED <<accounts, made, text, power, pending, modsHeard, commands, changes, crashes, relinked>>
      /\ Remember /\ raced \subseteq raced' /\ Go(w, Idle)
      /\ rec' = [rec EXCEPT ![k][n] = NoRecord]
  BY <1>1, RememberFacts DEF Erase
<1>3. /\ rec'[k][n] = NoRecord /\ \A l \in Kinds, m \in Handles : l # k \/ m # n => rec'[l][m] = rec[l][m]
      /\ rec' \in [Kinds -> [Handles -> Record \cup {NoRecord}]]
  BY <1>0, <1>2 DEF Typed
<1>4. /\ run' \in [Workers -> Work \cup {Idle}] /\ run'[w] = Idle /\ \A v \in Workers : v # w => run'[v] = run[v]
  BY <1>0, <1>2, GoFacts
<1>5. Typed'
  BY <1>0, <1>2, <1>3, <1>4 DEF Typed
<1>6. HandlesApart' /\ RoomsApart'
  BY <1>2, <1>3, TablesRest
<1>7. \A i \in DOMAIN pending' : pending'[i].room \in Live
  BY <1>2 DEF SeatInv, RoomsSound
<1>8. \A v \in Workers : v # w /\ run[v] # Idle /\ ForEvent(v) => pending' # <<>> /\ Head(pending') = Head(pending)
  BY <1>2, Stand
<1> QED
  BY <1>0, <1>1, <1>2, <1>3, <1>4, <1>5, <1>6, <1>7, <1>8, TaskGoesOn

-----------------------------------------------------------------------------
(* State events. *)

LEMMA EventTaskFacts ==
  ASSUME NEW k \in Kinds, NEW n \in Handles, NEW new \in Record, NEW p \in {"write", "mods"}
  PROVE  /\ Job(NoRecord, k, n, new, p) \in Work
         /\ Job(NoRecord, k, n, new, p).cmd = NoRecord /\ Job(NoRecord, k, n, new, p).kind = k
         /\ Job(NoRecord, k, n, new, p).name = n /\ Job(NoRecord, k, n, new, p).new = new
         /\ Job(NoRecord, k, n, new, p).pc = p
BY DEF Job, Work

\* What the handling of an event starts with.
LEMMA EventJobFacts ==
  ASSUME Typed, NEW e \in Event, NEW job,
         job \in (IF e.what = "text" THEN TextJob(e) ELSE PowerJob(e))
  PROVE  /\ job \in Work /\ job.cmd = NoRecord /\ Known(job.kind, job.name)
         /\ job.new.room = e.room /\ rec[job.kind][job.name].room = e.room
         /\ job.new.owner = rec[job.kind][job.name].owner
         /\ e.what = "text" => job.pc = "write" /\ job.new.text = e.text /\ job.new.mods = rec[job.kind][job.name].mods
         /\ e.what = "power" =>
              /\ job.pc = "mods" /\ job.kind = "community" /\ job.new.text = rec[job.kind][job.name].text
              /\ job.new.mods = (rec[job.kind][job.name].mods \cup ActorsOf(e.up)) \ ActorsOf(e.down)
<1>0. e.what \in {"text", "power"} /\ e.text \in Texts /\ e.room \in Rooms /\ NoRecord \in Command \cup {NoRecord}
  BY DEF Event
<1>1. CASE e.what = "text"
  <2>1. \E k \in Kinds : job \in Rewritten(k, e)
    <3>1. job \in ProfileText(e) \/ job \in ChannelText(e) \/ job \in CommunityText(e) \/ job \in GroupText(e)
      BY <1>1 DEF TextJob
    <3> QED
      BY <3>1 DEF ProfileText, ChannelText, CommunityText, GroupText, Kinds, Hosted
  <2>2. PICK k \in Kinds, n \in Handles : /\ job = Job(NoRecord, k, n, [rec[k][n] EXCEPT !.text = e.text], "write")
                                          /\ Known(k, n) /\ rec[k][n].room = e.room
    BY <2>1 DEF Rewritten
  <2>3. rec[k][n] \in Record
    BY <2>2, NothingFacts
  <2>4. /\ [rec[k][n] EXCEPT !.text = e.text] \in Record /\ [rec[k][n] EXCEPT !.text = e.text].text = e.text
        /\ [rec[k][n] EXCEPT !.text = e.text].room = rec[k][n].room
        /\ [rec[k][n] EXCEPT !.text = e.text].owner = rec[k][n].owner
        /\ [rec[k][n] EXCEPT !.text = e.text].mods = rec[k][n].mods
    BY <1>0, <2>3 DEF Record
  <2>5. /\ job \in Work /\ job.cmd = NoRecord /\ job.kind = k /\ job.name = n /\ job.pc = "write"
        /\ job.new = [rec[k][n] EXCEPT !.text = e.text]
    BY <2>2, <2>4, EventTaskFacts
  <2> QED
    BY <1>1, <2>2, <2>4, <2>5
<1>2. CASE e.what = "power"
  <2> DEFINE New(n) == [rec["community"][n] EXCEPT !.mods = (@ \cup ActorsOf(e.up)) \ ActorsOf(e.down)]
  <2>1. PICK n \in Handles : /\ job = Job(NoRecord, "community", n, New(n), "mods")
                             /\ Known("community", n) /\ rec["community"][n].room = e.room
    BY <1>2 DEF PowerJob
  <2>2. rec["community"][n] \in Record /\ "community" \in Kinds
    BY <2>1, NothingFacts DEF Kinds, Hosted
  <2>3. ActorsOf(e.up) \subseteq Handles /\ ActorsOf(e.down) \subseteq Handles
    BY DEF ActorsOf
  <2>4. /\ New(n) \in Record /\ New(n).room = rec["community"][n].room /\ New(n).owner = rec["community"][n].owner
        /\ New(n).text = rec["community"][n].text
        /\ New(n).mods = (rec["community"][n].mods \cup ActorsOf(e.up)) \ ActorsOf(e.down)
    BY <2>2, <2>3 DEF Record
  <2>5. /\ job \in Work /\ job.cmd = NoRecord /\ job.kind = "community" /\ job.name = n /\ job.pc = "mods"
        /\ job.new = New(n)
    <3> HIDE DEF New
    <3> QED
      BY <2>1, <2>2, <2>4, EventTaskFacts
  <2> HIDE DEF New
  <2> QED
    BY <1>2, <2>1, <2>4, <2>5
<1> QED
  BY <1>0, <1>1, <1>2

LEMMA TakeEventKeeps ==
  ASSUME SeatInv, TakeEvent
  PROVE  SeatInv'
<1> DEFINE e == Head(pending)
<1>0. /\ Typed /\ HandlesApart /\ RoomsApart /\ "chat" \in Workers /\ run["chat"] = Idle /\ pending # <<>>
      /\ pending \in Seq(Event)
      /\ \A i \in DOMAIN pending : pending[i].room \in Live
  BY WorkerFacts DEF TakeEvent, SeatInv, Typed, RoomsSound
<1>1. /\ UNCHANGED <<rec, accounts, made, text, power, modsHeard, commands, changes, crashes, relinked>>
      /\ Remember /\ raced \subseteq raced' /\ HandsSound' /\ commands' \in 0..MaxCommands
  BY <1>0, RememberFacts DEF TakeEvent, Typed
<1>2. CASE pending' = Tail(pending) /\ UNCHANGED run
  <2>1. pending' \in Seq(Event) /\ \A i \in DOMAIN pending' : i + 1 \in DOMAIN pending /\ pending'[i] = pending[i + 1]
    BY <1>0, <1>2, TailFacts
  <2>2. Typed'
    BY <1>0, <1>1, <1>2, <2>1 DEF Typed
  <2>3. HandlesApart' /\ RoomsApart'
    BY <1>1, TablesRest
  <2>4. \A i \in DOMAIN pending' : pending'[i].room \in Live
    BY <1>0, <2>1
  <2>5. RoomsSound'
    BY <1>1, <2>4, RoomsRest
  <2>6. \A v \in Workers : v # "chat" /\ run[v] # Idle => ~ ForEvent(v)
    BY Stand
  <2>7. Moves("chat")
    BY <1>0, <1>1, <1>2, <2>6 DEF Moves
  <2> QED
    BY <1>0, <1>1, <1>2, <2>2, <2>3, <2>5, <2>7, Inherits
<1>3. CASE /\ pending' = pending
           /\ \E job \in (IF e.what = "text" THEN TextJob(e) ELSE PowerJob(e)) : Go("chat", job)
  <2>1. PICK job \in (IF e.what = "text" THEN TextJob(e) ELSE PowerJob(e)) : Go("chat", job)
    BY <1>3
  <2>2. e \in Event /\ e.room \in Live /\ e.room # NoRoom /\ e.what \in {"text", "power"}
    <3>1. e \in Event /\ 1 \in DOMAIN pending /\ e = pending[1]
      BY <1>0, TailFacts
    <3> QED
      BY <1>0, <3>1, HostedAssumption DEF Event, Rooms
  <2>3. PICK k \in Kinds, n \in Handles : k = job.kind /\ n = job.name
    BY <1>0, <2>2, EventJobFacts DEF Work
  <2>4. /\ job \in Work /\ job.cmd = NoRecord /\ Known(k, n)
        /\ job.new.room = e.room /\ rec[k][n].room = e.room
        /\ job.new.owner = rec[k][n].owner
        /\ e.what = "text" => job.pc = "write" /\ job.new.text = e.text
        /\ e.what = "power" => job.pc = "mods" /\ k = "community"
    BY <1>0, <2>2, <2>3, EventJobFacts
  <2>5. run'["chat"] = job /\ ForEvent("chat")' /\ ~ Linking("chat")'
    BY <1>0, <2>1, <2>4, GoFacts DEF ForEvent, Linking
  <2>6. Station("chat")'
    <3>1. EventStation("chat")'
      BY <1>0, <1>3, <2>2, <2>3, <2>4, <2>5 DEF EventStation
    <3>2. e.room \in Live'
      BY <1>1, <2>2 DEF Live
    <3> QED
      BY <2>2, <2>4, <2>5, <3>1, <3>2 DEF Station
  <2>7. \A l \in Kinds, m \in Handles : Known(l, m)' <=> Known(l, m)
    BY <1>1 DEF Known
  <2>8. Keep("chat")'
    <3>1. n \notin raced' => \A l \in Kinds \ {k} : ~ Known(l, n)
      BY <1>0, <1>1, <2>4 DEF HandlesApart
    <3>2. n \notin raced' => \A l \in Kinds \ {k} : ~ Known(l, n)'
      BY <2>7, <3>1
    <3> QED
      BY <1>1, <2>3, <2>4, <2>5, <2>7, <3>2 DEF Keep
  <2>9. House("chat")'
    <3>1. <<k, n>> \in Serves(e.room) /\ e.room \in Rooms
      BY <2>2, <2>4 DEF Serves, Event
    <3>2. e.room \notin raced' \cup relinked' => Serves(e.room) \subseteq {<<k, n>>}
      BY <1>0, <1>1, <3>1 DEF RoomsApart
    <3>3. \A r : Serves(r)' = Serves(r)
      BY <1>1 DEF Serves, Known
    <3> QED
      BY <2>3, <2>4, <2>5, <3>2, <3>3 DEF House
  <2> QED
    BY <1>0, <1>1, <1>3, <2>1, <2>4, <2>6, <2>8, <2>9, OnlyTask DEF Own
<1> QED
  BY <1>2, <1>3 DEF TakeEvent

LEMMA PushedKeeps ==
  ASSUME SeatInv, NEW w \in Workers, NEW k, NEW sent, Pushed(w, k, sent)
  PROVE  SeatInv'
<1>0. Typed /\ run[w] # Idle /\ End(w) /\ Remember /\ raced \subseteq raced'
  BY RememberFacts DEF Pushed, At, SeatInv
<1>1. UNCHANGED <<rec, accounts, made, text, power, modsHeard, commands, changes, crashes, relinked>>
  BY DEF Pushed
<1>2. /\ run' \in [Workers -> Work \cup {Idle}] /\ run'[w] = Idle
      /\ \A v \in Workers : v # w => run'[v] = run[v]
      /\ pending' \in Seq(Event) /\ \A i \in DOMAIN pending' : pending'[i].room \in Live
      /\ \A v \in Workers : v # w /\ run[v] # Idle /\ ForEvent(v) =>
           pending' # <<>> /\ Head(pending') = Head(pending)
  BY <1>0, EndFacts
<1>3. Typed'
  BY <1>0, <1>1, <1>2 DEF Typed
<1>4. HandlesApart' /\ RoomsApart'
  BY <1>0, <1>1, TablesRest
<1> QED
  BY <1>0, <1>1, <1>2, <1>3, <1>4, TaskGoesOn

LEMMA TellModsKeeps ==
  ASSUME SeatInv, NEW w \in Workers, TellMods(w)
  PROVE  SeatInv'
<1> DEFINE j == run[w]
<1>0. /\ Typed /\ j # Idle /\ j.pc = "mods" /\ Own(w) /\ j.name \in Handles /\ j.kind \in Kinds /\ j.new \in Record
      /\ ForEvent(w) /\ EventStation(w)
  BY Stand, TaskFacts DEF TellMods, At, CommandStation, Command
<1>1. /\ UNCHANGED <<rec, accounts, made, text, power, pending, commands, changes, crashes, relinked>>
      /\ modsHeard' = [modsHeard EXCEPT ![j.name] = j.new.mods]
      /\ Remember /\ raced \subseteq raced' /\ Step(w, "write")
  BY RememberFacts DEF TellMods
<1>2. /\ run' \in [Workers -> Work \cup {Idle}] /\ \A v \in Workers : v # w => run'[v] = run[v]
      /\ run'[w] \in Work /\ run'[w].cmd = j.cmd /\ run'[w].kind = j.kind /\ run'[w].name = j.name
      /\ run'[w].new = j.new /\ run'[w].pc = "write" /\ ForEvent(w)' /\ (Linking(w)' <=> Linking(w))
  BY <1>0, <1>1, StepFacts
<1>3. Go(w, run'[w])
  BY <1>0, <1>1, StepFacts DEF Step, Go, Typed
<1>4. Typed'
  <2>1. modsHeard' \in [Handles -> SUBSET Handles]
    BY <1>0, <1>1 DEF Typed, Record
  <2> QED
    BY <1>0, <1>1, <1>2, <2>1 DEF Typed
<1>5. HandlesApart' /\ RoomsApart'
  BY <1>1, TablesRest
<1>6. Station(w)' /\ Keep(w)'
  <2>1. EventStation(w)'
    BY <1>0, <1>1, <1>2 DEF EventStation
  <2>2. \A l \in Kinds, n \in Handles : Known(l, n)' <=> Known(l, n)
    BY <1>1 DEF Known
  <2> QED
    BY <1>0, <1>1, <1>2, <1>3, <2>1, <2>2, OwnGoesOn
<1>7. House(w)'
  <2>1. \A r : Serves(r)' = Serves(r)
    BY <1>1 DEF Serves, Known
  <2>2. House(w) /\ ~ Linking(w)
    BY <1>0 DEF Own, Linking
  <2> QED
    BY <1>0, <1>1, <1>2, <2>1, <2>2 DEF House
<1>8. \A i \in DOMAIN pending' : pending'[i].room \in Live
  BY <1>1 DEF SeatInv, RoomsSound
<1>9. \A v \in Workers : v # w /\ run[v] # Idle /\ ForEvent(v) => pending' # <<>> /\ Head(pending') = Head(pending)
  BY <1>1, Stand
<1> QED
  BY <1>0, <1>1, <1>2, <1>4, <1>5, <1>6, <1>7, <1>8, <1>9, TaskGoesOn DEF Own

-----------------------------------------------------------------------------
(* Everybody else, and restarts. *)

LEMMA OutsideKeeps ==
  ASSUME SeatInv, Outside
  PROVE  SeatInv'
<1>0. Typed /\ RoomsSound /\ made \subseteq NewRooms
  BY DEF SeatInv, Typed
<1>1. UNCHANGED <<rec, made, run, modsHeard, commands, relinked>> /\ Remember
  BY DEF Outside, JoinServer, Change, ChangePower, UnchangedInside
<1>2. HandsSound' /\ raced \subseteq raced'
  BY <1>1, RememberFacts
<1>3. HandlesApart' /\ RoomsApart'
  BY <1>1, <1>2, TablesRest
<1>4. SUFFICES /\ Typed'
               /\ \A r \in NewRooms \ made : power'[r] = power[r] /\ text'[r] = text[r]
               /\ \A i \in DOMAIN pending' : pending'[i].room \in Live
               /\ pending # <<>> => pending' # <<>> /\ Head(pending') = Head(pending)
  <2>1. RoomsSound'
    BY <1>1, <1>4, RoomsRest
  <2>2. \A v \in Workers : run[v] # Idle /\ ForEvent(v) => pending # <<>>
    BY Stand
  <2>3. Moves("nobody")
    BY <1>1, <1>2, <1>4, <2>2 DEF Moves
  <2> QED
    BY <1>2, <1>3, <1>4, <2>1, <2>3, Inherits, WorkerFacts
<1>5. CASE \E u \in Users : JoinServer(u)
  <2>1. PICK u \in Users : JoinServer(u)
    BY <1>5
  <2>2. UNCHANGED <<text, power, pending, changes, crashes>> /\ accounts' = accounts \cup {u}
    BY <2>1 DEF JoinServer
  <2> QED
    BY <1>0, <1>1, <2>2 DEF Typed, RoomsSound
<1>6. CASE \E r \in Rooms, t \in Texts \ {"deleted"} : Change(r, t)
  <2>1. PICK r \in Rooms, t \in Texts \ {"deleted"} : Change(r, t)
    BY <1>6
  <2> DEFINE e == [what |-> "text", room |-> r, text |-> t, up |-> {}, down |-> {}]
  <2>2. /\ r \in OldRooms \cup made /\ text' = [text EXCEPT ![r] = t] /\ pending' = Append(pending, e)
        /\ UNCHANGED <<accounts, power, crashes>> /\ changes' = changes + 1 /\ changes < MaxChanges
    BY <2>1 DEF Change
  <2>3. e \in Event /\ r \in Live
    BY <2>2 DEF Event, Live
  <2>4. /\ pending' \in Seq(Event) /\ \A i \in DOMAIN pending' : pending'[i].room \in Live
        /\ pending # <<>> => pending' # <<>> /\ Head(pending') = Head(pending)
    BY <2>2, <2>3, QueueGrows
  <2>5. text' \in [Rooms -> Texts] /\ \A q \in NewRooms \ made : text'[q] = text[q]
    BY <1>0, <2>2, HostedAssumption DEF Typed, Rooms
  <2>6. changes' \in 0..MaxChanges
    BY <1>0, <2>2, HostedAssumption DEF Typed
  <2>7. Typed'
    BY <1>0, <1>1, <2>2, <2>4, <2>5, <2>6 DEF Typed
  <2> QED
    BY <2>2, <2>4, <2>5, <2>7
<1>7. CASE \E r \in Rooms, u \in Users : ChangePower(r, u)
  <2>1. PICK r \in Rooms, u \in Users : ChangePower(r, u)
    BY <1>7
  <2> DEFINE up == {u} \ power[r]
             e == [what |-> "power", room |-> r, text |-> text[r], up |-> up, down |-> {u} \ up]
  <2>2. /\ r \in OldRooms \cup made /\ power' = [power EXCEPT ![r] = (@ \cup up) \ ({u} \ up)]
        /\ pending' = Append(pending, e)
        /\ UNCHANGED <<accounts, text, crashes>> /\ changes' = changes + 1 /\ changes < MaxChanges
    BY <2>1 DEF ChangePower
  <2>3. e \in Event /\ r \in Live
    BY <1>0, <2>2 DEF Event, Live, Typed
  <2>4. /\ pending' \in Seq(Event) /\ \A i \in DOMAIN pending' : pending'[i].room \in Live
        /\ pending # <<>> => pending' # <<>> /\ Head(pending') = Head(pending)
    BY <2>2, <2>3, QueueGrows
  <2>5. power' \in [Rooms -> SUBSET Users] /\ \A q \in NewRooms \ made : power'[q] = power[q]
    BY <1>0, <2>2, HostedAssumption DEF Typed, Rooms
  <2>6. changes' \in 0..MaxChanges
    BY <1>0, <2>2, HostedAssumption DEF Typed
  <2>7. Typed'
    BY <1>0, <1>1, <2>2, <2>4, <2>5, <2>6 DEF Typed
  <2> QED
    BY <2>2, <2>4, <2>5, <2>7
<1> QED
  BY <1>5, <1>6, <1>7 DEF Outside

\* A restart leaves the chat the command it was on, as it was read.
LEMMA CrashKeeps ==
  ASSUME SeatInv, Crash
  PROVE  SeatInv'
<1> DEFINE j == run["chat"]
<1>0. Typed /\ HandsSound /\ "chat" \in Workers /\ "widget" \in Workers
  BY WorkerFacts DEF SeatInv
<1>1. /\ UNCHANGED <<rec, accounts, made, text, power, pending, modsHeard, commands, changes, raced, relinked>>
      /\ crashes' = crashes + 1 /\ crashes < MaxCrashes
      /\ run' = [run EXCEPT !["widget"] = Idle,
                            !["chat"] = IF @ = Idle \/ @.cmd = NoRecord THEN Idle ELSE [@ EXCEPT !.pc = "again"]]
  BY DEF Crash
<1>2. /\ run'["widget"] = Idle
      /\ run'["chat"] = IF j = Idle \/ ForEvent("chat") THEN Idle ELSE [j EXCEPT !.pc = "again"]
  BY <1>0, <1>1 DEF Typed, ForEvent
<1>3. CASE j = Idle \/ ForEvent("chat")
  <2>1. \A v \in Workers : run'[v] = Idle
    BY <1>2, <1>3 DEF Workers
  <2>2. Typed'
    <3>1. run' \in [Workers -> Work \cup {Idle}]
      BY <1>0, <1>1, <2>1 DEF Typed
    <3>2. crashes' \in 0..MaxCrashes
      BY <1>0, <1>1, HostedAssumption DEF Typed
    <3> QED
      BY <1>0, <1>1, <3>1, <3>2 DEF Typed
  <2>3. HandsSound'
    BY <1>2 DEF HandsSound, InHand
  <2>4. TasksKeep'
    BY <2>1 DEF TasksKeep
  <2> QED
    BY <1>1, <2>2, <2>3, <2>4, StillTables DEF SeatInv
<1>4. CASE ~ (j = Idle \/ ForEvent("chat"))
  <2>1. j \in Work /\ CommandStation("chat") /\ Station("chat") /\ j.cmd # NoRecord
    BY <1>0, <1>4, Stand, NothingFacts DEF Own, ForEvent
  <2>2. /\ [j EXCEPT !.pc = "again"] \in Work /\ [j EXCEPT !.pc = "again"].pc = "again"
        /\ [j EXCEPT !.pc = "again"].cmd = j.cmd /\ [j EXCEPT !.pc = "again"].kind = j.kind
        /\ [j EXCEPT !.pc = "again"].name = j.name /\ [j EXCEPT !.pc = "again"].new = j.new
    BY <2>1 DEF Work
  <2>3. /\ run'["chat"] \in Work /\ run'["chat"].pc = "again" /\ run'["chat"].cmd = j.cmd
        /\ run'["chat"].kind = j.kind /\ run'["chat"].name = j.name /\ run'["chat"].new = j.new
    BY <1>2, <1>4, <2>2
  <2>4. Typed'
    <3>1. run' \in [Workers -> Work \cup {Idle}]
      BY <1>0, <1>1, <2>2 DEF Typed
    <3>2. crashes' \in 0..MaxCrashes
      BY <1>0, <1>1, HostedAssumption DEF Typed
    <3> QED
      BY <1>0, <1>1, <3>1, <3>2 DEF Typed
  <2>5. HandsSound'
    BY <1>0, <1>2 DEF HandsSound, InHand
  <2>6. ~ ForEvent("chat")'
    BY <2>1, <2>3 DEF ForEvent
  <2>7. CommandStation("chat")'
    BY <2>1, <2>3 DEF CommandStation, Command
  <2>8. Station("chat")'
    BY <1>1, <2>1, <2>3, <2>6, <2>7 DEF Station, Live
  <2>9. Keep("chat")' /\ House("chat")'
    BY <2>3 DEF Keep, House
  <2>10. TasksKeep'
    BY <1>2, <2>8, <2>9 DEF TasksKeep, Workers, Own
  <2> QED
    BY <1>1, <2>4, <2>5, <2>10, StillTables DEF SeatInv
<1> QED
  BY <1>3, <1>4

-----------------------------------------------------------------------------
(* The theorems. *)

LEMMA InitSeat == Init => SeatInv
<1> SUFFICES ASSUME Init
             PROVE  SeatInv
  OBVIOUS
<1>1. \A k \in Kinds, n \in Handles : rec[k][n] = IF k = "profile" /\ n \in DOMAIN First THEN Blank(n, First[n], {}) ELSE NoRecord
  BY DEF Init
<1>2. \A n \in DOMAIN First : n \in Handles /\ First[n] \in OldRooms /\ First[n] \in Rooms
  BY HostedAssumption DEF Rooms
<1>3. \A n \in DOMAIN First : /\ Blank(n, First[n], {}) \in Record /\ Blank(n, First[n], {}).room = First[n]
                              /\ Blank(n, First[n], {}).owner = n
  BY <1>2, BlankFacts
<1>4. \A k \in Kinds, n \in Handles : Known(k, n) => k = "profile" /\ n \in DOMAIN First /\ rec[k][n].room = First[n]
  BY <1>1, <1>3 DEF Known
<1>5. Typed
  <2>1. rec \in [Kinds -> [Handles -> Record \cup {NoRecord}]]
    BY <1>3 DEF Init
  <2>2. text \in [Rooms -> Texts] /\ power \in [Rooms -> SUBSET Users]
    BY HostedAssumption DEF Init, Rooms, Texts
  <2>3. run \in [Workers -> Work \cup {Idle}] /\ pending \in Seq(Event) /\ modsHeard \in [Handles -> SUBSET Handles]
    BY DEF Init
  <2>4. accounts \subseteq Users /\ made \subseteq NewRooms
    BY HostedAssumption DEF Init
  <2>5. commands \in 0..MaxCommands /\ changes \in 0..MaxChanges /\ crashes \in 0..MaxCrashes
    BY HostedAssumption DEF Init
  <2> QED
    BY <2>1, <2>2, <2>3, <2>4, <2>5 DEF Typed
<1>6. RoomsSound
  <2>1. \A k \in Kinds, n \in Handles : Known(k, n) =>
          rec[k][n].room \in Live /\ (k \in Hosted => rec[k][n].room # NoRoom)
    BY <1>2, <1>4 DEF Live, Hosted
  <2>2. \A r \in NewRooms \ made : power[r] = {} /\ text[r] = "plain"
    BY HostedAssumption DEF Init, Rooms
  <2>3. \A i \in DOMAIN pending : pending[i].room \in Live
    BY DEF Init
  <2> QED
    BY <2>1, <2>2, <2>3 DEF RoomsSound
<1>7. \A w \in Workers : run[w] = Idle
  BY DEF Init
<1>8. HandsSound
  BY <1>7, WorkerFacts DEF HandsSound, InHand, Init
<1>9. TasksKeep
  BY <1>7 DEF TasksKeep
<1>10. HandlesApart
  BY <1>4 DEF HandlesApart
<1>11. RoomsApart
  BY <1>4, HostedAssumption DEF RoomsApart, Serves
<1> QED
  BY <1>5, <1>6, <1>8, <1>9, <1>10, <1>11 DEF SeatInv

LEMMA NextSeat == SeatInv /\ [Next]_vars => SeatInv'
<1> SUFFICES ASSUME SeatInv, [Next]_vars
             PROVE  SeatInv'
  OBVIOUS
<1>1. CASE Requests
  BY <1>1, AskKeeps, BeginKeeps DEF Requests
<1>2. CASE Redo \/ TakeEvent \/ Outside \/ Crash
  BY <1>2, RedoKeeps, TakeEventKeeps, OutsideKeeps, CrashKeeps
<1>3. CASE \E w \in Workers : Continue(w)
  <2>1. PICK w \in Workers : Continue(w)
    BY <1>3
  <2>2. CASE MakeRoom(w) \/ NoRoomMade(w) \/ Adopt(w) \/ Write(w) \/ TellMods(w)
    BY <2>2, MakeRoomKeeps, NoRoomMadeKeeps, AdoptKeeps, WriteKeeps, TellModsKeeps
  <2>3. CASE PushProfile(w) \/ PushChannel(w) \/ PushCommunity(w) \/ PushGroup(w)
    BY <2>3, PushedKeeps DEF PushProfile, PushChannel, PushCommunity, PushGroup
  <2>4. CASE TellProfileGone(w) \/ TellHostedGone(w) \/ Detach(w) \/ Rename(w) \/ Erase(w)
    BY <2>4, TellGoneKeeps, DetachKeeps, RenameKeeps, EraseKeeps
  <2> QED
    BY <2>1, <2>2, <2>3, <2>4 DEF Continue
<1>4. CASE UNCHANGED vars
  <2>0. /\ UNCHANGED <<rec, accounts, made, text, power, pending, run, heard, asked>>
        /\ UNCHANGED <<modsHeard, commands, changes, crashes, raced, relinked, blind>>
    BY <1>4 DEF vars
  <2>1. Typed' /\ RoomsSound' /\ HandlesApart' /\ RoomsApart'
    BY <2>0 DEF SeatInv, Typed, RoomsSound, HandlesApart, RoomsApart, Known, Serves, Live
  <2>2. HandsSound'
    BY <2>0 DEF SeatInv, HandsSound, InHand
  <2>3. \A w \in Workers : Station(w)' <=> Station(w)
    BY <2>0 DEF Station, EventStation, CommandStation, Live, ForEvent, FromWidget
  <2>4. \A w \in Workers : Keep(w)' <=> Keep(w)
    BY <2>0 DEF Keep, Known, ForEvent
  <2>5. \A w \in Workers : House(w)' <=> House(w)
    <3>1. \A w \in Workers : (Linking(w) <=> Linking(w)') /\ (ForEvent(w) <=> ForEvent(w)')
      BY <2>0 DEF Linking, ForEvent
    <3>2. \A r : Serves(r)' = Serves(r)
      BY <2>0 DEF Serves, Known
    <3> QED
      BY <2>0, <3>1, <3>2 DEF House
  <2>6. TasksKeep'
    BY <2>0, <2>3, <2>4, <2>5 DEF SeatInv, TasksKeep, Own
  <2> QED
    BY <2>1, <2>2, <2>6 DEF SeatInv
<1> QED
  BY <1>1, <1>2, <1>3, <1>4 DEF Next

\* SeatInv is an invariant of the hosted actors.
THEOREM SeatInvariant == Spec => []SeatInv
<1> QED
  BY InitSeat, NextSeat, PTL DEF Spec

LEMMA AtMostOne ==
  ASSUME NEW S, \A x, y \in S : x = y
  PROVE  Cardinality(S) <= 1
<1>1. CASE S = {}
  BY <1>1, FS_EmptySet
<1>2. CASE S # {}
  <2>1. PICK x : x \in S
    BY <1>2
  <2>2. S = {x}
    BY <2>1
  <2> QED
    BY <2>2, FS_Singleton
<1> QED
  BY <1>1, <1>2

\* No handle and no room is two actors' unless two tasks were at it at once, or a
\* confirmation that does not look made a room in use a community or group
\* (HostedInv): what the "already taken" lookups of every create and link are for.
THEOREM HandlesAndRoomsApart == Spec => []HostedInv
<1>1. SeatInv => HostedInv
  <2> SUFFICES ASSUME SeatInv
               PROVE  HostedInv
    OBVIOUS
  <2>0. Typed /\ HandlesApart /\ RoomsApart
    BY DEF SeatInv
  <2>1. TypeOK
    <3>1. \A i \in DOMAIN pending : pending[i] \in Event
      BY <2>0 DEF Typed
    <3>2. commands <= MaxCommands /\ changes <= MaxChanges /\ crashes <= MaxCrashes
      BY <2>0, HostedAssumption DEF Typed
    <3> QED
      BY <2>0, <3>1, <3>2 DEF TypeOK, Typed
  <2>2. TasksSound
    <3>1. ASSUME NEW w \in Workers, run[w] # Idle, ForEvent(w)
          PROVE  w = "chat" /\ pending # <<>> /\ Head(pending).room = run[w].new.room
      BY <3>1, Stand DEF EventStation
    <3>2. ASSUME NEW w \in Workers, At(w, "write"), run[w].cmd # NoRecord, run[w].cmd.what = "create"
          PROVE  run[w].new.room \in made /\ (run[w].new.room \notin raced => Serves(run[w].new.room) = {})
      <4>1. run[w] # Idle /\ run[w].pc = "write" /\ ~ ForEvent(w)
        BY <3>2 DEF At, ForEvent
      <4>2. CommandStation(w) /\ House(w)
        BY <4>1, Stand DEF Own
      <4> QED
        BY <3>2, <4>1, <4>2 DEF CommandStation, House
    <3> QED
      BY <3>1, <3>2 DEF TasksSound
  <2>3. HandleForOne
    BY <2>0, AtMostOne DEF HandleForOne, HandlesApart
  <2>4. RoomForOne
    BY <2>0, AtMostOne DEF RoomForOne, RoomsApart
  <2> QED
    BY <2>1, <2>2, <2>3, <2>4 DEF HostedInv
<1> QED
  BY <1>1, SeatInvariant, PTL

\* While it exists an actor keeps its owner and, but for profiles, its room; a
\* deleted one comes back only by a command that asks for it (SeatKept).
THEOREM SeatsAreKept == Spec => SeatKept
<1> DEFINE Kept(k, n) ==
      /\ (rec[k][n] # NoRecord /\ rec'[k][n] # NoRecord) =>
            /\ rec'[k][n].owner = rec[k][n].owner
            /\ k \in Hosted => rec'[k][n].room = rec[k][n].room
      /\ (rec[k][n] = NoRecord /\ rec'[k][n] # NoRecord) =>
            \E w \in Workers : Asked(w) /\ run'[w] # run[w]
<1>1. SeatInv /\ [Next]_vars => [\A k \in Kinds, n \in Handles \ raced' : Kept(k, n)]_vars
  <2> SUFFICES ASSUME SeatInv, Next, NEW k \in Kinds, NEW n \in Handles \ raced', rec'[k][n] # rec[k][n], rec'[k][n] # NoRecord
               PROVE  Kept(k, n)
    BY DEF vars
  <2>0. Typed
    BY DEF SeatInv
  <2>1. PICK w \in Workers : Write(w) \/ Detach(w) \/ Erase(w)
    BY DEF Next, Requests, Ask, Begin, Redo, TakeEvent, Outside, JoinServer, Change, ChangePower, UnchangedInside, Crash,
           Continue, MakeRoom, NoRoomMade, Adopt, TellMods, PushProfile, PushChannel, PushCommunity, PushGroup, Pushed,
           TellProfileGone, TellHostedGone, Told, Rename
  <2>2. run[w] # Idle /\ raced \subseteq raced'
    BY <2>1, RememberFacts DEF Write, Detach, Erase, At
  <2>3. Own(w)
    BY <2>2, Stand
  <2>4. run[w].name \in Handles /\ run[w].kind \in Kinds /\ run[w].new \in Record
    BY <2>0, <2>2, TaskFacts
  <2>5. CASE Erase(w)
    BY <2>0, <2>4, <2>5 DEF Erase, Typed
  <2>6. CASE Detach(w)
    <3>1. run[w].kind = "profile" /\ run[w].cmd.what = "delete" /\ ~ ForEvent(w) /\ run[w].pc = "detach"
      BY <2>2, <2>6, Stand DEF Detach, At, CommandStation, Command
    <3>2. n = run[w].name /\ k = "profile" /\ rec'[k][n] = [run[w].new EXCEPT !.room = NoRoom]
      BY <2>0, <2>4, <2>6 DEF Detach, Typed, Kinds, Hosted
    <3>3. rec'[k][n].owner = run[w].new.owner
      BY <2>4, <3>2 DEF Record
    <3>4. Known(k, n) /\ rec[k][n].owner = run[w].new.owner
      BY <2>2, <2>3, <3>1, <3>2 DEF Own, Keep
    <3> QED
      BY <3>2, <3>3, <3>4 DEF Known, Hosted
  <2>7. CASE Write(w)
    <3>1. /\ run[w].pc = "write" /\ n = run[w].name /\ k = run[w].kind /\ rec'[k][n] = run[w].new
          /\ ForEvent(w) \/ End(w)
      BY <2>0, <2>4, <2>7 DEF Write, At, Typed
    <3>2. ForEvent(w) => Known(k, n) /\ rec[k][n].owner = run[w].new.owner /\ rec[k][n].room = run[w].new.room
      BY <2>2, <2>3, <3>1 DEF Own, Keep
    <3>3. ~ ForEvent(w) => /\ run[w].cmd.what \in {"create", "link", "unlink"}
                           /\ run[w].cmd.what = "unlink" => k = "profile"
      BY <2>2, <3>1, Stand, CommandFacts DEF CommandStation
    <3>4. ~ ForEvent(w) /\ Known(k, n) => k = "profile" /\ rec[k][n].owner = run[w].new.owner
      BY <2>2, <2>3, <3>1, <3>3 DEF Own, Keep
    <3>5. ~ ForEvent(w) /\ ~ Known(k, n) => run[w].cmd.what # "unlink"
      BY <2>2, <2>3, <3>1 DEF Own, Keep
    <3>6. ~ ForEvent(w) => run'[w] # run[w]
      BY <2>0, <2>2, <3>1, EndFacts
    <3> QED
      BY <2>2, <3>1, <3>2, <3>3, <3>4, <3>5, <3>6 DEF Known, Asked, Hosted
  <2> QED
    BY <2>1, <2>5, <2>6, <2>7
<1> QED
  BY <1>1, SeatInvariant, PTL DEF Spec, SeatKept

-----------------------------------------------------------------------------
(* What actors say, and what their followers know. *)

\* An event about the text of the room is on its way.
TextDue(r) == \E i \in DOMAIN pending : pending[i].what = "text" /\ pending[i].room = r
Says(r, t) == TextDue(r) \/ t = text[r]

\* The last event about a room's text says what the text is.
LastTexts == \A i \in DOMAIN pending :
  pending[i].what = "text" =>
    \/ \E j \in DOMAIN pending : i < j /\ pending[j].what = "text" /\ pending[j].room = pending[i].room
    \/ pending[i].text = text[pending[i].room]

TextsSound == \A k \in Hosted, n \in Handles \ raced : Known(k, n) =>
  (rec[k][n].room \notin raced \cup relinked \cup blind => Says(rec[k][n].room, rec[k][n].text))

\* What is about to be written says so as well.
Copying(w) ==
  LET j == run[w] IN
  j.pc = "write" /\ ~ ForEvent(w) /\ j.kind \in Hosted /\ j.new.room \notin raced \cup blind => Says(j.new.room, j.new.text)
CopiesSound == \A w \in Workers : run[w] # Idle => Copying(w)

\* The followers know another moderator than the record says only while the
\* event that explains it is being handled.
Explains(e, m, old, new) ==
  /\ m \in new /\ m \notin old => m \in ActorsOf(e.up)
  /\ m \in old /\ m \notin new => m \in ActorsOf(e.down)
PowerAhead(r) ==
  /\ pending # <<>> /\ Head(pending).what = "power" /\ Head(pending).room = r
  /\ run["chat"] = Idle \/ ForEvent("chat")
ModsAgree(n, m) ==
  LET e == rec["community"][n] IN
  \/ m \in e.mods <=> m \in modsHeard[n]
  \/ PowerAhead(e.room) /\ Explains(Head(pending), m, e.mods, modsHeard[n])
ModsSound == \A n \in Handles \ raced : Known("community", n) =>
  (rec["community"][n].room \notin raced \cup relinked => \A m \in Handles \ raced : ModsAgree(n, m))

\* What the handler of an event changes is what it has not written yet.
Holds ==
  LET j == run["chat"] k == run["chat"].kind n == run["chat"].name IN
  j # Idle /\ ForEvent("chat") /\ n \notin raced =>
    /\ j.pc = "push" \/ Head(pending).what = "power" => rec[k][n].text = j.new.text
    /\ Head(pending).what = "text" => rec[k][n].mods = j.new.mods
    /\ Head(pending).what = "power" =>
         /\ \A m \in Handles \ raced : Explains(Head(pending), m, rec["community"][n].mods, j.new.mods)
         /\ j.pc = "write" => modsHeard[n] = j.new.mods

\* The inductive invariant.
StepInv == SeatInv /\ LastTexts /\ TextsSound /\ CopiesSound /\ ModsSound /\ Holds

-----------------------------------------------------------------------------
(* What a step does to the queue, the records and what was heard. *)

\* The first event is done: it found nothing to do, or its task ends.
Drops ==
  /\ pending # <<>> /\ pending' = Tail(pending) /\ UNCHANGED text
  /\ \/ /\ run["chat"] = Idle /\ UNCHANGED <<rec, modsHeard, run>>
        /\ (IF Head(pending).what = "text" THEN TextJob(Head(pending)) ELSE PowerJob(Head(pending))) = {}
     \/ /\ run["chat"] # Idle /\ ForEvent("chat") /\ run'["chat"] = Idle
        /\ Write("chat") \/ (At("chat", "push") /\ UNCHANGED <<rec, modsHeard>>)
Queues ==
  \E e \in Event :
    /\ pending' = Append(pending, e)
    /\ \/ e.what = "text" /\ text' = [text EXCEPT ![e.room] = e.text]
       \/ e.what = "power" /\ UNCHANGED text

LEMMA QueueSteps ==
  ASSUME SeatInv, Next
  PROVE  UNCHANGED <<text, pending>> \/ Queues \/ Drops
<1>0. Typed /\ "chat" \in Workers
  BY WorkerFacts DEF SeatInv
<1>1. CASE Requests \/ Redo \/ Crash
  BY <1>1 DEF Requests, Ask, Begin, Redo, Crash
<1>2. CASE TakeEvent
  <2>1. CASE UNCHANGED pending
    BY <1>2, <2>1 DEF TakeEvent
  <2>2. CASE pending' = Tail(pending) /\ UNCHANGED run
    <3>1. pending # <<>> /\ run["chat"] = Idle /\ UNCHANGED <<rec, modsHeard, text>>
      BY <1>2 DEF TakeEvent
    <3>2. \/ (IF Head(pending).what = "text" THEN TextJob(Head(pending)) ELSE PowerJob(Head(pending))) = {}
          \/ UNCHANGED pending
      BY <1>2 DEF TakeEvent
    <3> QED
      BY <2>2, <3>1, <3>2 DEF Drops
  <2> QED
    BY <1>2, <2>1, <2>2 DEF TakeEvent
<1>3. CASE Outside
  <2>1. CASE \E u \in Users : JoinServer(u)
    BY <2>1 DEF JoinServer
  <2>2. CASE \E r \in Rooms, t \in Texts \ {"deleted"} : Change(r, t)
    <3>1. PICK r \in Rooms, t \in Texts : Change(r, t)
      BY <2>2
    <3>2. PICK e : e = [what |-> "text", room |-> r, text |-> t, up |-> {}, down |-> {}]
      OBVIOUS
    <3>3. e \in Event /\ e.what = "text" /\ e.room = r /\ e.text = t
      BY <3>2 DEF Event
    <3>4. pending' = Append(pending, e) /\ text' = [text EXCEPT ![e.room] = e.text]
      BY <3>1, <3>2, <3>3 DEF Change
    <3> QED
      BY <3>3, <3>4 DEF Queues
  <2>3. CASE \E r \in Rooms, u \in Users : ChangePower(r, u)
    <3>1. PICK r \in Rooms, u \in Users : ChangePower(r, u)
      BY <2>3
    <3>2. PICK e : e = [what |-> "power", room |-> r, text |-> text[r], up |-> {u} \ power[r],
                        down |-> {u} \ ({u} \ power[r])]
      OBVIOUS
    <3>3. e \in Event /\ e.what = "power"
      BY <1>0, <3>2 DEF Event, Typed
    <3>4. pending' = Append(pending, e) /\ UNCHANGED text
      BY <3>1, <3>2 DEF ChangePower
    <3> QED
      BY <3>3, <3>4 DEF Queues
  <2> QED
    BY <1>3, <2>1, <2>2, <2>3 DEF Outside
<1>4. CASE \E w \in Workers : Continue(w)
  <2>1. PICK w \in Workers : Continue(w)
    BY <1>4
  <2>2. CASE Rename(w)
    <3>1. CASE UNCHANGED <<text, pending>>
      BY <3>1
    <3>2. CASE /\ run[w].new.room # NoRoom /\ text' = [text EXCEPT ![run[w].new.room] = "deleted"]
               /\ pending' = Append(pending, [what |-> "text", room |-> run[w].new.room, text |-> "deleted",
                                              up |-> {}, down |-> {}])
      <4>1. PICK r \in Rooms : r = run[w].new.room
        BY <1>0, <2>2, <3>2, TaskFacts DEF Rename, At
      <4>2. PICK e : e = [what |-> "text", room |-> r, text |-> "deleted", up |-> {}, down |-> {}]
        OBVIOUS
      <4>3. e \in Event /\ e.what = "text" /\ e.room = r /\ e.text = "deleted"
        BY <4>2 DEF Event, Texts
      <4> QED
        BY <3>2, <4>1, <4>2, <4>3 DEF Queues
    <3> QED
      BY <2>2, <3>1, <3>2 DEF Rename
  <2>3. CASE MakeRoom(w) \/ NoRoomMade(w) \/ Adopt(w) \/ TellMods(w) \/ TellProfileGone(w) \/ TellHostedGone(w)
             \/ Detach(w) \/ Erase(w)
    BY <2>3 DEF MakeRoom, NoRoomMade, Adopt, TellMods, TellProfileGone, TellHostedGone, Told, Detach, Erase
  <2>4. CASE End(w) /\ UNCHANGED text /\ (Write(w) \/ (At(w, "push") /\ UNCHANGED <<rec, modsHeard>>))
    <3>1. run[w] # Idle
      BY <2>4 DEF Write, At
    <3>2. CASE ForEvent(w)
      <4>1. w = "chat" /\ pending # <<>> /\ pending' = Tail(pending)
        BY <2>4, <3>1, <3>2, Stand DEF End
      <4>2. run'[w] = Idle
        BY <2>4, <3>1, EndFacts
      <4> QED
        BY <2>4, <3>1, <3>2, <4>1, <4>2 DEF Drops
    <3>3. CASE ~ ForEvent(w)
      BY <2>4, <3>3 DEF End
    <3> QED
      BY <3>2, <3>3
  <2>5. CASE Write(w)
    <3>1. UNCHANGED text /\ (End(w) \/ UNCHANGED pending)
      BY <2>5 DEF Write
    <3> QED
      BY <2>4, <2>5, <3>1
  <2>6. CASE PushProfile(w) \/ PushChannel(w) \/ PushCommunity(w) \/ PushGroup(w)
    BY <2>4, <2>6 DEF PushProfile, PushChannel, PushCommunity, PushGroup, Pushed
  <2> QED
    BY <2>1, <2>2, <2>3, <2>5, <2>6 DEF Continue
<1> QED
  BY <1>1, <1>2, <1>3, <1>4 DEF Next

\* The last text stays the room's.
LEMMA LastTextsKept ==
  ASSUME SeatInv, LastTexts, Next
  PROVE  LastTexts'
<1>0. pending \in Seq(Event) /\ text \in [Rooms -> Texts]
  BY DEF SeatInv, Typed
<1>1. CASE UNCHANGED <<text, pending>>
  BY <1>1 DEF LastTexts
<1>2. CASE Queues
  <2>1. PICK e \in Event : /\ pending' = Append(pending, e)
                           /\ \/ e.what = "text" /\ text' = [text EXCEPT ![e.room] = e.text]
                              \/ e.what = "power" /\ UNCHANGED text
    BY <1>2 DEF Queues
  <2>2. PICK len \in Nat : len = Len(pending)
    BY <1>0, AppendFacts
  <2>3. /\ DOMAIN pending = 1..len /\ DOMAIN pending' = 1..(len + 1)
        /\ \A i \in 1..len : pending'[i] = pending[i]
        /\ pending'[len + 1] = e
    BY <1>0, <2>1, <2>2, AppendFacts
  <2>4. \A i \in 1..len : pending[i].room \in Rooms
    <3>1. \A i \in 1..len : pending[i] \in Event
      BY <1>0, <2>3
    <3> QED
      BY <3>1 DEF Event
  <2>5. e.room \in Rooms
    BY DEF Event
  <2> SUFFICES ASSUME NEW i \in DOMAIN pending', pending'[i].what = "text"
               PROVE  \/ \E j \in DOMAIN pending' : i < j /\ pending'[j].what = "text" /\ pending'[j].room = pending'[i].room
                      \/ pending'[i].text = text'[pending'[i].room]
    BY DEF LastTexts
  <2>6. CASE i = len + 1
    BY <1>0, <2>1, <2>3, <2>5, <2>6 DEF Event
  <2>7. CASE i \in 1..len
    <3>1. i < len + 1 /\ len + 1 \in DOMAIN pending' /\ pending'[i] = pending[i] /\ i \in DOMAIN pending
      BY <2>2, <2>3, <2>7
    <3>2. CASE e.what = "text" /\ e.room = pending[i].room
      BY <2>3, <3>1, <3>2
    <3>3. CASE ~ (e.what = "text" /\ e.room = pending[i].room)
      <4>1. text'[pending[i].room] = text[pending[i].room]
        BY <1>0, <2>1, <2>4, <2>7, <3>3
      <4>2. CASE pending[i].text = text[pending[i].room]
        BY <3>1, <4>1, <4>2
      <4>3. CASE \E j \in DOMAIN pending : i < j /\ pending[j].what = "text" /\ pending[j].room = pending[i].room
        <5>1. PICK j \in 1..len : i < j /\ pending[j].what = "text" /\ pending[j].room = pending[i].room
          BY <2>3, <4>3
        <5>2. j \in DOMAIN pending' /\ pending'[j] = pending[j]
          BY <2>2, <2>3
        <5> QED
          BY <3>1, <5>1, <5>2
      <4> QED
        BY <3>1, <4>2, <4>3 DEF LastTexts
    <3> QED
      BY <3>2, <3>3
  <2> QED
    BY <2>2, <2>3, <2>6, <2>7
<1>3. CASE Drops
  <2>1. pending # <<>> /\ pending' = Tail(pending) /\ UNCHANGED text
    BY <1>3 DEF Drops
  <2>2. PICK len \in Nat : len = Len(pending) /\ len >= 1
    BY <1>0, <2>1, TailFacts
  <2>3. /\ DOMAIN pending = 1..len /\ DOMAIN pending' = 1..(len - 1)
        /\ \A i \in 1..(len - 1) : pending'[i] = pending[i + 1]
    BY <1>0, <2>1, <2>2, TailFacts
  <2> SUFFICES ASSUME NEW i \in 1..(len - 1), pending'[i].what = "text"
               PROVE  \/ \E j \in 1..(len - 1) : i < j /\ pending'[j].what = "text" /\ pending'[j].room = pending'[i].room
                      \/ pending'[i].text = text'[pending'[i].room]
    BY <2>3 DEF LastTexts
  <2>4. i + 1 \in 1..len /\ pending'[i] = pending[i + 1]
    BY <2>2, <2>3
  <2>5. CASE pending[i + 1].text = text[pending[i + 1].room]
    BY <2>1, <2>4, <2>5
  <2>6. CASE \E j \in 1..len : i + 1 < j /\ pending[j].what = "text" /\ pending[j].room = pending[i + 1].room
    <3>1. PICK j \in 1..len : i + 1 < j /\ pending[j].what = "text" /\ pending[j].room = pending[i + 1].room
      BY <2>6
    <3>2. j - 1 \in 1..(len - 1) /\ i < j - 1 /\ (j - 1) + 1 = j
      BY <2>2, <3>1
    <3>3. pending'[j - 1] = pending[j]
      BY <2>3, <3>2
    <3> QED
      BY <2>4, <3>1, <3>2, <3>3
  <2> QED
    BY <2>3, <2>4, <2>5, <2>6 DEF LastTexts
<1> QED
  BY <1>1, <1>2, <1>3, QueueSteps

\* What says what its room says goes on to, or hears of it again, unless the
\* event about the room is done.
LEMMA SaysOn ==
  ASSUME SeatInv, LastTexts, Next, NEW r \in Rooms, NEW t, Says(r, t)
  PROVE  Says(r, t)' \/ (Drops /\ Head(pending).what = "text" /\ Head(pending).room = r /\ t # Head(pending).text)
<1>0. pending \in Seq(Event) /\ text \in [Rooms -> Texts]
  BY DEF SeatInv, Typed
<1>1. CASE UNCHANGED <<text, pending>>
  BY <1>1 DEF Says, TextDue
<1>2. CASE Queues
  <2>1. PICK e \in Event : /\ pending' = Append(pending, e)
                           /\ \/ e.what = "text" /\ text' = [text EXCEPT ![e.room] = e.text]
                              \/ e.what = "power" /\ UNCHANGED text
    BY <1>2 DEF Queues
  <2>2. PICK len \in Nat : len = Len(pending)
    BY <1>0, AppendFacts
  <2>3. /\ DOMAIN pending = 1..len /\ DOMAIN pending' = 1..(len + 1)
        /\ \A i \in 1..len : pending'[i] = pending[i]
        /\ pending'[len + 1] = e
    BY <1>0, <2>1, <2>2, AppendFacts
  <2>4. CASE TextDue(r)
    <3>1. PICK i \in 1..len : pending[i].what = "text" /\ pending[i].room = r
      BY <2>3, <2>4 DEF TextDue
    <3>2. i \in DOMAIN pending' /\ pending'[i] = pending[i]
      BY <2>2, <2>3
    <3> QED
      BY <3>1, <3>2 DEF Says, TextDue
  <2>5. CASE t = text[r]
    <3>1. CASE e.what = "text" /\ e.room = r
      <4>1. len + 1 \in DOMAIN pending'
        BY <2>2, <2>3
      <4> QED
        BY <2>3, <3>1, <4>1 DEF Says, TextDue
    <3>2. CASE ~ (e.what = "text" /\ e.room = r)
      BY <1>0, <2>1, <2>5, <3>2 DEF Says
    <3> QED
      BY <3>1, <3>2
  <2> QED
    BY <2>4, <2>5 DEF Says
<1>3. CASE Drops
  <2>1. pending # <<>> /\ pending' = Tail(pending) /\ UNCHANGED text
    BY <1>3 DEF Drops
  <2>2. PICK len \in Nat : len = Len(pending) /\ len >= 1
    BY <1>0, <2>1, TailFacts
  <2>3. /\ DOMAIN pending = 1..len /\ DOMAIN pending' = 1..(len - 1)
        /\ \A i \in 1..(len - 1) : pending'[i] = pending[i + 1]
        /\ Head(pending) = pending[1] /\ 1 \in DOMAIN pending
    BY <1>0, <2>1, <2>2, TailFacts
  <2>4. CASE t = text[r]
    BY <2>1, <2>4 DEF Says
  <2>5. \A j \in 1..len : 1 < j /\ pending[j].what = "text" /\ pending[j].room = r => TextDue(r)'
    <3> SUFFICES ASSUME NEW j \in 1..len, 1 < j, pending[j].what = "text", pending[j].room = r
                 PROVE  TextDue(r)'
      OBVIOUS
    <3>1. j - 1 \in 1..(len - 1) /\ (j - 1) + 1 = j
      BY <2>2
    <3>2. j - 1 \in DOMAIN pending' /\ pending'[j - 1] = pending[j]
      BY <2>3, <3>1
    <3> QED
      BY <3>2 DEF TextDue
  <2>6. CASE TextDue(r)
    <3>1. PICK i \in 1..len : pending[i].what = "text" /\ pending[i].room = r
      BY <2>3, <2>6 DEF TextDue
    <3>2. CASE 1 < i
      BY <2>5, <3>1, <3>2 DEF Says
    <3>3. CASE i = 1
      <4>1. CASE pending[1].text = text[r]
        BY <1>3, <2>1, <2>3, <3>1, <3>3, <4>1 DEF Says
      <4>2. CASE \E j \in 1..len : 1 < j /\ pending[j].what = "text" /\ pending[j].room = r
        BY <2>5, <4>2 DEF Says
      <4>3. \/ \E j \in DOMAIN pending : 1 < j /\ pending[j].what = "text" /\ pending[j].room = pending[1].room
            \/ pending[1].text = text[pending[1].room]
        BY <2>3, <3>1, <3>3 DEF LastTexts
      <4> QED
        BY <2>3, <3>1, <3>3, <4>1, <4>2, <4>3
    <3> QED
      BY <2>2, <3>1, <3>2, <3>3
  <2> QED
    BY <2>4, <2>6 DEF Says
<1> QED
  BY <1>1, <1>2, <1>3, QueueSteps

LEMMA PastGrows ==
  ASSUME Next
  PROVE  raced \subseteq raced' /\ relinked \subseteq relinked' /\ blind \subseteq blind'
<1>1. CASE Requests \/ Redo \/ TakeEvent \/ Outside \/ Crash
  BY <1>1, RememberFacts DEF Requests, Ask, Begin, Redo, TakeEvent, Outside, JoinServer, Change, ChangePower, UnchangedInside, Crash
<1>2. CASE \E w \in Workers : Continue(w)
  <2>1. PICK w \in Workers : Continue(w)
    BY <1>2
  <2>2. CASE MakeRoom(w) \/ NoRoomMade(w) \/ Adopt(w) \/ Write(w) \/ TellMods(w)
    BY <2>2, RememberFacts DEF MakeRoom, NoRoomMade, Adopt, Write, TellMods
  <2>3. CASE PushProfile(w) \/ PushChannel(w) \/ PushCommunity(w) \/ PushGroup(w)
    BY <2>3, RememberFacts DEF PushProfile, PushChannel, PushCommunity, PushGroup, Pushed
  <2>4. CASE TellProfileGone(w) \/ TellHostedGone(w) \/ Detach(w) \/ Rename(w) \/ Erase(w)
    BY <2>4, RememberFacts DEF TellProfileGone, TellHostedGone, Told, Detach, Rename, Erase
  <2> QED
    BY <2>1, <2>2, <2>3, <2>4 DEF Continue
<1> QED
  BY <1>1, <1>2 DEF Next

\* Records of hosted actors are only written by Write.
LEMMA HostedWrites ==
  ASSUME SeatInv, Next, NEW k \in Hosted, NEW n \in Handles, rec'[k][n] # rec[k][n], rec'[k][n] # NoRecord
  PROVE  \E w \in Workers : /\ Write(w) /\ run[w] # Idle /\ run[w].pc = "write" /\ run[w].kind = k /\ run[w].name = n
                            /\ rec' = [rec EXCEPT ![k][n] = run[w].new] /\ rec'[k][n] = run[w].new
                            /\ ~ Clashes(k, n, run[w].new.room)
<1>0. Typed /\ k \in Kinds /\ k # "profile"
  BY DEF SeatInv, Kinds, Hosted
<1>1. PICK w \in Workers : Write(w) \/ Detach(w) \/ Erase(w)
  BY DEF Next, Requests, Ask, Begin, Redo, TakeEvent, Outside, JoinServer, Change, ChangePower, UnchangedInside, Crash,
         Continue, MakeRoom, NoRoomMade, Adopt, TellMods, PushProfile, PushChannel, PushCommunity, PushGroup, Pushed,
         TellProfileGone, TellHostedGone, Told, Rename
<1>2. run[w] # Idle
  BY <1>1 DEF Write, Detach, Erase, At
<1>3. run[w].name \in Handles /\ run[w].kind \in Kinds /\ "profile" \in Kinds
  BY <1>0, <1>2, TaskFacts DEF Kinds
<1>4. CASE Erase(w)
  BY <1>0, <1>3, <1>4 DEF Erase, Typed
<1>5. CASE Detach(w)
  BY <1>0, <1>3, <1>5 DEF Detach, Typed
<1>6. CASE Write(w)
  <2>1. run[w].pc = "write" /\ ~ Clashes(run[w].kind, run[w].name, run[w].new.room)
        /\ rec' = [rec EXCEPT ![run[w].kind][run[w].name] = run[w].new]
    BY <1>6 DEF Write, At
  <2>2. k = run[w].kind /\ n = run[w].name /\ rec'[k][n] = run[w].new
    BY <1>0, <1>3, <2>1 DEF Typed
  <2> QED
    BY <1>2, <1>6, <2>1, <2>2
<1> QED
  BY <1>1, <1>4, <1>5, <1>6

\* When the first event is done, the one actor in its room says what it said.
LEMMA DroppedWasHeard ==
  ASSUME SeatInv, Holds, Next, Drops, Head(pending).what = "text", NEW k \in Kinds, NEW n \in Handles \ raced,
         Known(k, n), rec[k][n].room = Head(pending).room, Head(pending).room \notin raced \cup relinked
  PROVE  rec[k][n].text = Head(pending).text
<1> DEFINE e == Head(pending)
<1>0. Typed /\ RoomsApart /\ "chat" \in Workers /\ pending # <<>> /\ e \in Event /\ e.room \in Rooms /\ e.room # NoRoom
  <2>1. Typed /\ RoomsApart /\ pending # <<>> /\ pending \in Seq(Event) /\ "chat" \in Workers
    BY WorkerFacts DEF SeatInv, Typed, Drops
  <2>2. e \in Event
    BY <2>1, TailFacts
  <2> QED
    BY <2>1, <2>2, HostedAssumption DEF Event, Rooms
<1>1. <<k, n>> \in Serves(e.room) /\ \A x \in Serves(e.room) : x = <<k, n>>
  <2>1. <<k, n>> \in Serves(e.room)
    BY DEF Serves
  <2> QED
    BY <1>0, <2>1 DEF RoomsApart
<1>2. CASE run["chat"] = Idle
  <2>1. TextJob(e) = {}
    BY <1>2 DEF Drops
  <2>2. \A l \in Kinds : ServedBy(e.room, l) <=> l = k
    <3>1. \A l \in Kinds, m \in Handles : <<l, m>> \in Serves(e.room) <=> l = k /\ m = n
      BY <1>1
    <3> QED
      BY <3>1 DEF ServedBy
  <2>3. Rewritten(k, e) = {}
    <3>1. CASE k = "profile"
      BY <2>1, <2>2, <3>1 DEF TextJob, ProfileText
    <3>2. CASE k = "channel"
      BY <2>1, <2>2, <3>2 DEF TextJob, ChannelText, Kinds, Hosted
    <3>3. CASE k = "community"
      BY <2>1, <2>2, <3>3 DEF TextJob, CommunityText, Kinds, Hosted
    <3>4. CASE k = "group"
      BY <2>1, <2>2, <3>4 DEF TextJob, GroupText, Kinds, Hosted
    <3> QED
      BY <3>1, <3>2, <3>3, <3>4 DEF Kinds, Hosted
  <2> QED
    BY <2>3 DEF Rewritten
<1>3. CASE run["chat"] # Idle
  <2>1. ForEvent("chat") /\ run'["chat"] = Idle /\ (Write("chat") \/ At("chat", "push"))
    BY <1>3 DEF Drops
  <2>2. EventStation("chat") /\ House("chat") /\ ~ Linking("chat")
    BY <1>0, <1>3, <2>1, Stand DEF Own, Linking
  <2>3. run["chat"].new.room = e.room /\ run["chat"].new.text = e.text
    BY <2>2 DEF EventStation
  <2>4. run["chat"].pc \in {"write", "push"}
    BY <2>1 DEF Write, At
  <2>5. Serves(e.room) \subseteq {<<run["chat"].kind, run["chat"].name>>}
    BY <1>0, <2>2, <2>3, <2>4 DEF House
  <2>6. run["chat"].kind = k /\ run["chat"].name = n
    BY <1>1, <2>5
  <2>7. run["chat"].pc = "push"
    <3> SUFFICES ASSUME Write("chat")
                 PROVE  FALSE
      BY <2>1 DEF At
    <3>1. CASE Clashes(k, n, e.room)
      <4>1. PICK m \in Handles \ {n} : Known(k, m) /\ rec[k][m].room = e.room
        BY <3>1 DEF Clashes
      <4>2. <<k, m>> \in Serves(e.room)
        BY <4>1 DEF Serves
      <4> QED
        BY <1>1, <4>1, <4>2
    <3>2. CASE ~ Clashes(k, n, e.room)
      <4>1. Step("chat", "push")
        BY <2>1, <2>3, <2>6, <3>2 DEF Write
      <4> QED
        BY <1>0, <1>3, <2>1, <4>1, StepFacts
    <3> QED
      BY <3>1, <3>2
  <2> QED
    BY <1>3, <2>1, <2>3, <2>6, <2>7 DEF Holds
<1> QED
  BY <1>2, <1>3

LEMMA TextsKept ==
  ASSUME StepInv, Next
  PROVE  TextsSound'
<1>0. SeatInv /\ LastTexts /\ TextsSound /\ CopiesSound /\ Holds /\ Typed /\ RoomsSound
  BY DEF StepInv, SeatInv
<1>1. raced \subseteq raced' /\ relinked \subseteq relinked' /\ blind \subseteq blind'
  BY PastGrows
<1> SUFFICES ASSUME NEW k \in Hosted, NEW n \in Handles \ raced', rec'[k][n] # NoRecord,
                    NEW r, NEW t, r = rec'[k][n].room, t = rec'[k][n].text, r \notin raced' \cup relinked' \cup blind'
             PROVE  Says(r, t)'
  BY DEF TextsSound, Known
<1>2. k \in Kinds /\ n \notin raced /\ r \notin raced \cup relinked \cup blind
  BY <1>1 DEF Kinds
<1>3. CASE rec'[k][n] = rec[k][n]
  <2>1. Known(k, n) /\ rec[k][n].room = r /\ rec[k][n].text = t
    BY <1>3 DEF Known
  <2>2. Says(r, t)
    BY <1>0, <1>2, <2>1 DEF TextsSound
  <2>3. r \in Rooms
    <3>1. rec[k][n] \in Record /\ r # NoRoom
      BY <1>0, <1>2, <2>1, NothingFacts DEF RoomsSound
    <3> QED
      BY <2>1, <3>1 DEF Record
  <2>4. ~ (Drops /\ Head(pending).what = "text" /\ Head(pending).room = r /\ t # Head(pending).text)
    BY <1>0, <1>2, <2>1, DroppedWasHeard
  <2> QED
    BY <1>0, <2>2, <2>3, <2>4, SaysOn
<1>4. CASE rec'[k][n] # rec[k][n]
  <2>1. PICK w \in Workers : /\ Write(w) /\ run[w] # Idle /\ run[w].pc = "write" /\ run[w].kind = k /\ run[w].name = n
                             /\ rec'[k][n] = run[w].new
                             /\ ~ Clashes(k, n, run[w].new.room)
    BY <1>0, <1>4, HostedWrites
  <2>2. run[w].new.room = r /\ run[w].new.text = t /\ UNCHANGED text
    BY <2>1 DEF Write
  <2>3. Station(w) /\ Keep(w)
    BY <1>0, <2>1, Stand DEF Own
  <2>4. CASE ~ ForEvent(w)
    <3>1. Says(r, t)
      BY <1>0, <1>2, <2>1, <2>2, <2>4 DEF CopiesSound, Copying
    <3>2. UNCHANGED pending
      BY <2>1, <2>2, <2>4 DEF Write, End
    <3> QED
      BY <2>2, <3>1, <3>2 DEF Says, TextDue
  <2>5. CASE ForEvent(w) /\ Head(pending).what = "text"
    <3>1. UNCHANGED pending
      BY <2>1, <2>5 DEF Write
    <3>2. pending # <<>> /\ Head(pending).room = r /\ pending \in Seq(Event)
      BY <1>0, <2>1, <2>2, <2>5, Stand DEF EventStation, Typed
    <3>3. 1 \in DOMAIN pending /\ Head(pending) = pending[1]
      BY <3>2, TailFacts
    <3> QED
      BY <2>5, <3>1, <3>2, <3>3 DEF Says, TextDue
  <2>6. CASE ForEvent(w) /\ Head(pending).what # "text"
    <3>1. w = "chat" /\ pending # <<>> /\ pending \in Seq(Event)
      BY <1>0, <2>1, <2>6, Stand DEF Typed
    <3>2. Head(pending).what = "power"
      <4>1. Head(pending) \in Event
        BY <3>1, TailFacts
      <4> QED
        BY <2>6, <4>1 DEF Event
    <3>3. Known(k, n) /\ rec[k][n].room = r
      BY <1>2, <2>1, <2>2, <2>3, <2>6 DEF Keep
    <3>4. rec[k][n].text = t
      BY <1>0, <1>2, <2>1, <2>2, <2>6, <3>1, <3>2 DEF Holds
    <3>5. Says(r, t)
      BY <1>0, <1>2, <3>3, <3>4 DEF TextsSound
    <3>6. r \in Rooms
      <4>1. rec[k][n] \in Record /\ r # NoRoom
        BY <1>0, <1>2, <3>3, NothingFacts DEF RoomsSound
      <4> QED
        BY <3>3, <4>1 DEF Record
    <3> QED
      BY <1>0, <2>6, <3>5, <3>6, SaysOn
  <2> QED
    BY <2>4, <2>5, <2>6
<1> QED
  BY <1>3, <1>4

\* A copy is about to be written only where a room was just made or read.
LEMMA StartedWrites ==
  ASSUME Typed, NEW c \in Command, NEW job \in Started(c), job.pc = "write"
  PROVE  job.kind = "profile"
<1>1. StartsSoundly(c, job)
  BY StartedFacts
<1> QED
  BY <1>1, CommandFacts DEF StartsSoundly

LEMMA CopyStarts ==
  ASSUME SeatInv, Next, NEW w \in Workers, run'[w] # Idle, run'[w] # run[w], run'[w].pc = "write",
         run'[w].cmd # NoRecord, run'[w].kind \in Hosted
  PROVE  MakeRoom(w) \/ Adopt(w)
<1>0. Typed /\ run'[w].kind # "profile"
  BY DEF SeatInv, Hosted
<1>1. CASE Requests
  <2>1. PICK v \in Workers, c \in Command : Begin(v, c)
    BY <1>1 DEF Requests, Ask
  <2>2. PICK job \in Started(c) : Go(v, job)
    BY <2>1 DEF Begin
  <2>3. job \in Work
    BY <1>0, StartedFacts DEF StartsSoundly
  <2>4. run'[v] = job /\ \A u \in Workers : u # v => run'[u] = run[u]
    BY <1>0, <2>2, <2>3, GoFacts
  <2> QED
    BY <1>0, <2>4, StartedWrites
<1>2. CASE Redo
  <2>1. "chat" \in Workers /\ run["chat"] # Idle /\ run["chat"].pc = "again"
    BY <1>2, WorkerFacts DEF Redo, At
  <2>2. run["chat"].cmd \in Command
    BY <2>1, Stand, NothingFacts DEF CommandStation
  <2>3. CASE Go("chat", Idle)
    BY <1>0, <2>1, <2>3, GoFacts
  <2>4. CASE \E job \in Started(run["chat"].cmd) : Go("chat", job)
    <3>1. PICK job \in Started(run["chat"].cmd) : Go("chat", job)
      BY <2>4
    <3>2. job \in Work
      BY <1>0, <2>2, StartedFacts DEF StartsSoundly
    <3>3. run'["chat"] = job /\ \A u \in Workers : u # "chat" => run'[u] = run[u]
      BY <1>0, <2>1, <3>1, <3>2, GoFacts
    <3> QED
      BY <1>0, <2>2, <3>3, StartedWrites
  <2> QED
    BY <1>2, <2>3, <2>4 DEF Redo
<1>3. CASE TakeEvent
  <2> DEFINE e == Head(pending)
  <2>1. PICK job \in (IF e.what = "text" THEN TextJob(e) ELSE PowerJob(e)) : Go("chat", job)
    BY <1>3 DEF TakeEvent
  <2>2. e \in Event /\ "chat" \in Workers
    BY <1>0, <1>3, TailFacts, WorkerFacts DEF TakeEvent, Typed
  <2>3. job \in Work /\ job.cmd = NoRecord
    BY <1>0, <2>2, EventJobFacts
  <2>4. run'["chat"] = job /\ \A u \in Workers : u # "chat" => run'[u] = run[u]
    BY <1>0, <2>1, <2>2, <2>3, GoFacts
  <2> QED
    BY <2>3, <2>4
<1>4. CASE Outside
  BY <1>4 DEF Outside, JoinServer, Change, ChangePower, UnchangedInside
<1>5. CASE Crash
  <2>1. run' = [run EXCEPT !["widget"] = Idle,
                           !["chat"] = IF @ = Idle \/ @.cmd = NoRecord THEN Idle ELSE [@ EXCEPT !.pc = "again"]]
    BY <1>5 DEF Crash
  <2>2. run'["widget"] = Idle /\ (run'["chat"] = Idle \/ (run["chat"] # Idle /\ run'["chat"] = [run["chat"] EXCEPT !.pc = "again"]))
    BY <1>0, <2>1 DEF Typed, Workers
  <2>3. run["chat"] # Idle => [run["chat"] EXCEPT !.pc = "again"].pc = "again"
    BY <1>0, TaskFacts, WorkerFacts DEF Work
  <2> QED
    BY <2>2, <2>3 DEF Workers
<1>6. CASE \E v \in Workers : Continue(v)
  <2>1. PICK v \in Workers : Continue(v)
    BY <1>6
  <2>2. CASE MakeRoom(v) \/ Adopt(v)
    <3>1. v = w
      BY <1>0, <2>2 DEF MakeRoom, Adopt, Step, Go, Typed
    <3> QED
      BY <2>2, <3>1
  <2>3. CASE NoRoomMade(v) \/ Erase(v)
    BY <1>0, <2>3, GoFacts DEF NoRoomMade, Erase
  <2>4. CASE PushProfile(v) \/ PushChannel(v) \/ PushCommunity(v) \/ PushGroup(v)
    <3>1. run[v] # Idle /\ End(v)
      BY <2>4 DEF PushProfile, PushChannel, PushCommunity, PushGroup, Pushed, At
    <3> QED
      BY <3>1, EndFacts
  <2>5. CASE Write(v)
    <3>1. run[v] # Idle /\ (End(v) \/ Step(v, "push"))
      BY <2>5 DEF Write, At
    <3> QED
      BY <1>0, <3>1, EndFacts, StepFacts
  <2>6. CASE TellMods(v)
    <3>1. run[v] # Idle /\ run[v].pc = "mods" /\ Step(v, "write")
      BY <2>6 DEF TellMods, At
    <3>2. ForEvent(v)
      BY <3>1, Stand DEF CommandStation, Command
    <3> QED
      BY <1>0, <3>1, <3>2, StepFacts DEF ForEvent
  <2>7. CASE TellProfileGone(v) \/ TellHostedGone(v) \/ Detach(v) \/ Rename(v)
    <3>1. run[v] # Idle /\ \E p \in {"detach", "rename", "erase"} : Step(v, p)
      BY <2>7 DEF TellProfileGone, TellHostedGone, Told, Detach, Rename, At
    <3>2. PICK p \in {"detach", "rename", "erase"} : Step(v, p)
      BY <3>1
    <3> QED
      BY <1>0, <3>1, <3>2, StepFacts
  <2> QED
    BY <2>1, <2>2, <2>3, <2>4, <2>5, <2>6, <2>7 DEF Continue
<1> QED
  BY <1>1, <1>2, <1>3, <1>4, <1>5, <1>6 DEF Next

LEMMA CopiesKept ==
  ASSUME StepInv, Next
  PROVE  CopiesSound'
<1>0. SeatInv /\ LastTexts /\ CopiesSound /\ Typed /\ RoomsSound /\ HandsSound
  BY DEF StepInv, SeatInv
<1>1. raced \subseteq raced' /\ relinked \subseteq relinked' /\ blind \subseteq blind'
  BY PastGrows
<1> SUFFICES ASSUME NEW w \in Workers, run'[w] # Idle, run'[w].pc = "write", run'[w].cmd # NoRecord, run'[w].kind \in Hosted,
                    NEW r, NEW t, r = run'[w].new.room, t = run'[w].new.text, r \notin raced' \cup blind'
             PROVE  Says(r, t)'
  BY DEF CopiesSound, Copying, ForEvent
<1>2. r \notin raced \cup blind
  BY <1>1
<1>3. CASE run'[w] = run[w]
  <2>1. Says(r, t) /\ run[w] # Idle
    BY <1>0, <1>2, <1>3 DEF CopiesSound, Copying, ForEvent
  <2>2. r \in Rooms /\ r # NoRoom
    <3>0. Station(w)
      BY <1>0, <2>1, Stand DEF Own
    <3>1. run[w].new.room # NoRoom
      BY <1>3, <3>0 DEF Station
    <3> QED
      BY <1>0, <1>3, <2>1, <3>1, TaskFacts
  <2>3. ~ (Drops /\ Head(pending).room = r)
    <3> SUFFICES ASSUME Drops, Head(pending).room = r
                 PROVE  FALSE
      OBVIOUS
    <3>1. w # "chat"
      BY <1>3, <2>1 DEF Drops
    <3>2. w = "widget"
      BY <3>1 DEF Workers
    <3>3. r \in InHand("widget") /\ r \in InHand("chat")
      BY <1>3, <2>1, <3>2 DEF InHand, Drops
    <3> QED
      BY <1>0, <1>2, <2>2, <3>3 DEF HandsSound
  <2> QED
    BY <1>0, <2>1, <2>2, <2>3, SaysOn
<1>4. CASE run'[w] # run[w]
  <2>1. MakeRoom(w) \/ Adopt(w)
    BY <1>0, <1>4, CopyStarts
  <2>2. run[w] # Idle /\ run[w].new \in Record /\ run[w] \in Work
    <3>1. run[w] # Idle
      BY <2>1 DEF MakeRoom, Adopt, At
    <3> QED
      BY <1>0, <3>1, TaskFacts
  <2>3. CASE MakeRoom(w)
    <3>1. PICK q \in NewRooms \ made : Go(w, [run[w] EXCEPT !.new.room = q, !.pc = "write"])
      BY <2>3 DEF MakeRoom
    <3>2. run'[w] = [run[w] EXCEPT !.new.room = q, !.pc = "write"]
      BY <1>0, <3>1 DEF Go, Typed
    <3>3. r = q /\ t = run[w].new.text
      BY <2>2, <3>2 DEF Work, Record
    <3>4. run[w].new.text = "plain"
      <4>1. run[w].pc = "room"
        BY <2>3 DEF MakeRoom, At
      <4>2. CommandStation(w)
        BY <1>0, <2>2, <4>1, Stand DEF MakeRoom, At
      <4> QED
        BY <4>1, <4>2 DEF CommandStation
    <3>5. text[q] = "plain" /\ UNCHANGED <<text, pending>>
      BY <1>0, <2>3 DEF RoomsSound, MakeRoom
    <3> QED
      BY <3>3, <3>4, <3>5 DEF Says
  <2>4. CASE Adopt(w)
    <3>1. UNCHANGED <<text, pending>>
      BY <2>4 DEF Adopt
    <3>2. CASE Go(w, [run[w] EXCEPT !.new.text = text[run[w].new.room], !.pc = "write"])
      <4>1. run'[w] = [run[w] EXCEPT !.new.text = text[run[w].new.room], !.pc = "write"]
        BY <1>0, <3>2 DEF Go, Typed
      <4>2. r = run[w].new.room /\ t = text[r]
        BY <2>2, <4>1 DEF Work, Record
      <4> QED
        BY <3>1, <4>2 DEF Says
    <3>3. CASE Step(w, "write") /\ blind' = blind \cup {run[w].new.room}
      <4>1. r = run[w].new.room
        BY <1>0, <2>2, <3>3, StepFacts
      <4> QED
        BY <3>3, <4>1
    <3> QED
      BY <2>4, <3>2, <3>3 DEF Adopt
  <2> QED
    BY <2>1, <2>3, <2>4
<1> QED
  BY <1>3, <1>4

\* Who writes a record, and who tells of moderators.
LEMMA RecordWrites ==
  ASSUME SeatInv, Next, NEW k \in Kinds, NEW n \in Handles, rec'[k][n] # rec[k][n]
  PROVE  \E w \in Workers : /\ run[w] # Idle /\ run[w].kind = k /\ run[w].name = n /\ run'[w] # run[w]
                            /\ \/ Write(w) /\ run[w].pc = "write" /\ rec'[k][n] = run[w].new
                               \/ Detach(w) /\ run[w].pc = "detach"
                               \/ Erase(w) /\ run[w].pc = "erase"
<1>0. Typed
  BY DEF SeatInv
<1>1. PICK w \in Workers : Write(w) \/ Detach(w) \/ Erase(w)
  BY DEF Next, Requests, Ask, Begin, Redo, TakeEvent, Outside, JoinServer, Change, ChangePower, UnchangedInside, Crash,
         Continue, MakeRoom, NoRoomMade, Adopt, TellMods, PushProfile, PushChannel, PushCommunity, PushGroup, Pushed,
         TellProfileGone, TellHostedGone, Told, Rename
<1>2. run[w] # Idle
  BY <1>1 DEF Write, Detach, Erase, At
<1>3. run[w].name \in Handles /\ run[w].kind \in Kinds /\ "profile" \in Kinds
  BY <1>0, <1>2, TaskFacts DEF Kinds
<1>4. CASE Erase(w)
  <2>1. run[w].pc = "erase" /\ k = run[w].kind /\ n = run[w].name
    BY <1>0, <1>3, <1>4 DEF Erase, At, Typed
  <2>2. run'[w] = Idle
    BY <1>0, <1>4, GoFacts DEF Erase
  <2> QED
    BY <1>2, <1>4, <2>1, <2>2
<1>5. CASE Detach(w)
  <2>1. run[w].pc = "detach" /\ Step(w, "rename")
    BY <1>5 DEF Detach, At
  <2>2. run[w].kind = "profile"
    BY <1>2, <2>1, Stand DEF CommandStation
  <2>3. k = run[w].kind /\ n = run[w].name
    BY <1>0, <1>3, <1>5, <2>2 DEF Detach, Typed
  <2>4. run'[w] # run[w]
    BY <1>0, <1>2, <2>1, StepFacts
  <2> QED
    BY <1>2, <1>5, <2>1, <2>3, <2>4
<1>6. CASE Write(w)
  <2>1. /\ run[w].pc = "write" /\ rec' = [rec EXCEPT ![run[w].kind][run[w].name] = run[w].new]
        /\ End(w) \/ Step(w, "push")
    BY <1>6 DEF Write, At
  <2>2. k = run[w].kind /\ n = run[w].name /\ rec'[k][n] = run[w].new
    BY <1>0, <1>3, <2>1 DEF Typed
  <2>3. run'[w] # run[w]
    BY <1>0, <1>2, <2>1, StepFacts, EndFacts
  <2> QED
    BY <1>2, <1>6, <2>1, <2>2, <2>3
<1> QED
  BY <1>1, <1>4, <1>5, <1>6

LEMMA ModsToldBy ==
  ASSUME SeatInv, Next, NEW n \in Handles, modsHeard'[n] # modsHeard[n]
  PROVE  \E w \in Workers : /\ run[w] # Idle /\ run[w].name = n /\ run'[w] # run[w] /\ modsHeard'[n] = run[w].new.mods
                            /\ \/ TellMods(w) /\ run[w].pc = "mods"
                               \/ Write(w) /\ ~ ForEvent(w) /\ ~ Known(run[w].kind, n) /\ run[w].pc = "write"
<1>0. Typed
  BY DEF SeatInv
<1>1. PICK w \in Workers : TellMods(w) \/ Write(w)
  BY DEF Next, Requests, Ask, Begin, Redo, TakeEvent, Outside, JoinServer, Change, ChangePower, UnchangedInside, Crash,
         Continue, MakeRoom, NoRoomMade, Adopt, PushProfile, PushChannel, PushCommunity, PushGroup, Pushed,
         TellProfileGone, TellHostedGone, Told, Detach, Rename, Erase
<1>2. run[w] # Idle
  BY <1>1 DEF Write, TellMods, At
<1>3. run[w].name \in Handles
  BY <1>0, <1>2, TaskFacts
<1>4. CASE TellMods(w)
  <2>1. run[w].pc = "mods" /\ Step(w, "write") /\ n = run[w].name /\ modsHeard'[n] = run[w].new.mods
    BY <1>0, <1>3, <1>4 DEF TellMods, At, Typed
  <2>2. run'[w] # run[w]
    BY <1>0, <1>2, <2>1, StepFacts
  <2> QED
    BY <1>2, <1>4, <2>1, <2>2
<1>5. CASE Write(w)
  <2>1. /\ run[w].pc = "write" /\ ~ ForEvent(w) /\ ~ Known(run[w].kind, run[w].name)
        /\ modsHeard' = [modsHeard EXCEPT ![run[w].name] = run[w].new.mods] /\ End(w)
    BY <1>5 DEF Write, At
  <2>2. n = run[w].name /\ modsHeard'[n] = run[w].new.mods
    BY <1>0, <1>3, <2>1 DEF Typed
  <2>3. run'[w] # run[w]
    BY <1>2, <2>1, EndFacts
  <2> QED
    BY <1>2, <1>5, <2>1, <2>2, <2>3
<1> QED
  BY <1>1, <1>4, <1>5

\* While the chat handles an event nobody but the widget's new profiles changes
\* who is whose actor.
LEMMA ActorsGrow ==
  ASSUME SeatInv, Next, run["chat"] = Idle \/ ForEvent("chat"), NEW us, NEW m \in Handles \ raced', m \in ActorsOf(us)
  PROVE  m \in ActorsOf(us)'
<1>0. Typed /\ "profile" \in Kinds /\ m \notin raced
  BY PastGrows DEF SeatInv, Kinds
<1>1. Known("profile", m) /\ rec["profile"][m].owner \in us
  BY DEF ActorsOf
<1>2. SUFFICES ASSUME rec'["profile"][m] # rec["profile"][m]
               PROVE  rec'["profile"][m] # NoRecord /\ rec'["profile"][m].owner = rec["profile"][m].owner
  BY <1>1 DEF ActorsOf, Known
<1>3. PICK w \in Workers : /\ run[w] # Idle /\ run[w].kind = "profile" /\ run[w].name = m
                           /\ \/ Write(w) /\ run[w].pc = "write" /\ rec'["profile"][m] = run[w].new
                              \/ Detach(w) /\ run[w].pc = "detach"
                              \/ Erase(w) /\ run[w].pc = "erase"
  BY <1>0, <1>2, RecordWrites
<1>4. Own(w) /\ run[w].new # NoRecord
  BY <1>0, <1>3, Stand, TaskFacts, NothingFacts
<1>5. CASE ForEvent(w)
  <2>1. run[w].pc = "write" /\ rec'["profile"][m] = run[w].new
    BY <1>3, <1>5, Stand
  <2>2. rec["profile"][m].owner = run[w].new.owner
    BY <1>0, <1>3, <1>4, <1>5, <2>1 DEF Own, Keep
  <2> QED
    BY <1>4, <2>1, <2>2
<1>6. CASE ~ ForEvent(w)
  <2>1. w = "widget" /\ CommandStation(w)
    BY <1>3, <1>6, Stand DEF Workers
  <2>2. run[w].cmd.what = "create" /\ run[w].pc = "write"
    <3>1. FromWidget(run[w].cmd) /\ run[w].cmd.kind = "profile"
      BY <1>3, <2>1 DEF CommandStation
    <3>2. run[w].cmd.what = "create"
      BY <3>1 DEF FromWidget
    <3> QED
      BY <1>3, <2>1, <3>2 DEF CommandStation
  <2>3. rec["profile"][m].owner = run[w].new.owner
    BY <1>0, <1>1, <1>3, <1>4, <1>6, <2>2 DEF Own, Keep
  <2> QED
    BY <1>3, <1>4, <2>2, <2>3
<1> QED
  BY <1>5, <1>6

\* An event the chat has not done is still the first, and still the chat's.
LEMMA HeadStays ==
  ASSUME SeatInv, Next, ~ Drops, pending # <<>>
  PROVE  pending' # <<>> /\ Head(pending') = Head(pending)
<1>1. pending \in Seq(Event)
  BY DEF SeatInv, Typed
<1>2. CASE UNCHANGED <<text, pending>>
  BY <1>2
<1>3. CASE Queues
  BY <1>1, <1>3, AppendFacts DEF Queues
<1> QED
  BY <1>2, <1>3, QueueSteps

LEMMA ChatStays ==
  ASSUME SeatInv, Next, pending # <<>>, run["chat"] = Idle \/ ForEvent("chat")
  PROVE  run'["chat"] = Idle \/ ForEvent("chat")'
<1>0. Typed /\ "chat" \in Workers
  BY WorkerFacts DEF SeatInv
<1>1. CASE Requests
  <2>1. CASE \E c \in Command : Ask(c)
    BY <2>1 DEF Ask, ForEvent
  <2>2. CASE \E c \in Command : \E v \in Workers : Begin(v, c)
    <3>1. PICK v \in Workers, c \in Command : Begin(v, c)
      BY <2>2
    <3>2. PICK job \in Started(c) : Go(v, job)
      BY <3>1 DEF Begin
    <3>3. v # "chat"
      BY <3>1 DEF Begin, Ready
    <3>4. run'["chat"] = run["chat"]
      BY <1>0, <3>2, <3>3 DEF Go, Typed
    <3> QED
      BY <3>4 DEF ForEvent
  <2> QED
    BY <1>1, <2>1, <2>2 DEF Requests
<1>2. CASE Redo
  <2>1. run["chat"] # Idle /\ run["chat"].pc = "again"
    BY <1>2 DEF Redo, At
  <2> QED
    BY <1>0, <2>1, Stand
<1>3. CASE TakeEvent
  <2> DEFINE e == Head(pending)
  <2>1. CASE UNCHANGED run
    BY <2>1 DEF ForEvent
  <2>2. CASE \E job \in (IF e.what = "text" THEN TextJob(e) ELSE PowerJob(e)) : Go("chat", job)
    <3>1. PICK job \in (IF e.what = "text" THEN TextJob(e) ELSE PowerJob(e)) : Go("chat", job)
      BY <2>2
    <3>2. e \in Event
      BY <1>0, TailFacts DEF Typed
    <3>3. job \in Work /\ job.cmd = NoRecord
      BY <1>0, <3>1, <3>2, EventJobFacts
    <3> QED
      BY <1>0, <3>1, <3>3, GoFacts DEF ForEvent
  <2> QED
    BY <1>3, <2>1, <2>2 DEF TakeEvent
<1>4. CASE Outside
  BY <1>4 DEF Outside, JoinServer, Change, ChangePower, UnchangedInside, ForEvent
<1>5. CASE Crash
  BY <1>0, <1>5 DEF Crash, Typed, ForEvent, Workers
<1>6. CASE \E v \in Workers : Continue(v)
  <2>1. PICK v \in Workers : Continue(v)
    BY <1>6
  <2>2. run[v] # Idle
    BY <2>1 DEF Continue, MakeRoom, NoRoomMade, Adopt, Write, TellMods, PushProfile, PushChannel, PushCommunity, PushGroup, Pushed,
                TellProfileGone, TellHostedGone, Told, Detach, Rename, Erase, At
  <2>3. CASE v # "chat"
    <3>1. \E job : Go(v, job)
      BY <2>1 DEF Continue, MakeRoom, NoRoomMade, Adopt, Write, TellMods, PushProfile, PushChannel, PushCommunity, PushGroup, Pushed,
                  TellProfileGone, TellHostedGone, Told, Detach, Rename, Erase, Step, End
    <3>2. run'["chat"] = run["chat"]
      BY <1>0, <2>3, <3>1 DEF Go, Typed
    <3> QED
      BY <3>2 DEF ForEvent
  <2>4. CASE v = "chat"
    <3>1. ForEvent(v) /\ run[v].pc \in {"write", "push", "mods"}
      BY <2>2, <2>4, Stand
    <3>2. Write(v) \/ TellMods(v) \/ PushProfile(v) \/ PushChannel(v) \/ PushCommunity(v) \/ PushGroup(v)
      BY <2>1, <3>1 DEF Continue, MakeRoom, NoRoomMade, Adopt, TellProfileGone, TellHostedGone, Told, Detach, Rename, Erase, At
    <3>3. End(v) \/ Step(v, "push") \/ Step(v, "write")
      BY <3>2 DEF Write, TellMods, PushProfile, PushChannel, PushCommunity, PushGroup, Pushed
    <3>4. CASE End(v)
      BY <2>2, <2>4, <3>4, EndFacts
    <3>5. CASE Step(v, "push") \/ Step(v, "write")
      BY <1>0, <2>2, <2>4, <3>1, <3>5, StepFacts
    <3> QED
      BY <3>3, <3>4, <3>5
  <2> QED
    BY <2>3, <2>4
<1> QED
  BY <1>1, <1>2, <1>3, <1>4, <1>5, <1>6 DEF Next

\* What explains a difference goes on to.
LEMMA ExplainsOn ==
  ASSUME SeatInv, Next, run["chat"] = Idle \/ ForEvent("chat"), NEW e, NEW m \in Handles \ raced', NEW old, NEW new,
         Explains(e, m, old, new)
  PROVE  Explains(e, m, old, new)'
<1>1. m \in ActorsOf(e.up) => m \in ActorsOf(e.up)'
  <2>1. PICK us : us = e.up
    OBVIOUS
  <2> QED
    BY <2>1, ActorsGrow
<1>2. m \in ActorsOf(e.down) => m \in ActorsOf(e.down)'
  <2>1. PICK us : us = e.down
    OBVIOUS
  <2> QED
    BY <2>1, ActorsGrow
<1> QED
  BY <1>1, <1>2 DEF Explains

\* When the first event is done, the followers know what it was about.
LEMMA DroppedWasTold ==
  ASSUME SeatInv, Holds, Next, Drops, Head(pending).what = "power", NEW n \in Handles \ raced,
         Known("community", n), rec["community"][n].room = Head(pending).room, Head(pending).room \notin raced \cup relinked,
         rec'["community"][n] = rec["community"][n],
         NEW m \in Handles \ raced,
         Explains(Head(pending), m, rec["community"][n].mods, modsHeard[n])
  PROVE  m \in rec["community"][n].mods <=> m \in modsHeard[n]
<1> DEFINE e == Head(pending)
<1>0. /\ Typed /\ RoomsApart /\ "chat" \in Workers /\ pending # <<>> /\ e \in Event /\ e.room \in Rooms /\ e.room # NoRoom
      /\ "community" \in Kinds
  <2>1. Typed /\ RoomsApart /\ pending # <<>> /\ pending \in Seq(Event) /\ "chat" \in Workers
    BY WorkerFacts DEF SeatInv, Typed, Drops
  <2>2. e \in Event
    BY <2>1, TailFacts
  <2> QED
    BY <2>1, <2>2, HostedAssumption DEF Event, Rooms, Kinds, Hosted
<1>1. CASE run["chat"] = Idle
  <2>1. PowerJob(e) = {}
    BY <1>1 DEF Drops
  <2>2. ActorsOf(e.up) \ rec["community"][n].mods = {} /\ ActorsOf(e.down) \cap rec["community"][n].mods = {}
    BY <2>1 DEF PowerJob
  <2> QED
    BY <2>2 DEF Explains
<1>2. CASE run["chat"] # Idle
  <2>1. ForEvent("chat") /\ run'["chat"] = Idle
    BY <1>2 DEF Drops
  <2>2. EventStation("chat") /\ House("chat") /\ ~ Linking("chat")
    BY <1>0, <1>2, <2>1, Stand DEF Own, Linking
  <2>3. Write("chat") /\ run["chat"].pc = "write" /\ run["chat"].new.room = e.room
    <3>1. ~ At("chat", "push")
      BY <2>2 DEF At, EventStation
    <3>2. Write("chat")
      BY <1>2, <3>1 DEF Drops
    <3> QED
      BY <2>2, <3>2 DEF Write, At, EventStation
  <2>4. run["chat"].kind = "community" /\ run["chat"].name = n
    <3>1. Serves(e.room) \subseteq {<<run["chat"].kind, run["chat"].name>>}
      BY <1>0, <2>2, <2>3 DEF House
    <3>2. <<"community", n>> \in Serves(e.room)
      BY <1>0 DEF Serves
    <3> QED
      BY <3>1, <3>2
  <2>5. modsHeard[n] = run["chat"].new.mods
    BY <1>2, <2>1, <2>3, <2>4 DEF Holds
  <2>6. CASE Clashes("community", n, e.room)
    <3>1. PICK q \in Handles \ {n} : Known("community", q) /\ rec["community"][q].room = e.room
      BY <2>6 DEF Clashes
    <3>2. <<"community", n>> \in Serves(e.room) /\ <<"community", q>> \in Serves(e.room)
      BY <1>0, <3>1 DEF Serves
    <3> QED
      BY <1>0, <3>1, <3>2 DEF RoomsApart
  <2>7. CASE ~ Clashes("community", n, e.room)
    <3>1. rec' = [rec EXCEPT !["community"][n] = run["chat"].new]
      BY <2>3, <2>4, <2>7 DEF Write
    <3>2. rec'["community"][n] = run["chat"].new
      BY <1>0, <3>1 DEF Typed
    <3> QED
      BY <2>5, <3>2
  <2> QED
    BY <2>6, <2>7
<1> QED
  BY <1>1, <1>2

LEMMA ModsKept ==
  ASSUME StepInv, Next
  PROVE  ModsSound'
<1>0. SeatInv /\ ModsSound /\ Holds /\ Typed
  BY DEF StepInv, SeatInv
<1>1. raced \subseteq raced' /\ relinked \subseteq relinked'
  BY PastGrows
<1> SUFFICES ASSUME NEW n \in Handles \ raced', rec'["community"][n] # NoRecord,
                    NEW q, q = rec'["community"][n].room, q \notin raced' \cup relinked',
                    NEW m \in Handles \ raced'
             PROVE  ModsAgree(n, m)'
  BY DEF ModsSound, Known
<1>2. "community" \in Kinds /\ "community" \in Hosted /\ n \notin raced /\ m \notin raced /\ q \notin raced \cup relinked
  BY <1>1 DEF Kinds, Hosted
<1>3. CASE rec'["community"][n] = rec["community"][n] /\ modsHeard'[n] = modsHeard[n]
  <2>1. Known("community", n) /\ rec["community"][n].room = q /\ ModsAgree(n, m)
    BY <1>0, <1>2, <1>3 DEF Known, ModsSound
  <2>2. CASE m \in rec["community"][n].mods <=> m \in modsHeard[n]
    BY <1>3, <2>2 DEF ModsAgree
  <2>3. CASE PowerAhead(q) /\ Explains(Head(pending), m, rec["community"][n].mods, modsHeard[n])
    <3>1. pending # <<>> /\ Head(pending).what = "power" /\ Head(pending).room = q
          /\ (run["chat"] = Idle \/ ForEvent("chat"))
      BY <2>3 DEF PowerAhead
    <3>2. CASE Drops
      <4>1. m \in rec["community"][n].mods <=> m \in modsHeard[n]
        BY <1>0, <1>2, <1>3, <2>1, <2>3, <3>1, <3>2, DroppedWasTold
      <4> QED
        BY <2>2, <4>1
    <3>3. CASE ~ Drops
      <4>1. pending' # <<>> /\ Head(pending') = Head(pending)
        BY <1>0, <3>1, <3>3, HeadStays
      <4>2. run'["chat"] = Idle \/ ForEvent("chat")'
        BY <1>0, <3>1, ChatStays
      <4>3. PowerAhead(q)'
        BY <3>1, <4>1, <4>2 DEF PowerAhead
      <4>4. PICK e, old, new : e = Head(pending) /\ old = rec["community"][n].mods /\ new = modsHeard[n]
        OBVIOUS
      <4>5. Explains(e, m, old, new)
        BY <2>3, <4>4
      <4>6. Explains(e, m, old, new)'
        BY <1>0, <3>1, <4>5, ExplainsOn
      <4>7. e = Head(pending') /\ old = rec'["community"][n].mods /\ new = modsHeard'[n]
        BY <1>3, <4>1, <4>4
      <4> QED
        BY <4>3, <4>6, <4>7 DEF ModsAgree
    <3> QED
      BY <3>2, <3>3
  <2> QED
    BY <2>1, <2>2, <2>3 DEF ModsAgree
<1>4. CASE rec'["community"][n] # rec["community"][n]
  <2>1. PICK w \in Workers : /\ Write(w) /\ run[w] # Idle /\ run[w].pc = "write" /\ run[w].kind = "community" /\ run[w].name = n
                             /\ rec'["community"][n] = run[w].new
                             /\ ~ Clashes("community", n, run[w].new.room)
    BY <1>0, <1>2, <1>4, HostedWrites
  <2>2. Keep(w) /\ run[w].new.room = q
    BY <1>0, <2>1, Stand DEF Own
  <2> SUFFICES m \in rec'["community"][n].mods <=> m \in modsHeard'[n]
    BY DEF ModsAgree
  <2>3. CASE ~ ForEvent(w)
    <3>1. run[w].cmd.what \in {"create", "link"}
      BY <1>0, <2>1, <2>3, Stand, CommandFacts DEF CommandStation
    <3>2. ~ Known("community", n)
      BY <1>2, <2>1, <2>2, <2>3, <3>1 DEF Keep
    <3>3. modsHeard' = [modsHeard EXCEPT ![n] = run[w].new.mods]
      BY <2>1, <2>3, <3>2 DEF Write
    <3> QED
      BY <1>0, <2>1, <3>3 DEF Typed
  <2>4. CASE ForEvent(w)
    <3>1. UNCHANGED modsHeard
      BY <2>1, <2>4 DEF Write
    <3>2. w = "chat" /\ pending # <<>> /\ Head(pending).what \in {"text", "power"}
      <4>1. w = "chat" /\ pending # <<>> /\ pending \in Seq(Event)
        BY <1>0, <2>1, <2>4, Stand DEF Typed
      <4>2. Head(pending) \in Event
        BY <4>1, TailFacts
      <4> QED
        BY <4>1, <4>2 DEF Event
    <3>3. CASE Head(pending).what = "power"
      <4>1. modsHeard[n] = run[w].new.mods
        BY <1>0, <1>2, <2>1, <2>4, <3>2, <3>3 DEF Holds
      <4> QED
        BY <2>1, <3>1, <4>1
    <3>4. CASE Head(pending).what = "text"
      <4>1. rec["community"][n].mods = run[w].new.mods
        BY <1>0, <1>2, <2>1, <2>4, <3>2, <3>4 DEF Holds
      <4>2. Known("community", n) /\ rec["community"][n].room = q
        BY <1>2, <2>1, <2>2, <2>4 DEF Keep
      <4>3. ModsAgree(n, m)
        BY <1>0, <1>2, <4>2 DEF ModsSound
      <4>4. m \in rec["community"][n].mods <=> m \in modsHeard[n]
        BY <3>4, <4>3 DEF ModsAgree, PowerAhead
      <4> QED
        BY <2>1, <3>1, <4>1, <4>4
    <3> QED
      BY <3>2, <3>3, <3>4
  <2> QED
    BY <2>3, <2>4
<1>5. CASE rec'["community"][n] = rec["community"][n] /\ modsHeard'[n] # modsHeard[n]
  <2>1. PICK w \in Workers : /\ run[w] # Idle /\ run[w].name = n /\ modsHeard'[n] = run[w].new.mods
                             /\ \/ TellMods(w) /\ run[w].pc = "mods"
                                \/ Write(w) /\ ~ ForEvent(w) /\ ~ Known(run[w].kind, n) /\ run[w].pc = "write"
    BY <1>0, <1>5, ModsToldBy
  <2>2. Known("community", n) /\ rec["community"][n].room = q
    BY <1>5 DEF Known
  <2>3. Keep(w)
    BY <1>0, <2>1, Stand DEF Own
  <2>4. CASE TellMods(w) /\ run[w].pc = "mods"
    <3>1. ForEvent(w) /\ w = "chat" /\ pending # <<>> /\ EventStation(w)
      BY <1>0, <2>1, <2>4, Stand DEF CommandStation, Command
    <3>2. Head(pending).what = "power" /\ run[w].kind = "community" /\ Head(pending).room = run[w].new.room
      BY <2>4, <3>1 DEF EventStation
    <3>3. run[w].new.room = q
      BY <1>2, <2>1, <2>2, <2>3, <2>4, <3>1, <3>2 DEF Keep
    <3>4. Explains(Head(pending), m, rec["community"][n].mods, run[w].new.mods)
      BY <1>0, <1>2, <2>1, <3>1, <3>2 DEF Holds
    <3>5. UNCHANGED <<rec, pending>> /\ ForEvent("chat")'
      BY <1>0, <2>1, <2>4, <3>1, StepFacts DEF TellMods
    <3>6. PowerAhead(q)'
      BY <3>1, <3>2, <3>3, <3>5 DEF PowerAhead
    <3>7. Explains(Head(pending'), m, rec'["community"][n].mods, modsHeard'[n])
      BY <2>1, <3>4, <3>5
    <3>8. Explains(Head(pending), m, rec["community"][n].mods, modsHeard[n])'
      BY <3>5, <3>7 DEF Explains, ActorsOf, Known
    <3> QED
      BY <3>6, <3>8 DEF ModsAgree
  <2>5. CASE Write(w) /\ ~ ForEvent(w) /\ ~ Known(run[w].kind, n) /\ run[w].pc = "write"
    <3>1. run[w].kind = "community"
      BY <1>2, <2>1, <2>2, <2>3, <2>5 DEF Keep
    <3> QED
      BY <2>2, <2>5, <3>1
  <2> QED
    BY <2>1, <2>4, <2>5
<1> QED
  BY <1>3, <1>4, <1>5

\* The chat is at an event anew: it took it, told the moderators, or wrote the record.
LEMMA EventStarts ==
  ASSUME SeatInv, Next, run'["chat"] # Idle, run'["chat"] # run["chat"], ForEvent("chat")'
  PROVE  \/ /\ TakeEvent /\ UNCHANGED <<pending, rec>>
            /\ \E job \in (IF Head(pending).what = "text" THEN TextJob(Head(pending)) ELSE PowerJob(Head(pending))) :
                 job \in Work /\ run'["chat"] = job
         \/ Write("chat") /\ Step("chat", "push")
         \/ TellMods("chat")
<1>0. Typed /\ "chat" \in Workers /\ NoRecord \notin Command
  BY WorkerFacts, NothingFacts DEF SeatInv
<1>1. CASE Requests
  <2>1. PICK v \in Workers, c \in Command : Begin(v, c)
    BY <1>1 DEF Requests, Ask
  <2>2. PICK job \in Started(c) : Go(v, job)
    BY <2>1 DEF Begin
  <2>3. job \in Work /\ job.cmd = c
    BY <1>0, StartedFacts DEF StartsSoundly
  <2>4. run'[v] = job /\ \A u \in Workers : u # v => run'[u] = run[u]
    BY <1>0, <2>2, <2>3, GoFacts
  <2> QED
    BY <1>0, <2>3, <2>4 DEF ForEvent
<1>2. CASE Redo
  <2>1. run["chat"] # Idle /\ run["chat"].pc = "again"
    BY <1>2 DEF Redo, At
  <2>2. run["chat"].cmd \in Command
    BY <1>0, <2>1, Stand DEF CommandStation
  <2>3. CASE Go("chat", Idle)
    BY <1>0, <2>3, GoFacts
  <2>4. CASE \E job \in Started(run["chat"].cmd) : Go("chat", job)
    <3>1. PICK job \in Started(run["chat"].cmd) : Go("chat", job)
      BY <2>4
    <3>2. job \in Work /\ job.cmd = run["chat"].cmd
      BY <1>0, <2>2, StartedFacts DEF StartsSoundly
    <3>3. run'["chat"] = job
      BY <1>0, <3>1, <3>2, GoFacts
    <3> QED
      BY <1>0, <2>2, <3>2, <3>3 DEF ForEvent
  <2> QED
    BY <1>2, <2>3, <2>4 DEF Redo
<1>3. CASE TakeEvent
  <2> DEFINE e == Head(pending)
  <2>1. /\ UNCHANGED <<pending, rec>>
        /\ \E job \in (IF e.what = "text" THEN TextJob(e) ELSE PowerJob(e)) : Go("chat", job)
    BY <1>3 DEF TakeEvent
  <2>2. PICK job \in (IF e.what = "text" THEN TextJob(e) ELSE PowerJob(e)) : Go("chat", job)
    BY <2>1
  <2>3. e \in Event
    BY <1>0, <1>3, TailFacts DEF TakeEvent, Typed
  <2>4. job \in Work
    BY <1>0, <2>3, EventJobFacts
  <2>5. run'["chat"] = job
    BY <1>0, <2>2, <2>4, GoFacts
  <2> QED
    BY <1>3, <2>1, <2>2, <2>4, <2>5
<1>4. CASE Outside
  BY <1>4 DEF Outside, JoinServer, Change, ChangePower, UnchangedInside
<1>5. CASE Crash
  <2>1. run' = [run EXCEPT !["widget"] = Idle,
                           !["chat"] = IF @ = Idle \/ @.cmd = NoRecord THEN Idle ELSE [@ EXCEPT !.pc = "again"]]
    BY <1>5 DEF Crash
  <2>2. run'["chat"] = IF run["chat"] = Idle \/ run["chat"].cmd = NoRecord THEN Idle ELSE [run["chat"] EXCEPT !.pc = "again"]
    BY <1>0, <2>1 DEF Typed
  <2>3. run["chat"] # Idle /\ run["chat"].cmd # NoRecord /\ run'["chat"] = [run["chat"] EXCEPT !.pc = "again"]
    BY <2>2
  <2>4. run'["chat"].cmd = run["chat"].cmd
    BY <1>0, <2>3, TaskFacts DEF Work
  <2> QED
    BY <2>3, <2>4 DEF ForEvent
<1>6. CASE \E v \in Workers : Continue(v)
  <2>1. PICK v \in Workers : Continue(v)
    BY <1>6
  <2>2. run[v] # Idle
    BY <2>1 DEF Continue, MakeRoom, NoRoomMade, Adopt, Write, TellMods, PushProfile, PushChannel, PushCommunity, PushGroup, Pushed,
                TellProfileGone, TellHostedGone, Told, Detach, Rename, Erase, At
  <2>3. v = "chat"
    <3>1. \E job : Go(v, job)
      BY <2>1 DEF Continue, MakeRoom, NoRoomMade, Adopt, Write, TellMods, PushProfile, PushChannel, PushCommunity, PushGroup, Pushed,
                  TellProfileGone, TellHostedGone, Told, Detach, Rename, Erase, Step, End
    <3> QED
      BY <1>0, <3>1 DEF Go, Typed
  <2>4. run'["chat"].cmd = run["chat"].cmd
    <3>1. CASE MakeRoom(v)
      <4>1. PICK r \in NewRooms : Go(v, [run[v] EXCEPT !.new.room = r, !.pc = "write"])
        BY <3>1 DEF MakeRoom
      <4>2. run'["chat"] = [run["chat"] EXCEPT !.new.room = r, !.pc = "write"]
        BY <1>0, <2>3, <4>1 DEF Go, Typed
      <4> QED
        BY <1>0, <2>2, <2>3, <4>2, TaskFacts DEF Work
    <3>2. CASE Adopt(v)
      <4>1. CASE Step(v, "write")
        BY <1>0, <2>2, <2>3, <4>1, StepFacts
      <4>2. CASE Go(v, [run[v] EXCEPT !.new.text = text[run[v].new.room], !.pc = "write"])
        <5>1. run'["chat"] = [run["chat"] EXCEPT !.new.text = text[run["chat"].new.room], !.pc = "write"]
          BY <1>0, <2>3, <4>2 DEF Go, Typed
        <5> QED
          BY <1>0, <2>2, <2>3, <5>1, TaskFacts DEF Work
      <4> QED
        BY <3>2, <4>1, <4>2 DEF Adopt
    <3>3. CASE \E p \in {"detach", "rename", "erase", "write", "push"} : Step(v, p)
      <4>1. PICK p \in {"detach", "rename", "erase", "write", "push"} : Step(v, p)
        BY <3>3
      <4> QED
        BY <1>0, <2>2, <2>3, <4>1, StepFacts
    <3>4. ~ Go(v, Idle)
      BY <1>0, <2>3 DEF Go, Typed
    <3> QED
      BY <2>1, <3>1, <3>2, <3>3, <3>4 DEF Continue, NoRoomMade, Write, TellMods, PushProfile, PushChannel, PushCommunity, PushGroup,
             Pushed, TellProfileGone, TellHostedGone, Told, Detach, Rename, Erase, End
  <2>5. ForEvent("chat") /\ run["chat"].pc \in {"write", "push", "mods"}
    <3>1. ForEvent("chat")
      BY <2>4 DEF ForEvent
    <3> QED
      BY <2>2, <2>3, <3>1, Stand
  <2>6. Write(v) \/ TellMods(v) \/ PushProfile(v) \/ PushChannel(v) \/ PushCommunity(v) \/ PushGroup(v)
    BY <2>1, <2>3, <2>5 DEF Continue, MakeRoom, NoRoomMade, Adopt, TellProfileGone, TellHostedGone, Told, Detach, Rename, Erase, At
  <2>7. ~ End(v)
    BY <2>2, <2>3, EndFacts
  <2> QED
    BY <2>3, <2>6, <2>7 DEF Write, PushProfile, PushChannel, PushCommunity, PushGroup, Pushed
<1> QED
  BY <1>1, <1>2, <1>3, <1>4, <1>5, <1>6 DEF Next

LEMMA HoldsKept ==
  ASSUME StepInv, Next
  PROVE  Holds'
<1>0. SeatInv /\ Holds /\ Typed /\ HandsSound /\ "chat" \in Workers
  BY WorkerFacts DEF StepInv, SeatInv
<1>1. raced \subseteq raced'
  BY PastGrows
<1> SUFFICES ASSUME run'["chat"] # Idle, ForEvent("chat")',
                    NEW k, NEW n, k = run'["chat"].kind, n = run'["chat"].name, n \notin raced'
             PROVE  /\ run'["chat"].pc = "push" \/ Head(pending').what = "power" => rec'[k][n].text = run'["chat"].new.text
                    /\ Head(pending').what = "text" => rec'[k][n].mods = run'["chat"].new.mods
                    /\ Head(pending').what = "power" =>
                         /\ \A m \in Handles \ raced' :
                              Explains(Head(pending), m, rec["community"][n].mods, run["chat"].new.mods)'
                         /\ run'["chat"].pc = "write" => modsHeard'[n] = run'["chat"].new.mods
  BY DEF Holds
<1>2. n \notin raced
  BY <1>1
<1>3. CASE run'["chat"] = run["chat"]
  <2>1. run["chat"] # Idle /\ ForEvent("chat") /\ k = run["chat"].kind /\ n = run["chat"].name
    BY <1>3 DEF ForEvent
  <2>2. k \in Kinds /\ n \in Handles /\ pending # <<>> /\ EventStation("chat")
    BY <1>0, <2>1, TaskFacts, Stand
  <2>3. ~ Drops
    BY <1>3, <2>1 DEF Drops
  <2>4. Head(pending') = Head(pending)
    BY <1>0, <2>2, <2>3, HeadStays
  <2>5. rec'[k][n] = rec[k][n]
    <3> SUFFICES ASSUME rec'[k][n] # rec[k][n]
                 PROVE  FALSE
      OBVIOUS
    <3>1. PICK w \in Workers : run[w] # Idle /\ run[w].name = n /\ run'[w] # run[w]
      BY <1>0, <2>2, RecordWrites
    <3> QED
      BY <1>0, <1>2, <1>3, <2>1, <3>1, BothHands
  <2>6. modsHeard'[n] = modsHeard[n]
    <3> SUFFICES ASSUME modsHeard'[n] # modsHeard[n]
                 PROVE  FALSE
      OBVIOUS
    <3>1. PICK w \in Workers : run[w] # Idle /\ run[w].name = n /\ run'[w] # run[w]
      BY <1>0, <2>2, ModsToldBy
    <3> QED
      BY <1>0, <1>2, <1>3, <2>1, <3>1, BothHands
  <2>7. /\ run["chat"].pc = "push" \/ Head(pending).what = "power" => rec[k][n].text = run["chat"].new.text
        /\ Head(pending).what = "text" => rec[k][n].mods = run["chat"].new.mods
        /\ Head(pending).what = "power" =>
             /\ \A m \in Handles \ raced : Explains(Head(pending), m, rec["community"][n].mods, run["chat"].new.mods)
             /\ run["chat"].pc = "write" => modsHeard[n] = run["chat"].new.mods
    BY <1>0, <1>2, <2>1 DEF Holds
  <2>8. ASSUME Head(pending).what = "power", NEW m \in Handles \ raced'
        PROVE  Explains(Head(pending), m, rec["community"][n].mods, run["chat"].new.mods)'
    <3>1. k = "community"
      BY <2>1, <2>2, <2>8 DEF EventStation
    <3>2. PICK e, old, new : e = Head(pending) /\ old = rec["community"][n].mods /\ new = run["chat"].new.mods
      OBVIOUS
    <3>3. Explains(e, m, old, new)
      BY <1>1, <2>7, <2>8, <3>2
    <3>4. Explains(e, m, old, new)'
      BY <1>0, <2>1, <3>3, ExplainsOn
    <3>5. e = Head(pending') /\ old = rec'["community"][n].mods /\ new = run'["chat"].new.mods
      BY <1>3, <2>4, <2>5, <3>1, <3>2
    <3> QED
      BY <3>4, <3>5
  <2> QED
    BY <1>3, <2>4, <2>5, <2>6, <2>7, <2>8
<1>4. CASE run'["chat"] # run["chat"]
  <2>1. CASE /\ TakeEvent /\ UNCHANGED <<pending, rec>>
             /\ \E job \in (IF Head(pending).what = "text" THEN TextJob(Head(pending)) ELSE PowerJob(Head(pending))) :
                  job \in Work /\ run'["chat"] = job
    <3>1. PICK e : e = Head(pending)
      OBVIOUS
    <3>2. PICK job \in (IF e.what = "text" THEN TextJob(e) ELSE PowerJob(e)) : job \in Work /\ run'["chat"] = job
      BY <2>1, <3>1
    <3>3. e \in Event
      BY <1>0, <2>1, <3>1, TailFacts DEF TakeEvent, Typed
    <3>4. k = job.kind /\ n = job.name
      BY <3>2
    <3>5. /\ e.what = "text" => job.pc = "write" /\ job.new.mods = rec[k][n].mods
          /\ e.what = "power" =>
               /\ job.pc = "mods" /\ k = "community" /\ job.new.text = rec[k][n].text
               /\ job.new.mods = (rec[k][n].mods \cup ActorsOf(e.up)) \ ActorsOf(e.down)
      BY <1>0, <3>2, <3>3, <3>4, EventJobFacts
    <3>6. e.what = "power" =>
            \A m \in Handles \ raced' : Explains(Head(pending), m, rec["community"][n].mods, run["chat"].new.mods)'
      <4> SUFFICES ASSUME e.what = "power", NEW m \in Handles
                   PROVE  Explains(Head(pending), m, rec["community"][n].mods, run["chat"].new.mods)'
        OBVIOUS
      <4>1. Explains(e, m, rec["community"][n].mods, job.new.mods)
        BY <3>5 DEF Explains
      <4> QED
        BY <2>1, <3>1, <3>2, <4>1 DEF Explains, ActorsOf, Known
    <3>7. e.what \in {"text", "power"}
      BY <3>3 DEF Event
    <3> QED
      BY <2>1, <3>1, <3>2, <3>5, <3>6, <3>7
  <2>2. CASE Write("chat") /\ Step("chat", "push")
    <3>1. run["chat"] # Idle /\ run["chat"].pc = "write"
      BY <2>2 DEF Write, At
    <3>2. /\ run'["chat"].kind = run["chat"].kind /\ run'["chat"].name = run["chat"].name
          /\ run'["chat"].new = run["chat"].new /\ run'["chat"].pc = "push"
      BY <1>0, <2>2, <3>1, StepFacts
    <3>3. ~ End("chat")
      BY <1>0, <3>1, EndFacts
    <3>4. Head(pending).what = "text" /\ UNCHANGED pending /\ rec' = [rec EXCEPT ![k][n] = run["chat"].new]
      BY <2>2, <3>2, <3>3 DEF Write
    <3>5. k \in Kinds /\ n \in Handles
      BY <1>0, <3>1, <3>2, TaskFacts
    <3>6. rec'[k][n] = run["chat"].new
      BY <1>0, <3>4, <3>5 DEF Typed
    <3> QED
      BY <3>2, <3>4, <3>6
  <2>3. CASE TellMods("chat")
    <3>1. run["chat"] # Idle /\ run["chat"].pc = "mods" /\ Step("chat", "write") /\ UNCHANGED <<rec, pending>>
      BY <2>3 DEF TellMods, At
    <3>2. /\ run'["chat"].kind = run["chat"].kind /\ run'["chat"].name = run["chat"].name
          /\ run'["chat"].new = run["chat"].new /\ run'["chat"].pc = "write" /\ ForEvent("chat")
      BY <1>0, <3>1, StepFacts
    <3>3. Head(pending).what = "power"
      BY <1>0, <3>1, <3>2, Stand DEF EventStation
    <3>4. n \in Handles
      BY <1>0, <3>1, <3>2, TaskFacts
    <3>5. modsHeard'[n] = run["chat"].new.mods
      BY <1>0, <2>3, <3>2, <3>4 DEF TellMods, Typed
    <3>6. /\ rec[k][n].text = run["chat"].new.text
          /\ \A m \in Handles \ raced : Explains(Head(pending), m, rec["community"][n].mods, run["chat"].new.mods)
      BY <1>0, <1>2, <3>1, <3>2, <3>3 DEF Holds
    <3>7. \A m \in Handles \ raced' : Explains(Head(pending), m, rec["community"][n].mods, run["chat"].new.mods)'
      BY <1>1, <3>1, <3>2, <3>6 DEF Explains, ActorsOf, Known
    <3> QED
      BY <3>1, <3>2, <3>3, <3>5, <3>6, <3>7
  <2> QED
    BY <1>0, <1>4, <2>1, <2>2, <2>3, EventStarts
<1> QED
  BY <1>3, <1>4

-----------------------------------------------------------------------------

LEMMA InitStep == Init => StepInv
<1> SUFFICES ASSUME Init
             PROVE  StepInv
  OBVIOUS
<1>1. SeatInv
  BY InitSeat
<1>2. \A w \in Workers : run[w] = Idle
  BY DEF Init
<1>3. pending = <<>>
  BY DEF Init
<1>4. \A k \in Hosted, n \in Handles : ~ Known(k, n)
  BY DEF Init, Known, Hosted, Kinds
<1>5. LastTexts
  BY <1>3 DEF LastTexts
<1>6. TextsSound
  BY <1>4 DEF TextsSound
<1>7. CopiesSound
  BY <1>2 DEF CopiesSound
<1>8. ModsSound
  BY <1>4 DEF ModsSound, Hosted
<1>9. Holds
  BY <1>2, WorkerFacts DEF Holds
<1> QED
  BY <1>1, <1>5, <1>6, <1>7, <1>8, <1>9 DEF StepInv

LEMMA StutterStep ==
  ASSUME StepInv, UNCHANGED vars
  PROVE  StepInv'
<1>1. SeatInv'
  BY NextSeat DEF StepInv
<1>2. LastTexts' /\ TextsSound'
  BY DEF vars, StepInv, LastTexts, TextsSound, Says, TextDue, Known
<1>3. CopiesSound'
  BY DEF vars, StepInv, CopiesSound, Copying, Says, TextDue, ForEvent
<1>4. ModsSound'
  BY DEF vars, StepInv, ModsSound, ModsAgree, PowerAhead, Explains, ActorsOf, Known, ForEvent
<1>5. Holds'
  BY DEF vars, StepInv, Holds, Explains, ActorsOf, Known, ForEvent
<1> QED
  BY <1>1, <1>2, <1>3, <1>4, <1>5 DEF StepInv

LEMMA NextStep == StepInv /\ [Next]_vars => StepInv'
<1> SUFFICES ASSUME StepInv, [Next]_vars
             PROVE  StepInv'
  OBVIOUS
<1>1. CASE Next
  <2>1. SeatInv' /\ LastTexts'
    BY <1>1, NextSeat, LastTextsKept DEF StepInv
  <2> QED
    BY <1>1, <2>1, TextsKept, CopiesKept, ModsKept, HoldsKept DEF StepInv
<1>2. CASE UNCHANGED vars
  BY <1>2, StutterStep
<1> QED
  BY <1>1, <1>2

\* When the bridge has caught up, a hosted actor says what its room says and its
\* followers know its moderators (InStep), whatever came between reading a record
\* and writing it back: an event stays the first until its record is written.
THEOREM ActorsAreInStep == Spec => []InStep
<1>1. Spec => []StepInv
  BY InitStep, NextStep, PTL DEF Spec
<1>2. StepInv => InStep
  <2> SUFFICES ASSUME StepInv, Quiet, NEW k \in Hosted, NEW n \in Handles \ raced, rec[k][n] # NoRecord,
                      rec[k][n].room \notin raced \cup relinked \cup blind
               PROVE  /\ rec[k][n].text = text[rec[k][n].room]
                      /\ k = "community" => \A m \in Handles \ raced : m \in rec[k][n].mods <=> m \in modsHeard[n]
    BY DEF InStep
  <2>1. pending = <<>> /\ Known(k, n)
    BY DEF Quiet, Known
  <2>2. Says(rec[k][n].room, rec[k][n].text)
    BY <2>1 DEF StepInv, TextsSound
  <2>3. ~ TextDue(rec[k][n].room)
    BY <2>1 DEF TextDue
  <2>4. k = "community" => \A m \in Handles \ raced : ModsAgree(n, m)
    BY <2>1 DEF StepInv, ModsSound
  <2>5. k = "community" => \A m \in Handles \ raced : m \in rec[k][n].mods <=> m \in modsHeard[n]
    BY <2>1, <2>4 DEF ModsAgree, PowerAhead
  <2> QED
    BY <2>2, <2>3, <2>5 DEF Says
<1> QED
  BY <1>1, <1>2, PTL
=============================================================================
