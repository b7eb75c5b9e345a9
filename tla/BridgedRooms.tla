----------------------------- MODULE BridgedRooms ------------------------------
(***************************************************************************)
(* The rooms the bridge makes: looked up and made by whoever needs one,     *)
(* replaced on request, joined, kept in step with the account they show.    *)
(*                                                                         *)
(* One behaviour follows one slot: the room of a remote account, of a DM or *)
(* chat between a ghost and a user, of a user's notifications, of a         *)
(* community, group, channel, guild or user's space.  The slot has one row  *)
(* in the table of its kind, and for three kinds a history of every room it *)
(* has had (remote_actor_rooms and remote_actor_room_history, ...).  None   *)
(* of this is under a lock: every step below ends at an await.  Matrix      *)
(* events are handled one after the other, in the lane Matrix; inbox        *)
(* activities are background tasks, in the lanes Inbox.                     *)
(***************************************************************************)
EXTENDS FiniteSets, Naturals

CONSTANTS
    SlotKinds,   \* the kinds of slot looked at
    RoomIds,     \* bound: the rooms that can be made
    LocalNames,  \* the local identities a DM or chat can be bound to
    Matrix,      \* the lane of Matrix events
    Inbox,       \* the lanes of inbox activities
    MaxOps,      \* bound: operations begun
    MaxFaults,   \* bound: rooms that cannot be made, tombstones that fail, restarts
    Nothing

Pairs == {"dm", "chat"}
Ghosts == Pairs \cup {"remote"}                 \* made by a ghost, with a history
Communities == {"lemmy", "group"}
Backfilled == Communities \cup {"remote"}       \* have a pending_backfill
Replaceable == Ghosts \cup {"notifications"}
AllKinds == Ghosts \cup Communities \cup {"notifications", "channel", "guild", "space"}

Lanes == Inbox \cup {Matrix}

\* The slot's row in the table of its kind.
Row == [room : RoomIds, pending : BOOLEAN, as : LocalNames \cup {Nothing}]

ASSUME RoomsAssumption ==
    /\ SlotKinds \subseteq AllKinds /\ SlotKinds # {}
    /\ IsFiniteSet(RoomIds)
    /\ MaxOps \in Nat /\ MaxFaults \in Nat
    /\ Nothing \notin RoomIds \cup LocalNames \cup Row
    /\ Matrix \notin Inbox

VARIABLES
    kind,        \* the kind of the slot
    row,         \* its row, or Nothing
    history,     \* its history table: each room is unknown, past or current
    profile,     \* the ghost's ghost_profiles row: none, named, nameless (no mxid)
    madeAs,      \* what each room was made as
    moved,       \* where the tombstone of each room points
    task,        \* what each lane is doing
    backfills,   \* backfills started because a room was joined
    known,       \* rooms that have been in the slot's row
    overtaken,   \* somebody registered a room over one they had not seen
    begun, faults

tables == <<row, history, known, overtaken>>
roomsVars == <<kind, row, history, profile, madeAs, moved, task, backfills, known,
               overtaken, begun, faults>>

Stages == {"profile", "lookup", "lock", "create", "register", "tombstone", "mark",
           "backfill", "wipe"}
Free == [op |-> "none", pc |-> "lookup", seen |-> Nothing, room |-> Nothing,
         new |-> Nothing, follow |-> FALSE, as |-> Nothing]
Task == [op : {"none", "ensure", "replace", "join", "invite", "update", "refresh"},
         pc : Stages, seen : Row \cup {Nothing}, room : RoomIds \cup {Nothing},
         new : RoomIds \cup {Nothing}, follow : BOOLEAN, as : LocalNames \cup {Nothing}]

RoomsInit ==
    /\ kind \in SlotKinds
    /\ row = Nothing
    /\ history = [r \in RoomIds |-> "unknown"]
    /\ profile = "none"
    /\ madeAs = [r \in RoomIds |-> "unused"]
    /\ moved = [r \in RoomIds |-> Nothing]
    /\ task = [l \in Lanes |-> Free]
    /\ backfills = 0
    /\ known = {} /\ overtaken = FALSE
    /\ begun = 0 /\ faults = 0

-----------------------------------------------------------------------------
Doing(l, op) == task[l].op = op
LaneAt(l, pc) == ~Doing(l, "none") /\ task[l].pc = pc
RoomOf(x) == IF x = Nothing THEN Nothing ELSE x.room
Current == RoomOf(row)
Fresh == {r \in RoomIds : madeAs[r] = "unused"}

LaneGoes(l, pc) == task' = [task EXCEPT ![l].pc = pc]
See(l, pc) == task' = [task EXCEPT ![l].pc = pc, ![l].seen = row]
Finish(l) == task' = [task EXCEPT ![l] = Free]
Fault == faults < MaxFaults /\ faults' = faults + 1

\* Variant: the flag of the caller is written too.
UpsertPending(r, pending, as) ==
    row' = [room |-> r, pending |-> pending, as |-> IF row = Nothing THEN as ELSE row.as]

(***************************************************************************)
(* The tables.  A later registration moves the row to its room, and leaves  *)
(* pending_backfill and local_username as the first one set them.           *)
(***************************************************************************)
Upsert(r, pending, as) ==
    row' = IF row = Nothing THEN [room |-> r, pending |-> pending, as |-> as]
                            ELSE [row EXCEPT !.room = r]

\* Variant: the flag of the last room is not cleared.
RememberAlso(r) ==
    history' = IF kind \notin Ghosts THEN history ELSE [history EXCEPT ![r] = "current"]

RememberRoom(r) ==
    history' = IF kind \notin Ghosts THEN history
               ELSE [x \in RoomIds |-> IF x = r THEN "current"
                                       ELSE IF history[x] = "current" THEN "past"
                                       ELSE history[x]]

\* seen: the row the caller goes by.
Register(seen, r, pending, as) ==
    /\ Upsert(r, pending, as)
    /\ RememberRoom(r)
    /\ known' = known \cup {r}
    /\ overtaken' = (overtaken \/ RoomOf(seen) # RoomOf(row))

MarkDone(r) ==
    row' = IF Current = r THEN [row EXCEPT !.pending = FALSE] ELSE row

-----------------------------------------------------------------------------
(***************************************************************************)
(* What comes in.                                                          *)
(***************************************************************************)
Ensurers == IF kind \in Communities THEN {Matrix}
            ELSE IF kind = "guild" THEN Inbox ELSE Lanes

Start(l, op, pc, r, follow, as) ==
    /\ Doing(l, "none") /\ begun < MaxOps
    /\ begun' = begun + 1
    /\ task' = [task EXCEPT ![l] =
                  [op |-> op, pc |-> pc, seen |-> Nothing, room |-> r, new |-> Nothing,
                   follow |-> follow, as |-> as]]
    /\ UNCHANGED <<kind, tables, profile, moved, backfills, faults>>

\* Somebody needs the room: ;dm, ;chat, ;follow, ;import, a message, a notice.
\* Only ;follow asks for a backfill, and it makes every community's room.
EnsureComes(l) ==
    /\ l \in Ensurers
    /\ \E follow \in IF kind \in Communities THEN {TRUE}
                     ELSE IF kind = "remote" /\ l = Matrix THEN BOOLEAN ELSE {FALSE},
          as \in IF kind \in Pairs THEN LocalNames ELSE {Nothing} :
             Start(l, "ensure", IF kind \in Pairs THEN "profile" ELSE "lookup",
                   Nothing, follow, as)
    /\ UNCHANGED madeAs

\* A confirmed `replace room', or `replace dm' and `replace chat', of a room the
\* slot has, or once had.
ReplaceComes ==
    /\ kind \in Replaceable
    /\ \E r \in known : Start(Matrix, "replace", "lookup", r, FALSE, Nothing)
    /\ UNCHANGED madeAs

JoinComes ==
    /\ kind \in Backfilled
    /\ \E r \in known : Start(Matrix, "join", "lookup", r, FALSE, Nothing)
    /\ UNCHANGED madeAs

\* A user invites the ghost to a room of theirs, or to one it has been in.
InviteComes ==
    /\ kind = "chat" /\ begun < MaxOps
    /\ \E r \in known \cup Fresh, as \in LocalNames :
         /\ Start(Matrix, "invite", "lookup", r, FALSE, as)
         /\ madeAs' = IF r \in Fresh THEN [madeAs EXCEPT ![r] = "outside"] ELSE madeAs

\* The account has changed its profile, or somebody asks to look.
UpdateComes(l) ==
    /\ \/ kind = "lemmy"
       \/ kind \in Ghosts /\ l \in Inbox
    /\ Start(l, "update", IF kind \in Pairs THEN "wipe" ELSE "lookup", Nothing, FALSE, Nothing)
    /\ UNCHANGED madeAs

RefreshComes ==
    /\ kind = "remote"
    /\ Start(Matrix, "refresh", "lookup", Nothing, FALSE, Nothing)
    /\ UNCHANGED madeAs

\* An administrator tombstones a channel's room by hand.
ChannelUpgraded ==
    /\ kind = "channel" /\ Fault
    /\ \E r, s \in known : moved[r] = Nothing /\ r # s /\ moved' = [moved EXCEPT ![r] = s]
    /\ UNCHANGED <<kind, tables, profile, madeAs, task, backfills, begun>>

-----------------------------------------------------------------------------
(***************************************************************************)
(* Looking up and making a room.                                           *)
(***************************************************************************)
\* sync_ghost_profile, or record_ghost_profile of the account just fetched.
RecordProfile(l) ==
    /\ LaneAt(l, "profile")
    /\ profile' = "named"
    /\ LaneGoes(l, CASE Doing(l, "refresh") -> "register"
                     [] Doing(l, "ensure") /\ kind \in Pairs -> "lookup"
                     [] OTHER -> "create")
    /\ UNCHANGED <<kind, tables, madeAs, moved, backfills, begun, faults>>

Reusable == row # Nothing /\ (kind = "channel" => moved[row.room] = Nothing)

EnsureLookup(l) ==
    /\ LaneAt(l, "lookup") /\ Doing(l, "ensure")
    /\ IF Reusable THEN Finish(l) ELSE See(l, IF kind = "remote" THEN "profile" ELSE "create")
    /\ UNCHANGED <<kind, tables, profile, madeAs, moved, backfills, begun, faults>>

\* _classify_replace_room_target and the checks of the kind: only the current
\* room is replaced, and a DM's only while its ghost's mxid is on record.
ReplaceLookup(l) ==
    /\ LaneAt(l, "lookup") /\ Doing(l, "replace")
    /\ IF task[l].room # Current \/ (kind \in Pairs /\ profile # "named")
         THEN Finish(l)
         ELSE See(l, IF kind = "remote" THEN "profile" ELSE "create")
    /\ UNCHANGED <<kind, tables, profile, madeAs, moved, backfills, begun, faults>>

CannotCreate(l) ==
    /\ LaneAt(l, "create") /\ Fault
    /\ Finish(l)
    /\ UNCHANGED <<kind, tables, profile, madeAs, moved, backfills, begun>>

\* A homeserver may encrypt a DM's or chat's room: that one is never registered.
Create(l) ==
    /\ LaneAt(l, "create")
    /\ \E r \in Fresh :
         \/ /\ madeAs' = [madeAs EXCEPT ![r] = IF Doing(l, "replace") THEN "replacement" ELSE "room"]
            /\ task' = [task EXCEPT ![l].new = r, ![l].pc = "register"]
         \/ /\ kind \in Pairs
            /\ madeAs' = [madeAs EXCEPT ![r] = "encrypted"]
            /\ Finish(l)
    /\ UNCHANGED <<kind, tables, profile, moved, backfills, begun, faults>>

EnsureRegister(l) ==
    /\ LaneAt(l, "register") /\ Doing(l, "ensure")
    /\ Register(task[l].seen, task[l].new, task[l].follow, task[l].as)
    /\ Finish(l)
    /\ UNCHANGED <<kind, profile, madeAs, moved, backfills, begun, faults>>

\* Variant: the old room is tombstoned with nothing registered.
ReplaceRegisterNot(l) ==
    /\ LaneAt(l, "register") /\ Doing(l, "replace") /\ kind \notin Pairs
    /\ LaneGoes(l, "tombstone")
    /\ UNCHANGED <<kind, tables, profile, madeAs, moved, backfills, begun, faults>>

ReplaceRegister(l) ==
    /\ LaneAt(l, "register") /\ Doing(l, "replace") /\ kind \notin Pairs
    /\ Register(task[l].seen, task[l].new, FALSE, Nothing)
    /\ LaneGoes(l, "tombstone")
    /\ UNCHANGED <<kind, profile, madeAs, moved, backfills, begun, faults>>

\* register_ghost_dm_room and register_ghost_chat_room are called without the
\* local_username they need: a TypeError.
ReplaceRaises(l) ==
    /\ LaneAt(l, "register") /\ Doing(l, "replace") /\ kind \in Pairs
    /\ Finish(l)
    /\ UNCHANGED <<kind, tables, profile, madeAs, moved, backfills, begun, faults>>

\* The tombstone is best effort.
Tombstone(l) ==
    /\ LaneAt(l, "tombstone")
    /\ \/ moved' = [moved EXCEPT ![task[l].room] = task[l].new] /\ UNCHANGED faults
       \/ Fault /\ UNCHANGED moved
    /\ Finish(l)
    /\ UNCHANGED <<kind, tables, profile, madeAs, backfills, begun>>

-----------------------------------------------------------------------------
(***************************************************************************)
(* Joins and invitations.                                                  *)
(***************************************************************************)
\* An old room is resolved through the history, without a pending flag.
JoinLookup(l) ==
    /\ LaneAt(l, "lookup") /\ Doing(l, "join")
    /\ IF Current = task[l].room /\ row.pending THEN LaneGoes(l, "mark") ELSE Finish(l)
    /\ UNCHANGED <<kind, tables, profile, madeAs, moved, backfills, begun, faults>>

Mark(l) ==
    /\ LaneAt(l, "mark")
    /\ MarkDone(task[l].room)
    /\ LaneGoes(l, "backfill")
    /\ UNCHANGED <<kind, history, known, overtaken, profile, madeAs, moved, backfills,
                   begun, faults>>

Backfill(l) ==
    /\ LaneAt(l, "backfill")
    /\ backfills' = backfills + 1
    /\ Finish(l)
    /\ UNCHANGED <<kind, tables, profile, madeAs, moved, begun, faults>>

\* A room no table has in its row now is the chat from here on, if the ghost's
\* mxid is on record; the ghost joins anyway.
InviteLookup(l) ==
    /\ LaneAt(l, "lookup") /\ Doing(l, "invite")
    /\ IF task[l].room = Current \/ profile # "named" THEN Finish(l) ELSE See(l, "register")
    /\ UNCHANGED <<kind, tables, profile, madeAs, moved, backfills, begun, faults>>

InviteRegister(l) ==
    /\ LaneAt(l, "register") /\ Doing(l, "invite")
    /\ Register(row, task[l].room, FALSE, task[l].as)
    /\ Finish(l)
    /\ UNCHANGED <<kind, profile, madeAs, moved, backfills, begun, faults>>

-----------------------------------------------------------------------------
(***************************************************************************)
(* The account's profile: an Update, ;refresh, a resync.                   *)
(***************************************************************************)
SyncLookup(l) ==
    /\ LaneAt(l, "lookup") /\ task[l].op \in {"update", "refresh"}
    /\ IF row = Nothing THEN Finish(l)
       ELSE See(l, CASE kind = "lemmy" -> "lock"
                     [] Doing(l, "refresh") -> "profile"
                     [] OTHER -> "register")
    /\ UNCHANGED <<kind, tables, profile, madeAs, moved, backfills, begun, faults>>

\* maybe_resync_community, one at a time for a room.
ResyncLock(l) ==
    /\ LaneAt(l, "lock")
    /\ \A m \in Lanes : ~(Doing(m, "update") /\ LaneAt(m, "register"))
    /\ LaneGoes(l, "register")
    /\ UNCHANGED <<kind, tables, profile, madeAs, moved, backfills, begun, faults>>

\* The row as it was looked up is written back.
SyncRegister(l) ==
    /\ LaneAt(l, "register") /\ task[l].op \in {"update", "refresh"}
    /\ LET seen == task[l].seen IN
         Register(seen, seen.room, kind = "lemmy" /\ seen.pending, seen.as)
    /\ IF kind = "remote" /\ Doing(l, "update") THEN LaneGoes(l, "wipe") ELSE Finish(l)
    /\ UNCHANGED <<kind, profile, madeAs, moved, backfills, begun, faults>>

\* _handle_update records the ghost's profile without its mxid and handle.
WipeProfile(l) ==
    /\ LaneAt(l, "wipe")
    /\ profile' = "nameless"
    /\ Finish(l)
    /\ UNCHANGED <<kind, tables, madeAs, moved, backfills, begun, faults>>

-----------------------------------------------------------------------------
LaneSteps(l) ==
    \/ RecordProfile(l) \/ EnsureLookup(l) \/ ReplaceLookup(l)
    \/ CannotCreate(l) \/ Create(l)
    \/ EnsureRegister(l) \/ ReplaceRegister(l) \/ ReplaceRaises(l) \/ Tombstone(l)
    \/ JoinLookup(l) \/ Mark(l) \/ Backfill(l)
    \/ InviteLookup(l) \/ InviteRegister(l)
    \/ SyncLookup(l) \/ ResyncLock(l) \/ SyncRegister(l) \/ WipeProfile(l)

\* The process is restarted: what was being done is gone.
Restart ==
    /\ \E l \in Lanes : ~Doing(l, "none")
    /\ Fault
    /\ task' = [l \in Lanes |-> Free]
    /\ UNCHANGED <<kind, tables, profile, madeAs, moved, backfills, begun>>

\* The bounds are used up.
Rest == (\A l \in Lanes : Doing(l, "none") \/ (LaneAt(l, "create") /\ Fresh = {}))
        /\ UNCHANGED roomsVars

RoomsNext ==
    \/ \E l \in Lanes : EnsureComes(l) \/ UpdateComes(l) \/ LaneSteps(l)
    \/ ReplaceComes \/ JoinComes \/ InviteComes \/ RefreshComes \/ ChannelUpgraded
    \/ Restart \/ Rest

RoomsSpec == RoomsInit /\ [][RoomsNext]_roomsVars

-----------------------------------------------------------------------------
(***************************************************************************)
(* What the code promises.                                                 *)
(***************************************************************************)
\* The room of a slot has not been left for another, however the operations
\* interleave, unless one was registered over another unseen.
CurrentIsOpen ==
    row # Nothing /\ ~overtaken /\ kind # "channel" => moved[row.room] = Nothing

\* Types, and the partial unique index of the history tables: the one current
\* room of a slot is the one its row has (register_remote_actor_room, ...), and
\* is not a room that was left for another.
RoomsInv ==
    /\ CurrentIsOpen
    /\ kind \in SlotKinds
    /\ row \in Row \cup {Nothing}
    /\ history \in [RoomIds -> {"unknown", "past", "current"}]
    /\ profile \in {"none", "named", "nameless"}
    /\ madeAs \in [RoomIds -> {"unused", "room", "replacement", "outside", "encrypted"}]
    /\ moved \in [RoomIds -> RoomIds \cup {Nothing}]
    /\ task \in [Lanes -> Task]
    /\ backfills \in Nat /\ overtaken \in BOOLEAN
    /\ known \subseteq RoomIds
    /\ kind \in Ghosts => \A r \in RoomIds :
         /\ history[r] = "current" <=> r = Current
         /\ history[r] # "unknown" <=> r \in known

\* Whoever follows the tombstones from a room comes to an end, in a room the
\* bridge knows: they are set after the new room is registered, on the room that
\* was current until then (_replace_remote_actor_room).
Ends(s) == \E r \in s : moved[r] \notin s
TombstonesLead ==
    kind \in Replaceable =>
        /\ \A r \in RoomIds : moved[r] # Nothing => {r, moved[r]} \subseteq known
        /\ \A s \in SUBSET RoomIds : s # {} => Ends(s)

\* A slot is backfilled once, however old the row that a registration goes by
\* (mark_backfill_pending_done is "the only thing that's ever allowed to change
\* it"), unless a room was registered over another unseen.
BackfilledOnce == ~overtaken => backfills <= 1
================================================================================
