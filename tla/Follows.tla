-------------------------------- MODULE Follows --------------------------------
(***************************************************************************)
(* Who follows whom: the tables followers, following and blocked_actors,   *)
(* and what writes them.  Inbound, bridge.inbox_dispatch handles Follow,   *)
(* Undo, Block, Accept and Reject, each in a task of its own.  Outbound,   *)
(* bridge.commands handles ;follow, ;unfollow, ;block and ;unblock, and    *)
(* bridge.membership a user's leaving the room of a remote account.  A     *)
(* guild is joined by a Follow with an invite code (;joinguild), which is  *)
(* pending until the guild answers, and left by ;leaveguild: the tables    *)
(* pending_guild_follows and guild_memberships.                            *)
(*                                                                         *)
(* An operation takes a slot and goes through its handler, a step being    *)
(* what the handler does between two awaits that matter; the operations    *)
(* interleave.  A delivery to another server may fail, or be reported as   *)
(* failed although it was received, and the bridge may restart.  What the  *)
(* other servers know is kept beside the tables: that the two agree is     *)
(* what most of the properties are about.                                  *)
(***************************************************************************)
EXTENDS Naturals, FiniteSets

CONSTANTS
    Profiles,       \* local identities (local_actors)
    Users,          \* their Matrix users
    OwnerOf,        \* profile -> user
    OldestOf,       \* user -> what get_local_actor_by_matrix_id returns
    Hosted,         \* local channels, communities and groups
    Remotes,        \* remote accounts, which get a Remote User Room each
    Boards,         \* remote communities and groups, whose room is shared
    Guilds,         \* remote guilds, joined with an invite code
    Workloads,      \* sets of operations: those of one of them are begun
    Slots,          \* bound: 1..n, the operations begun at most
    Length,         \* bound: workload -> the number of its operations begun
    MaxFaults,      \* bound: failed deliveries and restarts, together
    Nothing

Wanted == UNION Workloads
Locals == Profiles \cup Hosted
Accounts == Remotes \cup Boards \cup Guilds \cup Profiles

Inbound == {"Follow", "Undo", "Block", "Accept", "Reject"}
Commands == {"follow", "unfollow", "leave", "block", "unblock", "joinguild", "leaveguild"}

\* me is the local side and them the other one, whoever asks.
Operation == [kind : Inbound \cup Commands, me : Locals, them : Accounts]

ASSUME PeopleAssumption ==
    /\ OwnerOf \in [Profiles -> Users]
    /\ OldestOf \in [Users -> Profiles]
    /\ \A u \in Users : OwnerOf[OldestOf[u]] = u
ASSUME KindsApartAssumption ==
    /\ Profiles \cap Hosted = {} /\ Remotes \cap Boards = {}
    /\ Guilds \cap (Remotes \cup Boards) = {}
    /\ (Remotes \cup Boards \cup Guilds) \cap Locals = {}
ASSUME BoundsAssumption ==
    /\ MaxFaults \in Nat
    /\ Cardinality(Slots) \in Nat /\ Slots = 1..Cardinality(Slots)
    /\ Length \in [Workloads -> Slots]
    /\ Wanted \subseteq Operation
    /\ Nothing \notin Wanted /\ Nothing \notin Slots /\ Nothing \notin Profiles
    /\ Slots \cap Profiles = {}
\* A remote account is what follows; users act, and are answered, as a profile.
\* A room that is left is a remote account's or a profile's, a guild is what is
\* joined with an invite code, and a local profile answers no Follow.
ASSUME WantedAssumption ==
    \A w \in Wanted :
        /\ IF w.kind \in {"Follow", "Undo", "Block"} THEN w.them \in Remotes ELSE w.me \in Profiles
        /\ w.kind = "leave" => w.them \in Remotes \cup Profiles
        /\ w.kind = "Accept" => w.them \notin Profiles
        /\ w.kind \in {"joinguild", "leaveguild", "Reject"} <=> w.them \in Guilds /\ w.kind # "Accept"

VARIABLES
    op,         \* slot -> its operation
    id,         \* slot -> the slot whose activity it is, or is a copy of
    pc,         \* slot -> where its handler is
    seen,       \* slot -> whether the follower was there already; a join: has
                \* the guild received it; its Accept: are the rooms there;
                \* a ;leaveguild: is the membership gone
    place,      \* slot -> the room it is about; an answer: its join
    followers,  \* <<local, account>>: the account follows the local actor
    following,  \* <<profile, account>>: the profile follows the account
    blocked,    \* <<profile, account>>
    pending,    \* pending_guild_follows: the joins that wait for an answer
    members,    \* guild_memberships: <<profile, guild>>
    room,       \* remote account -> its registered room
    inRoom,     \* <<user, room>>: joined or invited
    told,       \* <<profile, account>> -> what the account last received
    view,       \* <<local, account>> -> what the account takes its follow for
    announced,  \* slots whose Follow was announced to the owner
    upset,      \* pairs about which something was lost, cut off or too late
    everBlocked,
    overtaken,  \* pairs that were blocked after a Follow's check for a block
    doubled,    \* remote accounts that two rooms were made for
    faults

tasks == <<op, id, pc, seen, place>>
tables == <<followers, following, blocked>>
guilds == <<pending, members>>
matrix == <<room, inRoom>>
others == <<told, view>>
history == <<announced, upset, everBlocked, overtaken, doubled>>
vars == <<tasks, tables, guilds, matrix, others, history, faults>>

Kind(s) == op[s].kind
Me(s) == op[s].me
Them(s) == op[s].them
Pair(s) == <<Me(s), Them(s)>>
Back(s) == <<Them(s), Me(s)>>       \* the same, from the other side
User(s) == OwnerOf[Me(s)]
IsLocal(s) == Them(s) \in Profiles
IsRemote(s) == Them(s) \in Remotes

\* maybe_handle_leave only knows the users: it takes the oldest identity of each.
Leaver(s) == <<OldestOf[User(s)],
               IF IsLocal(s) THEN OldestOf[OwnerOf[Them(s)]] ELSE Them(s)>>
Left(s) == <<Leaver(s)[2], Leaver(s)[1]>>

\* A room is the slot that made it, or the profile whose Profile Room it is.
Rooms == Slots \cup Profiles
RoomOf(a) == IF a \in Profiles THEN a ELSE room[a]
AccountOf(x) == IF x \in Profiles THEN x ELSE op[x].them

At(s, p) == pc[s] = p
Running(s) == pc[s] \notin {"unused", "over"}
Queued(s) == pc[s] \in {"unused", "left", "over"}
Go(s, p) == pc' = [pc EXCEPT ![s] = p]
Leaving(s) == pc[s] \in {"left", "leaveDrop", "leaveUndo"}
Subject(s) == IF Leaving(s) THEN Leaver(s) ELSE Pair(s)
About(pair) == {s \in Slots : Running(s) /\ Subject(s) = pair}

PCs == {"unused", "lock", "check", "list", "add", "accept", "announce", "reject",
        "room", "make", "tell", "record", "recordBack", "drop", "dropBack",
        "flag", "expel", "cut", "undo", "kick", "left", "leaveDrop",
        "leaveUndo", "ask", "note", "send", "sent", "guildUndo", "unmember",
        "member", "rooms", "clear", "over"}

TypeOK ==
    /\ op \in [Slots -> Wanted \cup {Nothing}]
    /\ id \in [Slots -> Slots]
    /\ pc \in [Slots -> PCs]
    /\ seen \in [Slots -> BOOLEAN]
    /\ place \in [Slots -> Rooms \cup {Nothing}]
    /\ followers \subseteq Locals \X Accounts
    /\ following \subseteq Profiles \X Accounts
    /\ blocked \subseteq everBlocked /\ everBlocked \subseteq Profiles \X Accounts
    /\ pending \subseteq Slots /\ members \subseteq Profiles \X Guilds
    /\ room \in [Remotes -> Slots \cup {Nothing}]
    /\ inRoom \subseteq Users \X Rooms
    /\ told \in [Profiles \X (Remotes \cup Boards \cup Guilds) -> {"nothing", "follow", "undo"}]
    /\ view \in [Locals \X Remotes -> {"none", "asked", "yes", "refused"}]
    /\ announced \subseteq Slots
    /\ upset \subseteq Locals \X Accounts
    /\ overtaken \subseteq Profiles \X Accounts
    /\ doubled \subseteq Remotes
    /\ faults \in 0..MaxFaults

Init ==
    /\ op = [s \in Slots |-> Nothing]
    /\ id = [s \in Slots |-> s]
    /\ pc = [s \in Slots |-> "unused"]
    /\ seen = [s \in Slots |-> FALSE]
    /\ place = [s \in Slots |-> Nothing]
    /\ followers = {} /\ following = {} /\ blocked = {}
    /\ pending = {} /\ members = {}
    /\ room = [r \in Remotes |-> Nothing]
    /\ inRoom = {}
    /\ told = [p \in Profiles \X (Remotes \cup Boards \cup Guilds) |-> "nothing"]
    /\ view = [p \in Locals \X Remotes |-> "none"]
    /\ announced = {} /\ upset = {} /\ everBlocked = {}
    /\ overtaken = {} /\ doubled = {}
    /\ faults = 0

-----------------------------------------------------------------------------
(* What others do.  A remote account asks again while it has no answer, with *)
(* a new activity or a copy of the one before; otherwise it goes on when     *)
(* what it sent before is over.  A user gives one command at a time, but may *)
(* give the next before the leave event of a kick has come back.             *)

SetView(pair, from, to) ==
    view' = IF view[pair] \in from THEN [view EXCEPT ![pair] = to] ELSE view

InboundComes(w) ==
    LET pair == <<w.me, w.them>>
        sent == {s \in About(pair) : Kind(s) \in Inbound} IN
    \/ /\ w.kind = "Follow"
       /\ view[pair] \in {"none", "asked", "refused"}
       /\ \A s \in sent : Kind(s) = "Follow"
       /\ SetView(pair, {"none", "refused"}, "asked")
    \/ /\ w.kind = "Undo" /\ view[pair] = "yes" /\ sent = {}
       /\ SetView(pair, {"yes"}, "none")
    \/ /\ w.kind = "Block" /\ sent = {}
       /\ SetView(pair, {"asked", "yes"}, "none")
    \/ /\ w.kind = "Accept" /\ w.them \notin Guilds /\ told[pair] = "follow" /\ sent = {}
       /\ UNCHANGED view

\* A guild answers each join it has received once.
GuildAnswers(s, w) ==
    /\ w.kind \in {"Accept", "Reject"} /\ w.them \in Guilds
    /\ \E j \in Slots :
          /\ op[j] = [w EXCEPT !.kind = "joinguild"] /\ seen[j]
          /\ \A t \in Slots : place[t] # j
          /\ place' = [place EXCEPT ![s] = j]

Busy(u) == \E s \in Slots : ~Queued(s) /\ Kind(s) \in Commands /\ User(s) = u

CommandComes(s, w) ==
    /\ ~Busy(OwnerOf[w.me])
    /\ IF w.kind = "leave"
       THEN \E x \in Rooms :
               /\ <<OwnerOf[w.me], x>> \in inRoom /\ AccountOf(x) = w.them
               /\ inRoom' = inRoom \ {<<OwnerOf[w.me], x>>}
               /\ place' = [place EXCEPT ![s] = x]
       ELSE UNCHANGED <<inRoom, place>>
    \* ;leaveguild is given in one of the guild's rooms.
    /\ w.kind = "leaveguild" =>
          \E t \in Slots : op[t] # Nothing /\ Kind(t) = "Accept" /\ Them(t) = w.them /\ seen[t]

FirstStep(w) ==
    CASE w.kind \in Inbound -> "lock"
      [] w.kind = "leave" -> "left"
      [] OTHER -> "check"

\* The slots are taken in order.
Open(s, W) ==
    /\ {op[t] : t \in Slots} \subseteq W \cup {Nothing} /\ s <= Length[W]
    /\ At(s, "unused") /\ \A t \in Slots : t < s => ~At(t, "unused")

Begin(s, w) ==
    /\ op' = [op EXCEPT ![s] = w]
    /\ Go(s, FirstStep(w))
    /\ \/ w.kind \in Inbound /\ InboundComes(w) /\ UNCHANGED <<inRoom, place>>
       \/ GuildAnswers(s, w) /\ UNCHANGED <<inRoom, view>>
       \/ w.kind \in Commands /\ CommandComes(s, w) /\ UNCHANGED view
    /\ UNCHANGED <<id, seen, tables, guilds, room, told, history, faults>>

\* A copy of a Follow, or of a guild's answer, as long as it is the last thing
\* its sender sent.
Redeliver(s, t) ==
    /\ t < s /\ id[t] = t
    /\ Kind(t) = "Follow" \/ (Kind(t) \in {"Accept", "Reject"} /\ Them(t) \in Guilds)
    /\ \A q \in Slots : (t < q /\ q < s /\ Pair(q) = Pair(t)) =>
                            (Kind(q) \notin Inbound \/ id[q] = t)
    /\ op' = [op EXCEPT ![s] = op[t]]
    /\ id' = [id EXCEPT ![s] = t]
    /\ place' = [place EXCEPT ![s] = place[t]]
    /\ Go(s, "lock")
    /\ UNCHANGED <<seen, tables, guilds, matrix, others, history, faults>>

-----------------------------------------------------------------------------
(* Deliveries.  A Follow, Undo, Accept or Reject that fails is not retried.  *)

Upset(pair) == upset' = upset \cup {pair}

\* deliver_activity succeeds, fails, or fails after the other side got it.
Delivered == UNCHANGED <<upset, faults>>
Failed(pair) == faults < MaxFaults /\ faults' = faults + 1 /\ Upset(pair)

-----------------------------------------------------------------------------
(* Inbound: handle_activity and its handlers.                                *)

\* handle_activity: the lock on the activity's id.
Lock(s) ==
    /\ At(s, "lock")
    /\ \A t \in Slots \ {s} : Running(t) /\ ~At(t, "lock") => id[t] # id[s]
    /\ Go(s, CASE Kind(s) = "Follow" -> IF Me(s) \in Profiles THEN "check" ELSE "list"
               [] Kind(s) \in {"Accept", "Reject"} -> "record"
               [] OTHER -> "drop")
    /\ UNCHANGED <<op, id, seen, place, tables, matrix, others, history, faults>>

\* Variant of FollowCheck: it does not look at the blocks.
FollowCheckNone(s) ==
    /\ At(s, "check") /\ Kind(s) = "Follow"
    /\ Go(s, "list")
    /\ UNCHANGED <<op, id, seen, place, tables, matrix, others, history, faults>>

\* _handle_follow: a profile declines whom it has blocked.
FollowCheck(s) ==
    /\ At(s, "check") /\ Kind(s) = "Follow"
    /\ Go(s, IF Pair(s) \in blocked THEN "reject" ELSE "list")
    /\ UNCHANGED <<op, id, seen, place, tables, matrix, others, history, faults>>

\* Variant of FollowReject: silence.
FollowRejectSilent(s) ==
    /\ At(s, "reject")
    /\ Go(s, "over")
    /\ UNCHANGED <<op, id, seen, place, tables, matrix, others, history, faults>>

FollowReject(s) ==
    /\ At(s, "reject")
    /\ Go(s, "over")
    /\ \/ /\ SetView(Pair(s), {"asked", "yes"}, "refused")
          /\ IF Pair(s) \in followers       \* a later Follow got its answer first
             THEN Upset(Pair(s)) /\ UNCHANGED faults ELSE Delivered
       \/ Failed(Pair(s)) /\ UNCHANGED view
    /\ UNCHANGED <<op, id, seen, place, tables, matrix, told, announced, everBlocked,
                   overtaken, doubled>>

FollowList(s) ==
    /\ At(s, "list")
    /\ seen' = [seen EXCEPT ![s] = Pair(s) \in followers]
    /\ Go(s, "add")
    /\ UNCHANGED <<op, id, place, tables, matrix, others, history, faults>>

FollowAdd(s) ==
    /\ At(s, "add")
    /\ followers' = followers \cup {Pair(s)}
    /\ Go(s, "accept")
    /\ UNCHANGED <<op, id, seen, place, following, blocked, matrix, others, history, faults>>

FollowAccept(s) ==
    /\ At(s, "accept")
    /\ \/ Delivered /\ SetView(Pair(s), {"asked", "refused"}, "yes")
       \/ Failed(Pair(s)) /\ UNCHANGED view
    /\ Go(s, IF seen[s] THEN "over" ELSE "announce")
    /\ UNCHANGED <<op, id, seen, place, tables, matrix, told, announced, everBlocked,
                   overtaken, doubled>>

\* _announce_new_follower: the invite, and the notification of the owner.
FollowAnnounce(s) ==
    /\ At(s, "announce")
    /\ announced' = announced \cup {s}
    /\ Go(s, "over")
    /\ UNCHANGED <<op, id, seen, place, tables, matrix, others, upset, everBlocked,
                   overtaken, doubled, faults>>

\* Variant of DropFollower: it knows only profiles.
DropFollowerOfProfile(s) ==
    /\ At(s, "drop") /\ Kind(s) \in {"Undo", "Block"}
    /\ followers' = IF Me(s) \in Profiles THEN followers \ {Pair(s)} ELSE followers
    /\ Go(s, "over")
    /\ UNCHANGED <<op, id, seen, place, following, blocked, matrix, others, history, faults>>

\* _handle_undo of a Follow, and _handle_block, for every kind of local actor.
DropFollower(s) ==
    /\ At(s, "drop") /\ Kind(s) \in {"Undo", "Block"}
    /\ followers' = followers \ {Pair(s)}
    /\ Go(s, "over")
    /\ UNCHANGED <<op, id, seen, place, following, blocked, matrix, others, history, faults>>

TooLate(s) == told[Pair(s)] # "follow"

\* _handle_accept, of an ordinary Follow or of one that is not pending: it may
\* come too late.
Accepted(s) ==
    /\ At(s, "record") /\ Kind(s) = "Accept" /\ place[s] \notin pending
    /\ following' = following \cup {Pair(s)}
    /\ IF \/ TooLate(s)
          \/ \E t \in Slots \ {s} : pc[t] \in {"undo", "leaveUndo"} /\ Them(t) = Them(s)
       THEN Upset(Pair(s)) ELSE UNCHANGED upset
    /\ Go(s, "over")
    /\ UNCHANGED <<op, id, seen, place, followers, blocked, matrix, others, announced,
                   everBlocked, overtaken, doubled, faults>>

-----------------------------------------------------------------------------
(* ;follow and ;unfollow.                                                    *)

Invite(u, x) == inRoom' = inRoom \cup {<<u, x>>}

\* Already following: no more than an invitation back into the room.
AlreadyFollowing(s) ==
    /\ At(s, "check") /\ Kind(s) = "follow" /\ Pair(s) \in following
    /\ IF Them(s) \notin Boards /\ RoomOf(Them(s)) # Nothing
       THEN Invite(User(s), RoomOf(Them(s))) ELSE UNCHANGED inRoom
    /\ Go(s, "over")
    /\ UNCHANGED <<op, id, seen, place, tables, room, others, history, faults>>

FollowBegins(s) ==
    /\ At(s, "check") /\ Kind(s) = "follow" /\ Pair(s) \notin following
    /\ Go(s, IF IsLocal(s) THEN "record" ELSE IF IsRemote(s) THEN "room" ELSE "tell")
    /\ IF IsLocal(s) THEN Invite(User(s), Them(s)) ELSE UNCHANGED inRoom
    /\ UNCHANGED <<op, id, seen, place, tables, room, others, history, faults>>

\* _establish_remote_follow: an invitation into the room there is, or a new one.
FindRoom(s) ==
    /\ At(s, "room")
    /\ IF room[Them(s)] # Nothing
       THEN Invite(User(s), room[Them(s)]) /\ Go(s, "tell")
       ELSE UNCHANGED inRoom /\ Go(s, "make")
    /\ UNCHANGED <<op, id, seen, place, tables, room, others, history, faults>>

\* register_remote_actor_room takes the place of the one registered meanwhile.
MakeRoom(s) ==
    /\ At(s, "make")
    /\ doubled' = IF room[Them(s)] # Nothing THEN doubled \cup {Them(s)} ELSE doubled
    /\ room' = [room EXCEPT ![Them(s)] = s]
    /\ Invite(User(s), s)
    /\ Go(s, "tell")
    /\ UNCHANGED <<op, id, seen, place, tables, others, announced, upset, everBlocked,
                   overtaken, faults>>

Tell(pair, what) == told' = [told EXCEPT ![pair] = what]

\* _ensure_following, establish_lemmy_community_follow, establish_group_follow:
\* only the first looks again whether there is anything to send.
TellFollow(s) ==
    /\ At(s, "tell")
    /\ \/ /\ IsRemote(s) /\ Pair(s) \in following
          /\ Go(s, "over") /\ Delivered /\ UNCHANGED told
       \/ /\ IsRemote(s) => Pair(s) \notin following
          /\ \/ Go(s, "record") /\ Delivered /\ Tell(Pair(s), "follow")
             \/ Go(s, "over") /\ Failed(Pair(s)) /\ Tell(Pair(s), "follow")
             \/ Go(s, "over") /\ Failed(Pair(s)) /\ UNCHANGED told
    /\ UNCHANGED <<op, id, seen, place, tables, matrix, view, announced, everBlocked,
                   overtaken, doubled>>

RecordFollowing(s) ==
    /\ At(s, "record") /\ Kind(s) = "follow"
    /\ following' = following \cup {Pair(s)}
    /\ Go(s, IF IsLocal(s) THEN "recordBack" ELSE "over")
    /\ UNCHANGED <<op, id, seen, place, followers, blocked, matrix, others, history, faults>>

\* _follow_local_actor records both sides.
RecordFollower(s) ==
    /\ At(s, "recordBack")
    /\ followers' = followers \cup {Back(s)}
    /\ Go(s, "over")
    /\ UNCHANGED <<op, id, seen, place, following, blocked, matrix, others, history, faults>>

\* A kick from the room is all that ;unfollow does of a remote account; the
\* leave event does the rest.
Kick(s, x) ==
    IF <<User(s), x>> \in inRoom
    THEN /\ inRoom' = inRoom \ {<<User(s), x>>}
         /\ place' = [place EXCEPT ![s] = x]
         /\ Go(s, "left")
    ELSE Go(s, "over") /\ UNCHANGED <<inRoom, place>>

Unfollow(s) ==
    /\ At(s, "check") /\ Kind(s) = "unfollow"
    /\ IF IsRemote(s) THEN Kick(s, room[Them(s)])
       ELSE /\ Go(s, IF IsLocal(s) /\ Pair(s) \in following THEN "drop" ELSE "over")
            /\ UNCHANGED <<inRoom, place>>
    /\ UNCHANGED <<op, id, seen, tables, room, others, history, faults>>

\* _unfollow_local_actor.
DropFollowing(s) ==
    /\ At(s, "drop") /\ Kind(s) = "unfollow"
    /\ following' = following \ {Pair(s)}
    /\ Go(s, "dropBack")
    /\ UNCHANGED <<op, id, seen, place, followers, blocked, matrix, others, history, faults>>

DropBack(s) ==
    /\ At(s, "dropBack")
    /\ followers' = followers \ {Back(s)}
    /\ Go(s, "over")
    /\ UNCHANGED <<op, id, seen, place, following, blocked, matrix, others, history, faults>>

-----------------------------------------------------------------------------
(* Leaving a room, and ;block and ;unblock.                                  *)

\* unfollow_remote_actor: the row first, then the Undo.
TellUndo(s, pair, from, to) ==
    /\ At(s, from) /\ Go(s, to)
    /\ \/ Delivered /\ Tell(pair, "undo")
       \/ Failed(pair) /\ UNCHANGED told
    /\ UNCHANGED <<op, id, seen, place, tables, matrix, view, announced, everBlocked,
                   overtaken, doubled>>

\* maybe_handle_leave: of the registered room of a remote account, and of the
\* Profile Room of another user.
RoomLeft(s) ==
    /\ At(s, "left") /\ ~Busy(User(s))
    /\ IF /\ RoomOf(Them(s)) = place[s]
          /\ IsLocal(s) => OwnerOf[Them(s)] # User(s)
          /\ Leaver(s) \in following
       THEN /\ following' = following \ {Leaver(s)}
            /\ Go(s, IF IsLocal(s) THEN "leaveDrop" ELSE "leaveUndo")
       ELSE UNCHANGED following /\ Go(s, "over")
    /\ UNCHANGED <<op, id, seen, place, followers, blocked, matrix, others, history, faults>>

LeaveDrop(s) ==
    /\ At(s, "leaveDrop")
    /\ followers' = followers \ {Left(s)}
    /\ Go(s, "over")
    /\ UNCHANGED <<op, id, seen, place, following, blocked, matrix, others, history, faults>>

LeaveUndo(s) == TellUndo(s, Leaver(s), "leaveUndo", "over")

BlockCheck(s) ==
    /\ At(s, "check") /\ Kind(s) = "block"
    /\ Go(s, IF Pair(s) \in blocked THEN "over" ELSE "flag")
    /\ UNCHANGED <<op, id, seen, place, tables, matrix, others, history, faults>>

BlockFlag(s) ==
    /\ At(s, "flag")
    /\ blocked' = blocked \cup {Pair(s)}
    /\ everBlocked' = everBlocked \cup {Pair(s)}
    /\ overtaken' = IF \E t \in About(Pair(s)) : Kind(t) = "Follow" /\ pc[t] \in {"list", "add"}
                    THEN overtaken \cup {Pair(s)} ELSE overtaken
    /\ Go(s, "expel")
    /\ UNCHANGED <<op, id, seen, place, followers, following, matrix, others, announced,
                   upset, doubled, faults>>

BlockExpel(s) ==
    /\ At(s, "expel")
    /\ followers' = followers \ {Pair(s)}
    /\ Go(s, "cut")
    /\ UNCHANGED <<op, id, seen, place, following, blocked, matrix, others, history, faults>>

\* An Undo only for what has a Remote User Room.
BlockCut(s) ==
    /\ At(s, "cut")
    /\ following' = following \ {Pair(s)}
    /\ Go(s, IF /\ Pair(s) \in following
                /\ IsRemote(s) /\ room[Them(s)] # Nothing
             THEN "undo" ELSE "kick")
    /\ UNCHANGED <<op, id, seen, place, followers, blocked, matrix, others, history, faults>>

BlockUndo(s) == TellUndo(s, Pair(s), "undo", "kick")

BlockKick(s) ==
    /\ At(s, "kick")
    /\ IF IsRemote(s) THEN Kick(s, room[Them(s)])
       ELSE Go(s, "over") /\ UNCHANGED <<inRoom, place>>
    /\ UNCHANGED <<op, id, seen, tables, room, others, history, faults>>

Unblock(s) ==
    /\ At(s, "check") /\ Kind(s) = "unblock"
    /\ blocked' = blocked \ {Pair(s)}
    /\ Go(s, "over")
    /\ UNCHANGED <<op, id, seen, place, followers, following, matrix, others, history, faults>>

-----------------------------------------------------------------------------
(* Guilds.  A join is recorded before its Follow is sent, because the guild's *)
(* Accept may be handled before the delivery of the Follow has returned.      *)

\* _handle_joinguild: a member is invited back into the guild's space.
JoinCheck(s) ==
    /\ At(s, "check") /\ Kind(s) = "joinguild"
    /\ Go(s, IF Pair(s) \in members THEN "over" ELSE "ask")
    /\ UNCHANGED <<op, id, seen, place, tables, guilds, matrix, others, history, faults>>

\* send_guild_join_follow: the code is looked up, the membership once more, and
\* the guild's document.
JoinAsk(s) ==
    /\ At(s, "ask")
    /\ Go(s, IF Pair(s) \in members THEN "over" ELSE "note")
    /\ UNCHANGED <<op, id, seen, place, tables, guilds, matrix, others, history, faults>>

JoinNote(s) ==
    /\ At(s, "note")
    /\ pending' = pending \cup {s}
    /\ Go(s, "send")
    /\ UNCHANGED <<op, id, seen, place, tables, members, matrix, others, history, faults>>

\* A delivery that fails takes the pending row back.
NoJoin(s) == pending' = pending \ {s} /\ Go(s, "over") /\ Failed(Pair(s))

JoinSend(s) ==
    /\ At(s, "send")
    /\ \/ /\ Tell(Pair(s), "follow") /\ seen' = [seen EXCEPT ![s] = TRUE]
          /\ Go(s, "sent") /\ Delivered /\ UNCHANGED pending
       \/ NoJoin(s) /\ UNCHANGED <<told, seen>>
    /\ UNCHANGED <<op, id, place, tables, members, matrix, view, announced, everBlocked,
                   overtaken, doubled>>

JoinSent(s) ==
    /\ At(s, "sent")
    /\ \/ Go(s, "over") /\ Delivered /\ UNCHANGED pending
       \/ NoJoin(s)
    /\ UNCHANGED <<op, id, seen, place, tables, members, matrix, others, announced,
                   everBlocked, overtaken, doubled>>

\* _handle_accept and _handle_reject find the pending Follow by its id.
GuildAnswered(s) ==
    /\ At(s, "record") /\ place[s] \in pending
    /\ Go(s, IF Kind(s) = "Accept" THEN "member" ELSE "clear")
    /\ UNCHANGED <<op, id, seen, place, tables, guilds, matrix, others, history, faults>>

NothingPending(s) ==
    /\ At(s, "record") /\ Kind(s) = "Reject" /\ place[s] \notin pending
    /\ Go(s, "over")
    /\ UNCHANGED <<op, id, seen, place, tables, guilds, matrix, others, history, faults>>

\* The join that is answered was followed by a ;leaveguild.
LeftSince(s) ==
    \E l \in Slots : op[l] = [op[s] EXCEPT !.kind = "leaveguild"] /\ seen[l] /\ place[s] < l

\* _handle_guild_accept: the membership, then the guild's space and channels.
GuildMember(s) ==
    /\ At(s, "member")
    /\ members' = members \cup {Pair(s)}
    /\ IF LeftSince(s) THEN Upset(Pair(s)) ELSE UNCHANGED upset
    /\ Go(s, "rooms")
    /\ UNCHANGED <<op, id, seen, place, tables, pending, matrix, others, announced,
                   everBlocked, overtaken, doubled, faults>>

GuildRooms(s) ==
    /\ At(s, "rooms")
    /\ seen' = [seen EXCEPT ![s] = TRUE]
    /\ Go(s, "clear")
    /\ UNCHANGED <<op, id, place, tables, guilds, matrix, others, history, faults>>

GuildClear(s) ==
    /\ At(s, "clear")
    /\ pending' = pending \ {place[s]}
    /\ Go(s, "over")
    /\ UNCHANGED <<op, id, seen, place, tables, members, matrix, others, history, faults>>

\* _execute_leave_guild: nothing, if the guild's document cannot be fetched; or
\* the Undo, whatever becomes of it, and then the row, if there is one.
LeaveGuild(s) ==
    /\ At(s, "check") /\ Kind(s) = "leaveguild"
    /\ Go(s, "over") \/ Go(s, "guildUndo")
    /\ UNCHANGED <<op, id, seen, place, tables, guilds, matrix, others, history, faults>>

GuildUndo(s) == TellUndo(s, Pair(s), "guildUndo", "unmember") /\ UNCHANGED guilds

GuildLeft(s) ==
    /\ At(s, "unmember")
    /\ members' = members \ {Pair(s)}
    /\ seen' = [seen EXCEPT ![s] = TRUE]
    /\ Go(s, "over")
    /\ UNCHANGED <<op, id, place, tables, pending, matrix, others, history, faults>>

-----------------------------------------------------------------------------
FollowStep(s) ==
    \/ Lock(s) \/ FollowCheck(s) \/ FollowReject(s) \/ FollowList(s)
    \/ FollowAdd(s) \/ FollowAccept(s) \/ FollowAnnounce(s)
    \/ DropFollower(s) \/ Accepted(s)
    \/ AlreadyFollowing(s) \/ FollowBegins(s) \/ FindRoom(s) \/ MakeRoom(s)
    \/ TellFollow(s) \/ RecordFollowing(s) \/ RecordFollower(s)
    \/ Unfollow(s) \/ DropFollowing(s) \/ DropBack(s)
    \/ RoomLeft(s) \/ LeaveDrop(s) \/ LeaveUndo(s)
    \/ BlockCheck(s) \/ BlockFlag(s) \/ BlockExpel(s) \/ BlockCut(s)
    \/ BlockUndo(s) \/ BlockKick(s) \/ Unblock(s)

GuildStep(s) ==
    \/ JoinCheck(s) \/ JoinAsk(s) \/ JoinNote(s) \/ JoinSend(s) \/ JoinSent(s)
    \/ GuildAnswered(s) \/ NothingPending(s) \/ GuildMember(s) \/ GuildRooms(s)
    \/ GuildClear(s) \/ LeaveGuild(s) \/ GuildUndo(s) \/ GuildLeft(s)

Step(s) == (FollowStep(s) /\ UNCHANGED guilds) \/ GuildStep(s)

\* The tables and the homeserver's events remain.  Inbound activities, which
\* were answered before they were handled, do not; a command is done again, if
\* its transaction is sent again, or was cut off.  A join that is done again is
\* a join of its own, with a new id.
Restart ==
    LET cutOff == {s \in Slots : Running(s) /\ ~At(s, "left")} IN
    /\ faults < MaxFaults /\ faults' = faults + 1
    /\ \E again \in SUBSET {s \in cutOff : /\ Kind(s) \in Commands \ {"joinguild"}
                                          /\ ~Leaving(s)} :
          pc' = [s \in Slots |-> IF s \in again THEN "check"
                                 ELSE IF s \in cutOff THEN "over" ELSE pc[s]]
    /\ upset' = upset \cup {Subject(s) : s \in cutOff}
    /\ UNCHANGED <<op, id, seen, place, tables, guilds, matrix, others, announced,
                   everBlocked, overtaken, doubled>>

Idle == (\A s \in Slots : ~Running(s)) /\ UNCHANGED vars

Next ==
    \/ \E s \in Slots, W \in Workloads :
          Open(s, W) /\ (\E w \in W : Begin(s, w) \/ \E t \in Slots : Redeliver(s, t))
    \/ \E s \in Slots : Step(s)
    \/ Restart
    \/ Idle

\* While a handler can go on, one does; nobody needs to begin anything.  That
\* much suffices, since operations are finitely many and none goes on for ever.
Fairness == WF_vars(\E s \in Slots : Step(s))

Spec == Init /\ [][Next]_vars /\ Fairness

-----------------------------------------------------------------------------
Calm(pair) == About(pair) = {} /\ pair \notin upset
Resting(u) == ~\E s \in Slots : Running(s) /\ Kind(s) \in Commands /\ User(s) = u

\* followers agrees with what the remote account takes its follow for: whoever
\* has undone it, or was refused, is no follower, and whoever was told yes is
\* one unless blocked since.
FollowersAgree ==
    \A l \in Locals, a \in Remotes : Calm(<<l, a>>) =>
        /\ <<l, a>> \in followers => view[<<l, a>>] \in {"asked", "yes"}
        /\ view[<<l, a>>] = "yes" => <<l, a>> \in followers \cup everBlocked

\* Of a remote account that is blocked no follower row is left or comes back,
\* but for a Follow that had passed the check before the block.
BlockHolds ==
    \A pair \in blocked \ overtaken :
        pair[2] \in Remotes /\ Calm(pair) => pair \notin followers

\* Copies of one Follow are announced once.
AnnouncedOnce ==
    \A s, t \in announced :
        s # t /\ id[s] = id[t] => Pair(s) \in everBlocked \cup upset

\* A remote account that asks is not kept waiting for ever: it gets an Accept or
\* a Reject, unless the answer fails or the bridge restarts.
FollowAnswered ==
    \A pair \in {<<w.me, w.them>> : w \in {v \in Wanted : v.kind = "Follow"}} :
        view[pair] = "asked" ~> view[pair] # "asked" \/ pair \in upset

\* following agrees with what the other server was told, whatever the order of
\* commands, kicks and leave events.
FollowingAgrees ==
    \A p \in Profiles, a \in Remotes \cup Boards :
        Resting(OwnerOf[p]) /\ Calm(<<p, a>>) =>
            \/ <<p, a>> \in following <=> told[<<p, a>>] = "follow"
            \/ a \in Boards /\ <<p, a>> \in everBlocked

\* Of two local profiles both sides of a follow are kept, unless one has
\* blocked the other.
LocalSidesAgree ==
    \A p, q \in Profiles :
        /\ Calm(<<p, q>>) /\ Calm(<<q, p>>)
        /\ {<<p, q>>, <<q, p>>} \cap everBlocked = {}
        => (<<p, q>> \in following <=> <<q, p>> \in followers)

\* Whoever follows a remote account as their oldest identity is in its room,
\* or was invited: out of the room, nobody follows.
FollowersAreIn ==
    \A u \in Users, r \in Remotes \ doubled :
        LET pair == <<OldestOf[u], r>> IN
        /\ pair \in following \ upset /\ Resting(u)
        => \E x \in Slots : <<u, x>> \in inRoom /\ op[x].them = r

\* A profile is a member of a guild exactly if the guild has accepted a join of
\* theirs that came after they last left it, and a join is pending exactly while
\* the guild has not answered it, even if it answers before the delivery of the
\* join returns (commands.py:2370).  A guild is followed like an account only by
\* the copy of an Accept that was handled before.
MembersAgree ==
    \A p \in Profiles, g \in Guilds :
        LET pair == <<p, g>>
            Of(kind) == {s \in Slots : op[s] # Nothing /\ Kind(s) = kind /\ Pair(s) = pair}
            accepts == Of("Accept")
        IN Resting(OwnerOf[p]) /\ Calm(pair) =>
            /\ pair \in members <=>
                  \E t \in accepts : \A l \in Of("leaveguild") : seen[l] => l < place[t]
            /\ \A j \in Of("joinguild") :
                  j \in pending <=> seen[j] /\ \A t \in Slots : place[t] # j
            /\ pair \in following => \E t \in accepts : id[t] # t

\* The state is well formed, copies are announced once, and the two tables agree
\* with each other, with the rooms' members and with what others were told.
FollowsInv == /\ TypeOK /\ AnnouncedOnce
              /\ FollowersAgree /\ FollowingAgrees
              /\ LocalSidesAgree /\ FollowersAreIn
              /\ MembersAgree
================================================================================
