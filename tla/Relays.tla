--------------------------------- MODULE Relays ---------------------------------
(***************************************************************************)
(* A room that many fediverse accounts and Matrix users share: a mirrored   *)
(* Lemmy community, group or guild channel, or a community or group this    *)
(* bridge hosts.  What members write goes to the room's actor or, where the *)
(* bridge is that actor, to its followers; what others post is mirrored by  *)
(* their ghosts and, where the bridge hosts the room, announced on.         *)
(*                                                                          *)
(* Messages are handled in order and come again until they were; a request  *)
(* the homeserver gave up waiting for goes on beside the one it sends       *)
(* instead, so that two may be at one message (TxnIntake).  Inbound         *)
(* activities run beside them, each answered 202 before it is handled.  One *)
(* activity is never handled twice at once (ActivityLock), two activities   *)
(* about one post are.  A restart ends everything.                          *)
(***************************************************************************)
EXTENDS Naturals, Sequences, FiniteSets

CONSTANTS
    Posts,          \* remote posts made for the room
    AuthorOf,       \* post -> the remote account that made it
    ParentOf,       \* post -> the object it answers, NoEvent for a new thread
    NoPost,
    Followers,      \* of the hosted community or group
    Messages,       \* messages of the room
    Kinds,          \* kinds of room to look at
    MaxArrivals,    \* bound: inbound activities
    MaxTroubles,    \* bound: restarts, and requests for a message another is at
    Unsaid          \* a message nobody wrote yet

Mirrored == {"community", "group", "channel"}
Hosted == {"hosted community", "hosted group"}
Authors == {AuthorOf[p] : p \in Posts}
\* An object is a post or what one attempt to send a message makes of it (a
\* fresh uuid); an event is a message or a copy of a post in the room.
Attempts == 1..(MaxTroubles + 1)
Own == Messages \X Attempts
Objects == (Posts \X {0}) \cup Own
Copies == Posts \X (1..MaxArrivals)
Events == (Messages \X {0}) \cup Copies
Elsewheres == Posts \X {0}     \* the event of a post mirrored elsewhere
NoEvent == <<NoPost, 0>>
Roots == {p \in Posts : ParentOf[p] = NoEvent}

ASSUME RelaysAssumption ==
    /\ NoPost \notin Posts \cup Messages /\ Posts \cap Messages = {}
    /\ ParentOf \in [Posts -> Objects \cup {NoEvent}]
    /\ Kinds \subseteq Mirrored \cup Hosted
    /\ MaxArrivals \in Nat /\ MaxTroubles \in Nat

\* A member has an identity or is eligible for one; the others are the bot,
\* ghosts, ghosts of sibling bridges, and strangers.
Writers == {"member", "other"}
Saying == [who : Writers, to : Events \cup {NoEvent}]
Sending == [step : {"row", "deliver", "keep", "tell"}, object : Own, todo : SUBSET Followers,
            root : Events \cup {NoEvent}]
ASSUME UnsaidAssumption == Unsaid \notin Saying

Row == [event : Events \cup Elsewheres, object : Objects, root : Events \cup {NoEvent}]

Activity == [via : {"create", "announce", "backfill"}, object : Objects]
Task == [act : Activity, step : {"ghost", "send", "record", "tell"},
         root : Events \cup {NoEvent}, copy : 0..MaxArrivals, todo : SUBSET Followers]

VARIABLES
    kind,       \* what the room is
    rows,       \* federated_events
    said,       \* messages sent so far: message -> who wrote it, what it answers
    pending,    \* messages the homeserver has for the bridge, in order
    lanes,      \* messages being sent, each by a request of its own
    tries,      \* message -> ids made for it
    arrived,    \* objects of ours the room's actor received, with the count
    shown,      \* post -> copies of it in the room
    tasks,      \* inbound activities being handled
    heard,      \* follower -> object -> how often it was announced to them
    missed,     \* announcements that failed
    ghosts,     \* authors with a ghost
    banned,     \* authors banned from the room
    arrivals, troubles,
    raced,      \* posts two activities were about at once
    doubled,    \* messages a second request found without a row while one sent them
    cut         \* objects whose handling a restart ended

vars == <<kind, rows, said, pending, lanes, tries, arrived, shown, tasks, heard, missed,
          ghosts, banned, arrivals, troubles, raced, doubled, cut>>

Inbound == <<shown, tasks, ghosts, arrivals, raced>>
Outside == <<kind, said, banned, troubles, doubled, cut>>

-----------------------------------------------------------------------------
(* Lookups. *)

OfObject(o) == {r \in rows : r.object = o}
OfEvent(e) == {r \in rows : r.event = e}
Known(o) == OfObject(o) # {}
\* Mutant: a comment under a comment starts a thread of its own.
ThreadOfLast(r) == r.event
ThreadOf(r) == IF r.root = NoEvent THEN r.event ELSE r.root
Here(rs) == {r \in rs : r.event \notin Elsewheres}

\* What a post answers, as rows of this room; {} when it is not tracked here.
Answered(p) == Here(OfObject(ParentOf[p]))

-----------------------------------------------------------------------------
(* Messages of the members. *)

\* Somebody writes.  A message answers any event before it.
Say(m, who, e) ==
    /\ said[m] = Unsaid
    /\ e = NoEvent \/ (e \in Copies /\ e[2] <= shown[e[1]])
                   \/ (e \in Messages \X {0} /\ said[e[1]] # Unsaid)
    /\ said' = [said EXCEPT ![m] = [who |-> who, to |-> e]]
    /\ pending' = Append(pending, m)
    /\ UNCHANGED <<kind, rows, lanes, tries, arrived, heard, missed, banned, troubles, doubled, cut>>
    /\ UNCHANGED Inbound

Now == Head(pending)
Beside == \E l \in lanes : l.object[1] = Now

\* The homeserver hands over the next message: what comes before it was handled.
\* Again while it is handled, if it gives up waiting.
Handed ==
    /\ pending # <<>>
    /\ IF Beside THEN troubles < MaxTroubles /\ troubles' = troubles + 1 ELSE UNCHANGED troubles

\* Whichever request is done marks the message as processed.
Done(l) ==
    /\ lanes' = lanes \ {l}
    /\ pending' = IF pending # <<>> /\ Now = l.object[1] THEN Tail(pending) ELSE pending
Goes(l, k) == lanes' = (lanes \ {l}) \cup {k} /\ UNCHANGED pending

\* A tracked message of this room that the message answers.
Target(m) == Here(OfEvent(said[m].to))
\* Mutant: a message handed over again is not known to be distributed.
SkippedUnlessMember(m) == said[m].who # "member" \/ (kind = "community" /\ Target(m) = {})
\* maybe_distribute_*: what is not to be sent at all.
Skipped(m) ==
    \/ said[m].who # "member"
    \/ OfEvent(<<m, 0>>) # {}                   \* already distributed
    \/ kind = "community" /\ Target(m) = {}     \* new threads are not supported

Skip ==
    /\ Handed /\ Skipped(Now)
    /\ pending' = Tail(pending)
    /\ UNCHANGED <<kind, rows, said, lanes, tries, arrived, heard, missed, banned, doubled, cut>>
    /\ UNCHANGED Inbound

Fresh(m) == <<m, tries[m] + 1>>
RootFor(m) == IF kind = "channel" \/ Target(m) = {} THEN {NoEvent} ELSE {ThreadOf(r) : r \in Target(m)}
Lane(step, o, root) == [step |-> step, object |-> o, todo |-> {}, root |-> root]

\* No row yet, and somebody to send it for: a new id, and the first await.
Distribute(step) ==
    /\ Handed /\ ~ Skipped(Now)
    /\ \E root \in RootFor(Now) : lanes' = lanes \cup {Lane(step, Fresh(Now), root)}
    /\ tries' = [tries EXCEPT ![Now] = @ + 1]
    /\ doubled' = IF Beside THEN doubled \cup {Now} ELSE doubled
    /\ UNCHANGED <<kind, rows, said, pending, arrived, heard, missed, banned, cut>>
    /\ UNCHANGED Inbound

\* A mirrored community or group is told first; the row follows.
DistributeMirrored == kind \in {"community", "group"} /\ Distribute("deliver")
\* Of a channel, and of a room hosted here, the row comes first.
DistributeChannel == kind = "channel" /\ Distribute("row")
DistributeHosted == kind \in Hosted /\ Distribute("row")

\* record_federated_event: the message's row, whatever it was.
NewRow(m, o, root) == [event |-> <<m, 0>>, object |-> o, root |-> root]
RowsWith(l) == (rows \ OfEvent(<<l.object[1], 0>>)) \cup {NewRow(l.object[1], l.object, l.root)}

RowFirst(l) ==
    /\ l \in lanes /\ l.step = "row"
    /\ rows' = RowsWith(l)
    /\ \/ kind = "channel" /\ Goes(l, [l EXCEPT !.step = "deliver"])
       \/ /\ kind # "channel"
          /\ IF Followers = {} THEN Done(l) ELSE Goes(l, [l EXCEPT !.step = "tell", !.todo = Followers])
    /\ UNCHANGED <<kind, said, tries, arrived, heard, missed, banned, troubles, doubled, cut>>
    /\ UNCHANGED Inbound

\* deliver_activity to the room's actor.
Deliver(l) ==
    /\ l \in lanes /\ l.step = "deliver"
    /\ \/ /\ arrived' = [arrived EXCEPT ![l.object] = @ + 1]
          /\ IF kind = "channel" THEN Done(l) ELSE Goes(l, [l EXCEPT !.step = "keep"])
       \/ Done(l) /\ UNCHANGED arrived
    /\ UNCHANGED <<kind, rows, said, tries, heard, missed, banned, troubles, doubled, cut>>
    /\ UNCHANGED Inbound

Keep(l) ==
    /\ l \in lanes /\ l.step = "keep"
    /\ rows' = RowsWith(l)
    /\ Done(l)
    /\ UNCHANGED <<kind, said, tries, arrived, heard, missed, banned, troubles, doubled, cut>>
    /\ UNCHANGED Inbound

\* One announcement of a hosted room to one follower, which may fail.
Announced(f, o) ==
    \/ heard' = [heard EXCEPT ![f][o] = @ + 1] /\ UNCHANGED missed
    \/ missed' = missed \cup {<<f, o>>} /\ UNCHANGED heard

TellFollower(l, f) ==
    /\ l \in lanes /\ l.step = "tell" /\ f \in l.todo
    /\ Announced(f, l.object)
    /\ IF l.todo = {f} THEN Done(l) ELSE Goes(l, [l EXCEPT !.todo = @ \ {f}])
    /\ UNCHANGED <<kind, rows, said, tries, arrived, banned, troubles, doubled, cut>>
    /\ UNCHANGED Inbound

-----------------------------------------------------------------------------
(* Posts of others. *)

\* What the outside may send: posts of the room, and what the room's actor got
\* from us, announced back.
Reached(o) == arrived[o] > 0 \/ \E f \in Followers : heard[f][o] > 0
Exists(p) == ParentOf[p] \in Own => Reached(ParentOf[p])
Sendable(act) ==
    LET o == act.object
    IN /\ o \notin Own => Exists(o[1])
       /\ o \in Own => act.via = "announce" /\ arrived[o] > 0
       /\ act.via = "announce" => kind \in Mirrored
       /\ act.via = "backfill" => kind \in Mirrored /\ o \notin Own

Job(act, root) == [act |-> act, step |-> "ghost", root |-> root, copy |-> 0, todo |-> {}]
\* _mirror_note_as_reply: in the thread of what it answers.
Replies(act) == {Job(act, ThreadOf(r)) : r \in Answered(act.object[1])}
Threads(act) == IF Replies(act) = {} THEN {Job(act, NoEvent)} ELSE Replies(act)

\* maybe_handle_community_announce, maybe_handle_group_announce, maybe_handle_channel_message.
AnnounceJobs(act) ==
    IF act.object \in Own \/ kind = "channel" THEN {Job(act, NoEvent)} ELSE Threads(act)

\* backfill_community_posts, backfill_community_thread, backfill_group_posts:
\* a comment whose parent is not tracked goes under the root asked about.
BackfillJobs(act) ==
    LET asked == {r \in Here(rows) : r.root = NoEvent}
    IN IF kind # "community" \/ act.object[1] \in Roots THEN {Job(act, NoEvent)}
       ELSE IF Replies(act) # {} THEN Replies(act) ELSE {Job(act, r.event) : r \in asked}

\* maybe_handle_owned_community_create: a page by its audience, a comment by
\* what it answers; maybe_handle_owned_group_create: by the audience.
HostedJobs(act) ==
    IF kind = "hosted community" /\ act.object[1] \notin Roots THEN Replies(act) ELSE Threads(act)

\* _handle_create: an answer to something tracked joins its thread.
CreateJobs(act) == IF kind \in Hosted THEN HostedJobs(act) ELSE Replies(act)

JobsOf(act) ==
    CASE act.via = "announce" -> AnnounceJobs(act)
      [] act.via = "backfill" -> BackfillJobs(act)
      [] OTHER -> CreateJobs(act)

About(o) == {t \in tasks : t.act.object = o}

\* Mutant: a redelivered post is not recognised.
BeginAgain(act) ==
    /\ arrivals < MaxArrivals /\ Sendable(act)
    /\ \A t \in tasks : t.act # act
    /\ \E job \in JobsOf(act) : tasks' = tasks \cup {job}
    /\ arrivals' = arrivals + 1
    /\ raced' = IF About(act.object) # {} THEN raced \cup {act.object} ELSE raced
    /\ UNCHANGED <<rows, pending, lanes, tries, arrived, shown, heard, missed, ghosts>>
    /\ UNCHANGED Outside

\* "Already mirrored" comes first on every path.
Begin(act) ==
    /\ arrivals < MaxArrivals /\ Sendable(act)
    /\ \A t \in tasks : t.act # act
    /\ ~ Known(act.object)
    /\ \E job \in JobsOf(act) : tasks' = tasks \cup {job}
    /\ arrivals' = arrivals + 1
    /\ raced' = IF About(act.object) # {} THEN raced \cup {act.object} ELSE raced
    /\ UNCHANGED <<rows, pending, lanes, tries, arrived, shown, heard, missed, ghosts>>
    /\ UNCHANGED Outside

\* A new post that is nobody's in this room is mirrored where its author is
\* followed (NoteMirror).
Elsewhere(p) ==
    /\ arrivals < MaxArrivals /\ Exists(p) /\ ~ Known(<<p, 0>>)
    /\ CreateJobs([via |-> "create", object |-> <<p, 0>>]) = {}
    /\ kind \in {"community", "hosted community"} => p \notin Roots     \* a Page is not a Note
    /\ rows' = rows \cup {[event |-> <<p, 0>>, object |-> <<p, 0>>, root |-> NoEvent]}
    /\ arrivals' = arrivals + 1
    /\ raced' = IF About(<<p, 0>>) # {} THEN raced \cup {<<p, 0>>} ELSE raced
    /\ UNCHANGED <<pending, lanes, tries, arrived, shown, tasks, heard, missed, ghosts>>
    /\ UNCHANGED Outside

Becomes(t, u) == tasks' = (tasks \ {t}) \cup {u}
Ends(t) == tasks' = tasks \ {t}
Ours(o) == o \in Own
Takes(a) == a \notin banned    \* the room lets the ghost in and write
\* The author of a post announced by a hosted room already has it.
ToTell(t) == IF kind \in Hosted THEN Followers \ {AuthorOf[t.act.object[1]]} ELSE {}
ThenTell(t) == IF ToTell(t) = {} THEN Ends(t) ELSE Becomes(t, [t EXCEPT !.step = "tell", !.todo = ToTell(t)])

\* An answer mirrored meanwhile is taken for one's own.  Otherwise
\* resolve_and_invite_ghost, join_room: never for one of our own actors; a
\* ghost that was banned cannot come in.
Ghost(t) ==
    /\ t \in tasks /\ t.step = "ghost"
    /\ \/ t.root # NoEvent /\ Known(t.act.object) /\ ThenTell(t) /\ UNCHANGED ghosts
       \/ /\ t.root # NoEvent => ~ Known(t.act.object)
          /\ ~ Ours(t.act.object)
          /\ ghosts' = ghosts \cup {AuthorOf[t.act.object[1]]}
          /\ \/ Takes(AuthorOf[t.act.object[1]]) /\ Becomes(t, [t EXCEPT !.step = "send"])
             \/ Ends(t)
       \/ Ours(t.act.object) /\ Ends(t) /\ UNCHANGED ghosts
    /\ UNCHANGED <<rows, pending, lanes, tries, arrived, shown, heard, missed, arrivals, raced>>
    /\ UNCHANGED Outside

\* Mutant: announced though the room did not take it.
SendOrGoOn(t) ==
    /\ t \in tasks /\ t.step = "send"
    /\ LET p == t.act.object[1]
       IN \/ /\ Takes(AuthorOf[p])
             /\ shown' = [shown EXCEPT ![p] = @ + 1]
             /\ Becomes(t, [t EXCEPT !.step = "record", !.copy = shown[p] + 1])
          \/ ThenTell(t) /\ UNCHANGED shown
    /\ UNCHANGED <<rows, pending, lanes, tries, arrived, heard, missed, ghosts, arrivals, raced>>
    /\ UNCHANGED Outside

\* send_message_event as the ghost.
Send(t) ==
    /\ t \in tasks /\ t.step = "send"
    /\ LET p == t.act.object[1]
       IN \/ /\ Takes(AuthorOf[p])
             /\ shown' = [shown EXCEPT ![p] = @ + 1]
             /\ Becomes(t, [t EXCEPT !.step = "record", !.copy = shown[p] + 1])
          \/ Ends(t) /\ UNCHANGED shown
    /\ UNCHANGED <<rows, pending, lanes, tries, arrived, heard, missed, ghosts, arrivals, raced>>
    /\ UNCHANGED Outside

MirrorRow(t) == [event |-> <<t.act.object[1], t.copy>>, object |-> t.act.object, root |-> t.root]

\* record_federated_event raises when the object has a primary row already.
Record(t) ==
    /\ t \in tasks /\ t.step = "record"
    /\ \/ ~ Known(t.act.object) /\ rows' = rows \cup {MirrorRow(t)} /\ ThenTell(t)
       \/ Known(t.act.object) /\ Ends(t) /\ UNCHANGED rows
    /\ UNCHANGED <<pending, lanes, tries, arrived, shown, heard, missed, ghosts, arrivals, raced>>
    /\ UNCHANGED Outside

\* _reannounce_owned_community_content, _reannounce_owned_group_content.
Reannounce(t, f) ==
    /\ t \in tasks /\ t.step = "tell" /\ f \in t.todo
    /\ Announced(f, t.act.object)
    /\ IF t.todo = {f} THEN Ends(t) ELSE Becomes(t, [t EXCEPT !.todo = @ \ {f}])
    /\ UNCHANGED <<rows, pending, lanes, tries, arrived, shown, ghosts, arrivals, raced>>
    /\ UNCHANGED Outside

-----------------------------------------------------------------------------
(* Bans and restarts. *)

\* Only a ghost's ban is federated, as one Block: to the community, or by a
\* hosted one to the author.
Bannable(a) == a \in ghosts \ banned

Ban(a) ==
    /\ Bannable(a)
    /\ banned' = banned \cup {a}
    /\ UNCHANGED <<kind, rows, said, pending, lanes, tries, arrived, heard, missed, troubles, doubled, cut>>
    /\ UNCHANGED Inbound

Cut == {t.act.object : t \in tasks} \cup {l.object : l \in lanes}

\* Mutant: what the homeserver had to hand over is taken for handled.
CrashForgetting ==
    /\ troubles < MaxTroubles /\ (lanes # {} \/ tasks # {})
    /\ lanes' = {} /\ tasks' = {} /\ pending' = <<>>
    /\ cut' = cut \cup Cut
    /\ troubles' = troubles + 1
    /\ UNCHANGED <<kind, rows, said, tries, arrived, shown, heard, missed, ghosts, banned, arrivals,
                   raced, doubled>>

Crash ==
    /\ troubles < MaxTroubles /\ (lanes # {} \/ tasks # {})
    /\ lanes' = {} /\ tasks' = {}
    /\ cut' = cut \cup Cut
    /\ troubles' = troubles + 1
    /\ UNCHANGED <<kind, rows, said, pending, tries, arrived, shown, heard, missed, ghosts, banned, arrivals,
                   raced, doubled>>

Init ==
    /\ kind \in Kinds
    /\ rows = {} /\ said = [m \in Messages |-> Unsaid] /\ pending = <<>> /\ lanes = {}
    /\ tries = [m \in Messages |-> 0] /\ arrived = [o \in Own |-> 0]
    /\ shown = [p \in Posts |-> 0] /\ tasks = {}
    /\ heard = [f \in Followers |-> [o \in Objects |-> 0]] /\ missed = {}
    /\ ghosts = {} /\ banned = {} /\ arrivals = 0 /\ troubles = 0
    /\ raced = {} /\ doubled = {} /\ cut = {}

Take == Skip \/ DistributeMirrored \/ DistributeChannel \/ DistributeHosted
GoOn(l) == RowFirst(l) \/ Deliver(l) \/ Keep(l) \/ \E f \in Followers : TellFollower(l, f)
Handle == Take \/ \E l \in lanes : GoOn(l)
Work(t) == Ghost(t) \/ Send(t) \/ Record(t) \/ \E f \in Followers : Reannounce(t, f)
Elsewhen ==
    \/ \E m \in Messages, who \in Writers, e \in Events \cup {NoEvent} : Say(m, who, e)
    \/ \E act \in Activity : Begin(act)
    \/ \E p \in Posts : Elsewhere(p)
    \/ \E a \in Authors : Ban(a)

Next == Handle \/ (\E t \in tasks : Work(t)) \/ Elsewhen \/ Crash

\* Every await returns, and the homeserver sends a message until it was handled.
Fairness == WF_vars(Handle) /\ WF_vars(\E t \in tasks : Work(t))
Spec == Init /\ [][Next]_vars /\ Fairness

-----------------------------------------------------------------------------
(* Properties. *)

TypeOK ==
    /\ kind \in Kinds /\ rows \subseteq Row
    /\ said \in [Messages -> Saying \cup {Unsaid}] /\ pending \in Seq(Messages)
    /\ lanes \subseteq Sending
    /\ tries \in [Messages -> {0} \cup Attempts] /\ arrived \in [Own -> Nat]
    /\ tasks \subseteq Task /\ shown \in [Posts -> 0..MaxArrivals]
    /\ heard \in [Followers -> [Objects -> Nat]] /\ missed \subseteq Followers \X Objects
    /\ ghosts \subseteq Authors /\ banned \subseteq ghosts
    /\ arrivals \in 0..MaxArrivals /\ troubles \in 0..MaxTroubles
    /\ raced \subseteq Objects /\ doubled \subseteq Messages /\ cut \subseteq Objects

\* An event has one row and an object has one; no message is sent before those
\* that came before it were handled; and a post being recorded is a message of
\* the room.
RowsSound ==
    /\ \A r, s \in rows : r.event = s.event \/ r.object = s.object => r = s
    /\ \A l \in lanes, i \in 1..Len(pending) : pending[i] = l.object[1] => i = 1
    /\ \A t \in tasks : t.step = "record" => t.copy \in 1..shown[t.act.object[1]]

\* A post is in the room once, however often and in whatever wrapping it comes
\* - from its author, announced by the room's actor, fetched by a backfill -
\* unless two activities were at it at once or a restart came between sending
\* and recording.
ShownOnce == \A p \in Posts : <<p, 0>> \notin raced \cup cut => shown[p] <= 1

\* What a member wrote is never mirrored back as somebody's ghost, though a
\* community announces it before the bridge has recorded it.
NoEcho == \A t \in tasks : t.step # "ghost" => ~ Ours(t.act.object)

\* Nobody hears twice of one message or post of a hosted room, restarts
\* included, nor does a channel, for the row is written before the first
\* delivery: only when a second request finds none while the first is on its way
\* to write it.  The actor of a mirrored community or group, told before the
\* row, gets a message twice after a restart too; but after nothing else.
ToldOnce ==
    /\ \A m \in Messages \ doubled, f \in Followers :
         Cardinality({i \in Attempts : heard[f][<<m, i>>] > 0}) <= 1
    /\ \A f \in Followers, o \in Objects : o \notin raced => heard[f][o] <= 1
    /\ \A m \in Messages \ doubled : kind = "channel" =>
         Cardinality({i \in Attempts : arrived[<<m, i>>] > 0}) <= 1
    /\ \A m \in Messages \ doubled, i, j \in Attempts :
         i < j /\ arrived[<<m, i>>] > 0 /\ arrived[<<m, j>>] > 0 => <<m, i>> \in cut

\* A thread's root is an event of the room that is in no thread itself - Matrix
\* has no threads inside threads - unless it is a message two requests sent: the
\* second may find a thread for it that was not there for the first.
ThreadsFlat ==
    \A r \in Here(rows) : r.root # NoEvent =>
        \E s \in Here(rows) : s.event = r.root /\ (s.root = NoEvent \/ s.event[1] \in doubled)

\* The state and its rows are well formed, threads are flat and nothing of ours
\* comes back as a ghost's.
RelaysInv == TypeOK /\ RowsSound /\ ThreadsFlat /\ NoEcho

\* What answers a message that two requests sent may be of the object whose row
\* the other's took the place of, and is then nobody's in this room.
Astray(o) == ~ Ours(o) /\ ParentOf[o[1]] \in doubled \X Attempts

InRoom(o) ==
    \/ \E r \in Here(OfObject(o)) : r.event \in Messages \X {0} \/ r.event[2] <= shown[r.event[1]]
    \/ Ours(o) /\ o[1] \in doubled /\ OfEvent(<<o[1], 0>>) # {}

\* A hosted room tells its followers only of what its members see, so that a
\* ban there keeps somebody's posts from the followers too; and all of them but
\* the author are told, or a delivery failed, or a restart cut it short.
RoomFirst ==
    /\ \A f \in Followers, o \in Objects : heard[f][o] > 0 => InRoom(o) \/ Astray(o)
    /\ \A r \in Here(rows) : kind \in Hosted /\ r.object \notin cut /\ About(r.object) = {}
                       /\ (\A l \in lanes : l.object # r.object) =>
         \A f \in Followers : \/ heard[f][r.object] > 0 \/ <<f, r.object>> \in missed
                              \/ (~ Ours(r.object) /\ f = AuthorOf[r.object[1]])

\* Every message is handled in the end, restarts and all: it leaves the queue,
\* and where the row comes first a member's message has one.
Handled(m) ==
    /\ \A i \in DOMAIN pending : pending[i] # m
    /\ (said[m] # Unsaid /\ said[m].who = "member" /\ kind \in Hosted \cup {"channel"}) =>
          OfEvent(<<m, 0>>) # {}
EventuallyHandled == \A m \in Messages : said[m] # Unsaid ~> Handled(m)
=============================================================================
