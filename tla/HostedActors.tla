------------------------------ MODULE HostedActors ------------------------------
(***************************************************************************)
(* The actors a bridge hosts and the rooms they live in: profiles, PeerTube *)
(* channels, Lemmy communities and groups, as the commands (chat and        *)
(* widget) create, link, unlink and delete them and as the state of their   *)
(* rooms changes them.  All four share one namespace of handles; a room is  *)
(* one actor's.                                                             *)
(*                                                                          *)
(* Two tasks run at a time.  "chat" takes the events of the rooms in order, *)
(* a command only when no state event waits before it; "widget" serves the  *)
(* requests of the widget beside it.  A task keeps what it read before an   *)
(* await in its "new" record and writes the whole record back.  A restart   *)
(* ends both; the homeserver then sends the chat's event again.             *)
(*                                                                          *)
(* Which of several identities acts, the limit on their number and the      *)
(* history of rooms are IdentityRegistry's, remote rooms BridgedRooms'.     *)
(***************************************************************************)
EXTENDS Naturals, Sequences, FiniteSets

CONSTANTS
    Users,          \* Matrix users; a user's localpart is a handle too
    Members,        \* those with an account on the homeserver from the start
    Admins,         \* administrators of the bridge
    Handles,        \* usernames somebody may ask for
    Reserved,       \* config.bridge.reserved_usernames
    OldRooms,       \* rooms the users made, with the bot in them
    NewRooms,       \* rooms for the bridge to make
    First,          \* the first profiles: handle -> its Profile Room
    Controllers,    \* who may set the name of a room at first
    NoRecord,       \* no row in a table
    Idle,           \* no task
    MaxCommands,    \* bound: commands and widget requests
    MaxWarnings,    \* bound: warnings of the bot
    MaxChanges,     \* bound: changes of a room's name or power levels
    MaxCrashes,     \* bound: restarts
    MaxSteps        \* bound: commands, changes and restarts together

Rooms == OldRooms \cup NewRooms
NoRoom == "no room"
Hosted == {"channel", "community", "group"}
Kinds == Hosted \cup {"profile"}
Texts == {"plain", "renamed", "deleted"}
Workers == {"chat", "widget"}

ASSUME HostedAssumption ==
    /\ Users \subseteq Handles /\ Members \subseteq Users /\ Admins \subseteq Users
    /\ Reserved \subseteq Handles \ Users
    /\ DOMAIN First \subseteq Members /\ First \in [DOMAIN First -> OldRooms]
    /\ \A m, n \in DOMAIN First : First[m] = First[n] => m = n
    /\ Controllers \in [OldRooms -> SUBSET Users]
    /\ OldRooms \cap NewRooms = {} /\ NoRoom \notin Rooms \cup Handles
    /\ {MaxCommands, MaxWarnings, MaxChanges, MaxCrashes, MaxSteps} \subseteq Nat

\* local_actors, peertube_channels, lemmy_communities, groups.  The owner of a
\* profile is a user, of the others a profile; "text" stands for name, topic,
\* avatar and banner.
Record == [owner : Handles, room : Rooms \cup {NoRoom}, text : Texts, mods : SUBSET Handles]

VARIABLES
    rec,        \* kind -> handle -> record
    accounts,   \* who has a Matrix account
    made,       \* rooms of NewRooms that exist
    text,       \* room -> what its name and the like say
    power,      \* room -> who may set its name
    pending,    \* state events the homeserver has for the bridge
    asked,      \* warnings of the bot that wait for "confirm"
    run,        \* what each worker does
    heard,      \* kind -> handle -> what its followers were told last
    modsHeard,  \* community -> the moderators its followers know of
    commands, changes, crashes,
    raced,      \* handles and rooms both workers had in hand at once
    relinked,   \* rooms in use that became a community or group as well
    blind       \* rooms whose state could not be read when linked

vars == <<rec, accounts, made, text, power, pending, asked, run, heard, modsHeard,
          commands, changes, crashes, raced, relinked, blind>>

-----------------------------------------------------------------------------
(* Lookups. *)

Known(k, n) == rec[k][n] # NoRecord
Taken(n) == \E k \in Kinds : Known(k, n)
TakenByHosted(n) == \E k \in Hosted : Known(k, n)

\* Identities of a user that have their room.
Rooted(u) == {n \in Handles : Known("profile", n) /\ rec["profile"][n].owner = u
                              /\ rec["profile"][n].room # NoRoom}
Identities(u) == {n \in Handles : Known("profile", n) /\ rec["profile"][n].owner = u}

\* _check_reserved_or_colliding_username.
Rejected(n) == n \in Reserved \/ n \in accounts

Serves(r) == {kn \in Kinds \X Handles : Known(kn[1], kn[2]) /\ rec[kn[1]][kn[2]].room = r}
AlreadyBridged(r) == Serves(r) # {}
Controls(u, r) == u \in power[r]

\* _is_owner_or_admin_of_hosted_entity; a profile is its owner's alone.
MayDelete(u, k, n) ==
    LET e == rec[k][n]
    IN IF k = "profile" THEN e.owner = u
       ELSE u \in Admins \/ (Known("profile", e.owner) /\ rec["profile"][e.owner].owner = u)

-----------------------------------------------------------------------------
(* Commands: what is checked before anything is done.  Each yields the      *)
(* tasks it may start; none when it is refused.                             *)

\* A command names a room only to link it.
Command ==
    LET any == [what : {"create", "link", "unlink", "delete"}, user : Users, kind : Kinds,
                name : Handles, room : Rooms \cup {NoRoom}]
    IN {c \in any : /\ (c.what = "link") = (c.room # NoRoom)
                    /\ c.what = "link" => c.kind # "channel"
                    /\ c.what = "unlink" => c.kind = "profile"
                    /\ c.what = "link" /\ c.kind = "profile" => c.name = c.user}
Work == [cmd : Command \cup {NoRecord}, kind : Kinds, name : Handles, new : Record,
         pc : {"room", "adopt", "write", "push", "mods", "gone", "detach", "rename", "erase", "again"}]

ASSUME NothingAssumption == NoRecord \notin Record \cup Command /\ Idle \notin Work

Blank(owner, r, mods) == [owner |-> owner, room |-> r, text |-> "plain", mods |-> mods]
Job(c, k, n, new, pc) == [cmd |-> c, kind |-> k, name |-> n, new |-> new, pc |-> pc]

\* A handle for a new profile: one's own localpart, or one that is free.
FreeForProfile(u, n) == (n = u \/ ~ Rejected(n)) /\ ~ Taken(n)

CreateProfile(c) ==
    LET mine == c.name \in Identities(c.user)
    IN IF (mine /\ rec["profile"][c.name].room = NoRoom) \/ FreeForProfile(c.user, c.name)
       THEN {Job(c, "profile", c.name, Blank(c.user, NoRoom, {}), "room")} ELSE {}

\* Mutant: the communities are not asked.
HandleFreeForgetful(n) == ~ Rejected(n) /\ ~ \E k \in Kinds \ {"community"} : Known(k, n)
HandleFree(n) == ~ Rejected(n) /\ ~ Taken(n)

CreateChannel(c) ==
    IF HandleFree(c.name)
    THEN {Job(c, c.kind, c.name, Blank(o, NoRoom, {}), "room") : o \in Rooted(c.user)} ELSE {}
CreateCommunity(c) ==
    IF HandleFree(c.name)
    THEN {Job(c, c.kind, c.name, Blank(o, NoRoom, {o}), "room") : o \in Rooted(c.user)} ELSE {}
CreateGroup(c) ==
    IF HandleFree(c.name)
    THEN {Job(c, c.kind, c.name, Blank(o, NoRoom, {}), "room") : o \in Rooted(c.user)} ELSE {}

\* "link profile" takes the sender's localpart.
ProfileLinkable(c) ==
    /\ Known("profile", c.name) => /\ rec["profile"][c.name].owner = c.user
                                   /\ rec["profile"][c.name].room = NoRoom
    /\ ~ Known("profile", c.name) => ~ TakenByHosted(c.name)
    /\ ~ AlreadyBridged(c.room)
    /\ Controls(c.user, c.room)

\* What "link community" and "link group" look at before they warn, and what
\* they look at again when the warning is confirmed.
LinkAsked(c) == HandleFree(c.name) /\ ~ AlreadyBridged(c.room) /\ Controls(c.user, c.room)
\* (Mutant: or trusts what it found then.)
LinkConfirmedTrusting(c) == ~ Rejected(c.name) /\ Controls(c.user, c.room)
LinkConfirmed(c) == HandleFree(c.name) /\ Controls(c.user, c.room)

LinkProfile(c) ==
    IF ProfileLinkable(c) THEN {Job(c, "profile", c.name, Blank(c.user, c.room, {}), "write")} ELSE {}
LinkCommunity(c) ==
    IF LinkConfirmed(c)
    THEN {Job(c, c.kind, c.name, Blank(o, c.room, {o}), "adopt") : o \in Rooted(c.user)} ELSE {}
LinkGroup(c) ==
    IF LinkConfirmed(c)
    THEN {Job(c, c.kind, c.name, Blank(o, c.room, {}), "adopt") : o \in Rooted(c.user)} ELSE {}

UnlinkProfile(c) ==
    IF c.name \in Identities(c.user)
    THEN {Job(c, "profile", c.name, [rec["profile"][c.name] EXCEPT !.room = NoRoom], "write")} ELSE {}

Deletable(c) == Known(c.kind, c.name) /\ MayDelete(c.user, c.kind, c.name)
DeleteProfile(c) ==
    IF Deletable(c) THEN {Job(c, c.kind, c.name, rec[c.kind][c.name], "gone")} ELSE {}
DeleteHosted(c) ==
    IF Deletable(c) THEN {Job(c, c.kind, c.name, rec[c.kind][c.name], "gone")} ELSE {}

Started(c) ==
    CASE c.what = "create" /\ c.kind = "profile" -> CreateProfile(c)
      [] c.what = "create" /\ c.kind = "channel" -> CreateChannel(c)
      [] c.what = "create" /\ c.kind = "community" -> CreateCommunity(c)
      [] c.what = "create" /\ c.kind = "group" -> CreateGroup(c)
      [] c.what = "link" /\ c.kind = "profile" -> LinkProfile(c)
      [] c.what = "link" /\ c.kind = "community" -> LinkCommunity(c)
      [] c.what = "link" /\ c.kind = "group" -> LinkGroup(c)
      [] c.what = "unlink" -> UnlinkProfile(c)
      [] c.what = "delete" /\ c.kind = "profile" -> DeleteProfile(c)
      [] c.what = "delete" /\ c.kind # "profile" -> DeleteHosted(c)

\* The warning a command leads to; anybody may answer one in their own name.
Warning(c) == [what |-> c.what, kind |-> c.kind, room |-> c.room,
               name |-> IF c.what = "link" /\ c.kind = "profile" THEN NoRecord ELSE c.name]
WarningDue(c) ==
    CASE c.what = "link" /\ c.kind = "profile" -> ProfileLinkable(c)
      [] c.what = "link" /\ c.kind # "profile" -> Rooted(c.user) # {} /\ LinkAsked(c)
      [] c.what = "unlink" -> c.name \in Identities(c.user)
      [] c.what = "delete" -> Deletable(c)
      [] OTHER -> FALSE

-----------------------------------------------------------------------------
(* The workers.  Every action ends with the history it leaves.              *)

Event == [what : {"text", "power"}, room : Rooms, text : Texts, up : SUBSET Users, down : SUBSET Users]
ForEvent(w) == run[w].cmd = NoRecord

\* What a worker has in hand: handles and rooms.
InHand(w) ==
    (IF run[w] = Idle THEN {} ELSE {run[w].name, run[w].new.room})
    \cup (IF w = "chat" /\ pending # <<>> THEN {Head(pending).room} ELSE {})
Remember == raced' = raced \cup ((InHand("chat") \cap InHand("widget"))' \ {NoRoom})

Go(w, job) == run' = [run EXCEPT ![w] = job]
At(w, pc) == run[w] # Idle /\ run[w].pc = pc
Step(w, pc) == Go(w, [run[w] EXCEPT !.pc = pc])

\* The end of a task; an event is marked as processed then.
End(w) ==
    /\ Go(w, Idle)
    /\ pending' = IF ForEvent(w) THEN Tail(pending) ELSE pending

\* What the widget asks for; the rest it only asks the chat to confirm.
FromWidget(c) == c.what = "create" \/ (c.what = "delete" /\ c.kind = "group")

\* Bounds, not the code.
Spare == commands + changes + crashes < MaxSteps

Ready(w) == run[w] = Idle /\ (w = "chat" => pending = <<>>)

\* A command that only warns.  Either worker may, it is one step.
Ask(c) ==
    /\ c.what \in {"link", "unlink", "delete"} /\ Ready("chat") /\ commands < MaxCommands /\ Spare
    /\ WarningDue(c) /\ Warning(c) \notin asked /\ Cardinality(asked) < MaxWarnings
    /\ asked' = asked \cup {Warning(c)}
    /\ commands' = commands + 1
    /\ UNCHANGED <<rec, accounts, made, text, power, pending, run, heard, modsHeard,
                   changes, crashes, raced, relinked, blind>>

\* A command that acts, or the "confirm" under its warning.
Begin(w, c) ==
    /\ Ready(w) /\ commands < MaxCommands /\ Spare
    /\ w = "widget" => FromWidget(c)
    /\ w = "chat" /\ c.what # "create" => Warning(c) \in asked
    /\ \E job \in Started(c) : Go(w, job)
    /\ commands' = commands + 1
    /\ UNCHANGED <<rec, accounts, made, text, power, pending, asked, heard, modsHeard,
                   changes, crashes, relinked, blind>>
    /\ Remember

\* The command a restart cut short comes again.
Redo ==
    /\ At("chat", "again")
    /\ LET jobs == Started(run["chat"].cmd)
       IN IF jobs = {} THEN Go("chat", Idle) ELSE \E job \in jobs : Go("chat", job)
    /\ UNCHANGED <<rec, accounts, made, text, power, pending, asked, heard, modsHeard,
                   commands, changes, crashes, relinked, blind>>
    /\ Remember

MakeRoom(w) ==
    /\ At(w, "room")
    /\ \E r \in NewRooms \ made :
         /\ made' = made \cup {r}
         /\ power' = [power EXCEPT ![r] = {run[w].cmd.user}]
         /\ Go(w, [run[w] EXCEPT !.new.room = r, !.pc = "write"])
    /\ UNCHANGED <<rec, accounts, text, pending, asked, heard, modsHeard,
                   commands, changes, crashes, relinked, blind>>
    /\ Remember

NoRoomMade(w) ==
    /\ At(w, "room")
    /\ Go(w, Idle)
    /\ UNCHANGED <<rec, accounts, made, text, power, pending, asked, heard, modsHeard,
                   commands, changes, crashes, relinked, blind>>
    /\ Remember

\* _execute_link_community, _execute_link_group: the room's state, if it can be read.
Adopt(w) ==
    /\ At(w, "adopt")
    /\ LET r == run[w].new.room
       IN \/ Go(w, [run[w] EXCEPT !.new.text = text[r], !.pc = "write"]) /\ UNCHANGED blind
          \/ Step(w, "write") /\ blind' = blind \cup {r}
    /\ UNCHANGED <<rec, accounts, made, text, power, pending, asked, heard, modsHeard,
                   commands, changes, crashes, relinked>>
    /\ Remember

\* register_*: a room column is UNIQUE within its table, so a second actor of
\* one kind in a room ends the task with an error.
Clashes(k, n, r) ==
    k # "profile" /\ \E m \in Handles \ {n} : Known(k, m) /\ rec[k][m].room = r

Linking(w) == ~ ForEvent(w) /\ run[w].cmd.what = "link"
Write(w) ==
    /\ At(w, "write")
    /\ LET job == run[w]
           r == job.new.room
       IN IF Clashes(job.kind, job.name, r)
          THEN End(w) /\ UNCHANGED <<rec, heard, modsHeard, relinked>>
          ELSE /\ rec' = [rec EXCEPT ![job.kind][job.name] = job.new]
               /\ relinked' = IF Linking(w) /\ job.kind # "profile" /\ Serves(r) # {}
                              THEN relinked \cup {r} ELSE relinked
               /\ IF ForEvent(w) \/ Known(job.kind, job.name) THEN UNCHANGED <<heard, modsHeard>>
                  ELSE /\ heard' = [heard EXCEPT ![job.kind][job.name] = "nothing"]
                       /\ modsHeard' = [modsHeard EXCEPT ![job.name] = job.new.mods]
               /\ IF ForEvent(w) /\ Head(pending).what = "text"
                  THEN Step(w, "push") /\ UNCHANGED pending ELSE End(w)
    /\ UNCHANGED <<accounts, made, text, power, asked, commands, changes, crashes, blind>>
    /\ Remember

-----------------------------------------------------------------------------
(* Deletion: the followers, the room, the record. *)

Told(w, next) ==
    /\ heard' = [heard EXCEPT ![run[w].kind][run[w].name] = "gone"]
    /\ Step(w, next)
    /\ UNCHANGED <<rec, accounts, made, text, power, pending, asked, modsHeard,
                   commands, changes, crashes, relinked, blind>>
    /\ Remember
TellProfileGone(w) == At(w, "gone") /\ run[w].kind = "profile" /\ Told(w, "detach")
TellHostedGone(w) == At(w, "gone") /\ run[w].kind \in Hosted /\ Told(w, "rename")

\* A profile gives up its room first.
Detach(w) ==
    /\ At(w, "detach")
    /\ rec' = [rec EXCEPT !["profile"][run[w].name] = [run[w].new EXCEPT !.room = NoRoom]]
    /\ Step(w, "rename")
    /\ UNCHANGED <<accounts, made, text, power, pending, asked, heard, modsHeard,
                   commands, changes, crashes, relinked, blind>>
    /\ Remember

\* The room's name gets a "(Deleted)"; the bot's own event comes back as any other.
Rename(w) ==
    /\ At(w, "rename")
    /\ LET r == run[w].new.room
       IN \/ /\ r # NoRoom /\ text[r] # "deleted"
             /\ text' = [text EXCEPT ![r] = "deleted"]
             /\ pending' = Append(pending, [what |-> "text", room |-> r, text |-> "deleted",
                                            up |-> {}, down |-> {}])
          \/ UNCHANGED <<text, pending>>
    /\ Step(w, "erase")
    /\ UNCHANGED <<rec, accounts, made, power, asked, heard, modsHeard,
                   commands, changes, crashes, relinked, blind>>
    /\ Remember

Erase(w) ==
    /\ At(w, "erase")
    /\ rec' = [rec EXCEPT ![run[w].kind][run[w].name] = NoRecord]
    /\ Go(w, Idle)
    /\ UNCHANGED <<accounts, made, text, power, pending, asked, heard, modsHeard,
                   commands, changes, crashes, relinked, blind>>
    /\ Remember

-----------------------------------------------------------------------------
(* State events of the rooms. *)

\* The name, topic, avatar and banner handlers of each kind of actor.
Rewritten(k, e) ==
    {Job(NoRecord, k, n, [rec[k][n] EXCEPT !.text = e.text], "write") :
        n \in {m \in Handles : Known(k, m) /\ rec[k][m].room = e.room /\ rec[k][m].text # e.text}}
ProfileText(e) == Rewritten("profile", e)
ChannelText(e) == Rewritten("channel", e)
CommunityText(e) == Rewritten("community", e)
GroupText(e) == Rewritten("group", e)

\* _dispatch_single_event asks for a profile first, then a channel, a
\* community, a group; the first that lives in the room takes the event.
ServedBy(r, k) == \E n \in Handles : <<k, n>> \in Serves(r)
TextJob(e) ==
    CASE ServedBy(e.room, "profile") -> ProfileText(e)
      [] ~ ServedBy(e.room, "profile") /\ ServedBy(e.room, "channel") -> ChannelText(e)
      [] ~ (ServedBy(e.room, "profile") \/ ServedBy(e.room, "channel"))
         /\ ServedBy(e.room, "community") -> CommunityText(e)
      [] OTHER -> GroupText(e)

\* _resolve_mxid_to_actor_id.
ActorsOf(us) == {n \in Handles : Known("profile", n) /\ rec["profile"][n].owner \in us}

\* maybe_handle_owned_community_power_level_change.
PowerJob(e) ==
    {Job(NoRecord, "community", n,
         [rec["community"][n] EXCEPT !.mods = (@ \cup ActorsOf(e.up)) \ ActorsOf(e.down)], "mods") :
        n \in {m \in Handles : /\ Known("community", m) /\ rec["community"][m].room = e.room
                               /\ \/ ActorsOf(e.up) \ rec["community"][m].mods # {}
                                  \/ ActorsOf(e.down) \cap rec["community"][m].mods # {}}}

TakeEvent ==
    /\ run["chat"] = Idle /\ pending # <<>>
    /\ LET e == Head(pending)
           jobs == IF e.what = "text" THEN TextJob(e) ELSE PowerJob(e)
       IN IF jobs = {}
          THEN pending' = Tail(pending) /\ UNCHANGED run
          ELSE (\E job \in jobs : Go("chat", job)) /\ UNCHANGED pending
    /\ UNCHANGED <<rec, accounts, made, text, power, asked, heard, modsHeard,
                   commands, changes, crashes, relinked, blind>>
    /\ Remember

\* The Update to the followers; the event is done then.
Pushed(w, k, sent) ==
    /\ At(w, "push") /\ run[w].kind = k
    /\ heard' = IF sent THEN [heard EXCEPT ![k][run[w].name] = run[w].new.text] ELSE heard
    /\ End(w)
    /\ UNCHANGED <<rec, accounts, made, text, power, asked, modsHeard,
                   commands, changes, crashes, relinked, blind>>
    /\ Remember
PushProfile(w) == Pushed(w, "profile", TRUE)
PushChannel(w) == Pushed(w, "channel", TRUE)
\* Signed by the owner, so not without one.
PushCommunity(w) == Pushed(w, "community", At(w, "push") /\ Known("profile", run[w].new.owner))
PushGroup(w) == Pushed(w, "group", TRUE)

\* Mutant: no Remove is sent.
TellModsAddsOnly(w) ==
    /\ At(w, "mods")
    /\ modsHeard' = [modsHeard EXCEPT ![run[w].name] = @ \cup run[w].new.mods]
    /\ Step(w, "write")
    /\ UNCHANGED <<rec, accounts, made, text, power, pending, asked, heard,
                   commands, changes, crashes, relinked, blind>>
    /\ Remember

\* _send_mod_list_activity, an Add or Remove for each; then the record.
TellMods(w) ==
    /\ At(w, "mods")
    /\ modsHeard' = [modsHeard EXCEPT ![run[w].name] = run[w].new.mods]
    /\ Step(w, "write")
    /\ UNCHANGED <<rec, accounts, made, text, power, pending, asked, heard,
                   commands, changes, crashes, relinked, blind>>
    /\ Remember

-----------------------------------------------------------------------------
(* Everybody else, and restarts. *)

UnchangedInside == UNCHANGED <<rec, made, asked, run, heard, modsHeard, commands, relinked, blind>>

JoinServer(u) ==
    /\ u \notin accounts
    /\ accounts' = accounts \cup {u}
    /\ UNCHANGED <<text, power, pending, changes, crashes>>
    /\ UnchangedInside
    /\ Remember

Change(r, t) ==
    /\ r \in OldRooms \cup made /\ changes < MaxChanges /\ Spare /\ text[r] # t
    /\ text' = [text EXCEPT ![r] = t]
    /\ pending' = Append(pending, [what |-> "text", room |-> r, text |-> t, up |-> {}, down |-> {}])
    /\ changes' = changes + 1
    /\ UNCHANGED <<accounts, power, crashes>>
    /\ UnchangedInside
    /\ Remember

ChangePower(r, u) ==
    /\ r \in OldRooms \cup made /\ changes < MaxChanges /\ Spare
    /\ LET up == {u} \ power[r]
       IN /\ power' = [power EXCEPT ![r] = (@ \cup up) \ ({u} \ up)]
          /\ pending' = Append(pending, [what |-> "power", room |-> r, text |-> text[r],
                                         up |-> up, down |-> {u} \ up])
    /\ changes' = changes + 1
    /\ UNCHANGED <<accounts, text, crashes>>
    /\ UnchangedInside
    /\ Remember

\* Mutant: the homeserver does not send the event again.
CrashForgetful ==
    /\ crashes < MaxCrashes /\ Spare
    /\ \E w \in Workers : run[w] # Idle
    /\ run' = [w \in Workers |-> Idle]
    /\ crashes' = crashes + 1
    /\ UNCHANGED <<rec, accounts, made, text, power, pending, asked, heard, modsHeard,
                   commands, changes, raced, relinked, blind>>

Crash ==
    /\ crashes < MaxCrashes /\ Spare
    /\ \E w \in Workers : run[w] # Idle
    /\ run' = [run EXCEPT !["widget"] = Idle,
                          !["chat"] = IF @ = Idle \/ @.cmd = NoRecord THEN Idle ELSE [@ EXCEPT !.pc = "again"]]
    /\ crashes' = crashes + 1
    /\ UNCHANGED <<rec, accounts, made, text, power, pending, asked, heard, modsHeard,
                   commands, changes, raced, relinked, blind>>

-----------------------------------------------------------------------------

Init ==
    /\ rec = [k \in Kinds |-> [n \in Handles |->
                  IF k = "profile" /\ n \in DOMAIN First THEN Blank(n, First[n], {}) ELSE NoRecord]]
    /\ accounts = Members /\ made = {}
    /\ text = [r \in Rooms |-> "plain"]
    /\ power = [r \in Rooms |-> IF r \in OldRooms THEN Controllers[r] ELSE {}]
    /\ pending = <<>> /\ asked = {}
    /\ run = [w \in Workers |-> Idle]
    /\ heard = [k \in Kinds |-> [n \in Handles |-> "nothing"]]
    /\ modsHeard = [n \in Handles |-> {}]
    /\ commands = 0 /\ changes = 0 /\ crashes = 0
    /\ raced = {} /\ relinked = {} /\ blind = {}

Continue(w) ==
    \/ MakeRoom(w) \/ NoRoomMade(w) \/ Adopt(w) \/ Write(w) \/ TellMods(w)
    \/ PushProfile(w) \/ PushChannel(w) \/ PushCommunity(w) \/ PushGroup(w)
    \/ TellProfileGone(w) \/ TellHostedGone(w) \/ Detach(w) \/ Rename(w) \/ Erase(w)

Requests == \E c \in Command : Ask(c) \/ \E w \in Workers : Begin(w, c)

Outside ==
    \/ \E u \in Users : JoinServer(u)
    \/ \E r \in Rooms : (\E t \in Texts \ {"deleted"} : Change(r, t)) \/ \E u \in Users : ChangePower(r, u)

Next == Requests \/ Redo \/ TakeEvent \/ (\E w \in Workers : Continue(w)) \/ Outside \/ Crash

\* asyncio runs every task on, and every await returns: an HTTP call times out.
\* The homeserver sends what it has until it is answered.
ChatGoesOn == Redo \/ TakeEvent \/ Continue("chat")
Fairness == WF_vars(ChatGoesOn) /\ WF_vars(Continue("widget"))

Spec == Init /\ [][Next]_vars /\ Fairness

-----------------------------------------------------------------------------
(* Properties. *)

TypeOK ==
    /\ \A k \in Kinds, n \in Handles : rec[k][n] = NoRecord \/ rec[k][n] \in Record
    /\ accounts \subseteq Users /\ made \subseteq NewRooms
    /\ text \in [Rooms -> Texts] /\ power \in [Rooms -> SUBSET Users]
    /\ \A i \in DOMAIN pending : pending[i] \in Event
    /\ \A w \in Workers : run[w] = Idle \/ run[w] \in Work
    /\ modsHeard \in [Handles -> SUBSET Handles]
    /\ commands <= MaxCommands /\ changes <= MaxChanges /\ crashes <= MaxCrashes

\* What a task holds: only the chat writes for an event, an event it is on is
\* the first one, a room made by the bridge is nobody's before its task writes.
TasksSound ==
    /\ \A w \in Workers : run[w] # Idle /\ ForEvent(w) =>
         w = "chat" /\ pending # <<>> /\ Head(pending).room = run[w].new.room
    /\ \A w \in Workers : At(w, "write") /\ run[w].cmd # NoRecord /\ run[w].cmd.what = "create" =>
         LET r == run[w].new.room IN r \in made /\ (r \notin raced => Serves(r) = {})

\* Two actors never share a handle - one WebFinger address, one actor document -
\* unless two tasks were at it at once: what the four "already taken" lookups of
\* every create and link are for.
HandleForOne ==
    \A n \in Handles \ raced : Cardinality({k \in Kinds : Known(k, n)}) <= 1

\* A room never serves two actors (commands.py:8175, _room_already_bridged_as),
\* unless two tasks were at it at once or it became a community or group in a
\* confirmation that does not look.
RoomForOne ==
    \A r \in Rooms \ (raced \cup relinked) : Cardinality(Serves(r)) <= 1

\* The state and its tasks are well formed, and no handle and no room is two
\* actors'.
HostedInv == TypeOK /\ TasksSound /\ HandleForOne /\ RoomForOne

\* While it exists an actor keeps its owner and, but for profiles, its room:
\* nobody takes over what exists by creating or linking it again.  A deleted
\* actor comes back only when somebody creates or links it, never by a task that
\* writes back the record it read before.
Asked(w) == run[w] # Idle /\ ~ ForEvent(w) /\ run[w].cmd.what \in {"create", "link"}
SeatKept ==
    [][\A k \in Kinds, n \in Handles \ raced' :
         /\ (rec[k][n] # NoRecord /\ rec'[k][n] # NoRecord) =>
               /\ rec'[k][n].owner = rec[k][n].owner
               /\ k \in Hosted => rec'[k][n].room = rec[k][n].room
         /\ (rec[k][n] = NoRecord /\ rec'[k][n] # NoRecord) =>
               \E w \in Workers : Asked(w) /\ run'[w] # run[w]]_vars

\* When the bridge has caught up, a hosted actor says what its room says and its
\* followers know its moderators, whatever came between reading a record and
\* writing it back: events are taken in order, a restart takes them again.  Of a
\* moderator whose handle two tasks were at once they may have heard otherwise.
Quiet == pending = <<>> /\ \A w \in Workers : run[w] = Idle
InStep ==
    Quiet => \A k \in Hosted, n \in Handles \ raced :
        LET e == rec[k][n]
        IN e # NoRecord /\ e.room \notin raced \cup relinked \cup blind =>
             /\ e.text = text[e.room]
             /\ k = "community" => \A m \in Handles \ raced : m \in e.mods <=> m \in modsHeard[n]

\* What the chat began to delete is deleted: once the followers were told, the
\* record goes too, restarts and all.  (A group the widget deletes is not taken
\* up again after a restart.)
Mourned == {kn \in (Kinds \ {"group"}) \X Handles :
                Known(kn[1], kn[2]) /\ heard[kn[1]][kn[2]] = "gone"}
DeletionCompletes == Mourned # {} ~> Mourned = {}
=============================================================================
