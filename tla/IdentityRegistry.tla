--------------------------- MODULE IdentityRegistry ---------------------------
(***************************************************************************)
(* The local ActivityPub identities of Matrix users: the tables            *)
(* local_actors, active_identity and profile_room_history behind           *)
(* ActorRepository.register_local_actor and unregister_local_actor, and    *)
(* the commands that write them (bridge.commands, bridge.shadow_identity,  *)
(* bridge.profile_posts, bridge.third_party_sync).                         *)
(*                                                                         *)
(* A store operation is one step: `_run' holds the repository's lock.  A   *)
(* command is not: it reads a record and checks it, awaits Synapse or the  *)
(* fediverse, and writes back what it read, changed.  `job' is what a      *)
(* command has read and is about to write.  Any number of tasks run beside *)
(* each other: the transaction being handled, one that Synapse repeats     *)
(* beside its first request, widget requests, and the profile sweep (which *)
(* reads all its records first and writes them one by one: as many tasks   *)
(* as it has records).  No lock keeps them apart.  `raced' and `crossed',  *)
(* which no guard reads, remember where two of them met.                   *)
(***************************************************************************)
EXTENDS Naturals, FiniteSets

CONSTANTS
    Users,          \* Matrix users
    Usernames,      \* ActivityPub usernames
    Default,        \* user -> default_actor_username
    Suffixed,       \* user -> the same with "_2", when the default is taken
    Claimable,      \* user -> ids `;create profile <id>' accepts from them
    OwnRooms,       \* rooms users made themselves
    BridgeRooms,    \* bound: rooms the bot can make
    Legacy,         \* users with one identity from before active_identity
    Tasks,          \* the transaction handler, widget requests, the sweep
    Runs,           \* task -> kinds of command it runs
    MaxIdentities,  \* bridge.max_identities_per_user
    MaxKeys,        \* bound: key pairs generated
    NoActor, NoName, NoRoom, NoRow, NoJob

Rooms == OwnRooms \cup BridgeRooms
Actor == [owner : Users, room : Rooms \cup {NoRoom}, key : Nat]
Row == [name : Usernames, owner : Users, current : BOOLEAN]
Kinds == {"create", "link", "unlink", "delete", "replace", "switch", "shadow", "resave"}
Job == [kind : Kinds,
        step : {"check", "pick", "write", "detach", "erase", "switch"},
        name : Usernames, actor : Actor]

ASSUME NamesAssumption ==
    /\ Default \in [Users -> Usernames]
    /\ Suffixed \in [Users -> Usernames]
    /\ Claimable \in [Users -> SUBSET Usernames]
    /\ NoName \notin Usernames
ASSUME LegacyAssumption ==
    /\ Legacy \subseteq Users
    /\ \A u, v \in Legacy : Default[u] = Default[v] => u = v
ASSUME RoomsAssumption ==
    /\ NoRoom \notin Rooms
    /\ OwnRooms \cap BridgeRooms = {}
ASSUME DistinguishedAssumption ==
    NoActor \notin Actor /\ NoRow \notin Row /\ NoJob \notin Job
ASSUME RunsAssumption == Runs \in [Tasks -> SUBSET Kinds]
ASSUME LimitAssumption == MaxIdentities \in Nat \ {0}

VARIABLES
    actor,      \* local_actors: username -> actor
    active,     \* active_identity: user -> username
    history,    \* profile_room_history: room -> row
    made,       \* rooms the bot has made
    keys,       \* key pairs generated; each identity's key is its number
    job,        \* task -> what it is about to write
    raced,      \* history: names two tasks were at, at once
    crossed     \* history: rooms two tasks wanted for different names

store == <<actor, active, history>>
met == <<raced, crossed>>
vars == <<store, made, keys, job, met>>

TypeOK ==
    /\ actor \in [Usernames -> Actor \cup {NoActor}]
    /\ active \in [Users -> Usernames \cup {NoName}]
    /\ history \in [Rooms -> Row \cup {NoRow}]
    /\ made \subseteq BridgeRooms
    /\ keys \in Nat
    /\ job \in [Tasks -> Job \cup {NoJob}]
    /\ raced \subseteq Usernames
    /\ crossed \subseteq Rooms

\* A database from before there were several identities per user: some users
\* have one, without a room, and nothing says it is the active one.
Init ==
    /\ actor = [n \in Usernames |->
                  IF \E u \in Legacy : Default[u] = n
                  THEN [owner |-> CHOOSE u \in Legacy : Default[u] = n,
                        room |-> NoRoom, key |-> 0]
                  ELSE NoActor]
    /\ active = [u \in Users |-> NoName]
    /\ history = [r \in Rooms |-> NoRow]
    /\ made = {}
    /\ keys = 0
    /\ job = [t \in Tasks |-> NoJob]
    /\ raced = {}
    /\ crossed = {}
-------------------------------------------------------------------------------
\* What the store answers.

Present(n) == actor[n] # NoActor

\* list_local_actors_by_matrix_id
Ids(u) == {n \in Usernames : Present(n) /\ actor[n].owner = u}

\* Variants (here and below) that a careless edit could produce.  They take no
\* part in Next: each, substituted for the operator that follows it, breaks a
\* property.

\* Variant: only the row counts, a legacy identity is not found.
GetActiveRowOnly(u) ==
    IF active[u] # NoName /\ Present(active[u]) THEN active[u] ELSE NoName

\* get_active_local_actor: the row, if its identity still exists, or else the
\* only identity there is.
GetActive(u) ==
    IF active[u] # NoName /\ Present(active[u]) THEN active[u]
    ELSE IF \E n \in Usernames : Ids(u) = {n}
         THEN CHOOSE n \in Usernames : Ids(u) = {n}
         ELSE NoName

\* get_local_actor_by_room_id
LinkedTo(r) == {n \in Usernames : Present(n) /\ actor[n].room = r}

\* get_local_actor(n), asked on behalf of u
FreeFor(u, n) == Present(n) => actor[n].owner = u
-------------------------------------------------------------------------------
\* Variant: nothing makes the only identity explicitly active when a second
\* one comes.
ActivatedFirstOnly(n, a) ==
    active' = IF Present(n) \/ Ids(a.owner) \ {n} # {} \/ active[a.owner] # NoName
              THEN active ELSE [active EXCEPT ![a.owner] = n]

\* Variant: a new identity becomes active.
ActivatedNewest(n, a) ==
    active' = IF Present(n) THEN active ELSE [active EXCEPT ![a.owner] = n]

\* _register_local_actor: upsert the record; a new identity becomes active
\* when it is its owner's first, and otherwise makes one of the others active
\* explicitly (the oldest; which one, no property tells apart).
Activated(n, a) ==
    LET others == Ids(a.owner) \ {n}
    IN  \E m \in IF others = {} THEN {n} ELSE others :
            active' = IF Present(n) \/ active[a.owner] # NoName THEN active
                      ELSE [active EXCEPT ![a.owner] = m]

\* "clear the old flag first": none of n's rows is current any more.
Retired(n) ==
    [r \in Rooms |->
       IF history[r] # NoRow /\ history[r].name = n
       THEN [history[r] EXCEPT !.current = FALSE]
       ELSE history[r]]

\* The unique index on (username) WHERE is_current rejects m's row for r.
Clash(rows, r, m) ==
    \E q \in Rooms \ {r} : rows[q] # NoRow /\ rows[q].name = m /\ rows[q].current

\* Then insert n's row for r, or flag the row r has, whoever's it is.  When the
\* index rejects it nothing is rolled back: what was done before stays, and is
\* durable with the next operation's commit.
Recorded(n, a) ==
    LET rows == Retired(n)
        row == IF rows[a.room] = NoRow
               THEN [name |-> n, owner |-> a.owner, current |-> TRUE]
               ELSE [rows[a.room] EXCEPT !.current = TRUE]
    IN  IF Clash(rows, a.room, row.name) THEN rows
        ELSE [rows EXCEPT ![a.room] = row]

Register(n, a) ==
    /\ actor' = [actor EXCEPT ![n] = a]
    /\ Activated(n, a)
    /\ history' = IF a.room = NoRoom THEN history ELSE Recorded(n, a)

\* Variant: the row of a deleted active identity is left behind.
PromotedNever(n) == UNCHANGED active

\* _unregister_local_actor: when the active identity goes, another one of its
\* owner's is promoted.
Promoted(n) ==
    LET u == actor[n].owner
        others == Ids(u) \ {n}
    IN  \E m \in IF others = {} THEN {NoName} ELSE others :
            active' = IF active[u] = n THEN [active EXCEPT ![u] = m] ELSE active

Unregister(n) ==
    /\ actor' = [actor EXCEPT ![n] = NoActor]
    /\ IF Present(n) THEN Promoted(n) ELSE UNCHANGED active
    /\ UNCHANGED history
-------------------------------------------------------------------------------
\* The commands.  What they check and read first is one step: they await
\* nothing but the store and requests that change nothing.

MayRun(t, kind) == job[t] = NoJob /\ kind \in Runs[t]

\* The names a command is at.  One that has not picked its name yet is at both
\* it may get.
Names(j) ==
    IF j.step = "pick" THEN {j.name, Suffixed[j.actor.owner]} ELSE {j.name}

\* Whose active identity a race has put in doubt: it is, or for want of a row
\* may be, an identity two tasks were at.
Contested(u) ==
    \/ active[u] \in raced
    \/ active[u] = NoName /\ Ids(u) \cap raced # {}

\* History: those of j's names another task is at, or a shadow may be minted
\* over because a race has left its user with nobody to act as; and j's room,
\* when another task wants it for another name.
Meeting(t, j) ==
    {n \in Names(j) :
       \/ \E s \in Tasks \ {t} : job[s] # NoJob /\ n \in Names(job[s])
       \/ j.step = "pick" /\ Contested(j.actor.owner)}
Crossing(t, j) ==
    {r \in {j.actor.room} \ {NoRoom} :
       \E s \in Tasks \ {t} :
          job[s] # NoJob /\ job[s].actor.room = r /\ job[s].name # j.name}

Begin(t, kind, n, a) ==
    LET step == CASE kind = "switch" -> "switch"
                  [] kind = "delete" -> "detach"
                  [] kind = "link" -> "check"
                  [] kind = "shadow" -> "pick"
                  [] OTHER -> "write"
        j == [kind |-> kind, step |-> step, name |-> n, actor |-> a]
    IN  /\ job' = [job EXCEPT ![t] = j]
        /\ raced' = raced \cup Meeting(t, j)
        /\ crossed' = crossed \cup Crossing(t, j)

\* generate_keypair, for an identity that is going to be u's.
Mint(u, r) == [owner |-> u, room |-> r, key |-> keys + 1]

\* The first identity is free, further ones count (users here are no admins).
Quota(u) == Ids(u) # {} => Cardinality(Ids(u)) < MaxIdentities

\* create_room
MakeRoom(r) == r \in BridgeRooms \ made /\ made' = made \cup {r}

\* u's identity n, which has no room, or a new one, gets room r.
Attach(t, kind, u, n, r) ==
    \/ /\ n \in Ids(u)
       /\ actor[n].room = NoRoom
       /\ Begin(t, kind, n, [actor[n] EXCEPT !.room = r])
       /\ UNCHANGED keys
    \/ /\ ~Present(n)
       /\ Quota(u)
       /\ keys < MaxKeys
       /\ Begin(t, kind, n, Mint(u, r))
       /\ keys' = keys + 1

\* _handle_create_profile, bare or with an id, up to create_room's answer.  (An
\* identity that has a room is only invited to it again.)
Create(t, u, n) ==
    /\ MayRun(t, "create")
    /\ n \in {Default[u]} \cup Claimable[u]
    /\ \E r \in BridgeRooms : MakeRoom(r) /\ Attach(t, "create", u, n, r)
    /\ UNCHANGED store

\* Any room, unless _room_already_bridged_as finds it in use.
Linkable(r) == LinkedTo(r) = {}

\* _execute_link_profile, which repeats the checks of the command it confirms:
\* first the identity,
Link(t, u, r) ==
    /\ MayRun(t, "link")
    /\ r \in OwnRooms \cup made
    /\ Attach(t, "link", u, Default[u], r)
    /\ UNCHANGED <<store, made>>

\* ... and then the room.
CheckRoom(t) ==
    /\ job[t] # NoJob
    /\ job[t].step = "check"
    /\ IF Linkable(job[t].actor.room)
       THEN job' = [job EXCEPT ![t] = [job[t] EXCEPT !.step = "write"]]
       ELSE job' = [job EXCEPT ![t] = NoJob]
    /\ UNCHANGED <<store, made, keys, met>>

\* _execute_unlink_profile
Unlink(t, u, n) ==
    /\ MayRun(t, "unlink")
    /\ n \in Ids(u)
    /\ Begin(t, "unlink", n, [actor[n] EXCEPT !.room = NoRoom])
    /\ UNCHANGED <<store, made, keys>>

\* _replace_profile_room of the identity linked to a room
Replace(t, n) ==
    /\ MayRun(t, "replace")
    /\ Present(n)
    /\ actor[n].room # NoRoom
    /\ \E r \in BridgeRooms :
         MakeRoom(r) /\ Begin(t, "replace", n, [actor[n] EXCEPT !.room = r])
    /\ UNCHANGED <<store, keys>>

\* _execute_delete_profile: what follows the record's check is the deliveries
\* of the Delete to every follower and the kicks, long before Detach.
Delete(t, u, n) ==
    /\ MayRun(t, "delete")
    /\ n \in Ids(u)
    /\ Begin(t, "delete", n, [actor[n] EXCEPT !.room = NoRoom])
    /\ UNCHANGED <<store, made, keys>>

\* `;id <n>', and the widget's switch
Switch(t, u, n) ==
    /\ MayRun(t, "switch")
    /\ n \in Ids(u)
    /\ Begin(t, "switch", n, actor[n])
    /\ UNCHANGED <<store, made, keys>>

\* ensure_shadow_actor: somebody acts and resolve_acting_identity finds nobody
\* they could act as,
Shadow(t, u) ==
    /\ MayRun(t, "shadow")
    /\ GetActive(u) = NoName
    /\ keys < MaxKeys
    /\ Begin(t, "shadow", Default[u], Mint(u, NoRoom))
    /\ keys' = keys + 1
    /\ UNCHANGED <<store, made>>

\* ... so they get their default name, with a suffix when it is another's.  (It
\* may be their own: registered since.)
PickName(t) ==
    /\ job[t] # NoJob
    /\ job[t].step = "pick"
    /\ LET u == job[t].actor.owner
           n == IF FreeFor(u, Default[u]) THEN Default[u] ELSE Suffixed[u]
       IN  /\ FreeFor(u, n)
           /\ job' = [job EXCEPT ![t] = [job[t] EXCEPT !.step = "write", !.name = n]]
    /\ UNCHANGED <<store, made, keys, met>>

\* An edit of the topic, name, avatar or banner, or the sweep over the shadow
\* identities: write a record back with other display fields, not modelled.
Resave(t, n) ==
    /\ MayRun(t, "resave")
    /\ Present(n)
    /\ Begin(t, "resave", n, actor[n])
    /\ UNCHANGED <<store, made, keys>>
-------------------------------------------------------------------------------
\* ... and what they do in the end.

Done(t) == job' = [job EXCEPT ![t] = NoJob]

\* register_local_actor of what was read.
Write(t) ==
    /\ job[t] # NoJob
    /\ job[t].step = "write"
    /\ Register(job[t].name, job[t].actor)
    /\ Done(t)
    /\ UNCHANGED <<made, keys, met>>

\* set_active_identity
SetActive(t) ==
    /\ job[t] # NoJob
    /\ job[t].step = "switch"
    /\ active' = [active EXCEPT ![job[t].actor.owner] = job[t].name]
    /\ Done(t)
    /\ UNCHANGED <<actor, history, made, keys, met>>

\* The deleted identity loses its room,
Detach(t) ==
    /\ job[t] # NoJob
    /\ job[t].step = "detach"
    /\ Register(job[t].name, job[t].actor)
    /\ job' = [job EXCEPT ![t] = [job[t] EXCEPT !.step = "erase"]]
    /\ UNCHANGED <<made, keys, met>>

\* ... and then is erased.
Erase(t) ==
    /\ job[t] # NoJob
    /\ job[t].step = "erase"
    /\ Unregister(job[t].name)
    /\ Done(t)
    /\ UNCHANGED <<made, keys, met>>

\* A request failed, or the process died: the command ends where it is.
Abort(t) ==
    /\ job[t] # NoJob
    /\ Done(t)
    /\ UNCHANGED <<store, made, keys, met>>

Start(t) ==
    \/ \E u \in Users, n \in Usernames :
         Create(t, u, n) \/ Unlink(t, u, n) \/ Delete(t, u, n) \/ Switch(t, u, n)
    \/ \E u \in Users, r \in Rooms : Link(t, u, r)
    \/ \E u \in Users : Shadow(t, u)
    \/ \E n \in Usernames : Replace(t, n) \/ Resave(t, n)

End(t) == Write(t) \/ SetActive(t) \/ Detach(t) \/ Erase(t) \/ Abort(t)

\* Nobody commands anything.
Idle == (\A t \in Tasks : job[t] = NoJob) /\ UNCHANGED vars

Next == (\E t \in Tasks : Start(t) \/ CheckRoom(t) \/ PickName(t) \/ End(t)) \/ Idle

Spec == Init /\ [][Next]_vars
-------------------------------------------------------------------------------
\* A user with identities always acts as one of them, and nobody as another's:
\* "always has an Active identity once it has at least one"
\* (sqlite_repository.py:1172), unless two tasks were at that identity at once.
\* Then its record may go to another user and leave the row behind.
AlwaysActive ==
    \A u \in Users : ~Contested(u) =>
        /\ GetActive(u) \in Ids(u) \cup {NoName}
        /\ Ids(u) # {} => GetActive(u) # NoName

\* No two identities publish from one room (commands.py:8176), unless two tasks
\* linked it at once, or wrote one of the identities at once.
OneIdentityPerRoom ==
    \A m, n \in Usernames \ raced :
        Present(m) /\ Present(n) /\ actor[m].room \in Rooms \ crossed
            => (actor[m].room = actor[n].room => m = n)

\* A linked room has a history row, so that somebody owns it for the ownership
\* checks of `rejoin' and of knocks, and a username has one current room at
\* most (sqlite_repository.py:1132), also after a registration the index
\* rejected half way, and whichever tasks met.
HistorySound ==
    /\ \A n \in Usernames :
         Present(n) /\ actor[n].room # NoRoom => history[actor[n].room] # NoRow
    /\ \A q, r \in Rooms :
         (history[q] # NoRow /\ history[r] # NoRow
            /\ history[q].name = history[r].name
            /\ history[q].current /\ history[r].current) => q = r

\* What induction needs besides: a row of active_identity names an identity of
\* its user, and several identities have one;
ActiveOwned ==
    \A u \in Users :
        active[u] # NoName /\ active[u] \notin raced => active[u] \in Ids(u)

ActiveExplicit ==
    \A u \in Users : active[u] = NoName =>
        \A m, n \in Ids(u) \ raced : m = n

\* rooms identities have exist;
RoomsMade ==
    \A n \in Usernames :
        Present(n) => actor[n].room \in OwnRooms \cup made \cup {NoRoom}

\* where two tasks meet is remembered;
Apart(i, j) ==
    /\ Names(i) \cap Names(j) \subseteq raced
    /\ i.actor.room = j.actor.room /\ i.actor.room # NoRoom
         => i.name = j.name \/ i.actor.room \in crossed

MeetingsNoted ==
    \A s, t \in Tasks :
        s # t /\ job[s] # NoJob /\ job[t] # NoJob => Apart(job[s], job[t])

\* what a task does next is what its kind of command does;
InStep(j) ==
    /\ j.kind \in {"unlink", "delete", "shadow"} => j.actor.room = NoRoom
    /\ j.step = "check" => j.kind = "link"
    /\ j.step = "pick" => j.kind = "shadow" /\ j.name = Default[j.actor.owner]
    /\ j.step = "switch" <=> j.kind = "switch"
    /\ j.step \in {"detach", "erase"} <=> j.kind = "delete"

\* what it has read is still so when it writes, if no other was at the name,
\* and a shadow's name not its user's already;
RecordFresh(j) ==
    LET n == j.name  a == j.actor IN
    /\ j.step = "pick" => Names(j) \cap Ids(a.owner) \subseteq raced
    /\ j.step # "pick" /\ n \notin raced =>
         /\ Present(n) => actor[n].owner = a.owner /\ actor[n].key = a.key
         /\ j.kind \in {"create", "link", "shadow"}
              => (Present(n) => actor[n].room = NoRoom)
         /\ j.kind = "resave" => actor[n] = a
         /\ j.kind \in {"unlink", "delete", "replace", "switch"} => Present(n)

\* and a room about to be linked is no other identity's, nor still to be made.
RoomFresh(j) ==
    LET r == j.actor.room IN
    /\ r \in OwnRooms \cup made \cup {NoRoom}
    /\ j.step # "check" /\ j.name \notin raced /\ r \in Rooms \ crossed
         => LinkedTo(r) \ raced \subseteq {j.name}

JobsSound ==
    \A t \in Tasks : job[t] # NoJob =>
        InStep(job[t]) /\ RecordFresh(job[t]) /\ RoomFresh(job[t])

\* The inductive invariant of the registry, whatever runs beside what.
RegistryInv ==
    /\ TypeOK
    /\ ActiveOwned
    /\ ActiveExplicit
    /\ RoomsMade
    /\ MeetingsNoted
    /\ JobsSound
    /\ OneIdentityPerRoom
    /\ HistorySound

\* An identity keeps its owner and its key pair for as long as it exists, which
\* is what its followers know it by (commands.py:8737), unless two tasks were
\* at its name at once.
IdentityKept ==
    [][\A n \in Usernames \ raced :
         (Present(n) /\ actor'[n] # NoActor)
           => /\ actor'[n].owner = actor[n].owner
              /\ actor'[n].key = actor[n].key]_vars

\* "create profile anytime to turn it into a full, customizable profile"
\* (shadow_identity.py:296): its room is an identity's own until a command
\* about that identity takes it away.  (A task that read the identity before
\* such a command and writes it afterwards gives it back: both were at it.)
RoomKept ==
    [][\A n \in Usernames \ raced :
         (Present(n) /\ actor[n].room # NoRoom
            /\ ~\E t \in Tasks :
                  /\ job[t] # NoJob
                  /\ job[t].name = n
                  /\ job[t].kind \in {"unlink", "delete", "replace"})
           => actor'[n] = actor[n]]_vars

\* A new identity "must NOT steal Active away from whichever one already has
\* it" (sqlite_repository.py:1095), nor do edits, links or other deletions:
\* who acts for a user changes by a switch or because that identity is gone,
\* unless a race put it in doubt.
ActiveNotStolen ==
    [][\A u \in Users :
         (GetActive(u) # NoName /\ GetActive(u)' # GetActive(u))
           => \/ actor'[GetActive(u)] = NoActor
              \/ \E t \in Tasks : job[t] # NoJob /\ job[t].step = "switch"
                                    /\ job[t].actor.owner = u
              \/ Contested(u)
              \/ Contested(u)']_vars
===============================================================================
