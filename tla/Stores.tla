------------------------------- MODULE Stores -------------------------------
(***************************************************************************)
(* The repository behind every component, three times: dictionaries (the    *)
(* store the test suite runs on), sqlite tables (the default deployment)    *)
(* and Postgres tables, given the same calls in the same order.             *)
(*                                                                         *)
(* A call is one step of each store: the dictionaries change without an     *)
(* await, the sqlite calls are serialised by a lock, the Postgres calls are *)
(* one statement or one transaction.  A call that a UNIQUE column refuses   *)
(* raises and stores nothing.  The families of tables are independent of    *)
(* each other, so one family is exercised per behaviour.  The relations an  *)
(* unregistered identity leaves behind (the tables drop them, the           *)
(* dictionaries do not) are outside these families.                         *)
(***************************************************************************)
EXTENDS MemoryStore, SqliteStore, PostgresStore

CONSTANTS
    Families,   \* the families of tables a run exercises
    MaxClock    \* bound on the clock

ASSUME StoresAssumption ==
    /\ MaxClock \in Nat
    /\ Families \subseteq DOMAIN EmptyMem \cup {"shape", "ghosts", "emoji"}

VARIABLES
    family,     \* the family of tables this behaviour exercises
    mem,        \* the in-memory store's dictionaries
    sql,        \* the sqlite store's tables
    pg,         \* the Postgres store's tables
    clock

vars == <<family, mem, sql, pg, clock>>

-----------------------------------------------------------------------------
(* Identities: created, re-linked, unlinked (no room), deleted, chosen. *)

RegisterActor ==
    /\ family = "identity"
    /\ \E n \in Names, u \in Users, r \in Rooms \cup {Nil} :
         LET now == clock'
         IN /\ clock' = IF n \in DOMAIN sql.actors THEN clock ELSE clock + 1
            /\ clock' <= MaxClock
            /\ n \in DOMAIN sql.actors => sql.actors[n].user = u
            /\ r # Nil => ~ Taken(sql.actors, n, "room", r) /\ ~ Clash(sql, n, r)
            /\ mem' = MemRegisterActor(mem, n, u, r, now)
            /\ sql' = SqlRegisterActor(sql, n, u, r, now)
            /\ pg' = PgRegisterActor(pg, n, u, r, now)
    /\ UNCHANGED family

UnregisterActor ==
    /\ family = "identity"
    /\ \E n \in Names : /\ mem' = MemUnregisterActor(mem, n)
                        /\ sql' = SqlUnregisterActor(sql, n)
                        /\ pg' = PgUnregisterActor(pg, n)
    /\ UNCHANGED <<family, clock>>

SetActive ==
    /\ family = "identity"
    /\ \E n \in DOMAIN sql.actors : LET u == sql.actors[n].user
                                    IN /\ mem' = MemSetActive(mem, u, n)
                                       /\ sql' = SqlSetActive(sql, u, n)
                                       /\ pg' = PgSetActive(pg, u, n)
    /\ UNCHANGED <<family, clock>>

-----------------------------------------------------------------------------
(* Rooms of remote actors, DMs, Chats and mirrored actors. *)

\* A new actor's room, or the room that replaces the one it has.
RegisterRemoteRoom ==
    /\ family = "remote"
    /\ \E a \in Actors, r \in Rooms, pending \in BOOLEAN :
         /\ r \in DOMAIN sql.history => sql.history[r].key = a
         /\ mem' = MemRegisterRemote(mem, a, r, pending)
         /\ sql' = SqlRegisterRemote(sql, a, r, pending)
         /\ pg' = PgRegisterRemote(pg, a, r, pending)
    /\ UNCHANGED <<family, clock>>

BackfillDone ==
    /\ family = "remote"
    /\ \E r \in Rooms : /\ mem' = MemBackfillDone(mem, r)
                        /\ sql' = SqlBackfillDone(sql, r)
                        /\ pg' = PgBackfillDone(pg, r)
    /\ UNCHANGED <<family, clock>>

\* The room of a DM or a Chat: made by the bridge, or a room a ghost was
\* invited to.  An existing room is never registered for another pair.
RegisterPairRoom ==
    /\ family \in {"dm", "chat"}
    /\ \E p \in Pairs, r \in Rooms, name \in Names :
         /\ r \in DOMAIN sql.history => sql.history[r].key = p
         /\ \/ /\ family = "dm"
               /\ mem' = MemRegisterDm(mem, p, r, name)
               /\ sql' = SqlRegisterDm(sql, p, r, name)
               /\ pg' = PgRegisterDm(pg, p, r, name)
            \/ /\ family = "chat"
               /\ mem' = MemRegisterChat(mem, p, r, name)
               /\ sql' = SqlRegisterChat(sql, p, r, name)
               /\ pg' = PgRegisterChat(pg, p, r, name)
    /\ UNCHANGED <<family, clock>>

Unused(r) ==
    /\ KeyOf(sql.channel, "room", r) = Nil /\ r \notin DOMAIN mem.channelAt
    /\ KeyOf(sql.mirror, "room", r) = Nil

\* Only a channel's room is ever registered again, its old one being tombstoned.
RegisterMirroredRoom ==
    /\ family = "mirrored"
    /\ \E c \in Actors, r \in Rooms, pending \in BOOLEAN :
         \/ /\ Unused(r)
            /\ mem' = MemRegisterChannelRoom(mem, c, r)
            /\ sql' = SqlRegisterChannelRoom(sql, c, r)
            /\ pg' = PgRegisterChannelRoom(pg, c, r)
         \/ /\ IF c \in DOMAIN sql.mirror THEN r = sql.mirror[c].room ELSE Unused(r)
            /\ \/ /\ mem' = MemRegisterCommunityRoom(mem, c, r, pending)
                  /\ sql' = SqlRegisterCommunityRoom(sql, c, r, pending)
                  /\ pg' = PgRegisterCommunityRoom(pg, c, r, pending)
               \/ /\ mem' = MemRegisterGroupRoom(mem, c, r, pending)
                  /\ sql' = SqlRegisterGroupRoom(sql, c, r, pending)
                  /\ pg' = PgRegisterGroupRoom(pg, c, r, pending)
    /\ UNCHANGED <<family, clock>>

MirrorBackfillDone ==
    /\ family = "mirrored"
    /\ \E r \in Rooms : /\ mem' = MemMirrorBackfillDone(mem, r)
                        /\ sql' = SqlMirrorBackfillDone(sql, r)
                        /\ pg' = PgMirrorBackfillDone(pg, r)
    /\ UNCHANGED <<family, clock>>

-----------------------------------------------------------------------------
(* Hosted channels, communities and groups share one namespace of usernames. *)

RegisterHosted ==
    /\ family = "hosted"
    /\ \E n \in Names, r \in Rooms, kind \in Kinds :
         /\ \A other \in Kinds \ {kind} : n \notin DOMAIN sql.rec[other]
         /\ ~ Taken(sql.rec[kind], n, "room", r)
         /\ CASE kind = "channel" -> /\ mem' = MemRegisterHosted(mem, kind, n, r)
                                     /\ sql' = SqlRegisterHosted(sql, kind, n, r)
                                     /\ pg' = PgRegisterHosted(pg, kind, n, r)
              [] kind = "community" -> /\ mem' = MemRegisterCommunity(mem, n, r)
                                       /\ sql' = SqlRegisterCommunity(sql, n, r)
                                       /\ pg' = PgRegisterCommunity(pg, n, r)
              [] kind = "group" -> /\ mem' = MemRegisterGroup(mem, n, r)
                                   /\ sql' = SqlRegisterGroup(sql, n, r)
                                   /\ pg' = PgRegisterGroup(pg, n, r)
    /\ UNCHANGED <<family, clock>>

UnregisterHosted ==
    /\ family = "hosted"
    /\ \E n \in Names, kind \in Kinds :
         /\ n \in DOMAIN sql.rec[kind]
         /\ CASE kind = "channel" -> /\ mem' = MemUnregisterHosted(mem, kind, n)
                                     /\ sql' = SqlUnregisterHosted(sql, kind, n)
                                     /\ pg' = PgUnregisterHosted(pg, kind, n)
              [] kind = "community" -> /\ mem' = MemUnregisterCommunity(mem, n)
                                       /\ sql' = SqlUnregisterCommunity(sql, n)
                                       /\ pg' = PgUnregisterCommunity(pg, n)
              [] kind = "group" -> /\ mem' = MemUnregisterGroup(mem, n)
                                   /\ sql' = SqlUnregisterGroup(sql, n)
                                   /\ pg' = PgUnregisterGroup(pg, n)
    /\ UNCHANGED <<family, clock>>

\* add_follower, of a username that some table has.
FollowHosted ==
    /\ family = "hosted"
    /\ \E n \in Names, a \in Actors :
         /\ \E kind \in Kinds : n \in DOMAIN sql.rec[kind]
         /\ mem' = [mem EXCEPT !.followers = @ \cup {<<n, a>>}]
         /\ sql' = [sql EXCEPT !.followers = @ \cup {<<n, a>>}]
         /\ pg' = PgFollowHosted(pg, n, a)
    /\ UNCHANGED <<family, clock>>

-----------------------------------------------------------------------------
(* Posts and their events, reactions, votes. *)

\* A second primary event of an object raises (the partial unique index).
RecordEvent ==
    /\ family = "events"
    /\ \E e \in Events \ DOMAIN sql, o \in Objects, primary \in BOOLEAN :
         /\ primary => SqlEventByObject(sql, o) = Nil
         /\ mem' = MemRecordEvent(mem, e, o, primary)
         /\ sql' = SqlRecordEvent(sql, e, o, primary)
         /\ pg' = PgRecordEvent(pg, e, o, primary)
    /\ UNCHANGED <<family, clock>>

DeleteEvent ==
    /\ family = "events"
    /\ \E e \in Events : /\ mem' = MemDeleteEvent(mem, e)
                         /\ sql' = SqlDeleteEvent(sql, e)
                         /\ pg' = PgDeleteEvent(pg, e)
    /\ UNCHANGED <<family, clock>>

\* The activity's own row gains its second event; events are used once.
RecordReaction ==
    /\ family = "reactions"
    /\ \E act \in Objects, e \in Events, second \in Events \cup {Nil} :
         /\ SqlReactionByEvent(sql, e) \in {act, Nil} /\ e # second
         /\ act \in DOMAIN sql => sql[act].event = e /\ sql[act].second \in {second, Nil}
         /\ second # Nil => SqlReactionByEvent(sql, second) \in {act, Nil}
         /\ mem' = MemRecordReaction(mem, act, e, second)
         /\ sql' = SqlRecordReaction(sql, act, e, second)
         /\ pg' = PgRecordReaction(pg, act, e, second)
    /\ UNCHANGED <<family, clock>>

\* A fresh activity claims a reaction event, which may be taken; it is never the
\* second event of another row.
ClaimReaction ==
    /\ family = "reactions"
    /\ \E act \in Objects \ DOMAIN sql, e \in Events :
         /\ KeyOf(sql, "second", e) = Nil
         /\ mem' = MemClaimReaction(mem, act, e)
         /\ sql' = SqlClaimReaction(sql, act, e)
         /\ pg' = PgClaimReaction(pg, act, e)
    /\ UNCHANGED <<family, clock>>

RemoveReaction ==
    /\ family = "reactions"
    /\ \E act \in Objects : /\ mem' = MemRemoveReaction(mem, act)
                            /\ sql' = SqlRemoveReaction(sql, act)
                            /\ pg' = PgRemoveReaction(pg, act)
    /\ UNCHANGED <<family, clock>>

RecordVote ==
    /\ family = "votes"
    /\ \E act, q \in Objects, u \in Users, e \in Events \cup {Nil} :
         /\ e # Nil => ~ Taken(sql, act, "event", e)
         /\ mem' = MemRecordVote(mem, act, q, u, e)
         /\ sql' = SqlRecordVote(sql, act, q, u, e)
         /\ pg' = PgRecordVote(pg, act, q, u, e)
    /\ UNCHANGED <<family, clock>>

-----------------------------------------------------------------------------
(* Relations, handled transactions, who may use the bridge, guilds, values. *)

Relate ==
    /\ family = "relations"
    /\ \E rel \in Relations, t \in Names \X Actors :
         \/ mem' = MemAdd(mem, rel, t) /\ sql' = SqlAdd(sql, rel, t) /\ pg' = PgAdd(pg, rel, t)
         \/ mem' = MemRemove(mem, rel, t) /\ sql' = SqlRemove(sql, rel, t) /\ pg' = PgRemove(pg, rel, t)
    /\ UNCHANGED <<family, clock>>

MarkProcessed ==
    /\ family = "windows"
    /\ \E k \in Events : /\ mem' = MemMark(mem, k)
                         /\ sql' = SqlMark(sql, k, clock)
                         /\ pg' = PgMark(pg, k, clock)
    /\ UNCHANGED <<family, clock>>

Tick ==
    /\ family = "windows" /\ clock < MaxClock
    /\ clock' = clock + 1
    /\ UNCHANGED <<family, mem, sql, pg>>

SetAllow ==
    /\ family = "allow"
    /\ \E rule \in {"mxid", "homeserver", "room"}, tier \in {"full", "shadow"} :
         \/ /\ rule = "room" => tier = "shadow"
            /\ mem' = MemSetAllow(mem, rule, tier)
            /\ sql' = SqlSetAllow(sql, rule, tier)
            /\ pg' = PgSetAllow(pg, rule, tier)
         \/ mem' = MemBan(mem) /\ sql' = SqlBan(sql) /\ pg' = PgBan(pg)
         \/ /\ mem' = MemRemoveAllow(mem, rule)
            /\ sql' = SqlRemoveAllow(sql, rule)
            /\ pg' = PgRemoveAllow(pg, rule)
    /\ UNCHANGED <<family, clock>>

GuildJoin ==
    /\ family = "guild"
    /\ \E u \in Users, g \in Actors :
         \/ /\ mem' = MemPendingGuildFollow(mem, u, g)
            /\ sql' = SqlPendingGuildFollow(sql, u, g)
            /\ pg' = PgPendingGuildFollow(pg, u, g)
         \/ /\ mem' = MemNoPendingGuildFollow(mem, u, g)
            /\ sql' = SqlNoPendingGuildFollow(sql, u, g)
            /\ pg' = PgNoPendingGuildFollow(pg, u, g)
         \/ mem' = MemGuildMember(mem, u, g) /\ sql' = SqlGuildMember(sql, u, g) /\ pg' = PgGuildMember(pg, u, g)
         \/ /\ mem' = MemNoGuildMember(mem, u, g)
            /\ sql' = SqlNoGuildMember(sql, u, g)
            /\ pg' = PgNoGuildMember(pg, u, g)
    /\ UNCHANGED <<family, clock>>

\* A guild's space is made for it alone.  Channels are cached as the guild lists
\* them: a channel it no longer lists keeps its row in every store.
GuildShape ==
    /\ family = "shape"
    /\ \E g \in Actors, r \in Rooms, C \in SUBSET Actors :
         \/ /\ ~ Taken(sql.space, g, "room", r)
            /\ mem' = MemGuildSpace(mem, g, r)
            /\ sql' = SqlGuildSpace(sql, g, r)
            /\ pg' = PgGuildSpace(pg, g, r)
         \/ /\ mem' = MemGuildChannels(mem, g, C)
            /\ sql' = SqlGuildChannels(sql, g, C)
            /\ pg' = PgGuildChannels(pg, g, C)
    /\ UNCHANGED <<family, clock>>

SetValue ==
    /\ family = "keyed"
    /\ \E u \in Users, v \in Objects :
         \/ mem' = MemSetSetting(mem, u, v) /\ sql' = SqlSetSetting(sql, u, v) /\ pg' = PgSetSetting(pg, u, v)
         \/ mem' = MemClearSetting(mem, u) /\ sql' = SqlClearSetting(sql, u) /\ pg' = PgClearSetting(pg, u)
         \/ mem' = MemSaveLogin(mem, u, v) /\ sql' = SqlSaveLogin(sql, u, v) /\ pg' = PgSaveLogin(pg, u, v)
         \/ mem' = MemDeleteLogin(mem, u) /\ sql' = SqlDeleteLogin(sql, u) /\ pg' = PgDeleteLogin(pg, u)
    /\ UNCHANGED <<family, clock>>

\* A notification room is made for one user; a ghost's profile is overwritten.
SetGhostValue ==
    /\ family = "ghosts"
    /\ \/ \E u \in Users, r \in Rooms :
            /\ ~ Taken(sql.bot, u, "room", r)
            /\ mem' = MemBotRoom(mem, u, r) /\ sql' = SqlBotRoom(sql, u, r) /\ pg' = PgBotRoom(pg, u, r)
       \/ \E a \in Actors, v \in Objects :
            /\ mem' = MemGhostProfile(mem, a, v)
            /\ sql' = SqlGhostProfile(sql, a, v)
            /\ pg' = PgGhostProfile(pg, a, v)
    /\ UNCHANGED <<family, clock>>

\* An emoji is recorded with the image uploaded for it, which no other emoji has,
\* or again under its image (two uploads that race are not a sequence of calls).
SetEmoji ==
    /\ family = "emoji"
    /\ \E o \in Objects, r \in Rooms, name \in Names \cup {Nil} :
         /\ IF o \in DOMAIN sql.emoji THEN sql.emoji[o].image = r ELSE KeyOf(sql.emoji, "image", r) = Nil
         /\ mem' = MemEmoji(mem, o, r, name)
         /\ sql' = SqlEmoji(sql, o, r, name)
         /\ pg' = PgEmoji(pg, o, r, name)
    /\ UNCHANGED <<family, clock>>

-----------------------------------------------------------------------------

\* Guilds and values by key are exercised in two and three parts.
TablesOf(f) == CASE f = "shape" -> "guild" [] f \in {"ghosts", "emoji"} -> "keyed" [] OTHER -> f

Init ==
    /\ family \in Families
    /\ mem = EmptyMem[TablesOf(family)] /\ sql = EmptySql[TablesOf(family)] /\ pg = EmptyPg[TablesOf(family)]
    /\ clock = 0

Next ==
    \/ RegisterActor \/ UnregisterActor \/ SetActive
    \/ RegisterRemoteRoom \/ BackfillDone \/ RegisterPairRoom
    \/ RegisterMirroredRoom \/ MirrorBackfillDone
    \/ RegisterHosted \/ UnregisterHosted \/ FollowHosted
    \/ RecordEvent \/ DeleteEvent
    \/ RecordReaction \/ ClaimReaction \/ RemoveReaction \/ RecordVote
    \/ Relate \/ MarkProcessed \/ Tick \/ SetAllow
    \/ GuildJoin \/ GuildShape \/ SetValue \/ SetGhostValue \/ SetEmoji

Spec == Init /\ [][Next]_vars

-----------------------------------------------------------------------------

Alike(a, b, c) == a = b /\ a = c

\* By room, the dictionaries still know the rooms a channel has left.
ChannelsAtRooms ==
    \A r \in Rooms : LET c == KeyOf(sql.channel, "room", r)
                     IN /\ c # Nil => Get(mem.channelAt, r) = c
                        /\ PgOne(PgWhere(pg.channel, "room", r), "actor") = c

\* The stores forget by different rules (so many, or so long), but none early.
WindowsAgree ==
    /\ clock <= Retention => mem.ids \subseteq DOMAIN sql
    /\ Len(mem.order) < Tracked => DOMAIN sql \subseteq mem.ids
    /\ PgBy(pg, "id", "at") = sql

\* The three stores answer every question alike after every sequence of calls
\* the bridge makes, but for what a dictionary remembers of a room its channel has
\* left: src/bridge/sqlite_repository.py:3 says the tables implement the same
\* protocol as the dictionaries.
SameAnswers ==
    /\ family = "identity" => Alike(MemIdentityAnswers(mem), SqlIdentityAnswers(sql), PgIdentityAnswers(pg))
    /\ family = "remote" => Alike(MemRemoteAnswers(mem), SqlRemoteAnswers(sql), PgRemoteAnswers(pg))
    /\ family = "dm" => Alike(MemDmAnswers(mem), SqlDmAnswers(sql), PgDmAnswers(pg))
    /\ family = "chat" => Alike(MemChatAnswers(mem), SqlChatAnswers(sql), PgChatAnswers(pg))
    /\ family = "mirrored" =>
         Alike(MemMirroredAnswers(mem), SqlMirroredAnswers(sql), PgMirroredAnswers(pg)) /\ ChannelsAtRooms
    /\ family = "hosted" => Alike(MemHostedAnswers(mem), SqlHostedAnswers(sql), PgHostedAnswers(pg))
    /\ family = "events" => Alike(MemEventAnswers(mem), SqlEventAnswers(sql), PgEventAnswers(pg))
    /\ family = "reactions" => Alike(MemReactionAnswers(mem), SqlReactionAnswers(sql), PgReactionAnswers(pg))
    /\ family = "votes" => Alike(MemVoteAnswers(mem), SqlVoteAnswers(sql), PgVoteAnswers(pg))
    /\ family = "relations" => Alike(MemRelationAnswers(mem), SqlRelationAnswers(sql), PgRelationAnswers(pg))
    /\ family = "windows" => WindowsAgree
    /\ family = "allow" => Alike(MemAllowAnswers(mem), SqlAllowAnswers(sql), PgAllowAnswers(pg))
    /\ family \in {"guild", "shape"} => Alike(MemGuildAnswers(mem), SqlGuildAnswers(sql), PgGuildAnswers(pg))
    /\ family \in {"keyed", "ghosts", "emoji"} => Alike(MemKeyedAnswers(mem), SqlKeyedAnswers(sql), PgKeyedAnswers(pg))

\* The history table and the room table tell one story: the row flagged current
\* is unique for its key (what the partial unique index enforces) and names the
\* room the key has now.
HistoryFollows ==
    family \in {"remote", "dm", "chat"} =>
        \A k \in DOMAIN sql.rooms :
            {r \in DOMAIN sql.history : sql.history[r].key = k /\ sql.history[r].current}
              = {sql.rooms[k].room}
=============================================================================
