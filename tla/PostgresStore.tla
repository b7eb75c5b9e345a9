--------------------------- MODULE PostgresStore ---------------------------
(***************************************************************************)
(* PostgresActorRepository: tables as sets of rows.  Every statement but    *)
(* those of record_guild_channels and of a transaction commits on its own;  *)
(* each operator is one call of one process, run to its end.                *)
(***************************************************************************)
EXTENDS Tables

\* INSERT ... ON CONFLICT (key columns) DO UPDATE SET columns.
PgUpsert(t, row, key, columns) ==
    LET same == {x \in t : \A f \in key : x[f] = row[f]}
    IN IF same = {} THEN t \cup {row}
       ELSE (t \ same) \cup {[f \in DOMAIN x |-> IF f \in columns THEN row[f] ELSE x[f]] : x \in same}

\* INSERT ... ON CONFLICT (key columns) DO NOTHING.
PgInsertOnce(t, row, key) == PgUpsert(t, row, key, {})

\* SELECT, DELETE and UPDATE ... WHERE column = value.
PgWhere(t, f, v) == {x \in t : x[f] = v}
PgDelete(t, f, v) == {x \in t : x[f] # v}
PgUpdate(t, f, v, column, value) == {IF x[f] = v THEN [x EXCEPT ![column] = value] ELSE x : x \in t}
PgOne(rows, column) == IF rows = {} THEN Nil ELSE (CHOOSE x \in rows : TRUE)[column]
PgColumn(rows, column) == {x[column] : x \in rows}

\* A table of rows as the function from one of its columns to another.
PgBy(t, key, column) == [k \in PgColumn(t, key) |-> PgOne(PgWhere(t, key, k), column)]

-----------------------------------------------------------------------------
(* Identities of the bridge's users, the active one, the rooms they had. *)

PgOldest(rows) ==
    IF rows = {} THEN Nil ELSE (CHOOSE x \in rows : \A y \in rows : x.at <= y.at).name

PgRegisterActor(g, n, u, r, now) ==
    LET isNew == PgWhere(g.actors, "name", n) = {}
        others == PgDelete(PgWhere(g.actors, "user", u), "name", n)
        cleared == PgUpdate(g.history, "name", n, "current", FALSE)
    IN [actors |-> PgUpsert(g.actors, [name |-> n, user |-> u, room |-> r, at |-> now],
                            {"name"}, {"user", "room"}),
        active |-> IF ~ isNew THEN g.active
                   ELSE PgInsertOnce(g.active,
                          [user |-> u, name |-> IF others = {} THEN n ELSE PgOldest(others)], {"user"}),
        history |-> IF r = Nil THEN g.history
                    ELSE PgUpsert(cleared, [room |-> r, name |-> n, user |-> u, current |-> TRUE],
                                  {"room"}, {"current"})]

PgUnregisterActor(g, n) ==
    LET u == PgOne(PgWhere(g.actors, "name", n), "user")
        left == PgDelete(g.actors, "name", n)
        remaining == PgOldest(PgWhere(left, "user", u))
    IN [g EXCEPT !.actors = left,
                 !.active = IF u = Nil \/ PgOne(PgWhere(@, "user", u), "name") # n THEN @
                            ELSE IF remaining = Nil THEN PgDelete(@, "user", u)
                            ELSE PgUpdate(@, "user", u, "name", remaining)]

PgSetActive(g, u, n) == [g EXCEPT !.active = PgUpsert(@, [user |-> u, name |-> n], {"user"}, {"name"})]

PgGetActive(g, u) ==
    LET chosen == PgOne(PgWhere(g.active, "user", u), "name")
        owned == PgWhere(g.actors, "user", u)
    IN IF chosen # Nil /\ PgWhere(g.actors, "name", chosen) # {} THEN chosen
       ELSE IF Cardinality(owned) = 1 THEN PgOne(owned, "name") ELSE Nil

PgIdentityAnswers(g) ==
    [actors |-> [n \in PgColumn(g.actors, "name") |->
                   LET x == CHOOSE y \in g.actors : y.name = n
                   IN [user |-> x.user, room |-> x.room, at |-> x.at]],
     active |-> [u \in Users |-> PgGetActive(g, u)],
     oldest |-> [u \in Users |-> PgOldest(PgWhere(g.actors, "user", u))],
     atRoom |-> [r \in Rooms |-> PgOne(PgWhere(g.actors, "room", r), "name")],
     owner |-> [r \in Rooms |-> PgOne(PgWhere(g.history, "room", r), "user")]]

-----------------------------------------------------------------------------
(* Remote User Rooms.  pending_backfill is not in the DO UPDATE SET. *)

PgRegisterRemote(g, a, r, pending) ==
    [rooms |-> PgUpsert(g.rooms, [actor |-> a, room |-> r, pending |-> pending], {"actor"}, {"room"}),
     history |-> PgUpsert(PgUpdate(g.history, "actor", a, "current", FALSE),
                          [room |-> r, actor |-> a, current |-> TRUE], {"room"}, {"current"})]

PgBackfillDone(g, r) == [g EXCEPT !.rooms = PgUpdate(@, "room", r, "pending", FALSE)]

PgRemoteAnswers(g) ==
    [room |-> [a \in Actors |->
                 LET rows == PgWhere(g.rooms, "actor", a)
                 IN IF rows = {} THEN Nil
                    ELSE [room |-> PgOne(rows, "room"), pending |-> PgOne(rows, "pending")]],
     owner |-> [r \in Rooms |-> PgOne(PgWhere(g.rooms, "room", r), "actor")],
     pending |-> [r \in Rooms |-> PgOne(PgWhere(g.rooms, "room", r), "pending")],
     history |-> [r \in Rooms |-> PgOne(PgWhere(g.history, "room", r), "actor")]]

-----------------------------------------------------------------------------
(* DM and Chat rooms, by (ghost, local user). *)

PgRegisterDm(g, p, r, name) ==
    [rooms |-> PgUpsert(g.rooms, [actor |-> p[1], user |-> p[2], room |-> r, stamp |-> name],
                        {"actor", "user"}, {"room"}),
     history |-> PgUpsert({IF x.actor = p[1] /\ x.user = p[2] THEN [x EXCEPT !.current = FALSE] ELSE x :
                             x \in g.history},
                          [room |-> r, actor |-> p[1], user |-> p[2], current |-> TRUE],
                          {"room"}, {"current"})]

PgPair(rows) == IF rows = {} THEN Nil ELSE <<PgOne(rows, "actor"), PgOne(rows, "user")>>

PgDmAnswers(g) ==
    [room |-> [p \in Pairs |-> PgOne(PgWhere(PgWhere(g.rooms, "actor", p[1]), "user", p[2]), "room")],
     pair |-> [r \in Rooms |-> PgPair(PgWhere(g.rooms, "room", r))],
     history |-> [r \in Rooms |-> PgPair(PgWhere(g.history, "room", r))],
     ofActor |-> [a \in Actors |-> PgColumn(PgWhere(g.rooms, "actor", a), "room")],
     ofUser |-> [u \in Users |-> PgColumn(PgWhere(g.rooms, "user", u), "room")]]

PgRegisterChat(g, p, r, name) == PgRegisterDm(g, p, r, name)
PgChatAnswers(g) == PgDmAnswers(g)

-----------------------------------------------------------------------------
(* Rooms that mirror a guild channel, a Lemmy community or a group.          *)

PgRegisterChannelRoom(g, c, r) ==
    [g EXCEPT !.channel = PgUpsert(@, [actor |-> c, room |-> r], {"actor"}, {"room"})]

PgRegisterCommunityRoom(g, c, r, pending) ==
    [g EXCEPT !.mirror = PgUpsert(@, [actor |-> c, room |-> r, pending |-> pending], {"actor"}, {"room"})]

PgMirrorBackfillDone(g, r) == [g EXCEPT !.mirror = PgUpdate(@, "room", r, "pending", FALSE)]

PgRegisterGroupRoom(g, c, r, pending) == PgRegisterCommunityRoom(g, c, r, pending)

PgMirroredAnswers(g) ==
    [channel |-> [c \in Actors |-> PgOne(PgWhere(g.channel, "actor", c), "room")],
     mirror |-> [c \in Actors |-> LET rows == PgWhere(g.mirror, "actor", c)
                                  IN IF rows = {} THEN Nil
                                     ELSE [room |-> PgOne(rows, "room"), pending |-> PgOne(rows, "pending")]],
     mirrorAt |-> [r \in Rooms |-> PgOne(PgWhere(g.mirror, "room", r), "actor")],
     pending |-> [r \in Rooms |-> PgOne(PgWhere(g.mirror, "room", r), "pending")]]

-----------------------------------------------------------------------------
(* Channels, communities and groups the bridge hosts.                        *)

PgRegisterHosted(g, kind, n, r) ==
    [g EXCEPT !.rec[kind] = PgUpsert(@, [name |-> n, room |-> r], {"name"}, {"room"})]

PgUnregisterHosted(g, kind, n) ==
    [g EXCEPT !.rec[kind] = PgDelete(@, "name", n), !.followers = PgDelete(@, "name", n)]

PgRegisterCommunity(g, n, r) == PgRegisterHosted(g, "community", n, r)
PgUnregisterCommunity(g, n) == PgUnregisterHosted(g, "community", n)
PgRegisterGroup(g, n, r) == PgRegisterHosted(g, "group", n, r)
PgUnregisterGroup(g, n) == PgUnregisterHosted(g, "group", n)

PgFollowHosted(g, n, a) ==
    [g EXCEPT !.followers = PgInsertOnce(@, [name |-> n, actor |-> a], {"name", "actor"})]

PgHostedAnswers(g) ==
    [room |-> [kind \in Kinds |-> [n \in Names |-> PgOne(PgWhere(g.rec[kind], "name", n), "room")]],
     atRoom |-> [kind \in Kinds |-> [r \in Rooms |-> PgOne(PgWhere(g.rec[kind], "room", r), "name")]],
     followers |-> {<<x.name, x.actor>> : x \in g.followers}]

-----------------------------------------------------------------------------
(* The post/event map, reactions, votes. *)

PgRecordEvent(g, e, o, primary) ==
    PgUpsert(g, [event |-> e, object |-> o, primary |-> primary], {"event"}, {"object", "primary"})
PgDeleteEvent(g, e) == PgDelete(g, "event", e)

PgEventAnswers(g) ==
    [object |-> [e \in Events |-> PgOne(PgWhere(g, "event", e), "object")],
     event |-> [o \in Objects |-> PgOne(PgWhere(PgWhere(g, "object", o), "primary", TRUE), "event")]]

PgReaction(act, e, second) == [activity |-> act, event |-> e, second |-> second]

PgRecordReaction(g, act, e, second) ==
    PgUpsert(g, PgReaction(act, e, second), {"activity"}, {"event", "second"})
PgClaimReaction(g, act, e) == PgInsertOnce(g, PgReaction(act, e, Nil), {"event"})
PgRemoveReaction(g, act) == PgDelete(g, "activity", act)

PgReactionAnswers(g) ==
    [reaction |-> [act \in Objects |->
                     LET rows == PgWhere(g, "activity", act)
                     IN IF rows = {} THEN Nil
                        ELSE [event |-> PgOne(rows, "event"), second |-> PgOne(rows, "second")]],
     atEvent |-> [e \in Events |-> PgOne(PgWhere(g, "event", e) \cup PgWhere(g, "second", e), "activity")]]

PgRecordVote(g, act, q, u, e) ==
    PgUpsert(g, [activity |-> act, question |-> q, user |-> u, event |-> e],
             {"activity"}, {"question", "user", "event"})

PgVoteAnswers(g) ==
    [vote |-> [act \in Objects |->
                 IF PgWhere(g, "activity", act) = {} THEN Nil
                 ELSE LET x == CHOOSE y \in g : y.activity = act
                      IN [question |-> x.question, user |-> x.user, event |-> x.event]],
     voted |-> {<<x.question, x.user>> : x \in g}]

-----------------------------------------------------------------------------
(* Relations, handled transactions, who may use the bridge. *)

PgAdd(g, rel, t) == [g EXCEPT ![rel] = PgInsertOnce(@, [name |-> t[1], actor |-> t[2]], {"name", "actor"})]
PgRemove(g, rel, t) == [g EXCEPT ![rel] = @ \ {[name |-> t[1], actor |-> t[2]]}]

PgRelationAnswers(g) ==
    [related |-> [rel \in Relations |-> {<<x.name, x.actor>> : x \in g[rel]}],
     anyone |-> PgColumn(g["following"], "actor")]

PgMark(g, k, now) ==
    {x \in PgInsertOnce(g, [id |-> k, at |-> now], {"id"}) : x.at >= now - Retention}

PgSetAllow(g, rule, tier) == PgUpsert(g, [rule |-> rule, tier |-> tier], {"rule"}, {"tier"})
PgBan(g) == PgSetAllow(g, "mxid", "banned")
PgRemoveAllow(g, rule) == PgDelete(g, "rule", rule)

PgResolveTier(g, inRoom) ==
    LET user == PgOne(PgWhere(g, "rule", "mxid"), "tier")
        server == PgOne(PgWhere(g, "rule", "homeserver"), "tier")
    IN IF user # Nil THEN (IF user = "banned" THEN Nil ELSE user)
       ELSE IF server # Nil THEN server
       ELSE IF inRoom /\ PgWhere(g, "rule", "room") # {} THEN "shadow" ELSE Nil

PgShadowTier(g, roomless, third) == roomless \/ (third /\ PgResolveTier(g, FALSE) # "full")

PgAllowAnswers(g) ==
    [tier |-> [inRoom \in BOOLEAN |-> PgResolveTier(g, inRoom)],
     shadow |-> [roomless \in BOOLEAN |-> [third \in BOOLEAN |-> PgShadowTier(g, roomless, third)]]]

-----------------------------------------------------------------------------
(* Guilds. *)

PgPendingGuildFollow(g, u, guild) ==
    [g EXCEPT !.pending = PgUpsert(@, [id |-> <<u, guild>>, guild |-> guild], {"id"}, {"guild"})]
PgNoPendingGuildFollow(g, u, guild) == [g EXCEPT !.pending = PgDelete(@, "id", <<u, guild>>)]
PgGuildMember(g, u, guild) ==
    [g EXCEPT !.members = PgInsertOnce(@, [user |-> u, guild |-> guild], {"user", "guild"})]
PgNoGuildMember(g, u, guild) == [g EXCEPT !.members = @ \ {[user |-> u, guild |-> guild]}]
PgGuildSpace(g, guild, r) == [g EXCEPT !.space = PgUpsert(@, [guild |-> guild, room |-> r], {"guild"}, {"room"})]
PgGuildChannels(g, guild, C) ==
    [g EXCEPT !.channels = {x \in @ : x.channel \notin C} \cup {[channel |-> c, guild |-> guild] : c \in C}]

PgGuildAnswers(g) ==
    [pending |-> PgColumn(g.pending, "id"),
     members |-> {<<x.user, x.guild>> : x \in g.members},
     space |-> [guild \in Actors |-> PgOne(PgWhere(g.space, "guild", guild), "room")],
     ofSpace |-> [r \in Rooms |-> PgOne(PgWhere(g.space, "room", r), "guild")],
     channels |-> [c \in Actors |-> PgOne(PgWhere(g.channels, "channel", c), "guild")]]

-----------------------------------------------------------------------------
(* Values by key. *)

PgSetSetting(g, k, v) == [g EXCEPT !.settings = PgUpsert(@, [key |-> k, value |-> v], {"key"}, {"value"})]
PgClearSetting(g, k) == [g EXCEPT !.settings = PgDelete(@, "key", k)]
PgSaveLogin(g, k, v) == [g EXCEPT !.logins = PgUpsert(@, [key |-> k, value |-> v], {"key"}, {"value"})]
PgDeleteLogin(g, k) == [g EXCEPT !.logins = PgDelete(@, "key", k)]
PgBotRoom(g, u, r) == [g EXCEPT !.bot = PgUpsert(@, [user |-> u, room |-> r], {"user"}, {"room"})]
PgGhostProfile(g, a, v) == [g EXCEPT !.ghosts = PgUpsert(@, [key |-> a, value |-> v], {"key"}, {"value"})]

PgEmoji(g, source, image, name) ==
    LET known == PgOne(PgWhere(g.emoji, "source", source), "name")
    IN [g EXCEPT !.emoji =
          PgUpsert(@, [source |-> source, image |-> image, name |-> IF known = Nil THEN name ELSE known],
                   {"source"}, {"name"})]

PgKeyedAnswers(g) ==
    [settings |-> PgBy(g.settings, "key", "value"), logins |-> PgBy(g.logins, "key", "value"),
     bot |-> [u \in Users |-> PgOne(PgWhere(g.bot, "user", u), "room")],
     botOf |-> [r \in Rooms |-> PgOne(PgWhere(g.bot, "room", r), "user")],
     ghosts |-> PgBy(g.ghosts, "key", "value"),
     images |-> [o \in Objects |-> PgOne(PgWhere(g.emoji, "source", o), "image")],
     sources |-> [r \in Rooms |-> LET rows == PgWhere(g.emoji, "image", r)
                                  IN IF rows = {} THEN Nil
                                     ELSE [source |-> PgOne(rows, "source"), name |-> PgOne(rows, "name")]]]

-----------------------------------------------------------------------------

EmptyPg ==
    [identity  |-> [actors |-> {}, active |-> {}, history |-> {}],
     remote    |-> [rooms |-> {}, history |-> {}],
     dm        |-> [rooms |-> {}, history |-> {}],
     chat      |-> [rooms |-> {}, history |-> {}],
     mirrored  |-> [channel |-> {}, mirror |-> {}],
     hosted    |-> [rec |-> [k \in Kinds |-> {}], followers |-> {}],
     events    |-> {}, reactions |-> {}, votes |-> {},
     relations |-> [rel \in Relations |-> {}],
     windows   |-> {}, allow |-> {},
     guild     |-> [pending |-> {}, members |-> {}, space |-> {}, channels |-> {}],
     keyed     |-> [settings |-> {}, logins |-> {}, bot |-> {}, ghosts |-> {}, emoji |-> {}]]
=============================================================================
