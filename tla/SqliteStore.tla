---------------------------- MODULE SqliteStore ----------------------------
(***************************************************************************)
(* SqliteActorRepository: tables by primary key.  Calls are serialised by   *)
(* one lock and commit once, at their end, so each operator is one call.    *)
(***************************************************************************)
EXTENDS Tables

\* SELECT ... WHERE column = value: the key of the row.
KeyOf(t, f, v) == OneOf({k \in DOMAIN t : t[k][f] = v})
Taken(t, k, f, v) == \E j \in DOMAIN t \ {k} : t[j][f] = v

\* What a plausible slip would make of it: the old rows stay current, or go.
ForgetfulRecorded(hist, k, r) ==
    Put(hist, r, [key |-> IF r \in DOMAIN hist THEN hist[r].key ELSE k, current |-> TRUE])

\* Clears is_current on the key's rows, then inserts or re-flags the room's row,
\* whose key columns the ON CONFLICT branch leaves as they were.
Recorded(hist, k, r) ==
    LET cleared == [x \in DOMAIN hist |->
                      IF hist[x].key = k THEN [hist[x] EXCEPT !.current = FALSE] ELSE hist[x]]
    IN Put(cleared, r, [key |-> IF r \in DOMAIN hist THEN hist[r].key ELSE k, current |-> TRUE])

-----------------------------------------------------------------------------
(* Identities of the bridge's users, the active one, the rooms they had. *)

\* A room whose history row is of another username, which has a current room:
\* flagging the row as current breaks the partial unique index.
Clash(s, n, r) ==
    /\ r \in DOMAIN s.history /\ s.history[r].key # n
    /\ \E x \in DOMAIN s.history \ {r} : s.history[x].key = s.history[r].key /\ s.history[x].current

SqlRegisterActor(s, n, u, r, now) ==
    LET known == n \in DOMAIN s.actors
        others == OwnedBy(s.actors, u) \ {n}
        at == IF known THEN s.actors[n].at ELSE now
    IN [actors |-> Put(s.actors, n, [user |-> u, room |-> r, at |-> at]),
        active |-> IF known \/ u \in DOMAIN s.active THEN s.active
                   ELSE Put(s.active, u, IF others = {} THEN n ELSE Oldest(s.actors, others)),
        owner |-> IF r = Nil \/ r \in DOMAIN s.owner THEN s.owner ELSE Put(s.owner, r, u),
        history |-> IF r = Nil THEN s.history ELSE Recorded(s.history, n, r)]

SqlUnregisterActor(s, n) ==
    IF n \notin DOMAIN s.actors THEN s
    ELSE LET u == s.actors[n].user
             rest == OwnedBy(s.actors, u) \ {n}
         IN [s EXCEPT !.actors = Pop(@, {n}),
                      !.active = IF Get(@, u) # n THEN @
                                 ELSE IF rest = {} THEN Pop(@, {u})
                                 ELSE Put(@, u, Oldest(s.actors, rest))]

SqlSetActive(s, u, n) == [s EXCEPT !.active = Put(@, u, n)]

SqlIdentityAnswers(s) ==
    [actors |-> s.actors,
     active |-> [u \in Users |-> Active(s.actors, s.active, u)],
     oldest |-> [u \in Users |-> Oldest(s.actors, OwnedBy(s.actors, u))],
     atRoom |-> [r \in Rooms |-> KeyOf(s.actors, "room", r)],
     owner |-> [r \in Rooms |-> Get(s.owner, r)]]

-----------------------------------------------------------------------------
(* Remote User Rooms. *)

SqlRegisterRemote(s, a, r, pending) ==
    [rooms |-> Put(s.rooms, a, [room |-> r, pending |->
                 IF a \in DOMAIN s.rooms THEN s.rooms[a].pending ELSE pending]),
     history |-> Recorded(s.history, a, r)]

SqlBackfillDone(s, r) ==
    [s EXCEPT !.rooms = [a \in DOMAIN @ |->
                           IF @[a].room = r THEN [@[a] EXCEPT !.pending = FALSE] ELSE @[a]]]

SqlRemoteAnswers(s) ==
    [room |-> [a \in Actors |-> Get(s.rooms, a)],
     owner |-> [r \in Rooms |-> KeyOf(s.rooms, "room", r)],
     pending |-> [r \in Rooms |-> Field(s.rooms, KeyOf(s.rooms, "room", r), "pending")],
     history |-> [r \in Rooms |-> Field(s.history, r, "key")]]

-----------------------------------------------------------------------------
(* DM and Chat rooms.  local_username is not in the ON CONFLICT branch: a    *)
(* pair keeps its first stamp.                                               *)

SqlRegisterDm(s, p, r, name) ==
    [rooms |-> Put(s.rooms, p, [room |-> r, stamp |->
                 IF p \in DOMAIN s.rooms THEN s.rooms[p].stamp ELSE name]),
     history |-> Recorded(s.history, p, r)]

SqlDmAnswers(s) ==
    [room |-> [p \in Pairs |-> Field(s.rooms, p, "room")],
     pair |-> [r \in Rooms |-> KeyOf(s.rooms, "room", r)],
     history |-> [r \in Rooms |-> Field(s.history, r, "key")],
     ofActor |-> [a \in Actors |-> {s.rooms[p].room : p \in {q \in DOMAIN s.rooms : q[1] = a}}],
     ofUser |-> [u \in Users |-> {s.rooms[p].room : p \in {q \in DOMAIN s.rooms : q[2] = u}}]]

SqlRegisterChat(s, p, r, name) == SqlRegisterDm(s, p, r, name)
SqlChatAnswers(s) == SqlDmAnswers(s)

-----------------------------------------------------------------------------
(* Rooms that mirror a guild channel, a Lemmy community or a group.          *)

SqlRegisterChannelRoom(s, c, r) == [s EXCEPT !.channel = Put(@, c, [room |-> r])]

SqlRegisterCommunityRoom(s, c, r, pending) ==
    [s EXCEPT !.mirror = Put(@, c, [room |-> r, pending |->
                           IF c \in DOMAIN @ THEN @[c].pending ELSE pending])]

SqlMirrorBackfillDone(s, r) ==
    [s EXCEPT !.mirror = [c \in DOMAIN @ |->
                            IF @[c].room = r THEN [@[c] EXCEPT !.pending = FALSE] ELSE @[c]]]

SqlRegisterGroupRoom(s, c, r, pending) == SqlRegisterCommunityRoom(s, c, r, pending)

SqlMirroredAnswers(s) ==
    [channel |-> [c \in Actors |-> Field(s.channel, c, "room")],
     mirror |-> [c \in Actors |-> Get(s.mirror, c)],
     mirrorAt |-> [r \in Rooms |-> KeyOf(s.mirror, "room", r)],
     pending |-> [r \in Rooms |-> Field(s.mirror, KeyOf(s.mirror, "room", r), "pending")]]

-----------------------------------------------------------------------------
(* Channels, communities and groups the bridge hosts.                        *)

SqlRegisterHosted(s, kind, n, r) == [s EXCEPT !.rec[kind] = Put(@, n, [room |-> r])]

SqlUnregisterHosted(s, kind, n) ==
    [s EXCEPT !.rec[kind] = Pop(@, {n}), !.followers = {f \in @ : f[1] # n}]

SqlRegisterCommunity(s, n, r) == SqlRegisterHosted(s, "community", n, r)
SqlUnregisterCommunity(s, n) == SqlUnregisterHosted(s, "community", n)
SqlRegisterGroup(s, n, r) == SqlRegisterHosted(s, "group", n, r)
SqlUnregisterGroup(s, n) == SqlUnregisterHosted(s, "group", n)

SqlHostedAnswers(s) ==
    [room |-> [kind \in Kinds |-> [n \in Names |-> Field(s.rec[kind], n, "room")]],
     atRoom |-> [kind \in Kinds |-> [r \in Rooms |-> KeyOf(s.rec[kind], "room", r)]],
     followers |-> s.followers]

-----------------------------------------------------------------------------
(* The post/event map. *)

SqlRecordEvent(s, e, o, primary) == Put(s, e, [object |-> o, primary |-> primary])
SqlDeleteEvent(s, e) == Pop(s, {e})
SqlEventByObject(s, o) == OneOf({e \in DOMAIN s : s[e].object = o /\ s[e].primary})

SqlEventAnswers(s) ==
    [object |-> [e \in Events |-> Field(s, e, "object")],
     event |-> [o \in Objects |-> SqlEventByObject(s, o)]]

-----------------------------------------------------------------------------
(* Reactions. *)

SqlRecordReaction(s, act, e, second) == Put(s, act, [event |-> e, second |-> second])

\* ON CONFLICT(event_id) DO NOTHING: only the event column is looked at.
SqlClaimReaction(s, act, e) ==
    IF KeyOf(s, "event", e) # Nil THEN s ELSE SqlRecordReaction(s, act, e, Nil)

SqlReactionByEvent(s, e) ==
    IF KeyOf(s, "event", e) # Nil THEN KeyOf(s, "event", e) ELSE KeyOf(s, "second", e)

SqlRemoveReaction(s, act) == Pop(s, {act})

SqlReactionAnswers(s) ==
    [reaction |-> [act \in Objects |-> Get(s, act)],
     atEvent |-> [e \in Events |-> SqlReactionByEvent(s, e)]]

-----------------------------------------------------------------------------
(* Votes, relations, handled transactions. *)

SqlRecordVote(s, act, q, u, e) == Put(s, act, [question |-> q, user |-> u, event |-> e])

SqlVoteAnswers(s) ==
    [vote |-> [act \in Objects |-> Get(s, act)],
     voted |-> {<<s[act].question, s[act].user>> : act \in DOMAIN s}]

SqlAdd(s, rel, t) == [s EXCEPT ![rel] = @ \cup {t}]
SqlRemove(s, rel, t) == [s EXCEPT ![rel] = @ \ {t}]
SqlRelationAnswers(s) ==
    [related |-> s, anyone |-> {t[2] : t \in s["following"]}]

SqlMark(s, k, now) ==
    LET kept == IF k \in DOMAIN s THEN s ELSE Put(s, k, now)
    IN Pop(kept, {j \in DOMAIN kept : kept[j] < now - Retention})

-----------------------------------------------------------------------------
(* Who may use the bridge from another homeserver. *)

SqlSetAllow(s, rule, tier) == Put(s, rule, tier)
SqlBan(s) == Put(s, "mxid", "banned")
SqlRemoveAllow(s, rule) == Pop(s, {rule})

SqlResolveTier(s, inRoom) ==
    LET user == Get(s, "mxid")
        server == Get(s, "homeserver")
    IN IF user # Nil THEN (IF user = "banned" THEN Nil ELSE user)
       ELSE IF server # Nil THEN server
       ELSE IF inRoom /\ Get(s, "room") # Nil THEN "shadow" ELSE Nil

SqlShadowTier(s, roomless, third) == roomless \/ (third /\ SqlResolveTier(s, FALSE) # "full")

SqlAllowAnswers(s) ==
    [tier |-> [inRoom \in BOOLEAN |-> SqlResolveTier(s, inRoom)],
     shadow |-> [roomless \in BOOLEAN |-> [third \in BOOLEAN |-> SqlShadowTier(s, roomless, third)]]]

-----------------------------------------------------------------------------
(* Guilds. *)

SqlPendingGuildFollow(s, u, g) == [s EXCEPT !.pending = Put(@, <<u, g>>, [guild |-> g])]
SqlNoPendingGuildFollow(s, u, g) == [s EXCEPT !.pending = Pop(@, {<<u, g>>})]
SqlGuildMember(s, u, g) == [s EXCEPT !.members = @ \cup {<<u, g>>}]
SqlNoGuildMember(s, u, g) == [s EXCEPT !.members = @ \ {<<u, g>>}]
SqlGuildSpace(s, g, r) == [s EXCEPT !.space = Put(@, g, [room |-> r])]
SqlGuildChannels(s, g, C) == [s EXCEPT !.channels = PutAll(@, C, g)]

SqlGuildAnswers(s) ==
    [pending |-> DOMAIN s.pending, members |-> s.members,
     space |-> [g \in Actors |-> Field(s.space, g, "room")],
     ofSpace |-> [r \in Rooms |-> KeyOf(s.space, "room", r)],
     channels |-> [c \in Actors |-> Get(s.channels, c)]]

-----------------------------------------------------------------------------
(* Values by key. *)

SqlSetSetting(s, k, v) == [s EXCEPT !.settings = Put(@, k, v)]
SqlClearSetting(s, k) == [s EXCEPT !.settings = Pop(@, {k})]
SqlSaveLogin(s, k, v) == [s EXCEPT !.logins = Put(@, k, v)]
SqlDeleteLogin(s, k) == [s EXCEPT !.logins = Pop(@, {k})]
SqlBotRoom(s, u, r) == [s EXCEPT !.bot = Put(@, u, [room |-> r])]
SqlGhostProfile(s, a, v) == [s EXCEPT !.ghosts = Put(@, a, v)]

\* ON CONFLICT(source_url): the row keeps its image, its name is filled in once.
SqlEmoji(s, source, image, name) ==
    [s EXCEPT !.emoji =
       IF source \notin DOMAIN @ THEN Put(@, source, [image |-> image, name |-> name])
       ELSE IF @[source].name = Nil THEN [@ EXCEPT ![source].name = name] ELSE @]

SqlKeyedAnswers(s) ==
    [settings |-> s.settings, logins |-> s.logins,
     bot |-> [u \in Users |-> Field(s.bot, u, "room")],
     botOf |-> [r \in Rooms |-> KeyOf(s.bot, "room", r)],
     ghosts |-> s.ghosts,
     images |-> [o \in Objects |-> Field(s.emoji, o, "image")],
     sources |-> [r \in Rooms |-> LET o == KeyOf(s.emoji, "image", r)
                                  IN IF o = Nil THEN Nil ELSE [source |-> o, name |-> s.emoji[o].name]]]

-----------------------------------------------------------------------------

EmptySql ==
    [identity  |-> [actors |-> Empty, active |-> Empty, owner |-> Empty, history |-> Empty],
     remote    |-> [rooms |-> Empty, history |-> Empty],
     dm        |-> [rooms |-> Empty, history |-> Empty],
     chat      |-> [rooms |-> Empty, history |-> Empty],
     mirrored  |-> [channel |-> Empty, mirror |-> Empty],
     hosted    |-> [rec |-> [k \in Kinds |-> Empty], followers |-> {}],
     events    |-> Empty,
     reactions |-> Empty,
     votes     |-> Empty,
     relations |-> [rel \in Relations |-> {}],
     windows   |-> Empty,
     allow     |-> Empty,
     guild     |-> [pending |-> Empty, members |-> {}, space |-> Empty, channels |-> Empty],
     keyed     |-> [settings |-> Empty, logins |-> Empty, bot |-> Empty, ghosts |-> Empty,
                    emoji |-> Empty]]
=============================================================================
