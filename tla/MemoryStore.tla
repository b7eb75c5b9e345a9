---------------------------- MODULE MemoryStore ----------------------------
(***************************************************************************)
(* InMemoryActorRepository: dictionaries in both directions, changed        *)
(* without an await.  Each operator gives the dictionaries after one call,  *)
(* or the answers the store gives to every question about them.             *)
(***************************************************************************)
EXTENDS Tables

(* Identities of the bridge's users, the active one, the rooms they had. *)

MemRegisterActor(m, n, u, r, now) ==
    LET known == n \in DOMAIN m.actors
        old == Field(m.actors, n, "room")
        others == OwnedBy(m.actors, u) \ {n}
        at == IF known THEN m.actors[n].at ELSE now
        left == IF old # r THEN {old} ELSE {}
        chosen == IF others = {} THEN n ELSE Oldest(m.actors, others)
    IN [actors |-> Put(m.actors, n, [user |-> u, room |-> r, at |-> at]),
        byRoom |-> LET kept == Pop(m.byRoom, left) IN IF r = Nil THEN kept ELSE Put(kept, r, n),
        owner |-> IF r = Nil \/ r \in DOMAIN m.owner THEN m.owner ELSE Put(m.owner, r, u),
        active |-> IF u \in DOMAIN m.active \/ (known /\ others = {}) THEN m.active
                   ELSE Put(m.active, u, chosen)]

MemUnregisterActor(m, n) ==
    IF n \notin DOMAIN m.actors THEN m
    ELSE LET gone == m.actors[n]
             rest == OwnedBy(m.actors, gone.user) \ {n}
         IN [m EXCEPT
               !.actors = Pop(@, {n}),
               !.byRoom = IF Get(@, gone.room) = n THEN Pop(@, {gone.room}) ELSE @,
               !.active = IF Get(@, gone.user) # n THEN @
                          ELSE IF rest = {} THEN Pop(@, {gone.user})
                          ELSE Put(@, gone.user, Oldest(m.actors, rest))]

MemSetActive(m, u, n) == [m EXCEPT !.active = Put(@, u, n)]

MemIdentityAnswers(m) ==
    [actors |-> m.actors,
     active |-> [u \in Users |-> Active(m.actors, m.active, u)],
     oldest |-> [u \in Users |-> Oldest(m.actors, OwnedBy(m.actors, u))],
     atRoom |-> [r \in Rooms |-> Get(m.byRoom, r)],
     owner |-> [r \in Rooms |-> Get(m.owner, r)]]

-----------------------------------------------------------------------------
(* Remote User Rooms: one room per remote actor and every room it ever had. *)

\* What a slip would make of it: the room the actor has left still answers for it.
StaleRegisterRemote(m, a, r, pending) ==
    [rooms |-> Put(m.rooms, a, [room |-> r, pending |-> pending]),
     byRoom |-> Put(m.byRoom, r, [actor |-> a, pending |-> pending]),
     history |-> Put(m.history, r, a)]

MemRegisterRemote(m, a, r, pending) ==
    LET previous == Get(m.rooms, a)
        left == IF previous # Nil /\ previous.room # r THEN {previous.room} ELSE {}
        keep == IF previous # Nil THEN previous.pending ELSE pending
    IN [rooms |-> Put(m.rooms, a, [room |-> r, pending |-> keep]),
        byRoom |-> Put(Pop(m.byRoom, left), r, [actor |-> a, pending |-> keep]),
        history |-> Put(m.history, r, a)]

MemBackfillDone(m, r) ==
    IF r \notin DOMAIN m.byRoom THEN m
    ELSE LET a == m.byRoom[r].actor
         IN [m EXCEPT !.rooms = Put(@, a, [room |-> r, pending |-> FALSE]),
                      !.byRoom = Put(@, r, [actor |-> a, pending |-> FALSE])]

MemRemoteAnswers(m) ==
    [room |-> [a \in Actors |-> Get(m.rooms, a)],
     owner |-> [r \in Rooms |-> Field(m.byRoom, r, "actor")],
     pending |-> [r \in Rooms |-> Field(m.byRoom, r, "pending")],
     history |-> [r \in Rooms |-> Get(m.history, r)]]

-----------------------------------------------------------------------------
(* DM and Chat rooms: one room of each kind per (ghost, local user), stamped *)
(* with the identity that started it.                                        *)

MemRegisterDm(m, p, r, name) ==
    [rooms |-> Put(m.rooms, p, r), history |-> Put(m.history, r, p),
     stamp |-> IF r \in DOMAIN m.stamp THEN m.stamp ELSE Put(m.stamp, r, name)]

MemDmAnswers(m) ==
    [room |-> [p \in Pairs |-> Get(m.rooms, p)],
     pair |-> [r \in Rooms |-> OneOf({p \in DOMAIN m.rooms : m.rooms[p] = r})],
     history |-> [r \in Rooms |-> Get(m.history, r)],
     ofActor |-> [a \in Actors |-> {m.rooms[p] : p \in {q \in DOMAIN m.rooms : q[1] = a}}],
     ofUser |-> [u \in Users |-> {m.rooms[p] : p \in {q \in DOMAIN m.rooms : q[2] = u}}]]

MemRegisterChat(m, p, r, name) == MemRegisterDm(m, p, r, name)
MemChatAnswers(m) == MemDmAnswers(m)

-----------------------------------------------------------------------------
(* Rooms that mirror a guild channel, a Lemmy community or a group.          *)

MemRegisterChannelRoom(m, c, r) ==
    [m EXCEPT !.channel = Put(@, c, r), !.channelAt = Put(@, r, c)]

MemRegisterCommunityRoom(m, c, r, pending) ==
    LET keep == IF c \in DOMAIN m.mirror THEN m.mirror[c].pending ELSE pending
    IN [m EXCEPT !.mirror = Put(@, c, [room |-> r, pending |-> keep]),
                 !.mirrorAt = Put(@, r, [actor |-> c, pending |-> keep])]

MemMirrorBackfillDone(m, r) ==
    IF r \notin DOMAIN m.mirrorAt THEN m
    ELSE LET c == m.mirrorAt[r].actor
         IN [m EXCEPT !.mirror = Put(@, c, [room |-> r, pending |-> FALSE]),
                      !.mirrorAt = Put(@, r, [actor |-> c, pending |-> FALSE])]

\* Group rooms: the same dictionaries over again.
MemRegisterGroupRoom(m, c, r, pending) == MemRegisterCommunityRoom(m, c, r, pending)

MemMirroredAnswers(m) ==
    [channel |-> [c \in Actors |-> Get(m.channel, c)],
     mirror |-> [c \in Actors |-> Get(m.mirror, c)],
     mirrorAt |-> [r \in Rooms |-> Field(m.mirrorAt, r, "actor")],
     pending |-> [r \in Rooms |-> Field(m.mirrorAt, r, "pending")]]

-----------------------------------------------------------------------------
(* Channels, communities and groups the bridge hosts, and who follows them.  *)

MemRegisterHosted(m, kind, n, r) ==
    LET left == {x \in DOMAIN m.at[kind] : x = Get(m.rec[kind], n) /\ x # r}
    IN [m EXCEPT !.rec[kind] = Put(@, n, r), !.at[kind] = Put(Pop(@, left), r, n)]

MemUnregisterHosted(m, kind, n) ==
    [m EXCEPT !.at[kind] = Pop(@, {Get(m.rec[kind], n)}),
              !.rec[kind] = Pop(@, {n}),
              !.followers = {f \in @ : f[1] # n}]

MemRegisterCommunity(m, n, r) == MemRegisterHosted(m, "community", n, r)
MemUnregisterCommunity(m, n) == MemUnregisterHosted(m, "community", n)
MemRegisterGroup(m, n, r) == MemRegisterHosted(m, "group", n, r)
MemUnregisterGroup(m, n) == MemUnregisterHosted(m, "group", n)

MemHostedAnswers(m) ==
    [room |-> [kind \in Kinds |-> [n \in Names |-> Get(m.rec[kind], n)]],
     atRoom |-> [kind \in Kinds |-> [r \in Rooms |-> Get(m.at[kind], r)]],
     followers |-> m.followers]

-----------------------------------------------------------------------------
(* The post/event map: several events may carry one object, one of them is  *)
(* its primary event.                                                       *)

MemRecordEvent(m, e, o, primary) ==
    [byEvent |-> Put(m.byEvent, e, o),
     byObject |-> IF primary THEN Put(m.byObject, o, e) ELSE m.byObject]

MemDeleteEvent(m, e) ==
    [byEvent |-> Pop(m.byEvent, {e}),
     byObject |-> Pop(m.byObject, {o \in DOMAIN m.byObject : m.byObject[o] = e})]

MemEventAnswers(m) ==
    [object |-> [e \in Events |-> Get(m.byEvent, e)], event |-> [o \in Objects |-> Get(m.byObject, o)]]

-----------------------------------------------------------------------------
(* Reactions, by activity and by either of their two Matrix events.         *)

MemRecordReaction(m, act, e, second) ==
    LET at == Put(m.byEvent, e, act)
    IN [byActivity |-> Put(m.byActivity, act, [event |-> e, second |-> second]),
        byEvent |-> IF second = Nil THEN at ELSE Put(at, second, act)]

MemClaimReaction(m, act, e) ==
    IF e \in DOMAIN m.byEvent THEN m ELSE MemRecordReaction(m, act, e, Nil)

MemRemoveReaction(m, act) ==
    IF act \notin DOMAIN m.byActivity THEN m
    ELSE [byActivity |-> Pop(m.byActivity, {act}),
          byEvent |-> Pop(m.byEvent, {m.byActivity[act].event, m.byActivity[act].second})]

MemReactionAnswers(m) ==
    [reaction |-> [act \in Objects |-> Get(m.byActivity, act)],
     atEvent |-> [e \in Events |-> Get(m.byEvent, e)]]

-----------------------------------------------------------------------------
(* Votes in polls: one row per vote activity, at most one per Matrix event. *)

MemRecordVote(m, act, q, u, e) == Put(m, act, [question |-> q, user |-> u, event |-> e])

MemVoteAnswers(m) ==
    [vote |-> [act \in Objects |-> Get(m, act)],
     voted |-> {qu \in Objects \X Users :
                  \E act \in DOMAIN m : m[act].question = qu[1] /\ m[act].user = qu[2]}]

-----------------------------------------------------------------------------
(* Followers, following, blocks and mutes: a set per identity.              *)

MemAdd(m, rel, t) ==
    [m EXCEPT ![rel] = Put(@, t[1], (IF t[1] \in DOMAIN @ THEN @[t[1]] ELSE {}) \cup {t[2]})]
MemRemove(m, rel, t) == IF t[1] \in DOMAIN m[rel] THEN [m EXCEPT ![rel][t[1]] = @ \ {t[2]}] ELSE m

MemRelationAnswers(m) ==
    [related |-> [rel \in Relations |->
                    {t \in Names \X Actors : t[1] \in DOMAIN m[rel] /\ t[2] \in m[rel][t[1]]}],
     anyone |-> {a \in Actors : \E n \in DOMAIN m["following"] : a \in m["following"][n]}]

-----------------------------------------------------------------------------
(* Transactions and Matrix events already handled: the last so many.        *)

MemMark(m, k) ==
    LET order == Append(m.order, k)
        over == Len(order) > Tracked
    IN [ids |-> (m.ids \cup {k}) \ (IF over THEN {Head(order)} ELSE {}),
        order |-> IF over THEN Tail(order) ELSE order]

-----------------------------------------------------------------------------
(* Who may use the bridge from another homeserver: a rule by user, by       *)
(* homeserver or by room.  An identity is listed as shadow-tier when it has *)
(* no room, or is parked in one while its owner's rule is not "full".       *)

MemSetAllow(m, rule, tier) == Put(m, rule, tier)
MemBan(m) == Put(m, "mxid", "banned")
MemRemoveAllow(m, rule) == Pop(m, {rule})

MemResolveTier(m, inRoom) ==
    CASE "mxid" \in DOMAIN m -> IF m["mxid"] = "banned" THEN Nil ELSE m["mxid"]
      [] "mxid" \notin DOMAIN m /\ "homeserver" \in DOMAIN m -> m["homeserver"]
      [] "mxid" \notin DOMAIN m /\ "homeserver" \notin DOMAIN m ->
            IF inRoom /\ "room" \in DOMAIN m THEN "shadow" ELSE Nil

MemShadowTier(m, roomless, third) == roomless \/ (third /\ MemResolveTier(m, FALSE) # "full")

MemAllowAnswers(m) ==
    [tier |-> [inRoom \in BOOLEAN |-> MemResolveTier(m, inRoom)],
     shadow |-> [roomless \in BOOLEAN |-> [third \in BOOLEAN |-> MemShadowTier(m, roomless, third)]]]

-----------------------------------------------------------------------------
(* Guilds: joins under way, members, the guild's space and its channels.    *)

MemPendingGuildFollow(m, u, g) == [m EXCEPT !.pending = Put(@, <<u, g>>, g)]
MemNoPendingGuildFollow(m, u, g) == [m EXCEPT !.pending = Pop(@, {<<u, g>>})]
MemGuildMember(m, u, g) == [m EXCEPT !.members = Put(@, <<u, g>>, g)]
MemNoGuildMember(m, u, g) == [m EXCEPT !.members = Pop(@, {<<u, g>>})]
MemGuildSpace(m, g, r) == [m EXCEPT !.space = Put(@, g, r)]
MemGuildChannels(m, g, C) == [m EXCEPT !.channels = PutAll(@, C, g)]

MemGuildAnswers(m) ==
    [pending |-> DOMAIN m.pending, members |-> DOMAIN m.members,
     space |-> [g \in Actors |-> Get(m.space, g)],
     ofSpace |-> [r \in Rooms |-> OneOf({g \in DOMAIN m.space : m.space[g] = r})],
     channels |-> [c \in Actors |-> Get(m.channels, c)]]

-----------------------------------------------------------------------------
(* Values by key: an identity's settings, a user's login elsewhere, space   *)
(* and notification room, a ghost's profile, an emoji's image and name.     *)

MemSetSetting(m, k, v) == [m EXCEPT !.settings = Put(@, k, v)]
MemClearSetting(m, k) == [m EXCEPT !.settings = Pop(@, {k})]
MemSaveLogin(m, k, v) == [m EXCEPT !.logins = Put(@, k, v)]
MemDeleteLogin(m, k) == [m EXCEPT !.logins = Pop(@, {k})]
MemBotRoom(m, u, r) == [m EXCEPT !.bot = Put(@, u, r)]
MemGhostProfile(m, a, v) == [m EXCEPT !.ghosts = Put(@, a, v)]

\* The image of a source is kept; a name is learnt once.
MemEmoji(m, source, image, name) ==
    [m EXCEPT !.images = IF source \in DOMAIN @ THEN @ ELSE Put(@, source, image),
              !.sources = IF image \notin DOMAIN @ THEN Put(@, image, [source |-> source, name |-> name])
                          ELSE IF @[image].name = Nil THEN [@ EXCEPT ![image].name = name] ELSE @]

MemKeyedAnswers(m) ==
    [settings |-> m.settings, logins |-> m.logins,
     bot |-> [u \in Users |-> Get(m.bot, u)],
     botOf |-> [r \in Rooms |-> OneOf({u \in DOMAIN m.bot : m.bot[u] = r})],
     ghosts |-> m.ghosts,
     images |-> [o \in Objects |-> Get(m.images, o)],
     sources |-> [r \in Rooms |-> Get(m.sources, r)]]

-----------------------------------------------------------------------------

EmptyMem ==
    [identity  |-> [actors |-> Empty, byRoom |-> Empty, owner |-> Empty, active |-> Empty],
     remote    |-> [rooms |-> Empty, byRoom |-> Empty, history |-> Empty],
     dm        |-> [rooms |-> Empty, history |-> Empty, stamp |-> Empty],
     chat      |-> [rooms |-> Empty, history |-> Empty, stamp |-> Empty],
     mirrored  |-> [channel |-> Empty, channelAt |-> Empty, mirror |-> Empty, mirrorAt |-> Empty],
     hosted    |-> [rec |-> [k \in Kinds |-> Empty], at |-> [k \in Kinds |-> Empty], followers |-> {}],
     events    |-> [byEvent |-> Empty, byObject |-> Empty],
     reactions |-> [byActivity |-> Empty, byEvent |-> Empty],
     votes     |-> Empty,
     relations |-> [rel \in Relations |-> Empty],
     windows   |-> [ids |-> {}, order |-> <<>>],
     allow     |-> Empty,
     guild     |-> [pending |-> Empty, members |-> Empty, space |-> Empty, channels |-> Empty],
     keyed     |-> [settings |-> Empty, logins |-> Empty, bot |-> Empty, ghosts |-> Empty,
                    images |-> Empty, sources |-> Empty]]
=============================================================================
