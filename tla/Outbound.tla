-------------------------------- MODULE Outbound --------------------------------
(***************************************************************************)
(* What local users say, on its way out: the chain of                      *)
(* appservice_routes._dispatch_outbound_send and the handlers beside it,   *)
(* run by the transactions of TxnIntake.  Posts and polls of Profile       *)
(* Rooms, replies, messages of DM and Chat rooms and votes become          *)
(* Creates; an edit and the end of a poll become an Update, a redaction a  *)
(* Delete of the object a row of federated_events keeps for the event.     *)
(*                                                                         *)
(* Posts and polls are recorded before they are delivered, the others      *)
(* after: what a restart or a transaction sent twice does to them differs. *)
(* A file of an encrypted room goes out only when its sender says so, or   *)
(* when a sibling bridge announces the copy it was allowed to make.        *)
(*                                                                         *)
(* Delivery is best effort: one attempt per inbox, what becomes of it is   *)
(* not looked at.  Three servers stand for the fediverse.  Reposts and     *)
(* quotes by forwarding (MSC4501) and the rooms of communities, groups and *)
(* guild channels are not here.                                            *)
(***************************************************************************)
EXTENDS TxnIntake, FiniteSets

CONSTANTS
    Users,
    Actors,         \* local identities
    Own,            \* user -> their identities; which one acts in a room that
                    \* is not their own is IdentityRegistry's matter
    Oldest,         \* user -> the identity they have had longest
    Rooms,          \* Profile Rooms
    RoomActor,      \* room -> the identity whose Profile Room it is
    FollowersOf,    \* identity -> the servers of its followers
    Barrable,       \* third-party users whose access may be taken away
    Menus           \* scenarios: position -> the events that may come there
NoRoom == "no room"

\* The server of a follower, of the remote author a reply, DM or vote is for,
\* and of somebody a text mentions.
Inboxes == {"fan", "peer", "named"}

Kinds == {"post", "poll", "reply", "dm", "chat", "vote",
          "edit", "redact", "close", "confirm", "announce"}
\* The events that are about an earlier one, and those that may have a file.
Referring == {"edit", "redact", "close", "confirm", "announce"}
Filed == {"post", "reply", "dm", "chat", "edit"}
Event == {e \in [kind : Kinds, user : Users, room : Rooms \cup {NoRoom},
                 of : 0..MaxEvents, names : BOOLEAN, enc : BOOLEAN] :
             /\ e.kind \in Referring => e.of # 0
             /\ e.kind \in {"post", "poll"} => e.room # NoRoom
             /\ e.enc => e.kind \in Filed}

ASSUME OutboundAssumption ==
    /\ Own \in [Users -> SUBSET Actors] /\ Oldest \in [Users -> Actors]
    /\ \A u \in Users : Oldest[u] \in Own[u]
    /\ RoomActor \in [Rooms -> Actors]
    /\ FollowersOf \in [Actors -> SUBSET Inboxes]
    /\ Barrable \subseteq Users
    /\ Menus \subseteq [Positions -> SUBSET Event]

Note == [pos : Positions, n : Nat, actor : Actors]
NoNote == [pos |-> 0]

VARIABLES
    work,       \* what each request's handler is doing
    rows,       \* federated_events: event -> the object sent for it
    notes,      \* objects given an id
    sent,       \* deliveries tried: [to, act, note, by, ev]
    shown,      \* <<server, object>>: what the servers show
    warned,     \* events with the bot's question under them
    copied,     \* encrypted files with a decrypted copy, by event
    votes,      \* poll_votes: who voted in the peer's poll
    tallies,    \* tally replies and poll ends the bridge put under that poll
    closed,     \* has its author closed that poll
    barred,     \* users whose access is taken away
    twice, cut  \* positions handled by two requests at once, handled by one
                \* that died

vars == <<intakeVars, work, rows, notes, sent, shown, warned, copied, votes,
          tallies, closed, barred, twice, cut>>

Nobody == "nobody"
IdleWork == [pc |-> "none", ev |-> 0, by |-> Nobody, act |-> "", note |-> NoNote, todo |-> {}, saw |-> FALSE]

Private == {"dm", "chat"}

-----------------------------------------------------------------------------
(* Who speaks, and who hears. *)

\* The room's identity for its owner; elsewhere what resolve_acting_identity
\* finds, or the shadow identity ensure_shadow_actor makes for a guest.
Acting(e) ==
    IF e.room # NoRoom /\ RoomActor[e.room] \in Own[e.user]
    THEN {RoomActor[e.room]}
    ELSE Own[e.user]

\* is_third_party_still_allowed, effective_identity_tier.
Allowed(u) == u \notin barred

Mentioned(i) == IF stream[i].names THEN {"named"} ELSE {}

\* The event a thread started with; 0 for a post of the peer's.
ThreadRoot[i \in 0..MaxEvents] ==
    IF i \in 1..Len(stream) /\ stream[i].kind = "reply" THEN ThreadRoot[stream[i].of] ELSE i

\* _resolve_remote_recipient: the author replied to, unless that is the
\* sender; then the author of the thread, or else the sender's own followers.
Recipient(of, actor) ==
    LET Reach(j) == IF j = 0 THEN {"peer"} ELSE FollowersOf[rows[j].actor]
        Mine(j) == j # 0 /\ rows[j].actor = actor
        root == ThreadRoot[of]
    IN CASE ~ Mine(of) -> Reach(of)
         [] Mine(of) /\ root # of /\ (root = 0 \/ (root \in Positions /\ rows[root] # NoNote)) /\ ~ Mine(root) -> Reach(root)
         [] OTHER -> FollowersOf[actor]

\* collect_reply_participants: the author replied to and whom that post
\* mentions, if the post can be fetched.
Participants(of, actor, fetched) ==
    CASE ~ fetched -> {}
      [] fetched /\ of = 0 -> {"peer"}
      [] OTHER -> Mentioned(of) \cup IF rows[of] # NoNote /\ rows[of].actor # actor
                                     THEN FollowersOf[rows[of].actor] ELSE {}

\* The guest of a room mentions its owner, whose followers stand in for them.
Host(e) == IF e.room = NoRoom THEN {} ELSE FollowersOf[RoomActor[e.room]]

PostAudience(i, actor) == FollowersOf[actor] \cup Mentioned(i) \cup Host(stream[i])
PollAudience(actor) == FollowersOf[actor]
ReplyAudience(i, actor, fetched) ==
    Recipient(stream[i].of, actor) \cup Mentioned(i) \cup Participants(stream[i].of, actor, fetched)
DmAudience(i) == {"peer"} \cup Mentioned(i)
ChatAudience == {"peer"}
VoteAudience == {"peer"}

Audience(i, actor, fetched) ==
    LET kind == stream[i].kind
    IN CASE kind = "post" -> PostAudience(i, actor)
         [] kind = "poll" -> PollAudience(actor)
         [] kind = "reply" -> ReplyAudience(i, actor, fetched)
         [] kind = "dm" -> DmAudience(i)
         [] kind = "chat" -> ChatAudience
         [] kind = "vote" -> VoteAudience

EditAudience(i, actor, fetched) ==
    LET post == stream[stream[i].of]
    IN FollowersOf[actor] \cup Mentioned(i) \cup Host(post)
       \cup IF post.kind = "reply" THEN Participants(post.of, actor, fetched) ELSE {}

DeleteAudience(k) == FollowersOf[rows[stream[k].of].actor]

-----------------------------------------------------------------------------
(* The guards. *)

Tracked(i) == rows[i] # NoNote

Redacted(i) == \E k \in 1..Len(stream) : stream[k].kind = "redact" /\ stream[k].of = i

\* get_local_actor_by_matrix_id gives the oldest identity: the posts of the
\* others cannot be edited, their polls not ended.
Owned(i, u) == Tracked(i) /\ rows[i].actor = Oldest[u]

\* Variant: a transaction that comes again distributes again.
PublishableAgain(i) == Allowed(stream[i].user)

\* maybe_distribute_profile_post: an event with a row was distributed before.
Unpublished(i) == Allowed(stream[i].user) /\ ~ Tracked(i)

\* maybe_distribute_profile_poll: no polls of guests.
Pollable(i) == /\ RoomActor[stream[i].room] \in Own[stream[i].user]
               /\ Allowed(stream[i].user) /\ ~ Tracked(i)

\* maybe_federate_reply: an answer to what was never federated stays in
\* Matrix; no look at the event's own row.
Answerable(i) == /\ Allowed(stream[i].user)
                 /\ stream[i].of # 0 => Tracked(stream[i].of)

\* A message of a DM room that answers nothing, one of a Chat room.
Sayable(i) == Allowed(stream[i].user)

Votable(i) == Allowed(stream[i].user) /\ stream[i].user \notin votes

\* Variant: the edits of a DM go out like any other.
EditableAnywhere(i) == Owned(stream[i].of, stream[i].user)

\* maybe_federate_edit.
Editable(i) == /\ Owned(stream[i].of, stream[i].user)
               /\ stream[stream[i].of].kind \notin Private

\* maybe_federate_poll_close.
Closable(i) == Owned(stream[i].of, stream[i].user)

\* maybe_federate_delete: whoever redacts, the author's identity deletes.
Deletable(i) == Tracked(stream[i].of)

Expected(i) ==
    LET kind == stream[i].kind
    IN \/ kind = "post" /\ Unpublished(i)
       \/ kind = "poll" /\ Pollable(i)
       \/ kind = "reply" /\ Answerable(i)
       \/ kind \in {"dm", "chat"} /\ Sayable(i)
       \/ kind = "vote" /\ Votable(i)
       \/ kind = "edit" /\ Editable(i)
       \/ kind = "close" /\ Closable(i)
       \/ kind = "redact" /\ Deletable(i)

\* Variant: the copy there is goes unnoticed.
AsksAgain(i) == ~ stream[i].enc

\* resolve_attachment_or_request_confirmation: no file, no encrypted file, or
\* one with a decrypted copy.
Readable(i) == stream[i].enc => i \in copied

\* Variant: whoever answers the question.
AnyoneConfirms(i) ==
    LET e == stream[i] IN ~ Tracked(e.of) /\ ~ Redacted(e.of)

\* Variant: the file of a redacted post is looked up in the transaction's copy.
ConfirmsRedacted(i) ==
    LET e == stream[i] IN stream[e.of].user = e.user /\ ~ Tracked(e.of)

\* resume_encrypted_attachment: the sender's own answer, for a post that has
\* no row and still has its file.
Confirms(i) ==
    LET e == stream[i] IN /\ stream[e.of].user = e.user
                          /\ ~ Tracked(e.of) /\ ~ Redacted(e.of)

-----------------------------------------------------------------------------
(* One handler: check, ask or compose, record, send, finish. *)

Doing(r, step) == proc[r].pc = "run" /\ work[r].pc = step
Ev(r) == work[r].ev
Done(r) == End(r) /\ work' = [work EXCEPT ![r] = IdleWork]
Go(r, w) == work' = [work EXCEPT ![r] = w]

record == <<rows, notes>>
outside == <<sent, shown>>
files == <<warned, copied>>
poll == <<votes, tallies, closed>>
ghost == <<barred, twice, cut>>

\* What an event is about, for the histories.
Topic(i) == IF stream[i].kind \in {"confirm", "announce"} THEN stream[i].of ELSE i
Handling(r) == proc[r].pc \in {"run", "mark"}

Dispatch(r) ==
    /\ Begin(r)
    /\ Go(r, [IdleWork EXCEPT !.pc = "check", !.ev = proc[r].at])
    /\ twice' = twice \cup {Topic(proc[r].at) :
           q \in {q \in Requests \ {r} : /\ Handling(q)
                                         /\ Topic(proc[q].at) = Topic(proc[r].at)}}
    /\ UNCHANGED <<record, outside, files, poll, barred, cut>>

Ignore(r) ==
    /\ Doing(r, "check") /\ stream[Ev(r)].kind \notin {"confirm", "announce"}
    /\ ~ Expected(Ev(r))
    /\ Done(r)
    /\ UNCHANGED <<record, outside, files, poll, ghost>>

\* The bot asks under the post, unless Synapse refuses.
Ask(r) ==
    /\ Doing(r, "check") /\ Expected(Ev(r)) /\ ~ Readable(Ev(r))
    /\ warned' \in {warned, warned \cup {Ev(r)}}
    /\ Done(r)
    /\ UNCHANGED <<record, outside, copied, poll, ghost>>

Ready(r, kinds) ==
    /\ Doing(r, "check") /\ stream[Ev(r)].kind \in kinds
    /\ Expected(Ev(r)) /\ Readable(Ev(r))

\* The mentions of a text are looked up on other servers: time passes.
Compose(r) ==
    /\ Ready(r, {"post", "poll"})
    /\ \E a \in Acting(stream[Ev(r)]) : Go(r, [work[r] EXCEPT !.pc = "record", !.by = a])
    /\ UNCHANGED <<intakeVars, record, outside, files, poll, ghost>>

Made(i) == {n \in notes : n.pos = i}
Fresh(i, a) == [pos |-> i, n |-> Cardinality(Made(i)) + 1, actor |-> a]

Record(r) ==
    LET i == Ev(r) note == Fresh(i, work[r].by)
    IN /\ Doing(r, "record")
       /\ notes' = notes \cup {note}
       /\ rows' = [rows EXCEPT ![i] = note]
       /\ Go(r, [work[r] EXCEPT !.pc = "send", !.act = "Create", !.note = note,
                                !.todo = Audience(i, work[r].by, FALSE)])
       /\ UNCHANGED <<intakeVars, outside, files, poll, ghost>>

\* A reply, a message, a vote: delivered, then recorded.
Address(r) ==
    /\ Ready(r, {"reply", "dm", "chat", "vote"})
    /\ \E a \in Acting(stream[Ev(r)]), fetched \in BOOLEAN :
         LET note == Fresh(Ev(r), a)
         IN /\ notes' = notes \cup {note}
            /\ Go(r, [work[r] EXCEPT !.pc = "send", !.by = a, !.act = "Create", !.note = note,
                                     !.todo = Audience(Ev(r), a, fetched)])
    /\ UNCHANGED <<intakeVars, rows, outside, files, poll, ghost>>

\* The object keeps its id; the activity is signed by the sender's identity.
Edit(r) ==
    /\ Ready(r, {"edit"})
    /\ \E fetched \in BOOLEAN :
         LET e == stream[Ev(r)] a == Oldest[e.user]
         IN Go(r, [work[r] EXCEPT !.pc = "send", !.by = a, !.act = "Update",
                                  !.note = rows[e.of], !.todo = EditAudience(Ev(r), a, fetched)])
    /\ UNCHANGED <<intakeVars, record, outside, files, poll, ghost>>

Close(r) ==
    /\ Ready(r, {"close"})
    /\ LET e == stream[Ev(r)] a == Oldest[e.user]
       IN Go(r, [work[r] EXCEPT !.pc = "send", !.by = a, !.act = "Update",
                                !.note = rows[e.of], !.todo = FollowersOf[a]])
    /\ UNCHANGED <<intakeVars, record, outside, files, poll, ghost>>

Delete(r) ==
    /\ Ready(r, {"redact"})
    /\ LET note == rows[stream[Ev(r)].of]
       IN Go(r, [work[r] EXCEPT !.pc = "send", !.by = note.actor, !.act = "Delete",
                                !.note = note, !.todo = DeleteAudience(Ev(r))])
    /\ UNCHANGED <<intakeVars, record, outside, files, poll, ghost>>

-----------------------------------------------------------------------------
(* Delivery: the fan-out reaches the servers in any order. *)

\* What the servers make of it: a Delete hides the object, a Create shows it.
Shown(to, act, note) ==
    CASE act = "Create" -> shown \cup {<<to, note>>}
      [] act = "Delete" -> shown \ {<<to, note>>}
      [] OTHER -> shown

Deliver(r) ==
    /\ Doing(r, "send")
    /\ \E to \in work[r].todo :
         /\ sent' = sent \cup {[to |-> to, act |-> work[r].act, note |-> work[r].note,
                                by |-> work[r].by, ev |-> Ev(r)]}
         /\ shown' = Shown(to, work[r].act, work[r].note)
         /\ Go(r, [work[r] EXCEPT !.todo = @ \ {to}])
    /\ UNCHANGED <<intakeVars, record, files, poll, ghost>>

Delivered(r, kinds) ==
    /\ Doing(r, "send") /\ work[r].todo = {} /\ stream[Ev(r)].kind \in kinds

Finish(r) ==
    /\ Delivered(r, {"post", "poll", "edit", "close", "redact"})
    /\ Done(r)
    /\ UNCHANGED <<record, outside, files, poll, ghost>>

\* The row of a reply or a message: the last one sent, if it was sent twice.
Keep(r) ==
    /\ Delivered(r, {"reply", "dm", "chat"})
    /\ rows' = [rows EXCEPT ![Ev(r)] = work[r].note]
    /\ Done(r)
    /\ UNCHANGED <<notes, outside, files, poll, ghost>>

\* A vote's tail, refresh_poll_tallies: the poll is fetched again, and the
\* tally reply looked for in its thread.
KeepVote(r) ==
    /\ Delivered(r, {"vote"})
    /\ votes' = votes \cup {stream[Ev(r)].user}
    /\ Go(r, [work[r] EXCEPT !.pc = "tally", !.saw = tallies.replies > 0])
    /\ UNCHANGED <<intakeVars, record, outside, files, tallies, closed, ghost>>

\* upsert_poll_tally_reply: an edit of the reply there is.
NewReply(saw) == ~ saw

\* maybe_send_poll_end looks for the end among the thread's events, where the
\* one it sends, a reference to the poll, is not.
Tally(r) ==
    /\ Doing(r, "tally")
    /\ tallies' = [replies |-> tallies.replies + (IF NewReply(work[r].saw) THEN 1 ELSE 0),
                   ends |-> tallies.ends + (IF closed THEN 1 ELSE 0)]
    /\ Done(r)
    /\ UNCHANGED <<record, outside, files, votes, closed, ghost>>

-----------------------------------------------------------------------------
(* Files of encrypted rooms. *)

\* decrypt_and_reupload_encrypted_attachment: a copy is kept for good.
Copy(i) == copied' = copied \cup {i}

\* An answer that does not count, or a file that cannot be decrypted.
Refuse(r) ==
    /\ Doing(r, "check") /\ stream[Ev(r)].kind = "confirm"
    /\ Done(r)
    /\ UNCHANGED <<record, outside, files, poll, ghost>>

\* resume_encrypted_attachment: the copy is made (or there), and the post goes
\* through the chain as if it came now.
Resume(r) ==
    /\ Doing(r, "check") /\ stream[Ev(r)].kind = "confirm" /\ Confirms(Ev(r))
    /\ Copy(stream[Ev(r)].of)
    /\ Go(r, [work[r] EXCEPT !.ev = stream[Ev(r)].of])
    /\ UNCHANGED <<intakeVars, record, outside, warned, poll, ghost>>

\* handle_announcement: a sibling's copy of the file the post still has.
Announced(r) ==
    /\ Doing(r, "check") /\ stream[Ev(r)].kind = "announce"
    /\ IF Redacted(stream[Ev(r)].of)
       THEN Done(r) /\ UNCHANGED copied
       ELSE /\ Copy(stream[Ev(r)].of)
            /\ Go(r, [work[r] EXCEPT !.ev = stream[Ev(r)].of])
            /\ UNCHANGED intakeVars
    /\ UNCHANGED <<record, outside, warned, poll, ghost>>

-----------------------------------------------------------------------------
(* What the endpoints give whoever asks for it. *)

\* _reconstruct_note_from_matrix_event: the object of the event's row, unless
\* nothing is left of the event.
Reconstructed(i) == IF Tracked(i) /\ ~ Redacted(i) THEN {rows[i]} ELSE {}

\* get_note: of a post or a reply, by its id; a DM or Chat is not for others.
Served == UNION {Reconstructed(i) : i \in {k \in 1..Len(stream) : stream[k].kind \in {"post", "reply"}}}

\* get_outbox: what its user wrote in the identity's Profile Room.
Outbox(a) == UNION {Reconstructed(i) : i \in {k \in 1..Len(stream) :
    /\ stream[k].kind = "post" /\ a \in Own[stream[k].user]
    /\ stream[k].room # NoRoom /\ RoomActor[stream[k].room] = a}}

-----------------------------------------------------------------------------
(* The world. *)

\* Somebody writes: they edit and redact what is there, end a poll, and answer
\* a question that was asked.
Write ==
    /\ \E menu \in Menus : \E e \in IF Len(stream) < MaxEvents THEN menu[Len(stream) + 1] ELSE {} :
         /\ \A i \in 1..Len(stream) : stream[i] \in menu[i]
         /\ e.of <= Len(stream)
         /\ e.kind = "confirm" => e.of \in warned
         /\ e.kind = "close" => stream[e.of].kind = "poll"
         /\ e.kind = "announce" => stream[e.of].enc
         /\ Arrive(e)
    /\ UNCHANGED <<work, record, outside, files, poll, ghost>>

\* The access of somebody who has written something is taken away.
Bar(u) ==
    /\ u \notin barred /\ \E i \in 1..Len(stream) : stream[i].user = u
    /\ barred' = barred \cup {u}
    /\ UNCHANGED <<intakeVars, work, record, outside, files, poll, twice, cut>>

PollCloses ==
    /\ ~ closed
    /\ \E i \in 1..Len(stream) : stream[i].kind = "vote"
    /\ closed' = TRUE
    /\ UNCHANGED <<intakeVars, work, record, outside, files, votes, tallies, ghost>>

Restart ==
    /\ Crash
    /\ work' = [r \in Requests |-> IdleWork]
    /\ cut' = cut \cup {Topic(proc[r].at) : r \in {q \in Requests : Handling(q)}}
    /\ UNCHANGED <<record, outside, files, poll, barred, twice>>

Intake(A) == A /\ UNCHANGED <<work, record, outside, files, poll, ghost>>

Init ==
    /\ IntakeInit
    /\ work = [r \in Requests |-> IdleWork]
    /\ rows = [i \in Positions |-> NoNote]
    /\ notes = {} /\ sent = {} /\ shown = {}
    /\ warned = {} /\ copied = {}
    /\ votes = {} /\ tallies = [replies |-> 0, ends |-> 0] /\ closed = FALSE
    /\ barred = {} /\ twice = {} /\ cut = {}

Handle(r) ==
    \/ Dispatch(r) \/ Ignore(r) \/ Ask(r)
    \/ Compose(r) \/ Record(r) \/ Address(r) \/ Edit(r) \/ Close(r) \/ Delete(r)
    \/ Deliver(r) \/ Finish(r) \/ Keep(r) \/ KeepVote(r) \/ Tally(r)
    \/ Refuse(r) \/ Resume(r) \/ Announced(r)
    \/ Intake(Skip(r)) \/ Intake(Mark(r)) \/ Intake(Reply(r))

Next ==
    \/ Write
    \/ \E r \in Requests : Handle(r) \/ Intake(Send(r))
    \/ Intake(GiveUp)
    \/ \E u \in Barrable : Bar(u)
    \/ PollCloses
    \/ Restart

Spec == Init /\ [][Next]_vars

-----------------------------------------------------------------------------
(* Properties. *)

Activity == [to : Inboxes, act : {"Create", "Update", "Delete"}, note : Note,
             by : Actors, ev : Positions]

Quiet == /\ acked = Len(stream) /\ waiting = NoRequest
         /\ \A r \in Requests : proc[r].pc = "idle"

HasAnnouncement(i) ==
    \E k \in 1..Len(stream) : stream[k].kind = "announce" /\ stream[k].of = i

\* An event of a room becomes two objects only if two requests handled it at
\* the same time, or, for what is recorded late, if the bridge died before the
\* record or a sibling bridge announced its file (the row maybe_distribute_
\* profile_post writes before the fan-out, processed_matrix_events for the
\* others).
DuplicatesExplained ==
    \A i \in Positions :
        Cardinality(Made(i)) > 1 =>
            \/ i \in twice
            \/ /\ stream[i].kind \notin {"post", "poll"}
               /\ i \in cut \/ HasAnnouncement(i)

\* A file of an encrypted room leaves it only after its own sender's answer to
\* the bot's question, or a sibling's announcement (resume_encrypted_attachment
\* and handle_announcement, through replays, edits and redactions).
ConfirmedOnly ==
    \A d \in sent :
        d.act # "Delete" /\ stream[d.ev].enc =>
            \E k \in 1..Len(stream) :
                /\ stream[k].of = d.ev
                /\ \/ stream[k].kind = "announce"
                   \/ stream[k].kind = "confirm" /\ stream[k].user = stream[d.ev].user

\* What is said in a DM or a Chat, and what it becomes by edits, goes to the
\* one it is said to and whom it mentions; and nobody's words are changed or
\* taken back under another identity's signature (_send_outbound_dm,
\* maybe_federate_edit, maybe_federate_delete).
PrivateAndOwn ==
    \A d \in sent :
        LET said == stream[d.note.pos]
        IN /\ said.kind \in Private /\ d.act # "Delete" =>
                  d.to = "peer" \/ (d.to = "named" /\ said.names)
           /\ d.by = d.note.actor

\* What the servers show of posts and replies can be fetched from the bridge,
\* unless it was sent twice or the bridge died over it, and an outbox lists only
\* what its own identity said (get_note and get_outbox beside what was sent).
Fetchable ==
    /\ \A a \in Actors : \A note \in Outbox(a) : note.actor = a
    /\ Quiet => \A x \in shown :
         LET i == x[2].pos
         IN /\ stream[i].kind \in {"post", "reply"} /\ ~ Redacted(i) /\ i \notin twice \cup cut
            /\ ~ HasAnnouncement(i)
            => x[2] \in Served

\* Everything has its type, a row names an object made for its event, and only
\* objects that were made travel, to those and as those they may (federated_events
\* beside the deliveries).
OutboundInv ==
    /\ PrivateAndOwn /\ Fetchable
    /\ IntakeTypeOK(Event)
    /\ notes \subseteq Note
    /\ \A i \in Positions : rows[i] # NoNote => rows[i] \in Made(i)
    /\ sent \subseteq Activity /\ \A d \in sent : d.note \in notes
    /\ shown \subseteq {<<d.to, d.note>> : d \in sent}
    /\ copied \cup warned \subseteq {i \in 1..Len(stream) : stream[i].enc}

\* A post, reply or message that is redacted disappears from every follower's
\* server, whoever redacts it and whatever was edited, asked, confirmed or
\* restarted meanwhile, unless two requests handled it at the same time: the
\* object its row names does, and so does every other one but those a restart
\* or a sibling's announcement left behind (maybe_federate_delete, which knows
\* one object of an event; a vote has no row, and cannot be taken back).
DeletedAtFollowers ==
    Quiet =>
        \A k \in 1..Len(stream) :
            LET i == stream[k].of
            IN stream[k].kind = "redact" /\ stream[i].kind # "vote" /\ i \notin twice =>
                   \A note \in Made(i) :
                       note = rows[i] \/ (i \notin cut /\ ~ HasAnnouncement(i))
                           => \A f \in FollowersOf[note.actor] : <<f, note>> \notin shown

\* Once all is handled, whoever a post, reply, message or vote is for was sent
\* it, unless its sender lost the access, its file is locked or the bridge died
\* over it (the guards and the fan-outs of the chain).
Heard ==
    Quiet =>
        \A i \in 1..Len(stream) :
            LET e == stream[i]
                For(a) == IF e.kind \in {"post", "poll"} THEN FollowersOf[a] ELSE {"peer"}
            IN /\ e.kind \in {"post", "reply", "dm", "chat"}
               /\ e.of = 0 /\ (e.enc => i \in copied) /\ e.user \notin barred /\ i \notin cut
               => \E note \in Made(i) : \A to \in For(note.actor) :
                      \E d \in sent : d.note = note /\ d.to = to /\ d.act = "Create"
================================================================================
