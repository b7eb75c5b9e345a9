# matrix-appservice-activitypub: a verification development

TLA+ modules, TLC runs and TLAPS proofs about the bridge between Matrix and
ActivityPub in `src/`. Everything is translated from the code as it stands;
line references in comments are to files under `src/bridge/` unless they say
otherwise.

## 1. The system

The bridge is one asyncio Python process. A Matrix homeserver (Synapse) sends it
room events in *transactions*; remote ActivityPub servers POST it *activities*;
it answers with Matrix events sent through Synapse and with signed activities
POSTed to remote inboxes. Its only durable state is a repository (sqlite or
Postgres). Nothing else is persisted: no outgoing queue, no queue of accepted
activities, and the locks and caches die with the process.

| Component (source) | State | Operations | Hard about it |
|---|---|---|---|
| appservice transactions (`appservice_routes.py`) | `processed_matrix_events` | look up, dispatch through ~60 handlers, mark, answer 200 | homeserver retries beside a running request, restarts, swallowed exceptions |
| inboxes (`activitypub/routes.py`) | running background tasks | verify, 202, handle | acknowledged before handled |
| inbox dispatch (`inbox_dispatch.py`) | `federated_events`, `reactions`, `followers` | Create, Announce, Like, Follow, Accept, Reject, Undo, Update, Delete, Block, Add/Remove, votes | interleaving of copies, Delete before Create, nested locks |
| activity locks (`note_mirroring.py`) | two dictionaries of lock objects and counts | enter, leave | lock objects dropped while callers come |
| note mirroring (`note_mirroring.py`) | `federated_events`, `remote_actor_rooms`, rooms | import a post, make a room, settle a lost race | check, await, send, record |
| local identities (`shadow_identity.py`, `commands.py`, `profile_posts.py`, `third_party_sync.py`) | `local_actors`, `active_identity`, `profile_room_history` | create, link, unlink, replace, delete, switch, edit, mint, sweep | records read, awaited over, and written back |
| hosted actors (`commands.py`, `widget.py`, `peertube.py`, `lemmy_bridge.py`, `group_bridge.py`) | channels, communities, groups, their followers and moderators | create, link, delete; follow a room's name and power levels | four tables share one namespace; chat and widget side by side |
| reaction bridge (`reaction_bridge.py`) | `reactions`, dictionaries for repost cards | react, repost, undo | slow delivery between claim and record |
| follow relation (`inbox_dispatch.py`, `commands.py`, `membership.py`, `channel_bridge.py`) | `followers`, `following`, `blocked_actors`, pending guild joins and memberships | Follow/Accept/Reject/Undo/Block both ways, joining guilds | crossing messages |
| posts, replies, messages, polls, edits, deletes (`profile_posts.py`, `*_bridge.py`) | `federated_events`, `poll_votes` | outbound chain | some recorded before delivery, some after |
| media of encrypted rooms (`shared_encrypted_media.py`) | cached decrypted copies | ask, confirm, announce | the post may change between question and answer |
| shared rooms: communities, groups, guild channels (`lemmy_bridge.py`, `group_bridge.py`, `channel_bridge.py`) | `federated_events`, followers | mirror, distribute, re-announce, backfill, ban | one post in several wrappings, own comments echoed |
| rooms of accounts, DMs, chats, notifications, communities, channels, spaces (`note_mirroring.py`, `commands.py`, `membership.py`, `notifications.py`, `spaces.py`) | one row per room's subject, histories of rooms, `ghost_profiles` | make, replace, join, invite, update, resync | rows read, awaited over, and written back; rooms made twice |
| videos (`commands.py`, `widget.py`, `peertube.py`) | `federated_events`, the channel's index and metadata (room state) | publish, edit, replace, unpublish | three copies of one truth, background deliveries |
| repositories (`repository.py`, `sqlite_repository.py`, `postgres_repository.py`) | every table | ~200 calls each | three hand-written implementations |
| outage recovery (`outage_recovery.py`) | `outage_recoveries` | detect, record, sweep | recorded before swept |
| pins, widget pages, documents, signatures | caches | rendering, provisioning, I/O | mostly idempotent bookkeeping |

`PROJECT.json` lists every component with its sources and what is modelled.

**How they interact.** Transactions are handled one after the other, as long as
Synapse gets its 200 in time; when it does not, it sends the transaction again
while the first request still runs. Inbox activities, widget requests and the
periodic sweeps run at any time beside that. They share the repository (each
operation atomic under the repository's own lock, an operation's several
statements not a database transaction that would roll back) and, for inbound
activities, the lock of the activity's id and of the post's id. A request to
Synapse that is refused raises `SynapseError`, which the handlers catch; one that
is not answered raises an httpx exception, which most do not.

**What makes each correct**, in a sentence: locks exclude and let everyone in;
a post has one mirror, which stays until its author removes it; a user always
acts as exactly one identity, and identities keep their keys and rooms; no handle
and no room is two actors'; a reaction becomes one activity, and is taken back
only by its reactor and everywhere; what somebody says becomes one object, goes
to those it is for, under their name, and disappears when it is redacted; a post
of a shared room is shown once and announced once; every room event is dispatched
at least once, in order; followers, following and memberships agree with what was
last accepted; the room of an account is the newest one; a video is listed,
served and shown alike; the three stores answer alike.

## 2. The modules

| Module | Models | State and actions |
|---|---|---|
| `KeyedMutex` | the abstract promise of `activity_lock` | `holder`; `Acquire`, `Release` |
| `ActivityLock` | `activity_lock` and the `asyncio.Lock`s behind it | dictionaries `table`, `waiters`; objects' `locked`, `queue`, `woken`; `EnterFree`, `EnterQueued`, `Resume`, `Exit`, each one segment between awaits |
| `NoteMirror` | `inbox_dispatch` + `note_mirroring` for Create, Announce, Delete, Undo(Announce), over the locks of `KeyedMutex` | `row` (federated_events), `mapped` (remote_actor_rooms), `live` (Matrix events), a program counter per delivery; one action per stretch between the awaits that matter; `Abort` (an unanswered request), `Crash` |
| `IdentityRegistry` | the three identity tables and every command that writes them, in any number of tasks beside each other | `actor`, `active`, `history`, and `job`, what each task has read and is about to write; `Start`, `CheckRoom`, `PickName`, `Write`, `SetActive`, `Detach`, `Erase`, `Abort`; `raced` and `crossed` note the names and rooms two tasks were at |
| `TxnIntake` | `_handle_transaction` and the homeserver's side of it | `stream`, `acked`, `batch`, `waiting` (homeserver), `proc`, `marked`; `Send`, `GiveUp`, `Skip`, `Begin`, `End`, `Mark`, `Reply`, `Crash` |
| `ReactionBridge` (EXTENDS `TxnIntake`) | reactions, reposts (by reaction or `;repost`) and their redactions inside transactions | `rows` (reactions table), `work` (handler's program counter), `cards`, what was `sent` and undone (`undos`) |
| `Outbound` (EXTENDS `TxnIntake`) | the chain of `_dispatch_outbound_send`: posts, polls, replies, DM and Chat messages, votes, edits, deletes, the files of encrypted rooms; what is served of them | `rows` (federated_events), `notes` made, `sent` and `shown` outside, `warned`, `copied`, `votes`, `tallies`; check, `Ask`, `Compose`/`Address`, `Record`, `Deliver`, `Keep` |
| `Follows` | the handlers that write the follow and guild tables: inbound Follow, Undo, Block, Accept, Reject; `;follow`, `;unfollow`, `;block`, `;unblock`, `;joinguild`, `;leaveguild`; leaving a room | the tables, `room` (remote_actor_rooms), `inRoom`, what the others know (`told`, `view`), a program counter per operation; one action per stretch between awaits |
| `BridgedRooms` | every room the bridge makes for somebody: the get-or-create of nine kinds, `replace room` and `replace dm`/`chat`, joins with their one-shot backfill, inviting a ghost, `;refresh`, Update, resync | `row`, `history` (the `*_room_history` tables), `profile` (ghost_profiles), what each room was made as (`madeAs`) and where it has `moved`, one `task` per lane: Matrix events one after the other, inbox activities beside them |
| `HostedActors` | profiles, channels, communities and groups: create, link, unlink, delete, from chat and widget; the state events of their rooms | `rec` (four tables), `run` (chat and widget, each with the record it read), `pending` state events, `asked` warnings, what followers `heard` |
| `Relays` | a mirrored community, group or guild channel and a hosted community or group: members' messages out, others' posts in, announcements, backfills, bans | `rows`; `pending` (messages, in order) and `lanes` (one per request that sends one, several when the homeserver repeats it); `tasks` (inbound, in parallel); `shown`, `heard`, `arrived`; `doubled` notes the messages two requests sent |
| `Videos` | a video from `;publish` to `;unpublish`, by chat and widget | `events` (federated_events), `index`, `meta` (room state), `jobs`, `wires` (background deliveries), what followers `holds`; `Halt` is a request to the homeserver that ends the command, `halted` the videos left half way |
| `Tables`, `MemoryStore`, `SqliteStore`, `PostgresStore` | the three repositories, call by call: dictionaries; tables by primary key; sets of rows with upserts | operators from the tables to the tables, and the answers to every question |
| `Stores` | the same calls given to all three | `mem`, `sql`, `pg`; one action per group of calls, with what the callers guarantee as guards |
| `NoteMirror_proofs` (with `ActivityLock`'s), `IdentityRegistry_proofs`, `ReactionBridge_proofs`, `Outbound_proofs`, `Follows_proofs`, `Rooms_proofs` (`BridgedRooms` and `HostedActors`), `Relays_proofs`, `StoresVideos_proofs` (`Videos` and `Stores`) | theorems | see 6 |
| `MC*` | instances for TLC | see 3 |

Conventions. A step is what a handler does between two awaits at which another
task can matter; several reads in a row that nothing in the model can come
between are one step. The repository's operations are operators on the tables
(`Recorded`, `Unregister`, `Insertable`, ...). Texts, documents, media and
signatures are left out; an activity, post, event, room or key is an id. Some
variables are history: what was made, sent or heard, and what went wrong
(`raced`, `cut`, `excused`, `upset`, ...), so that a property can say exactly
which mishap it excuses. Above some definitions a *variant* or *mutant* stands: a
plausible mistake in that code, used to confirm that the properties notice it.

How they compose. `NoteMirror` composes with the locks through `KeyedMutex`, the
specification `ActivityLock` is shown to implement, so that the mirroring model
does not carry the lock objects along. `ReactionBridge` and `Outbound` use the
intake's own actions as conjuncts: a handler runs between `Begin` and `End` of
its request. `Stores` runs the three store modules side by side; each is an
implementation of the others' answers. The modules above the stores use the
tables by their sqlite operations, which `Stores` shows to be everybody's.

## 3. The runs

| Run | Instance | Shows |
|---|---|---|
| `activity_lock` | 3 handlers, 1 activity id, 1 post id locked under it, 3 lock objects | `LockInv` (inductive: exclusion, exact counts, no lost wake-up), `NoStarvation`, refinement of `KeyedMutex` |
| `note_mirror` | 8 scenarios of 3 deliveries (copies, Create/Announce/Delete/Undo of a post by a followed author and by a stranger), at most one failing request or crash | one tracked mirror on one path (`MirroredOnce`); every visible event accounted for, the winner of a race survives, cards point at it (`MirrorInv`); no resurrection; the post comes in (`EventuallyMirrored`, hence no hang) |
| `identity_registry` | 2 users whose names collide, 3 usernames, a room of a user's and one the bot makes, 2 identities each, 2 keys, 2 tasks which both run every command and may stop half way | the registry's inductive invariant (`RegistryInv`), `AlwaysActive`, `RoomKept`, `ActiveNotStolen`: of every name and room no two tasks were at |
| `reaction_bridge` | 2 events (reaction, repost or `;repost`, redaction of it or of its card, by the reactor, who has two identities and reacts as either, or by somebody else), 2 requests at a time, 1 give-up and 1 restart (both only around a repost with a card) | nothing passed over and one activity per reaction (`BridgeInv`), `NothingUnasked`, `UndoBeforeForget`, `ReactionReaches` |
| `outbound` | 3 events: something said (post, poll, reply, DM, Chat, vote; in the clear or encrypted), then answered, edited, confirmed, announced or redacted, twice; an owner of two identities and a guest; 2 requests, one give-up or restart | an event becomes two objects only for reasons named (`DuplicatesExplained`); a file leaves an encrypted room only when allowed (`ConfirmedOnly`); private stays private, words go out under one's own name, what is shown can be fetched (`OutboundInv`); a redacted post disappears (`DeletedAtFollowers`); whoever it is for hears it (`Heard`) |
| `follows` | with 1 failure or restart: 3 operations of a remote account (Follow, copies of it, Undo, Block; of a profile and of a channel) and the user's `;block`, `;unblock`; or 3 of two users, one with two identities: `;follow`, `;unfollow`, `;block`, leaving a room, of a remote account, a community and each other; or 4 around a guild: two identities join, it answers, also twice, one leaves | the tables agree with each other, with the rooms' members, and with what others were told; a guild's members are those it accepted (`FollowsInv`); `BlockHolds`; `FollowAnswered` |
| `bridged_rooms` | each of the nine kinds, 3 rooms, 2 identities, one lane of Matrix events and one of inbox activities, 5 operations, 1 failure or restart | row and history agree and the current room is not tombstoned (`RoomsInv`), tombstones lead to a known room and never in a circle (`TombstonesLead`), one backfill (`BackfilledOnce`) |
| `hosted_actors` | 2 users (one joins the homeserver later and administers the bridge), 2 handles, 3 rooms, 4 commands, changes and restarts | no handle and no room is two actors' unless two tasks were at it at once (`HostedInv`), records keep owner and room and stay deleted (`SeatKept`), actors say what their rooms say (`InStep`), deletions complete (`DeletionCompletes`) |
| `relays` | each of the five kinds of room, a thread by a follower and an answer to the member's message, 1 message, 3 arrivals, or 2 and 1 restart or request repeated beside the one that runs | a post is shown once (`ShownOnce`); nobody is told twice but by two requests at once, and a mirrored community or group after a restart (`ToldOnce`); told to the room before the followers and to all of them (`RoomFirst`); threads are flat and nothing of ours comes back as a ghost's (`RelaysInv`); every message is handled (`EventuallyHandled`) |
| `videos` | a message of the chat and one of the widget, a second file, a follower of the owner and one of the channel, 3 commands, 1 trouble (a lost delivery, a failed request to the homeserver, a command repeated while it runs, or a restart) | what was sent out can be retracted (`VideosInv`), the channel lists what is published (`IndexMatches`), followers have it and nothing else (`FollowersMatch`) |
| `stores` | 2 actors, users, names and objects, 3 rooms and events; one family of tables per behaviour, any sequence of calls | the three stores give the same answers (`SameAnswers`), history follows the rooms (`HistoryFollows`) |
| `video_file` | as `videos`, nothing going wrong | expected to fail (`FileStays`): see 5 |

`CHECK_DEADLOCK FALSE` stands where the bounds end the behaviours and the module
has no idling step of its own.

**Bounds, and why they are enough.** *activity_lock*: two tasks can hold and
queue for an object; the third is the newcomer that meets a dropped or remade
object; two keys give nesting; three objects cover both keys and one remade while
the old one is still referenced. *note_mirror*: every race in the code is between
two handlers of one post; the third delivery is the copy, Undo or Delete that
meets the outcome; scenarios rather than all combinations keep liveness
checkable, and all of them interleave freely. *identity_registry*: collisions
need two users, promotion needs two identities, hand-over of rooms two users and
a room; two keys let a name be re-minted after a deletion. Two tasks give every
pair of commands in every order of their steps, a third would only add further
pairs; the constraint `OneMeeting` explores nothing beyond a second meeting of
tasks, since all the properties then say less, and the tasks are symmetric.
*reaction_bridge*, *outbound*: two requests and one give-up give every
overlap of a handler with its retry or with a later transaction; one restart
falls between any two steps; two events fit a reaction with its redaction in one
transaction or in two, three an encrypted post with its edit or redaction and the
answer to the bot's question. `OneTrouble` lets a give-up or a restart happen,
not both; in *reaction_bridge* both may (`TroublesApart`), around a repost with a card. *follows*: the races of these handlers are between two of them (two
Follows, a Follow and a block, two users who make a room, a command and the leave
event of the one before, a join and its answer); the third operation is what has
to meet the outcome; a guild needs a fourth, for the copy of an Accept after
leaving. *bridged_rooms*: one slot suffices, since no operation touches two;
three rooms are one, its replacement and what a racing task makes; five
operations fit a room, an update that has read it, two replacements and what
meets them. *hosted_actors*: two workers and two handles give every race for a
name; one warning, because a confirmation looks at no other; four steps fit a
creation, its deletion, a change of the room meanwhile and a restart. *relays*:
two posts give a thread under a thread, three arrivals one post in all three
wrappings; two followers, one the author; one message, since a request beside
another is at the same one, and one restart or repetition of it, which already
gives every object of it a second; with that, two arrivals (`ThreeInAll`). *videos*: two videos of one index, two
commands that meet and a third that meets what they leave. *stores*: three rooms
let one be replaced twice or taken back, two of the rest give every collision of
a unique column; the sequences have no bound but the clock of the families that
count time.

**Fairness.** The event loop runs every ready task (weak fairness of what a task
can do by itself); every request has a timeout, so a task that awaits one goes
on. Waiting for a lock in `NoteMirror` takes strong fairness because other tasks
come in between; that `activity_lock` lets everyone in is what
`ActivityLock!NoStarvation` shows from weak fairness of waking and strong
fairness of leaving a body. In `ReactionBridge` fairness of a request includes
the homeserver's `Send`: Synapse retries a transaction until it gets a 200. In
`Follows`, `HostedActors`, `Relays` and `Videos` it is weak fairness of there
being some step (per lane or of all tasks): operations are finite in number and
length, so that suffices for each to end. `BridgedRooms`, `Outbound` and `Stores`
promise nothing of progress; `Outbound!Heard` and its like speak of the states in
which nothing is left to do. Give-ups, crashes, faults, commands, room events and
deliveries from outside are never fair, and are bounded.

## 4. What the models leave out

*Everywhere.* Sending a Matrix event is atomic with its effect, except where a
request may be cut short (`Abort`, `CardRaises`: with or without effect). A
delivery to a remote inbox is one attempt whose outcome the code mostly does not
look at; the models say what was attempted. A transaction repeated beside its
running request is in `TxnIntake` and the modules over it, in `IdentityRegistry`,
`Relays` and `Videos`; `Follows`, `BridgedRooms` and `HostedActors` handle Matrix
events one after the other. `processed_matrix_events` forgets
entries after a retention time, which only `Stores` models.

*ReactionBridge.* The sender's acting identity is any of their identities, since
it depends on room and Active identity. Which followers get its Undo is decided by the
user's oldest identity, in the model as in the code (see 5). A repost
whose MSC4501 record came first is left out, and so is a `;repost` with a
caption, which becomes a post of its own.

*Outbound.* Three servers stand for the fediverse. Captioned reposts and quotes
by forwarding, answers to posts of sibling bridges, and the rooms of communities,
groups and guild channels are left out. Polls cannot be fetched (no route serves
them), and an edit that was never federated is nevertheless what the endpoints
serve: `Fetchable` is about ids. Inbound votes and the tallies of a user's own
poll are left out.

*IdentityRegistry* assumes a full profile is allowed, and sqlite (Postgres'
registrations roll back, so they do less). The profile sweep reads all its records
and then writes one after the other: it is as many tasks as it has records. The
quota is read together with the name; between `link profile`'s look at the
identity and its look at the room is a step. What two tasks at one name or room
make of it is not claimed: the name (`raced`) or room (`crossed`) is excused from
then on, and nothing else. One race can lead to another: a user whose active identity
went to somebody else in it acts as nobody, so that a shadow is minted, over an
identity they may still have (`Contested`).

*Follows* takes a remote account to send what concerns one local actor in order:
it sends nothing new while something is being handled, except that it repeats a
Follow it has no answer to, and that copies of a Follow arrive as long as it sent
nothing else. A user gives one command at a time; a leave event waits for the
command. What a failed delivery, a restart or a late Accept leaves behind is
marked (`upset`) and excused, as are the account whose two rooms were made at once
(`doubled`), the Follow that passed its check before a block (`overtaken`) and a
blocked community, which gets no Undo because it has no Remote User Room. A guild
is joined and left with its own commands only, a local profile answers no Follow
with an activity, and only the room of a remote account or of a profile is left
(`WantedAssumption`). Notifications, the backfill of a profile and account deletion are left out.

*BridgedRooms* looks at one slot at a time. Whether a recipient is silenced (no
room is made then), an Update that changes nothing and the debounce of resyncs
mean that an operation does not begin. Contents, names and memberships of the
rooms are left out. A task that registers a row it read before somebody else's
registration puts the older, perhaps replaced room back: `overtaken` marks such a
history, and `CurrentIsOpen` and `BackfilledOnce` excuse it, since nothing in the
code prevents it. Two joins handled at once, which takes a transaction sent again
while its join is between reading and clearing `pending_backfill`
(`membership.py:535`), would both start the backfill.

*HostedActors* leaves the limit on identities and the choice among them to
`IdentityRegistry`. Moderation beyond the moderators' list, descriptions of
channels one by one, and the fate of hosted actors whose owner is deleted (they
stay, their owner dangling) are left out; a group the *widget* deletes is not
taken up again after a restart, and `DeletionCompletes` does not claim it.

*Relays* has one room at a time. Edits and removals in shared rooms, votes,
moderators' lists and roles, invites and the administration of guilds are left
out. A post two activities were about at once, or whose handling a restart cut,
may be shown twice (`raced`, `cut`). A transaction the homeserver repeats while its
first request runs is in the model, with what it does to a message (`doubled`, see
5): two objects of one message, of which the upsert keeps one on record, so that
answers to the other are nobody's in the room (`Astray`).

*Videos* leaves out comments, view counts, thumbnails and the question about
encrypted files; of the metadata the name stands for all. A request to the homeserver that reads or
writes the room's state may fail (`Halt`), with or without its effect; a notice, which
comes last, is left out.

*Stores* checks sequences of calls, not calls that overlap: the dictionaries
change without an await, sqlite calls are serialised, and Postgres calls that
overlap are only those of two bridges on one database, or of `asyncpg`'s pool
(`record_guild_channels` is one statement per channel). Columns that are carried
along are one value. A call a caller never makes is not made: the guards say which
(a room registered for a second pair, an event recorded twice).

*Not modelled at all:* inbound Like and EmojiReact, Update of a mirrored post,
pins, inbound votes, `;move`, outage recovery, knocks, documents, signatures,
rendering, configuration and deployment. Of these, inbound likes and votes have
checks for redelivery of the kind `NoteMirror` models; outage recovery records an
outage as handled before its sweep (`outage_recovery.py:121`), so that a restart
leaves the rest unswept for the cooldown.

## 5. What the modelling found in the code

`video_file` runs into this one: `_handle_edit` builds the Update from the
video's original message, so that an `;edit` after `;replace video` gives every
follower the first file back (`commands.py:7775`), although `FEATURES.md:107`
says that `;edit` changes metadata "without touching the file".

The other runs pass because they excuse exactly these, each by a history
variable, a premise or an exception named in its property:

* A followed author's Create takes no lock on the post (`inbox_dispatch.py:1919`;
  imports do, `note_mirroring.py:2453`): beside an import of the same post it
  leaves two visible mirrors, one of them tracked (`MirroredOnce` speaks of one
  path).
* A Delete handled before its Create has recorded its event removes nothing
  (`inbox_dispatch.py:3655`), and the event stays.
* The Undo of a reaction is signed by the user's oldest identity, not by the one
  that reacted (`reaction_bridge.py:1145`), and a repost's goes to *that* identity's
  followers (`reaction_bridge.py:1193`), although the comment above says the
  reposter's own "have to" be reached, "or their timeline keeps showing a repost
  that's since been retracted": of a user with several identities, the followers
  of any other never get it (`UndoBeforeForget` claims whom it can reach).
* A restart between a reaction's claim and its delivery loses it
  (`reaction_bridge.py:971`, `lost`); a reaction redacted while it is being
  delivered gets its row back (`reaction_bridge.py:1091`).
* A Follow that passed the check for a block is recorded after the block removed
  the follower (`inbox_dispatch.py:200`, `overtaken`).
* Leaving a room undoes the follow of the user's oldest identity, whichever
  follows (`membership.py:867`; `FollowersAreIn` speaks of the oldest).
* `_handle_accept` does not ask whether a Follow is open
  (`inbox_dispatch.py:981`): a late Accept records it again, and the copy of an
  Accept of a guild join, whose pending row is gone, records the guild as
  followed, where `commands.py:2379` calls that path a no-op for guilds.
* `_handle_guild_accept` does not ask whether the guild was left since the join it
  answers (`inbox_dispatch.py:1007`): an Accept that comes after a `;leaveguild`
  makes the user a member again, of a guild that was told the Undo last
  (`LeftSince`, `upset`).
* The sweep of profiles writes back the record it read before it awaited Synapse
  (`third_party_sync.py:85`), also over a `create profile` or a deletion in
  between, and so do a widget's request beside a chat command and a repeated
  transaction: the name or room both were at may then have the older record, another
  owner or key, or serve two identities (`raced`, `crossed`).
* `replace dm` and `replace chat` make the new room and stop with a TypeError
  before they register it: the record they build lacks `local_username`
  (`commands.py:10489`, `10583`; `ReplaceRaises`).
* A profile Update records the ghost's profile without its mxid and handle
  (`inbox_dispatch.py:3383`), after which replacing its room and inviting it find
  it nameless and decline (`WipeProfile`).
* Confirming `link community` does not look whether the room became somebody
  else's since the warning (`commands.py:6728`; `link profile` does,
  `commands.py:8184`): two confirmations make one room a community and a group
  (`relinked`).
* The handler of a group's name writes the record back that it read
  (`group_bridge.py:641`), which brings a group back that the widget deleted
  meanwhile, the deletion's own renaming being such an event (`raced`).
* Two tasks that create the same handle for two users at once make it the second
  one's (`sqlite_repository.py:1072`). A power-level event of the first user whose
  Add is sent before that and whose record is not written before a restart finds
  nobody to add when it comes again: followers know a moderator the record lacks
  (`InStep` excuses moderators whose handle is `raced`).
* A sibling bridge's announcement sends a reply a second time, though
  `shared_encrypted_media.py:223` says "a post already sent isn't sent again":
  only posts and polls look for their row (`DuplicatesExplained`). A redaction then
  deletes the object of the last row only, and the other one stays with the
  followers (`DeletedAtFollowers`); the same holds of what a restart sends twice.
* A member's comment in a mirrored community is delivered before its row is
  written (`lemmy_bridge.py:1053`): a restart in between sends it again under
  another id. In a guild channel and a hosted room the row comes first
  (`channel_bridge.py:500`), and a restart loses the delivery.
* Nothing but the row says that a message of a shared room is being sent, and it is
  looked for before awaits and written after them (`lemmy_bridge.py:998`, `1045`,
  `1053`; `group_bridge.py:430`, `465`, `473`): a transaction repeated beside its
  running request delivers a second Create under another id. Where the row comes first it
  does so too, when the second request looks before the first one writes. The
  second row takes the first one's place (`sqlite_repository.py:1966`), so that answers
  to the first object find nothing, and may be in a thread that was not there
  for the first, which makes a thread inside a thread (`doubled`).
* `get_video_index` reads an error as an empty index (`peertube.py:201`), so that
  the next publication forgets the others (`blurred`).
* The writes of a video's index and metadata are not guarded, and come after its row
  was recorded or deleted (`commands.py:7593`, `7598`, `7600`; `7722`, `7724`;
  `peertube.py:211`, `218`): one that is refused or not answered ends the command
  and leaves a published video the channel does not list, and which cannot be
  published again, or an index entry of a video that is gone (`halted`). An edit
  that fails there is in the room and not at the followers (`excused`).
* A ";publish" interrupted between recording the row and sending the Create
  leaves a video its owner's followers are never told of, which cannot be
  published again (`excused`).
* `repository.py:1190` says that nothing should pass `is_primary=False` any more;
  the echo of a reply in its author's own room does (`inbox_dispatch.py:2551`).
* Only the tables drop an unregistered identity's followers and following, as
  `repository.py:677` says of all stores; the dictionaries keep them.

## 6. The proofs

`tlapm` checks every step. The theorems hold for any number of tasks, users,
keys, names and rooms.

`NoteMirror_proofs`, its first part about `ActivityLock`, from `TasksFinite`, the disjointness of key kinds and of
the distinguished values. The invariant `LockInv` strengthens mutual exclusion by
what keeps the dictionary and the callers together: whoever uses a key holds the
object its entry names (`OneObjectPerKey`), counts are exact (`SelfCleaning`),
keys do not share an object (`DistinctObjects`), whoever is inside holds the
object locked (`InsideHolds`), and only a free object with a queue has woken
somebody (`WokenIsFree`, `NoLostWakeup`). Without exact counts, `Exit` could drop
an entry somebody is about to use. One lemma per action; `LockInvariant`,
`LockMutualExclusion`, `LockTableExact`, `LockWakesWaiters` follow, and
`LockRefinesMutex` maps each step to one of `KeyedMutex` (`HolderIs`: the
refinement mapping's CHOOSE is the only task inside).

`IdentityRegistry_proofs`, from the constants' assumptions alone: any number of
tasks run any commands beside each other, as chat, widget, sweep and repeated
transactions do. Whatever two of them are at together is noted (`MeetingsNoted`:
two jobs share no name outside `raced` and no room outside `crossed`), and that
is what lets `RegistryInv` say that what a task has read still stands when it
writes (`JobsSound`: `InStep`, `RecordFresh`, and `RoomFresh` for a room about to be
linked): a step of one task changes only the name and room it has in hand, and no
other has them. On that stand the tables: a row of `active_identity` names an
identity of its user and several identities have a row (`ActiveOwned`,
`ActiveExplicit`: together, somebody always acts), unless a race was about that
very identity. Lemmas about `Register` and `Unregister` (identities, active row,
rooms, history) carry the steps. Theorems: `RegistryInvariant`, `SomebodyActs`
(but for a `Contested` user), `RoomsApart` (outside `raced` and `crossed`),
`HistoryStaysSound` (whatever raced), and the action properties `KeysStay`,
`RoomsStay`, `ActiveStays`. That one race can lead to another (see 4) is why
`Meeting` notes a shadow's names also when its user is `Contested`.

`NoteMirror_proofs`, its second part, for any deliveries, activities, refused or unanswered
requests and restarts. `MirrorInv` says that a visible event is tracked, about to
be, or one of those known to slip through. It becomes inductive with what each
task relies on (`Sound`): the locks it is in, what it has read, and that nobody
else records what it sends; besides, that rows are of their own object and that
clashes happen only to posts that come in on two paths (`RowsOwn`,
`ClashesCross`). A step of one delivery is split in two: what the others may rely
on whatever it does (`Frame`) and what it has to see to itself (`Due`), so that
each action needs one lemma and not one per pair of tasks. Theorems:
`MirrorsAccounted`, `OneMirrorPerPost`, `DeletedStaysDeleted`. The proof asked for
a premise TLC's scenarios had not needed: two *different* Create activities of one
post lock different ids, so that "one path" (`SinglePath`) has to exclude them.

`ReactionBridge_proofs`, which holds the intake's theorem too, from
`IntakeAssumption` and `IdentitiesAssumption`. The invariant has three layers:
where the requests are in the stream (`ProcsSound`), the tables (`RowsUnique`;
`Numbered`: a reaction's activities are numbered in the order of their claims, so
that a second one presupposes a withdrawal of the first), and what the handler of
each request relies on (`Holds`: the reaction it claimed, the Undo that was asked
for, the inboxes still owed one). `Reachable` is whom an Undo can get to: the author,
and of a repost the followers of the reactor's oldest identity if that one
reposted. Without `Numbered` and the handler's part, a row
that was removed could be claimed again without anybody having asked. Theorems:
`OneReaction`, `UndoneByReactor`, and the action property `ForgottenAfterUndo`.

`Outbound_proofs`, from `IntakeAssumption` and `OutboundAssumption`, over the intake
once more. The invariant says what one request's handler relies on (`Holds`, with
`Sending` while it delivers and `TakenUp` when an answer or an announcement made it
go on with an older event), that two requests at one event are known
(`TwiceSound`), and, of every object, that it was made by a request at its event
or after it (`MadeInTurn`), has its row or a request about to write it
(`GetsRow`), and that whoever it is for was sent it or is still to be (`GetsSent`). An event that
may go out and was taken up has an object or a handler that will make one
(`GetsMade`); a redaction that was handled has taken its post back (`TakenBack`).
Events are marked in order, so that when a redaction is handled nobody is at its
post any more unless two requests were (`Settled`): without that a slow delivery
would show again what the redaction had removed. Each way a handler goes on is one lemma
(`Onward`, `Ending`, `MakesInv`, `TakesUpInv`, `MovesInv`) and each action a use of
one. Theorems: `SecondsExplained`, `FilesConfirmed`, `OutboundSound`,
`RedactedIsGone`, `StatementsHeard`. The attempt to prove `RedactedIsGone` showed
two cases the run had not met: a vote, which has no row and so cannot be taken
back, and a reply a sibling's announcement sent again, of which only the last
object is on record (see 5); the property now says so.

`Follows_proofs`, from `PeopleAssumption`, `KindsApartAssumption`, `BoundsAssumption`
and `WantedAssumption` (see 4), in two parts. The first is
about the followers a local actor has elsewhere. The invariant says where the
handler of each kind may be (`PlacesSound`), that a copy comes while its original is
the last thing its sender sent and waits for the other copies (`CopiesSound`), that a
Follow and what ends it are never handled together (`TurnsSound`), and on that
stand what the account takes its follow for (`ViewSound`), the block (`BlockSound`:
a blocked account's row is about to go, and nobody is about to add it) and the
announcement (`AnnouncedSound`: a Follow that was announced is a follower's until
something ends it, so its copies find the row). A step is a Follow's, one that may
only take rows away, or none of a follower's business (`Aside`: commands, guilds,
answers), and each kind has one lemma. Theorems: `BlockedStaysOut`,
`FollowersAreAgreed` and `FollowsAreAnnouncedOnce`. The proof showed that the agreement needs no
exception for a Follow that overtook a block: it is answered, and so known to both sides.

The second part is about what the commands do, and completes `FollowsInv`. Its
invariant, `Agreement`, stands on the first one. Of the handlers it says where each
may be (`StationsSound`) and that one user's commands are handled one at a time
but for leave events that wait (`OneAtATime`: without it a follow and an
unfollow of the same account could write in each other's gap); of rooms and joins, what `place`
names (`PlaceSound`) and that whoever sends a Follow is in the room it needs
(`RoomSound`). On that stand the agreements, each exact where nothing is under way
and saying otherwise who is about to restore it: the two sides of a local
follow (`SidesSound`, `Halfway`), the row and what the other server was last told
(`ToldSound`, `Recording`, `Undoing`), the row and the room (`InSound`: who is out of it
has a leave event waiting), a join and its answer (`PendingSound`), and a
membership and the Accept it is due to (`MembersSound`, `Past`, `Counts`). What
each action writes is stated once (`Effects`, `Stays`, `Leads`) and used in all of
them; beginnings and copies are one lemma (`Comes`). Theorems:
`FollowingIsAgreed`, `LocalSidesAreAgreed`, `FollowersAreInRooms`,
`MembersAreAgreed` and `FollowsAreSound`, which is all of `FollowsInv`. The attempt
to prove `MembersAgree` failed for a reason the bound of four operations had hidden: join,
leave, join again, and then the first join's Accept makes a member whose second join
is unanswered. TLC found it with six; the model now marks every Accept handled
after a leave, whatever the guild was told last, as too late (see 5).

`Rooms_proofs`, its first part about `BridgedRooms`, from `RoomsAssumption`. `Sound` says what a lane at a given
place has read and made, `Apart` that two lanes never make the same room,
`TablesSound` that only known rooms have moved and only a pending or missing row
has had no backfill. `TombstonesLead` says "never in a circle" without
paths: no set of rooms leads only into itself (`Ends`), which a replacement keeps
because the room it makes leads nowhere yet. Theorems: `HistoryAgrees`, `TombstonesLeadOn`,
`OneBackfill`.

Its second part is about `HostedActors`, from `HostedAssumption` (a user is a
handle, the profiles there are at first have a room each, a room is not a handle)
and `NothingAssumption`. "No handle and no room is two actors'" is not inductive:
between the "already taken" lookup and the write come a warning, a room, a join and
an adoption. `SeatInv` says what a task may rely on meanwhile. `Station`: where a command or an
event may be, and what it holds there; a task for a state event is on the first
one. `Keep`: unless both hands were at the handle, it is no other kind's, and what the task
read of its seat still stands. `House`: the room is served by nobody but the task's own
actor, a room made for it by nobody yet. `HandsSound` makes "both hands" exact: a
handle or room chat and widget hold at once is in `raced` from then on. Each action keeps
the task's own promises and, since it writes a handle it has in hand, the other
task's. Theorems: `HandlesAndRoomsApart` (all of `HostedInv`) and the action property
`SeatsAreKept`. `StepInv` adds what ties records to rooms over the queue of state
events: the last event about a room's text says its text (`LastTexts`), a record says
it or an event is due that does (`TextsSound`), and so does the copy a command is
about to write (`CopiesSound`), which is why a command may write back what it
read before an await; followers and record differ about a moderator only while the
event that explains it is the first (`ModsSound`, `PowerAhead`), and the handler
of an event has changed nothing but what that event says (`Holds`). A restart keeps all
of it because an event leaves the queue only after its record is written. Theorem:
`ActorsAreInStep` (`InStep`). Two attempts failed for good reasons: a moderator whose
own handle two tasks were at may be told of otherwise, which `InStep` now excuses
(see 5), and two first profiles in one room would break `RoomForOne` at once.

`Relays_proofs`, from `RelaysAssumption` and `UnsaidAssumption`. The invariant says
that only the first message of the queue is being sent (`QueueSound`), that two
requests at one message make it `doubled` (`LanesApart`), what the rows are of
(`Shaped`, `OwnShape`: the row of a message one request sent is of its last attempt; a
post's event is a copy that was shown), that a thread's root is a head (`Rooted`),
what each request and every task rely on (`LaneSound`, `TaskSound`), that two tasks
about one post have raced (`TasksApart`), and who has still to be told of what
(`Settled`). Rows only go when a doubled message's is replaced (`RowsGo`,
`RowsLost`), which is why what is `Hearable` may be `Astray` and why `ThreadsFlat`
excuses the doubled. `ArrivedSound` orders the attempts that reached the
room's actor: an earlier one was cut. `Counted` ties the copies sent and still to
be sent to the number of arrivals, which is what bounds `shown`. Steps of the
requests leave tasks alone and the reverse (`LaneFrame`, `TaskFrame`; `TasksKept`,
`LanesKept`). Theorems: `SharedRoomsSound`,
`PostsShownOnce`, `NobodyToldTwice`, `FollowersHearTheRoom`.

`StoresVideos_proofs`, its first part about `Videos`, from `VideosAssumption` and
`NoneAssumption`. Where no two different
commands were at a message, the runs there are of one command (`Together`), of a
`;publish` only one, and what each read still holds (`Kept`). On that stand the row
of what was sent out, what the index and the metadata may still lack (`IndexSound`:
a job that is about to write it, unless one ended there), and the followers (`FollowersSound`: where no
activity is under way the follower has the video, and where one is, its arrival
will settle what they have). What the index becomes when it is written, by a command that
goes on or by one that ends there, is one lemma (`IndexWritten`), and what a `Halt`
leaves alone another (`HaltFacts`). Theorems: `SentVideosAreOnRecord`,
`ChannelListsItsVideos`, `FollowersHaveTheVideos`.

`StoresVideos_proofs`, its second part about `Stores`, from `TablesAssumption`,
`StoresAssumption` and `NilAssumption` (None is no value of any column). That the
three stores answer alike is not inductive: two stores may agree on every answer
today and differ in a row that the next call brings out. The invariant
`OneContent` says what each holds, family by family: the sqlite tables are the
dictionaries, each Postgres table is the set of their rows under one key
(`Values` of `ActorRows`, `RoomRows`, `TwoRows`, ...), and the dictionaries that
only Python keeps (by room, by owner, by event) are the inverses of the others
(`AtRooms`, `Owners`, `ReactionTables`). With it go the facts that make rules
written differently agree: who has an identity has chosen one (`Chosen`), so a
fallback one store has and the others lack is never reached; no two identities
were registered at one time (`Identities`), so the oldest is one whether it is
found by insertion order, by ORDER BY or by a minimum; a key's history has one
current row, its room (`HistorySound`), which is what the partial UNIQUE index would
refuse otherwise. Lemmas about the stores' operators come first: what an upsert,
an insert that ignores a conflict, an update and a delete do to the rows of a
dictionary (`UpsertRows`, `Updated`, `Deleted`), then one lemma for each call and one for
the answers of each family. The premises are the guards of the actions, which are
what the callers ensure: a refused call changes nothing, an identity keeps its
user, a room the one it was made for. Theorems: `StoresHoldOneContent`, `StoresAnswerAlike`
(`SameAnswers`), `HistoryFollowsRooms` (`HistoryFollows`). What the test suite
shows of the dictionaries thereby holds of the tables a deployment runs on, in
what the model has of them.

Every inductive invariant was checked by TLC on the instance of its run before it
was proved. With these, each invariant and each action property of the passing
runs is a theorem.

Only model-checked: all liveness (out of the prover's reach, as is ENABLED), and
`FileStays`, which the code breaks.
The theorems speak of the models: what section 4 leaves out, they leave out.

## 7. The plan

Done: locks, note mirroring, identities, transactions with reactions and with
everything users say, follows and guilds, rooms, hosted actors, shared rooms,
videos, the three stores.

Left, in order of use:

1. `NoteMirror`: inbound Like/EmojiReact with its Undo, Update of a mirrored post,
   inbound votes, as further kinds of activity.
2. Edits and removals in shared rooms, moderation of hosted communities.
3. `OutageRecovery` (one sweep per cooldown, and what a restart leaves of it), the
   MSC4501 pairing of reposts, knocks.
4. Proofs about what these add; the proofs of what is modelled are complete.

Running it: `tlc -workers 2 -config MCReactionBridge.cfg MCReactionBridge`, and
likewise for the others; `tlapm IdentityRegistry_proofs.tla`.
