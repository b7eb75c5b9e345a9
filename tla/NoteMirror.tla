------------------------------ MODULE NoteMirror ------------------------------
(***************************************************************************)
(* How inbound ActivityPub activities become Matrix events:                *)
(* bridge.activitypub.routes acknowledges a delivery with 202 and handles  *)
(* it in a task of its own, bridge.inbox_dispatch runs the handler under   *)
(* the lock of the activity's id, bridge.note_mirroring sends the events   *)
(* and the federated_events table of the repository remembers which event  *)
(* mirrors which ActivityPub object.                                       *)
(*                                                                         *)
(* Modelled: Create of a post by a followed author (_handle_create's main  *)
(* path), Announce of a post (_handle_announce_locked and import_note,     *)
(* ensure_remote_actor_room), Delete of a post and Undo of an Announce.    *)
(* A task's steps are the stretches of its handler between two awaits that *)
(* matter: a lock, a table access, a request to Synapse.                   *)
(*                                                                         *)
(* Synapse may refuse a request (SynapseError, which the handlers catch),  *)
(* or not answer (an httpx exception, which they do not: the handler ends, *)
(* whether or not the request had its effect).  The process may die: its   *)
(* tasks and locks are gone, the table and the rooms stay, and nobody      *)
(* delivers again what was acknowledged, except by sending a copy anyway.  *)
(***************************************************************************)
EXTENDS Naturals, FiniteSets

CONSTANTS
    Activities,     \* ids of inbound activities
    Notes,          \* ids of posts
    Actors,         \* remote accounts
    Deliveries,     \* bound: the deliveries that arrive, each a task
    Arrivals,       \* delivery -> activity: what may arrive, copies included
    Kind,           \* activity -> "Create", "Announce", "Delete" or "Undo"
    NoteOf,         \* activity -> the post it is about (of the undone Announce)
    ActorOf,        \* activity -> its sender
    AuthorOf,       \* post -> its author
    AnnounceOf,     \* Undo -> the Announce it undoes
    Followed,       \* actors whose Remote User Room exists from the start
    MaxFaults,      \* bound: Synapse requests that fail and crashes, together
    NoTask, NoEvent

Ids == Activities \cup Notes                \* what federated_events is keyed by
Events == [ap : Ids, by : Deliveries]       \* Matrix events the tasks send

ASSUME ActivitiesAssumption ==
    /\ Activities \cap Notes = {}
    /\ Kind \in [Activities -> {"Create", "Announce", "Delete", "Undo"}]
    /\ NoteOf \in [Activities -> Notes]
    /\ ActorOf \in [Activities -> Actors]
    /\ AuthorOf \in [Notes -> Actors]
    /\ \A a \in Activities :
         /\ Kind[a] = "Create" => ActorOf[a] = AuthorOf[NoteOf[a]]
         /\ Kind[a] = "Undo" => /\ AnnounceOf[a] \in Activities
                                /\ Kind[AnnounceOf[a]] = "Announce"
                                /\ NoteOf[a] = NoteOf[AnnounceOf[a]]
ASSUME DistinguishedAssumption ==
    /\ NoTask \notin Deliveries
    /\ NoEvent \notin Events
ASSUME FaultsAssumption == MaxFaults \in Nat
ASSUME ArrivalsAssumption == Arrivals \subseteq [Deliveries -> Activities]

VARIABLES
    act,        \* the activity each delivery carries, the same throughout
    pc,         \* where each delivery's task is
    target,     \* Announce: reposted_target; Undo: the repost card looked up
    import,     \* what import_note returned, or is about to
    room,       \* the room the task resolved, as its number in `rooms'
    holder,     \* activity_lock: key -> task inside
    row,        \* federated_events: ActivityPub id -> primary event
    live,       \* events that are visible in Matrix
    repost,     \* repost[e]: the event the card e points to
    reactions,  \* <<event, actor>>: the reposter's reaction on the event
    mapped,     \* remote_actor_rooms: actor -> room number, 0 when absent
    rooms,      \* how many rooms have been created for each actor
    lost,       \* events sent by a task that ended before recording them
    clashed,    \* events whose Create found its post recorded by another task
    faults      \* Synapse requests that failed, and crashes

tables == <<row, mapped>>
matrix == <<live, repost, reactions, rooms>>
history == <<lost, clashed, faults>>
locals == <<act, target, import, room>>
vars == <<pc, locals, holder, tables, matrix, history>>

Lock == INSTANCE KeyedMutex WITH Tasks <- Deliveries, Keys <- Ids

PCs == {"none", "accepted", "create", "createSend", "createRecord",
        "announce", "react", "repostRoom", "importLock", "import", "makeRoom",
        "mapRoom", "importSend", "importRecord", "dropDuplicate", "imported",
        "reactLate", "card", "cardRecord", "delete", "undo", "unreact",
        "undoCard", "finish", "over"}

TypeOK ==
    /\ act \in [Deliveries -> Activities]
    /\ pc \in [Deliveries -> PCs]
    /\ target \in [Deliveries -> Events \cup {NoEvent}]
    /\ import \in [Deliveries -> Events \cup {NoEvent}]
    /\ room \in [Deliveries -> Nat]
    /\ Lock!TypeOK
    /\ row \in [Ids -> Events \cup {NoEvent}]
    /\ live \subseteq Events
    /\ repost \in [Deliveries -> Events \cup {NoEvent}]
    /\ reactions \subseteq Events \X Actors
    /\ mapped \in [Actors -> Nat]
    /\ rooms \in [Actors -> Nat]
    /\ lost \subseteq Events
    /\ clashed \subseteq Events
    /\ faults \in 0..MaxFaults

Init ==
    /\ act \in Arrivals
    /\ pc = [d \in Deliveries |-> "none"]
    /\ target = [d \in Deliveries |-> NoEvent]
    /\ import = [d \in Deliveries |-> NoEvent]
    /\ room = [d \in Deliveries |-> 0]
    /\ Lock!Init
    /\ row = [x \in Ids |-> NoEvent]
    /\ live = {}
    /\ repost = [d \in Deliveries |-> NoEvent]
    /\ reactions = {}
    /\ mapped = [a \in Actors |-> IF a \in Followed THEN 1 ELSE 0]
    /\ rooms = mapped
    /\ lost = {}
    /\ clashed = {}
    /\ faults = 0
-------------------------------------------------------------------------------
Act(d) == act[d]
Note(d) == NoteOf[Act(d)]
NoteEvent(d) == [ap |-> Note(d), by |-> d]      \* the mirror d sends
CardEvent(d) == [ap |-> Act(d), by |-> d]       \* the repost card d sends

At(d, p) == pc[d] = p
Go(d, p) == pc' = [pc EXCEPT ![d] = p]

\* A request to Synapse that raises SynapseError.
Refused == faults < MaxFaults /\ faults' = faults + 1
Answered == UNCHANGED faults
-------------------------------------------------------------------------------
\* Variants a careless edit of the handlers could produce.  They take no part
\* in Next: substituted for the definition they are named after, each breaks a
\* property below.

\* import_note without its lock.
ImportLockSkipped(d) ==
    /\ At(d, "importLock")
    /\ Go(d, "import")
    /\ UNCHANGED <<locals, holder, tables, matrix, history>>

\* The mirror is sent and not recorded.
ImportSendUnrecorded(d) ==
    /\ At(d, "importSend")
    /\ live' = live \cup {NoteEvent(d)}
    /\ Go(d, "imported")
    /\ Answered
    /\ UNCHANGED <<locals, holder, tables, repost, reactions, rooms,
                   lost, clashed>>

\* Anybody's Delete or Undo is obeyed.
RedactForAnyone(d, x) ==
    /\ live' = live \ {row[x]}
    /\ Answered

\* A tracked post is imported again when its event is gone.
ImportCheckReimports(d) ==
    /\ At(d, "import")
    /\ import' = [import EXCEPT ![d] = row[Note(d)]]
    /\ room' = [room EXCEPT ![d] = mapped[AuthorOf[Note(d)]]]
    /\ Go(d, IF row[Note(d)] \in live THEN "imported"
             ELSE IF mapped[AuthorOf[Note(d)]] = 0 THEN "makeRoom"
             ELSE "importSend")
    /\ UNCHANGED <<act, target, holder, tables, matrix, history>>

-------------------------------------------------------------------------------
\* post_inbox: the delivery is acknowledged and its task created.
Accept(d) ==
    /\ At(d, "none")
    /\ Go(d, "accepted")
    /\ UNCHANGED <<locals, holder, tables, matrix, history>>

\* handle_activity: the handler starts under the lock of the activity's id.
Start(d) ==
    /\ At(d, "accepted")
    /\ Lock!Acquire(d, Act(d))
    /\ Go(d, CASE Kind[Act(d)] = "Create" -> "create"
               [] Kind[Act(d)] = "Announce" -> "announce"
               [] Kind[Act(d)] = "Delete" -> "delete"
               [] Kind[Act(d)] = "Undo" -> "undo")
    /\ UNCHANGED <<locals, tables, matrix, history>>

\* The handler has returned or raised: handle_activity leaves its lock.
Finish(d) ==
    /\ At(d, "finish")
    /\ Lock!Release(d, Act(d))
    /\ Go(d, "over")
    /\ target' = [target EXCEPT ![d] = NoEvent]
    /\ import' = [import EXCEPT ![d] = NoEvent]
    /\ room' = [room EXCEPT ![d] = 0]
    /\ UNCHANGED <<act, tables, matrix, history>>

-------------------------------------------------------------------------------
\* _handle_create, a post by a followed author: drop it when nobody's follow
\* made a room for the author, or when it is mirrored already.
CreateCheck(d) ==
    /\ At(d, "create")
    /\ room' = [room EXCEPT ![d] = mapped[ActorOf[Act(d)]]]
    /\ Go(d, IF mapped[ActorOf[Act(d)]] # 0 /\ row[Note(d)] = NoEvent
             THEN "createSend" ELSE "finish")
    /\ UNCHANGED <<act, target, import, holder, tables, matrix, history>>

CreateSend(d) ==
    /\ At(d, "createSend")
    /\ \/ /\ live' = live \cup {NoteEvent(d)}
          /\ Go(d, "createRecord")
          /\ Answered
       \/ /\ Refused
          /\ Go(d, "finish")
          /\ UNCHANGED live
    /\ UNCHANGED <<locals, holder, tables, repost, reactions, rooms,
                   lost, clashed>>

\* record_federated_event outside any try: when the post has a primary row
\* by now, the unique index makes it raise and the event stays, untracked.
CreateRecord(d) ==
    /\ At(d, "createRecord")
    /\ Go(d, "finish")
    /\ IF row[Note(d)] = NoEvent
       THEN row' = [row EXCEPT ![Note(d)] = NoteEvent(d)] /\ UNCHANGED clashed
       ELSE clashed' = clashed \cup {NoteEvent(d)} /\ UNCHANGED row
    /\ UNCHANGED <<locals, holder, mapped, matrix, lost, faults>>

-------------------------------------------------------------------------------
\* _handle_announce_locked: return when this Announce has a card already; look
\* up the post it announces.  (The lookups of the three maybe_handle_... calls
\* in between change nothing, and row[Act(d)] is only written under d's lock.)
AnnounceCheck(d) ==
    /\ At(d, "announce")
    /\ target' = [target EXCEPT ![d] = row[Note(d)]]
    /\ Go(d, IF row[Act(d)] # NoEvent THEN "finish"
             ELSE IF row[Note(d)] # NoEvent THEN "react" ELSE "repostRoom")
    /\ UNCHANGED <<act, import, room, holder, tables, matrix, history>>

\* _react_repost: Synapse keeps one reaction per sender, event and key.
React(d, e) ==
    \/ reactions' = reactions \cup {<<e, ActorOf[Act(d)]>>} /\ Answered
    \/ Refused /\ UNCHANGED reactions

AnnounceReact(d) ==
    /\ At(d, "react")
    /\ React(d, target[d])
    /\ Go(d, "repostRoom")
    /\ UNCHANGED <<locals, holder, tables, live, repost, rooms,
                   lost, clashed>>

\* Only a reposter with a Remote User Room gets a card.
RepostRoom(d) ==
    /\ At(d, "repostRoom")
    /\ Go(d, IF mapped[ActorOf[Act(d)]] = 0 THEN "finish" ELSE "importLock")
    /\ UNCHANGED <<locals, holder, tables, matrix, history>>

\* import_note: the lock of the post's id, inside that of the activity's.
ImportLock(d) ==
    /\ At(d, "importLock")
    /\ Lock!Acquire(d, Note(d))
    /\ Go(d, "import")
    /\ UNCHANGED <<locals, tables, matrix, history>>

\* _import_note_locked: reuse what is tracked; else find the author's room.
ImportCheck(d) ==
    /\ At(d, "import")
    /\ import' = [import EXCEPT ![d] = row[Note(d)]]
    /\ room' = [room EXCEPT ![d] = mapped[AuthorOf[Note(d)]]]
    /\ Go(d, IF row[Note(d)] # NoEvent THEN "imported"
             ELSE IF mapped[AuthorOf[Note(d)]] = 0 THEN "makeRoom"
             ELSE "importSend")
    /\ UNCHANGED <<act, target, holder, tables, matrix, history>>

\* ensure_remote_actor_room, nobody's lock held for the author: create a room,
\* then map the author to it, whatever has been mapped meanwhile.  A refused
\* create_room is not caught here nor in the Announce handler.
MakeRoom(d) ==
    /\ At(d, "makeRoom")
    /\ LET a == AuthorOf[Note(d)] IN
       \/ /\ rooms' = [rooms EXCEPT ![a] = @ + 1]
          /\ room' = [room EXCEPT ![d] = rooms[a] + 1]
          /\ Go(d, "mapRoom")
          /\ Answered
          /\ UNCHANGED holder
       \/ /\ Refused
          /\ Lock!Release(d, Note(d))
          /\ Go(d, "finish")
          /\ UNCHANGED <<rooms, room>>
    /\ UNCHANGED <<act, target, import, tables, live, repost, reactions,
                   lost, clashed>>

MapRoom(d) ==
    /\ At(d, "mapRoom")
    /\ mapped' = [mapped EXCEPT ![AuthorOf[Note(d)]] = room[d]]
    /\ Go(d, "importSend")
    /\ UNCHANGED <<locals, holder, row, matrix, history>>

ImportSend(d) ==
    /\ At(d, "importSend")
    /\ \/ /\ live' = live \cup {NoteEvent(d)}
          /\ Go(d, "importRecord")
          /\ Answered
       \/ /\ Refused
          /\ Go(d, "imported")
          /\ UNCHANGED live
    /\ UNCHANGED <<locals, holder, tables, repost, reactions, rooms,
                   lost, clashed>>

\* record_federated_event inside a try: the loser of a race takes the winner,
\* and after any other failure the event is left unrecorded.
ImportRecord(d) ==
    /\ At(d, "importRecord")
    /\ \/ /\ row[Note(d)] = NoEvent
          /\ row' = [row EXCEPT ![Note(d)] = NoteEvent(d)]
          /\ import' = [import EXCEPT ![d] = NoteEvent(d)]
          /\ Go(d, "imported")
          /\ UNCHANGED <<lost, faults>>
       \/ /\ row[Note(d)] # NoEvent
          /\ import' = [import EXCEPT ![d] = row[Note(d)]]
          /\ Go(d, "dropDuplicate")
          /\ UNCHANGED <<row, lost, faults>>
       \/ /\ row[Note(d)] = NoEvent
          /\ Refused
          /\ import' = [import EXCEPT ![d] = NoteEvent(d)]
          /\ lost' = lost \cup {NoteEvent(d)}
          /\ Go(d, "imported")
          /\ UNCHANGED row
    /\ UNCHANGED <<act, target, room, holder, mapped, matrix, clashed>>

\* ... and redacts its own event; "could not redact the duplicate" is logged.
DropDuplicate(d) ==
    /\ At(d, "dropDuplicate")
    /\ Go(d, "imported")
    /\ \/ live' = live \ {NoteEvent(d)} /\ Answered /\ UNCHANGED lost
       \/ Refused /\ lost' = lost \cup {NoteEvent(d)} /\ UNCHANGED live
    /\ UNCHANGED <<locals, holder, tables, repost, reactions, rooms,
                   clashed>>

\* Back in _handle_announce_locked, the post's lock released: the reaction is
\* due now when the post was not tracked at the top.
Imported(d) ==
    /\ At(d, "imported")
    /\ Lock!Release(d, Note(d))
    /\ Go(d, IF import[d] # NoEvent /\ target[d] = NoEvent
             THEN "reactLate" ELSE "card")
    /\ UNCHANGED <<locals, tables, matrix, history>>

ReactLate(d) ==
    /\ At(d, "reactLate")
    /\ React(d, import[d])
    /\ Go(d, "card")
    /\ UNCHANGED <<locals, holder, tables, live, repost, rooms,
                   lost, clashed>>

\* The card in the reposter's room links to what import_note returned.
SendCard(d) ==
    /\ At(d, "card")
    /\ \/ /\ live' = live \cup {CardEvent(d)}
          /\ repost' = [repost EXCEPT ![d] = import[d]]
          /\ Go(d, "cardRecord")
          /\ Answered
       \/ /\ Refused
          /\ Go(d, "finish")
          /\ UNCHANGED <<live, repost>>
    /\ UNCHANGED <<locals, holder, tables, reactions, rooms,
                   lost, clashed>>

CardRecord(d) ==
    /\ At(d, "cardRecord")
    /\ row' = [row EXCEPT ![Act(d)] = CardEvent(d)]
    /\ Go(d, "finish")
    /\ UNCHANGED <<locals, holder, mapped, matrix, history>>

-------------------------------------------------------------------------------
\* _redact_for_ap_object(x): look the id up, refuse anybody but the author of
\* the row, redact its event.  The row stays: it is what keeps a copy of the
\* activity from mirroring x again.  A row is written once, so looking it up
\* and redacting what it names are one step.
RowAuthor(x) == IF x \in Notes THEN AuthorOf[x] ELSE ActorOf[x]

Redact(d, x) ==
    \/ /\ row[x] # NoEvent
       /\ RowAuthor(x) = ActorOf[Act(d)]
       /\ live' = live \ {row[x]}
       /\ Answered
    \/ /\ row[x] = NoEvent \/ RowAuthor(x) # ActorOf[Act(d)]
       /\ UNCHANGED live
       /\ Answered
    \/ Refused /\ UNCHANGED live

\* _handle_delete
Delete(d) ==
    /\ At(d, "delete")
    /\ Redact(d, Note(d))
    /\ Go(d, "finish")
    /\ UNCHANGED <<locals, holder, tables, repost, reactions, rooms,
                   lost, clashed>>

\* _handle_undo of an Announce: look up its card.  Without one the announced
\* post is only known if the sender embedded the Announce in the Undo.
UndoCheck(d) ==
    /\ At(d, "undo")
    /\ target' = [target EXCEPT ![d] = row[AnnounceOf[Act(d)]]]
    /\ \/ Go(d, "unreact")
       \/ row[AnnounceOf[Act(d)]] = NoEvent /\ Go(d, "finish")
    /\ UNCHANGED <<act, import, room, holder, tables, matrix, history>>

\* _undo_repost_reaction: redact the sender's reaction on the post's mirror.
Unreact(d) ==
    /\ At(d, "unreact")
    /\ \/ reactions' = reactions \ {<<row[Note(d)], ActorOf[Act(d)]>>} /\ Answered
       \/ Refused /\ UNCHANGED reactions
    /\ Go(d, IF target[d] # NoEvent THEN "undoCard" ELSE "finish")
    /\ UNCHANGED <<locals, holder, tables, live, repost, rooms,
                   lost, clashed>>

UndoCard(d) ==
    /\ At(d, "undoCard")
    /\ Redact(d, AnnounceOf[Act(d)])
    /\ Go(d, "finish")
    /\ UNCHANGED <<locals, holder, tables, repost, reactions, rooms,
                   lost, clashed>>

-------------------------------------------------------------------------------
\* Events d has sent and neither recorded nor given up.
Unsettled(d) ==
    CASE pc[d] \in {"createRecord", "importRecord", "dropDuplicate"} -> {NoteEvent(d)}
      [] pc[d] = "cardRecord" -> {CardEvent(d)}
      [] OTHER -> {}

\* The event a request of d that got no answer may nevertheless have sent.
InFlight(d) ==
    CASE pc[d] \in {"createSend", "importSend"} -> {NoteEvent(d)}
      [] pc[d] = "card" -> {CardEvent(d)}
      [] OTHER -> {}

CallsSynapse == {"createSend", "react", "makeRoom", "importSend", "dropDuplicate",
                 "reactLate", "card", "delete", "unreact", "undoCard"}

\* Synapse does not answer: the httpx exception ends the handler, which leaves
\* the post's lock, if it is inside, and then the activity's.
Abort(d) ==
    /\ pc[d] \in CallsSynapse
    /\ Refused
    /\ holder' = IF holder[Note(d)] = d THEN [holder EXCEPT ![Note(d)] = NoTask]
                                        ELSE holder
    /\ \E landed \in {{}, InFlight(d)} :
         /\ live' = live \cup landed
         /\ lost' = lost \cup landed \cup Unsettled(d)
    /\ Go(d, "finish")
    /\ UNCHANGED <<locals, tables, repost, reactions, rooms, clashed>>

\* The process dies, and comes back without a memory of its tasks.
Crash ==
    /\ Refused
    /\ lost' = lost \cup UNION {Unsettled(d) : d \in Deliveries}
    /\ pc' = [d \in Deliveries |-> IF pc[d] = "none" THEN "none" ELSE "over"]
    /\ Lock!ReleaseAll
    /\ target' = [d \in Deliveries |-> NoEvent]
    /\ import' = [d \in Deliveries |-> NoEvent]
    /\ room' = [d \in Deliveries |-> 0]
    /\ UNCHANGED <<act, tables, matrix, clashed>>

-------------------------------------------------------------------------------
\* What a task does by itself, apart from waiting for a lock.
Step(d) ==
    \/ Finish(d)
    \/ CreateCheck(d) \/ CreateSend(d) \/ CreateRecord(d)
    \/ AnnounceCheck(d) \/ AnnounceReact(d) \/ RepostRoom(d)
    \/ ImportCheck(d) \/ MakeRoom(d) \/ MapRoom(d)
    \/ ImportSend(d) \/ ImportRecord(d) \/ DropDuplicate(d) \/ Imported(d)
    \/ ReactLate(d) \/ SendCard(d) \/ CardRecord(d)
    \/ Delete(d) \/ UndoCheck(d) \/ Unreact(d) \/ UndoCard(d)

\* All the deliveries there are have been handled: the process waits.
Idle == (\A d \in Deliveries : At(d, "over")) /\ UNCHANGED vars

Next ==
    \/ \E d \in Deliveries :
         \/ Accept(d) \/ Start(d) \/ ImportLock(d) \/ Step(d) \/ Abort(d)
    \/ Crash
    \/ Idle

\* The event loop runs every task that can go on (requests have a timeout),
\* and activity_lock serves its waiters in order (ActivityLock!NoStarvation):
\* a task that waits for a lock and can get in again and again does get in.
\* A task at any other point can go on until it does, so that one strong
\* fairness condition per task says both.
Fairness ==
    \A d \in Deliveries : SF_vars(Start(d) \/ ImportLock(d) \/ Step(d))

Spec == Init /\ [][Next]_vars /\ Fairness
-------------------------------------------------------------------------------
Mirrors(n) == {e \in live : e.ap = n}

Quiet == \A d \in Deliveries : pc[d] \in {"none", "over"}

\* A post whose mirror is only ever sent under the post's own lock, or only
\* under one activity's: no Create of it meets an Announce or another Create.
SinglePath(n) ==
    ~\E d, e \in Deliveries :
        /\ Note(d) = n /\ Note(e) = n
        /\ Kind[Act(d)] = "Create"
        /\ \/ Kind[Act(e)] = "Announce"
           \/ Kind[Act(e)] = "Create" /\ Act(e) # Act(d)

\* However its activities are copied and interleaved, a post that comes in on
\* one path has one visible mirror, apart from events whose sender died or
\* failed before recording them (note_mirroring.py:2453, inbox_dispatch.py:155).
MirroredOnce ==
    \A n \in Notes : SinglePath(n) => Cardinality(Mirrors(n) \ lost) <= 1

\* On any path, every visible event is tracked, about to be recorded or
\* redacted by the task that sent it, or known to have slipped through: sent by
\* a task that ended too early, or by a Create whose record was rejected.
Accounted ==
    \A e \in live :
        \/ row[e.ap] = e
        \/ e \in lost \cup clashed
        \/ \E d \in Deliveries : e \in Unsettled(d)

\* A tracked event only disappears at its author's request: the duplicate a
\* lost race redacts is never the winner (note_mirroring.py:2953), and nobody
\* else's Delete or Undo takes it away (inbox_dispatch.py:3658).
WinnerSurvives ==
    \A x \in Ids : (row[x] # NoEvent /\ row[x] \notin live) =>
        \E d \in Deliveries :
            /\ pc[d] \in {"finish", "over"}
            /\ ActorOf[Act(d)] = RowAuthor(x)
            /\ \/ Kind[Act(d)] = "Delete" /\ x = Note(d)
               \/ Kind[Act(d)] = "Undo" /\ x = AnnounceOf[Act(d)]

\* Repost cards and repost reactions are on the mirror that is tracked, also
\* when the Announce lost the race to import the post.
RepostsPointAtMirror ==
    /\ \A d \in Deliveries : repost[d] # NoEvent =>
         repost[d] = row[Note(d)] \/ repost[d] \in lost
    /\ \A r \in reactions : r[1] = row[r[1].ap] \/ r[1] \in lost

\* The state is well formed, no event is left untracked without a reason, and
\* what a race leaves is its winner's event, with the reposts on it.
MirrorInv == TypeOK /\ Accounted /\ WinnerSurvives /\ RepostsPointAtMirror

\* A mirror its author deleted does not come back with a late copy.
NoResurrection ==
    [][\A n \in Notes :
         (SinglePath(n) /\ row[n] # NoEvent /\ row[n] \notin live)
            => {e \in live' : e.ap = n} \subseteq Mirrors(n)]_vars

\* Without failures, an acknowledged Create of a followed author, or Announce
\* by a mirrored reposter, ends with the post mirrored.
EventuallyMirrored ==
    \A n \in Notes :
        (\E d \in Deliveries :
            /\ At(d, "accepted")
            /\ Kind[Act(d)] \in {"Create", "Announce"}
            /\ Note(d) = n
            /\ ActorOf[Act(d)] \in Followed)
        ~> (row[n] # NoEvent \/ faults > 0)
===============================================================================
