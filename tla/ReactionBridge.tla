----------------------------- MODULE ReactionBridge -----------------------------
(***************************************************************************)
(* Reactions to federated posts on their way out, and back:                *)
(* bridge.reaction_bridge.maybe_federate_reaction, send_repost and         *)
(* maybe_federate_reaction_removal, run by the transactions of TxnIntake.  *)
(*                                                                         *)
(* A reaction becomes an activity (a Like or EmojiReact to the post's      *)
(* author; an Announce for a repost, to the followers of the identity that *)
(* reposts too, with a card in its Profile Room).  A row of the table      *)
(* claims the reaction before the slow deliveries and is written again     *)
(* after them, with the card.  Redacting the reaction or the card looks    *)
(* the row up, sends an Undo and deletes the row.                          *)
(*                                                                         *)
(* Delivery is best effort: one attempt per inbox, what becomes of it is   *)
(* not looked at.  A Synapse request may fail in a way the handlers do not *)
(* catch (httpx's errors are not SynapseError): the handler ends there.    *)
(* A repost is asked for by a reaction, or by ;repost in answer to the     *)
(* post (commands._handle_repost), which looks at less before the claim.   *)
(* With a caption it is a post of its own, and a repost whose native       *)
(* record (MSC4501) was seen first sends no card: neither is modelled.     *)
(***************************************************************************)
EXTENDS TxnIntake, FiniteSets

CONSTANTS
    Users,
    Actors,         \* local identities
    Own,            \* user -> their identities; which one acts depends on
                    \* the room and on the Active one (IdentityRegistry)
    Oldest,         \* user -> the identity they have had longest
    HasRoom,        \* identities with a Profile Room; the others are shadows
    Reactors,       \* the users who react; everybody may redact
    Barrable        \* users whose reactions can stop to qualify, see Bar

ASSUME IdentitiesAssumption ==
    /\ Own \in [Users -> SUBSET Actors]
    /\ Oldest \in [Users -> Actors]
    /\ \A u \in Users : Oldest[u] \in Own[u]
    /\ HasRoom \subseteq Actors /\ Reactors \subseteq Users /\ Barrable \subseteq Users

\* Who is sent something: the author of the post, or the followers of a local
\* identity (deliver_to_actor_or_followers).
Inboxes == {"author"} \cup Actors

\* Event ids: the reaction at a position of the stream (card = 0), or the card
\* of the n-th activity sent for it.
EventIds == [pos : Positions, card : 0..MaxEvents]

Reactions == [kind : {"like", "repost", "command"}, user : Reactors]
Redactions == [kind : {"redact"}, user : Users, of : EventIds]
Event == Reactions \cup Redactions

Activity == [pos : Positions, n : Nat \ {0}, actor : Actors]
NoActivity == [pos |-> 0, n |-> 0]

VARIABLES
    work,       \* what each request's handler is doing
    rows,       \* the reactions table
    issued,     \* activities given an id by a claim
    cards,      \* activities with a card in a Profile Room
    sent,       \* <<inbox, activity>> delivered, or tried to
    undos,      \* <<inbox, activity, actor>>: Undo delivered, or tried to
    barred,     \* users who may not federate, or whose post is gone
    lost        \* positions whose handler was cut short

outside == <<issued, cards, sent, undos>>
vars == <<intakeVars, work, rows, outside, barred, lost>>

Work == [pc : {"none", "check", "claim", "card", "post", "record", "find", "undo", "remove"},
         act : Activity \cup {NoActivity}, todo : Seq(Inboxes)]
IdleWork == [pc |-> "none", act |-> NoActivity, todo |-> <<>>]

Kind(i) == stream[i].kind
IsReaction(i) == i \in 1..Len(stream) /\ Kind(i) \in {"like", "repost", "command"}
Reactor(a) == stream[a.pos].user
IsRepost(a) == Kind(a.pos) \in {"repost", "command"}

Owed(a) == IF IsRepost(a) THEN {"author", a.actor} ELSE {"author"}

(***************************************************************************)
(* The reactions table.                                                    *)
(***************************************************************************)
\* get_reaction_by_matrix_event: by event_id or secondary_event_id.
RowsFor(id) ==
    {row \in rows : /\ row.act.pos = id.pos
                    /\ id.card = 0 \/ (row.card /\ row.act.n = id.card)}

EventOf(i) == [pos |-> i, card |-> 0]

\* event_id is unique.
Claimed(i) == \E row \in rows : row.act.pos = i

\* Variant: the old check long before the record, with no claim.
InsertableAlways(i) == TRUE

\* claim_reaction, ON CONFLICT(event_id) DO NOTHING.
Insertable(i) == ~Claimed(i)

\* record_reaction updates the activity's row, or inserts it.
Others(a) == {row \in rows : row.act # a}

Recorded(a) == Others(a) \cup {[act |-> a, card |-> a \in cards]}

(***************************************************************************)
(* maybe_federate_reaction and send_repost.                                *)
(***************************************************************************)
Doing(r, step) == proc[r].pc = "run" /\ work[r].pc = step

Done(r) == End(r) /\ work' = [work EXCEPT ![r] = IdleWork]

Dispatch(r) ==
    /\ Begin(r)
    /\ work' = [work EXCEPT ![r].pc =
                   IF IsReaction(proc[r].at) THEN "check" ELSE "find"]
    /\ UNCHANGED <<rows, outside, barred, lost>>

\* The handler ends with an exception; a claim it made stays.
Cut(r) ==
    /\ Done(r)
    /\ lost' = lost \cup {proc[r].at}
    /\ UNCHANGED <<rows, outside, barred>>

\* maybe_federate_reaction: the post's record, the reaction's row, the sender's
\* identity and permission.
ReactionProceeds(i) == RowsFor(EventOf(i)) = {} /\ stream[i].user \notin barred

\* _handle_repost: only the post's record, the sender's permission and identity.
CommandProceeds(i) == stream[i].user \notin barred

Proceeds(i) == IF Kind(i) = "command" THEN CommandProceeds(i) ELSE ReactionProceeds(i)

CheckOk(r) ==
    /\ Doing(r, "check") /\ Proceeds(proc[r].at)
    /\ work' = [work EXCEPT ![r].pc = "claim"]
    /\ UNCHANGED <<intakeVars, rows, outside, barred, lost>>

CheckNo(r) ==
    /\ Doing(r, "check") /\ ~Proceeds(proc[r].at)
    /\ Done(r)
    /\ UNCHANGED <<rows, outside, barred, lost>>

CheckRaises(r) == Doing(r, "check") /\ Cut(r)

\* Own followers first, then the author.
\* Variant: the author of the post is left out.
FollowersOnly(a) == IF IsRepost(a) THEN <<a.actor>> ELSE <<"author">>

Recipients(a) == IF IsRepost(a) THEN <<a.actor, "author">> ELSE <<"author">>

NextN(i) == 1 + Cardinality({a \in issued : a.pos = i})

ClaimWon(r) ==
    LET i == proc[r].at IN
    /\ Doing(r, "claim") /\ Insertable(i)
    /\ \E actor \in Own[stream[i].user] :
         LET a == [pos |-> i, n |-> NextN(i), actor |-> actor] IN
         /\ rows' = rows \cup {[act |-> a, card |-> FALSE]}
         /\ issued' = issued \cup {a}
         /\ work' = [work EXCEPT ![r] =
              [pc |-> IF IsRepost(a) /\ actor \in HasRoom THEN "card" ELSE "post",
               act |-> a, todo |-> Recipients(a)]]
    /\ UNCHANGED <<intakeVars, cards, sent, undos, barred, lost>>

ClaimLost(r) ==
    /\ Doing(r, "claim") /\ ~Insertable(proc[r].at)
    /\ Done(r)
    /\ UNCHANGED <<rows, outside, barred, lost>>

\* The card: sent, refused (which is caught), or cut short, sent or not.
Card(r) ==
    /\ Doing(r, "card")
    /\ work' = [work EXCEPT ![r].pc = "post"]
    /\ \/ cards' = cards \cup {work[r].act}
       \/ UNCHANGED cards
    /\ UNCHANGED <<intakeVars, rows, issued, sent, undos, barred, lost>>

CardRaises(r) ==
    /\ Doing(r, "card") /\ Done(r)
    /\ lost' = lost \cup {proc[r].at}
    /\ \/ cards' = cards \cup {work[r].act}
       \/ UNCHANGED cards
    /\ UNCHANGED <<rows, issued, sent, undos, barred>>

\* deliver_to_actor_or_followers, never raising.
Posted(r, last) ==
    work' = [work EXCEPT ![r].todo = Tail(@),
                         ![r].pc = IF Len(work[r].todo) = 1 THEN last ELSE @]

Post(r) ==
    /\ Doing(r, "post")
    /\ sent' = sent \cup {<<Head(work[r].todo), work[r].act>>}
    /\ Posted(r, "record")
    /\ UNCHANGED <<intakeVars, rows, issued, cards, undos, barred, lost>>

\* Raises when another activity holds the reaction's event_id by now.
Record(r) ==
    LET a == work[r].act IN
    /\ Doing(r, "record") /\ Done(r)
    /\ rows' = IF \E row \in Others(a) : row.act.pos = a.pos THEN rows ELSE Recorded(a)
    /\ UNCHANGED <<outside, barred, lost>>

(***************************************************************************)
(* maybe_federate_reaction_removal.                                        *)
(***************************************************************************)
\* Variant: whoever redacts, it is an Undo.
MayUndoAnyone(user, a) == TRUE

MayUndo(user, a) == user = Reactor(a)

\* No identity, no permission or no record of the post: the row goes quietly.
Silent(a) == Reactor(a) \in barred

\* Variant: an Announce is undone at the author's only.
UndoAuthorOnly(a) == <<"author">>

\* The row does not tell which identity the reaction was made as: it is undone
\* as get_local_actor_by_matrix_id's answer, and at that identity's followers.
Signer(a) == Oldest[Reactor(a)]

UndoRecipients(a) == IF IsRepost(a) THEN <<"author", Signer(a)>> ELSE <<"author">>

FindNothing(r) ==
    /\ Doing(r, "find")
    /\ \A row \in RowsFor(stream[proc[r].at].of) : ~MayUndo(stream[proc[r].at].user, row.act)
    /\ Done(r)
    /\ UNCHANGED <<rows, outside, barred, lost>>

FindRow(r) ==
    /\ Doing(r, "find")
    /\ \E row \in RowsFor(stream[proc[r].at].of) :
         /\ MayUndo(stream[proc[r].at].user, row.act)
         /\ work' = [work EXCEPT ![r] =
              [pc |-> IF Silent(row.act) THEN "remove" ELSE "undo",
               act |-> row.act, todo |-> UndoRecipients(row.act)]]
    /\ UNCHANGED <<intakeVars, rows, outside, barred, lost>>

Undo(r) ==
    /\ Doing(r, "undo")
    /\ undos' = undos \cup {<<Head(work[r].todo), work[r].act, Signer(work[r].act)>>}
    /\ Posted(r, "remove")
    /\ UNCHANGED <<intakeVars, rows, issued, cards, sent, barred, lost>>

Remove(r) ==
    /\ Doing(r, "remove") /\ Done(r)
    /\ rows' = Others(work[r].act)
    /\ UNCHANGED <<outside, barred, lost>>

(***************************************************************************)
(* The rooms and the surroundings.                                         *)
(***************************************************************************)
Redacted(id) == \E i \in 1..Len(stream) : Kind(i) = "redact" /\ stream[i].of = id

React ==
    /\ \E e \in Reactions : Arrive(e)
    /\ UNCHANGED <<work, rows, outside, barred, lost>>

\* The reactor, a moderator or another bridge's bot redacts a reaction or card.
Redact ==
    /\ \E u \in Users, id \in EventIds :
         /\ IsReaction(id.pos) /\ ~Redacted(id)
         /\ id.card = 0 \/ \E a \in cards : a.pos = id.pos /\ a.n = id.card
         /\ Arrive([kind |-> "redact", user |-> u, of |-> id])
    /\ UNCHANGED <<work, rows, outside, barred, lost>>

\* A third-party user loses the permission to federate, or the author deletes
\* the post they reacted to: the handlers treat both alike.
Bar(u) ==
    /\ u \in Barrable \ barred
    /\ barred' = barred \cup {u}
    /\ UNCHANGED <<intakeVars, work, rows, outside, lost>>

Restart ==
    /\ Crash
    /\ lost' = lost \cup {work[r].act.pos : r \in {q \in Requests : work[q].pc \in {"card", "post", "record"}}}
    /\ work' = [r \in Requests |-> IdleWork]
    /\ UNCHANGED <<rows, outside, barred>>

Init ==
    /\ IntakeInit
    /\ work = [r \in Requests |-> IdleWork]
    /\ rows = {} /\ issued = {} /\ cards = {} /\ sent = {} /\ undos = {}
    /\ barred = {}
    /\ lost = {}

Intake(r) ==
    /\ Send(r) \/ Skip(r) \/ Mark(r) \/ Reply(r)
    /\ UNCHANGED <<work, rows, outside, barred, lost>>

Handle(r) ==
    \/ Dispatch(r)
    \/ CheckOk(r) \/ CheckNo(r) \/ CheckRaises(r) \/ ClaimWon(r) \/ ClaimLost(r)
    \/ Card(r) \/ CardRaises(r) \/ Post(r) \/ Record(r)
    \/ FindNothing(r) \/ FindRow(r) \/ Undo(r) \/ Remove(r)

\* Everything is acknowledged and the bounds are used up.
Idle ==
    /\ \A r \in Requests : proc[r].pc = "idle"
    /\ acked = Len(stream)
    /\ UNCHANGED vars

TimeOut == GiveUp /\ UNCHANGED <<work, rows, outside, barred, lost>>

Next ==
    \/ \E r \in Requests : Intake(r) \/ Handle(r)
    \/ React \/ Redact \/ TimeOut \/ Restart \/ Idle
    \/ \E u \in Users : Bar(u)

\* The event loop runs every request on; the homeserver retries until its 200.
Spec ==
    /\ Init /\ [][Next]_vars
    /\ \A r \in Requests : WF_vars(Intake(r) \/ Handle(r))

(***************************************************************************)
(* Properties.                                                             *)
(***************************************************************************)
TypeOK ==
    /\ IntakeTypeOK(Event)
    /\ work \in [Requests -> Work]
    /\ rows \subseteq [act : Activity, card : BOOLEAN]
    /\ issued \subseteq Activity /\ cards \subseteq issued
    /\ sent \subseteq Inboxes \X issued
    /\ undos \subseteq Inboxes \X issued \X Actors
    /\ barred \subseteq Barrable
    /\ lost \subseteq Positions

\* The table's two uniqueness constraints, and what a request may hold: a
\* handler is there exactly while its request dispatches, and nothing goes out
\* that was not claimed.
RowsSound ==
    /\ \A x, y \in rows : x.act.pos = y.act.pos => x = y
    /\ \A x \in rows : x.act \in issued /\ (x.card => x.act \in cards)
    /\ \A r \in Requests :
         /\ work[r].pc # "none" <=> proc[r].pc = "run"
         /\ work[r].pc \in {"card", "post", "record", "undo", "remove"} => work[r].act \in issued

\* The reactor redacted the reaction or the activity's card.
Asked(a) ==
    \E i \in 1..Len(stream) :
        /\ Kind(i) = "redact" /\ stream[i].user = Reactor(a)
        /\ stream[i].of \in {EventOf(a.pos), [pos |-> a.pos, card |-> a.n]}

\* A reaction is sent once, however often and however concurrently its
\* transaction is: a second activity only follows an Undo of the first
\* (claim_reaction; the duplicate Announces of 2026-08-10).
OneActivityPerReaction ==
    \A a, b \in issued : (a.pos = b.pos /\ a.n < b.n) => Asked(a)

\* The state is well formed, no event of an acknowledged transaction was passed
\* over, and a reaction has one row and one activity at a time.
BridgeInv == TypeOK /\ RowsSound /\ InOrder /\ OneActivityPerReaction

\* Only the reactor takes a reaction back: no Undo goes out, and no row is
\* dropped, for a redaction by anyone else (the redactions of 2026-10-26).
NothingUnasked ==
    /\ \A u \in undos : Asked(u[2])
    /\ \A a \in issued : (\E row \in rows : row.act = a) \/ Asked(a)

\* Who an Undo gets to of those the activity was owed to: a repost made as an
\* identity other than the reactor's oldest stays with that one's followers.
Reachable(a) == Owed(a) \cap {"author", Signer(a)}

\* A row is dropped only when everyone its activity was owed to, and an Undo can
\* reach, was sent it, or the sender may not federate, or the post is gone
\* (maybe_federate_reaction_removal: followers see a repost retracted too).
UndoBeforeForget ==
    [][\A row \in rows :
         (\A new \in rows' : new.act # row.act) =>
             \/ Silent(row.act)
             \/ \A x \in Reachable(row.act) : <<x, row.act, Signer(row.act)>> \in undos]_vars

\* A reaction is acknowledged and goes to every inbox it is owed to, whatever
\* retries and give-ups that takes, unless its sender or its post no longer qualifies, or its handler was cut
\* short by an exception, or by a restart after its claim.
ReactionReaches ==
    \A i \in Positions :
        IsReaction(i) ~> i <= acked /\
            \/ i \in lost \/ (IsReaction(i) /\ stream[i].user \in barred)
            \/ \E a \in issued : a.pos = i /\ \A x \in Owed(a) : <<x, a>> \in sent
================================================================================
