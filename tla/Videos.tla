--------------------------------- MODULE Videos ---------------------------------
(***************************************************************************)
(* A PeerTube channel's videos: messages of the channel's room that ;publish *)
(* makes into ActivityPub videos, ;edit renames, ;replace video gives        *)
(* another file and ;unpublish retracts, from the chat or the widget.        *)
(*                                                                           *)
(* What is published is in three places - federated_events, the channel's    *)
(* index and the video's metadata, both state of the room - and at the       *)
(* followers of the owner and of the channel, who are told in the background *)
(* and in any order.  Chat commands are handled one at a time and come again *)
(* until they were; the homeserver may repeat one that is still running.     *)
(***************************************************************************)
EXTENDS Naturals, FiniteSets

CONSTANTS
    FromChat,           \* video messages a member sent to the room
    FromWidget,         \* video messages the widget sends when it publishes
    Replacements,       \* files to replace a video's by
    OwnerFollowers, ChannelFollowers,
    MaxVideos,          \* bound: video ids made
    MaxCommands,        \* bound: commands given
    MaxTroubles,        \* bound: lost deliveries, failed requests to the
                        \* homeserver, commands repeated while they run, restarts
    None

Messages == FromChat \cup FromWidget
Followers == OwnerFollowers \cup ChannelFollowers
Ids == 1..MaxVideos
Files == Messages \cup Replacements     \* a message's own file, or another
VideoNames == {"first", "new"}          \* given on publishing, given by an edit

ASSUME VideosAssumption ==
    /\ FromChat \cap FromWidget = {} /\ Messages \cap Replacements = {}
    /\ OwnerFollowers \cap ChannelFollowers = {}
    /\ None \notin VideoNames \cup Files /\ None \notin Ids
    /\ MaxVideos \in Nat /\ MaxCommands \in Nat /\ MaxTroubles \in Nat

\* ;edit with no name leaves the name as it was.
Command ==
    [cmd : {"publish"}, msg : Messages, name : {"first"}, file : {None}]
    \cup [cmd : {"edit"}, msg : Messages, name : {"new", None}, file : {None}]
    \cup [cmd : {"unpublish"}, msg : Messages, name : {None}, file : {None}]
    \cup [cmd : {"replace"}, msg : Messages, name : {None}, file : Replacements]

What == [file : Files, name : VideoNames \cup {None}] \* what a follower has of a video
ASSUME NoneAssumption == None \notin Command /\ None \notin What

VARIABLES
    events,     \* federated_events: message -> id of its video, or None
    index,      \* ids in the channel's video index
    meta,       \* id -> the name in its metadata, or None
    sent,       \* messages that are in the room
    chat,       \* the chat command being handled, or None
    recent,     \* whether ;publish saw this command event since the start
    jobs,       \* commands running
    wires,      \* activities under way, in any order
    holds,      \* follower -> id -> what they have of it, or None
    made,       \* ids made so far
    troubles, commands,
    \* history
    born,       \* id -> its message
    wanted,     \* id -> the file its owner last chose
    told,       \* ids whose Create was sent; retracted: whose Delete was
    retracted,
    clashed,    \* messages two commands were at, at once
    blurred,    \* ids the index changed under another's hands, or was cut
    halted,     \* ids whose ;publish or ;unpublish failed on its way
    excused     \* follower and id: lost, overtaken or cut

Places == <<events, index, meta>>
Bounds == <<troubles, commands>>
Histories == <<born, wanted, told, retracted, clashed, blurred, halted, excused>>
videosVars == <<events, index, meta, sent, chat, recent, jobs, wires, holds, made,
                troubles, commands, born, wanted, told, retracted, clashed, blurred, halted, excused>>

Job == [by : {"chat", "again", "widget"}, does : Command, id : Ids \cup {None},
        name : VideoNames \cup {None}, seen : SUBSET Ids,
        step : {"record", "read", "write", "put", "send", "delete"}]
Wire == [act : {"create", "announce", "update", "delete"}, id : Ids, to : Followers,
         file : Files \cup {None}, name : VideoNames \cup {None}]

-----------------------------------------------------------------------------
(* A command begins with its checks. *)

Published(m) == events[m] # None
At(m) == {j \in jobs : j.does.msg = m}
ChatJobs == {j \in jobs : j.by # "widget"}

\* The first step of a command, with what it read: its reply's row, and the
\* name the metadata gives when the command gives none.
First(c) == CASE c.cmd = "publish" -> "record"
              [] c.cmd = "edit" -> "put"
              [] OTHER -> "send"
NameFor(c) == IF c.name # None THEN c.name ELSE IF Published(c.msg) THEN meta[events[c.msg]] ELSE None
Start(by, c) ==
    [by |-> by, does |-> c, id |-> events[c.msg], seen |-> {}, step |-> First(c), name |-> NameFor(c)]

Publishable(c) == c.msg \in sent /\ ~ Published(c.msg) /\ NameFor(c) # None
Editable(c) == Published(c.msg) /\ NameFor(c) # None
Retractable(c) == Published(c.msg)
Replaceable(c) == Published(c.msg) /\ NameFor(c) # None

Accepted(c) == CASE c.cmd = "publish" -> Publishable(c)
                 [] c.cmd = "edit" -> Editable(c)
                 [] c.cmd = "unpublish" -> Retractable(c)
                 [] OTHER -> Replaceable(c)

Collide(by, c) == IF \E j \in At(c.msg) : by # "again" THEN clashed \cup {c.msg} ELSE clashed

\* The owner gives a command in the room.
Ask(c) ==
    /\ chat = None /\ commands < MaxCommands /\ c.msg \in sent
    /\ chat' = c /\ recent' = FALSE /\ commands' = commands + 1
    /\ UNCHANGED <<sent, jobs, wires, holds, made, troubles>>
    /\ UNCHANGED Places /\ UNCHANGED Histories

\* Mutant: a repeated ;publish runs beside the first.
UnseenAtAll == TRUE
\* _is_redelivered_publish_command.
Unseen == chat.cmd = "publish" => ~ recent

\* The homeserver hands the command over, again while it runs or after a restart.
Take ==
    /\ chat # None
    /\ troubles' = IF ChatJobs = {} THEN troubles ELSE troubles + 1
    /\ troubles' <= MaxTroubles
    /\ LET by == IF ChatJobs = {} THEN "chat" ELSE "again"
       IN IF Unseen /\ Accepted(chat)
          THEN /\ jobs' = jobs \cup {Start(by, chat)}
               /\ clashed' = Collide(by, chat) /\ UNCHANGED chat
          ELSE /\ chat' = IF ChatJobs = {} THEN None ELSE chat
               /\ UNCHANGED <<jobs, clashed>>
    /\ recent' = (recent \/ chat.cmd = "publish")
    /\ UNCHANGED <<sent, wires, holds, made, commands>>
    /\ UNCHANGED Places
    /\ UNCHANGED <<born, wanted, told, retracted, blurred, halted, excused>>

\* widget_publish_video sends the message and publishes it.
PressPublish(c) ==
    /\ commands < MaxCommands /\ commands' = commands + 1
    /\ c.cmd = "publish" /\ c.msg \in FromWidget \ sent
    /\ sent' = sent \cup {c.msg}
    /\ jobs' = jobs \cup {Start("widget", c)}
    /\ UNCHANGED <<chat, recent, wires, holds, made, troubles>>
    /\ UNCHANGED Places /\ UNCHANGED Histories

\* widget_edit_video, which needs a name, and widget_unpublish_video; the widget
\* replaces no files.
PressChange(c) ==
    /\ commands < MaxCommands /\ commands' = commands + 1
    /\ \/ c.cmd = "edit" /\ c.name # None /\ Editable(c)
       \/ c.cmd = "unpublish" /\ Retractable(c)
    /\ ~ \E j \in jobs : j.by = "widget" /\ j.does = c
    /\ jobs' = jobs \cup {Start("widget", c)}
    /\ clashed' = Collide("widget", c)
    /\ UNCHANGED <<sent, chat, recent, wires, holds, made, troubles>>
    /\ UNCHANGED Places
    /\ UNCHANGED <<born, wanted, told, retracted, blurred, halted, excused>>

-----------------------------------------------------------------------------
(* What a running command does. *)

Onward(j, k) == jobs' = (jobs \ {j}) \cup {k} /\ UNCHANGED chat
\* The command is done, and the chat's when none of its runs is left.
Ended(j) ==
    /\ jobs' = jobs \ {j}
    /\ chat' = IF j.by # "widget" /\ ChatJobs = {j} THEN None ELSE chat

\* record_federated_event: the message's row, whatever it was.
Record(j) ==
    /\ j.step = "record" /\ made < MaxVideos
    /\ made' = made + 1
    /\ events' = [events EXCEPT ![j.does.msg] = made + 1]
    /\ born' = [born EXCEPT ![made + 1] = j.does.msg]
    /\ wanted' = [wanted EXCEPT ![made + 1] = j.does.msg]
    /\ Onward(j, [j EXCEPT !.id = made + 1, !.step = "read"])
    /\ UNCHANGED <<index, meta, sent, recent, wires, holds, told, retracted, clashed, blurred, halted, excused>>
    /\ UNCHANGED Bounds

\* get_video_index: an error of the homeserver's reads as an empty index.
Read(j) ==
    /\ j.step = "read"
    /\ \/ Onward(j, [j EXCEPT !.seen = index, !.step = "write"]) /\ UNCHANGED troubles
       \/ /\ troubles < MaxTroubles /\ troubles' = troubles + 1
          /\ Onward(j, [j EXCEPT !.seen = {}, !.step = "write"])
    /\ UNCHANGED <<sent, recent, wires, holds, made, commands>>
    /\ UNCHANGED Places /\ UNCHANGED Histories

Differ(s, t) == (s \ t) \cup (t \ s)

\* Mutant: the index is what this command makes it.
AddedAlone(j) == {j.id}
Added(j) == j.seen \cup {j.id}

\* add_to_video_index, remove_from_video_index: from what was read.
NewIndex(j) == IF j.does.cmd = "publish" THEN Added(j)
               ELSE IF j.id \in j.seen THEN j.seen \ {j.id} ELSE index
Blurs(j) == IF j.does.cmd = "publish" \/ j.id \in j.seen THEN Differ(j.seen, index)
            ELSE {j.id} \cap index
WriteIndex(j) ==
    /\ index' = NewIndex(j) /\ blurred' = blurred \cup Blurs(j)
    /\ UNCHANGED <<events, meta>>

Write(j) ==
    /\ j.step = "write"
    /\ WriteIndex(j)
    /\ IF j.does.cmd = "publish" THEN Onward(j, [j EXCEPT !.step = "put"]) ELSE Ended(j)
    /\ UNCHANGED <<sent, recent, wires, holds, made, born, wanted, told, retracted, clashed, halted, excused>>
    /\ UNCHANGED Bounds

\* The video's metadata in the room.
WriteMeta(j) ==
    /\ j.step = "put"
    /\ meta' = [meta EXCEPT ![j.id] = j.name]
    /\ Onward(j, [j EXCEPT !.step = "send"])
    /\ UNCHANGED <<events, index, sent, recent, wires, holds, made>>
    /\ UNCHANGED Bounds /\ UNCHANGED Histories

\* A request to the homeserver fails in a way nothing catches, and the command
\* ends there: what it wrote so far stays, and what it was writing is written or
\* not.
Halt(j) ==
    /\ j.step \in {"read", "write", "put"}
    /\ troubles < MaxTroubles /\ troubles' = troubles + 1
    /\ Ended(j)
    /\ halted' = IF j.does.cmd \in {"publish", "unpublish"} THEN halted \cup {j.id} ELSE halted
    /\ \/ UNCHANGED Places /\ UNCHANGED <<blurred, excused>>
       \/ j.step = "write" /\ WriteIndex(j) /\ UNCHANGED excused
       \/ /\ j.step = "put"
          /\ meta' = [meta EXCEPT ![j.id] = j.name]
          /\ excused' = excused \cup (Followers \X {j.id})
          /\ UNCHANGED <<events, index, blurred>>
    /\ UNCHANGED <<sent, recent, wires, holds, made, commands, born, wanted, told, retracted, clashed>>

\* A video is published by its owner and announced by the channel; what follows
\* is sent by both, each to its own followers.  An edit builds the video from
\* its message, a replacement from the new file.
File(j) == IF j.does.cmd = "replace" THEN j.does.file ELSE j.does.msg
Activity(j, act, f) == [act |-> act, id |-> j.id, to |-> f,
                        file |-> IF act \in {"create", "update"} THEN File(j) ELSE None,
                        name |-> IF act \in {"create", "update"} THEN j.name ELSE None]

\* Mutant: a retraction is the owner's alone.
OutgoingOwners(j) ==
    CASE j.does.cmd = "publish" -> {Activity(j, "create", f) : f \in OwnerFollowers}
                                   \cup {Activity(j, "announce", f) : f \in ChannelFollowers}
      [] j.does.cmd = "unpublish" -> {Activity(j, "delete", f) : f \in OwnerFollowers}
      [] OTHER -> {Activity(j, "update", f) : f \in Followers}
Outgoing(j) ==
    CASE j.does.cmd = "publish" -> {Activity(j, "create", f) : f \in OwnerFollowers}
                                   \cup {Activity(j, "announce", f) : f \in ChannelFollowers}
      [] j.does.cmd = "unpublish" -> {Activity(j, "delete", f) : f \in Followers}
      [] OTHER -> {Activity(j, "update", f) : f \in Followers}

\* _deliver_video_activity_in_background.
Send(j) ==
    /\ j.step = "send"
    /\ wires' = wires \cup Outgoing(j)
    /\ wanted' = IF j.does.cmd = "replace" THEN [wanted EXCEPT ![j.id] = j.does.file] ELSE wanted
    /\ told' = IF j.does.cmd = "publish" THEN told \cup {j.id} ELSE told
    /\ retracted' = IF j.does.cmd = "unpublish" THEN retracted \cup {j.id} ELSE retracted
    /\ IF j.does.cmd = "unpublish" THEN Onward(j, [j EXCEPT !.step = "delete"]) ELSE Ended(j)
    /\ UNCHANGED <<sent, recent, holds, made, born, clashed, blurred, halted, excused>>
    /\ UNCHANGED Places /\ UNCHANGED Bounds

\* delete_federated_event: whatever the message's row is.
Delete(j) ==
    /\ j.step = "delete"
    /\ events' = [events EXCEPT ![j.does.msg] = None]
    /\ Onward(j, [j EXCEPT !.step = "read"])
    /\ UNCHANGED <<index, meta, sent, recent, wires, holds, made>>
    /\ UNCHANGED Bounds /\ UNCHANGED Histories

-----------------------------------------------------------------------------
(* The followers, and restarts. *)

Live(id) == \E m \in Messages : events[m] = id
\* What a server that fetches a video is given: reconstruct_video_activities.
Fetched(id) == IF Live(id) /\ meta[id] # None THEN [file |-> born[id], name |-> meta[id]] ELSE None
\* What the channel's outbox and page list, _list_channel_video_events.
Listed(id) == id \in index /\ Fetched(id) # None
\* What a follower has after an activity; an Update of what it has not is void.
After(w) ==
    LET had == holds[w.to][w.id]
    IN CASE w.act = "create" -> [file |-> w.file, name |-> w.name]
         [] w.act = "announce" -> IF Fetched(w.id) = None THEN had ELSE Fetched(w.id)
         [] w.act = "delete" -> None
         [] OTHER -> IF had = None THEN None ELSE [file |-> w.file, name |-> w.name]

Overtaken(w) == \E v \in wires \ {w} : v.to = w.to /\ v.id = w.id

Deliver(w) ==
    /\ w \in wires /\ wires' = wires \ {w}
    /\ \/ /\ holds' = [holds EXCEPT ![w.to][w.id] = After(w)]
          /\ excused' = IF Overtaken(w) THEN excused \cup {<<w.to, w.id>>} ELSE excused
          /\ UNCHANGED troubles
       \/ /\ troubles < MaxTroubles /\ troubles' = troubles + 1
          /\ excused' = excused \cup {<<w.to, w.id>>}
          /\ UNCHANGED holds
    /\ UNCHANGED <<sent, chat, recent, jobs, made, commands, born, wanted, told, retracted, clashed, blurred, halted>>
    /\ UNCHANGED Places

Cut == {j.id : j \in jobs} \ {None}

Crash ==
    /\ troubles < MaxTroubles /\ (jobs # {} \/ wires # {})
    /\ troubles' = troubles + 1
    /\ jobs' = {} /\ wires' = {} /\ recent' = FALSE
    /\ blurred' = blurred \cup Cut
    /\ excused' = excused \cup {<<w.to, w.id>> : w \in wires} \cup (Followers \X Cut)
    /\ UNCHANGED <<sent, chat, holds, made, commands, born, wanted, told, retracted, clashed, halted>>
    /\ UNCHANGED Places

VideosInit ==
    /\ events = [m \in Messages |-> None] /\ index = {} /\ meta = [i \in Ids |-> None]
    /\ sent = FromChat /\ chat = None /\ recent = FALSE /\ jobs = {} /\ wires = {}
    /\ holds = [f \in Followers |-> [i \in Ids |-> None]] /\ made = 0
    /\ troubles = 0 /\ commands = 0
    /\ born = [i \in Ids |-> None] /\ wanted = [i \in Ids |-> None]
    /\ told = {} /\ retracted = {} /\ clashed = {} /\ blurred = {}
    /\ halted = {} /\ excused = {}

Run(j) == Record(j) \/ Read(j) \/ Write(j) \/ WriteMeta(j) \/ Halt(j) \/ Send(j) \/ Delete(j)
VideosNext ==
    \/ \E c \in Command : Ask(c) \/ PressPublish(c) \/ PressChange(c)
    \/ Take
    \/ \E j \in jobs : Run(j)
    \/ \E w \in wires : Deliver(w)
    \/ Crash

\* Commands that were handed over run on, and what was sent arrives or fails.
VideosSpec == /\ VideosInit /\ [][VideosNext]_videosVars
              /\ WF_videosVars(Take) /\ WF_videosVars(\E j \in jobs : Run(j))
              /\ WF_videosVars(\E w \in wires : Deliver(w))

-----------------------------------------------------------------------------
(* Properties. *)

TypeOK ==
    /\ events \in [Messages -> Ids \cup {None}] /\ index \subseteq Ids
    /\ meta \in [Ids -> VideoNames \cup {None}]
    /\ sent \subseteq Messages /\ chat \in Command \cup {None}
    /\ jobs \subseteq Job /\ wires \subseteq Wire
    /\ holds \in [Followers -> [Ids -> What \cup {None}]]

\* What was sent out as a video can be retracted: its message still has its row,
\* or it was retracted.  A ;publish the homeserver repeats, while it runs or
\* after a restart, does not make a second video that replaces the first's row;
\* only two different commands at once may.
OneVideoPerMessage ==
    \A i \in told \ retracted : events[born[i]] = i \/ born[i] \in clashed

\* The state is well formed, a row's video was made from its message, and what
\* was sent out can be retracted.
VideosInv ==
    /\ TypeOK
    /\ \A m \in Messages : events[m] # None => events[m] \in 1..made /\ born[events[m]] = m
    /\ OneVideoPerMessage

\* When nothing is running the channel lists what is published and the index
\* names nothing else, except for videos whose entry another command wrote over
\* (each writes back what it read earlier), a failed read emptied, or a restart
\* cut short, for one whose ;publish or ;unpublish failed between its row and its
\* last write to the room, and for a message two commands were at.
IndexMatches ==
    jobs = {} => \A i \in 1..made : \/ i \in blurred \cup halted \/ born[i] \in clashed
                                    \/ /\ Live(i) => Listed(i)
                                       /\ i \in index => Live(i)

\* When all is quiet every follower, the owner's and the channel's, has the
\* published videos under their names and none of the retracted ones - unless a
\* delivery was lost, cut or overtaken, an edit was written to the room and failed
\* before it was sent, or two commands were at the video.
FollowersMatch ==
    (jobs = {} /\ wires = {}) =>
        \A f \in Followers, i \in told :
            <<f, i>> \in excused \/ born[i] \in clashed
            \/ IF Live(i) THEN holds[f][i] # None /\ holds[f][i].name = meta[i]
                          ELSE holds[f][i] = None

\* ";edit changes a published video's metadata without touching the file.
\* ;replace video swaps the underlying file": whoever was told of everything has
\* the file the owner last chose.
FileStays ==
    (jobs = {} /\ wires = {}) =>
        \A f \in Followers, i \in told :
            \/ <<f, i>> \in excused \/ born[i] \in clashed \/ holds[f][i] = None
            \/ holds[f][i].file = wanted[i]
=============================================================================
