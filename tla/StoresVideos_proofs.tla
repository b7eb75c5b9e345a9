-------------------------- MODULE StoresVideos_proofs --------------------------
(***************************************************************************)
(* Theorems about what is recorded.                                         *)
(*                                                                         *)
(* Videos, a channel's videos, for any messages, followers, commands,       *)
(* repeated commands, lost deliveries and restarts: what was sent out can   *)
(* be retracted, the channel lists what is published, and followers have    *)
(* it.                                                                      *)
(*                                                                         *)
(* Stores, the repository three times, for any actors, users, rooms, names, *)
(* events and objects and any calls: the dictionaries, the sqlite tables    *)
(* and the Postgres tables hold one content, so they give the same answers, *)
(* and the history of rooms follows the rooms.                              *)
(***************************************************************************)
EXTENDS Videos, Stores, FiniteSetTheorems, WellFoundedInduction, TLAPS

-----------------------------------------------------------------------------
(* A channel's videos. *)


\* The records, and what they are about.
TablesSound ==
  /\ made \in 0..MaxVideos /\ recent \in BOOLEAN /\ troubles \in Nat
  /\ born \in [Ids -> Messages \cup {None}] /\ \A i \in 1..made : born[i] \in Messages
  /\ \A m \in Messages : events[m] # None => events[m] \in 1..made /\ born[events[m]] = m /\ m \in sent
  /\ index \subseteq 1..made /\ told \subseteq 1..made /\ retracted \subseteq 1..made
  /\ clashed \subseteq Messages
  /\ \A i \in told : meta[i] # None
  /\ \A w \in wires : /\ w.id \in 1..made
                      /\ w.act \in {"create", "update"} => w.file \in Files /\ w.name \in VideoNames

Steps(cmd) == CASE cmd = "publish" -> {"record", "read", "write", "put", "send"}
                [] cmd = "unpublish" -> {"send", "delete", "read", "write"}
                [] cmd = "edit" -> {"put", "send"}
                [] OTHER -> {"send"}

\* What every command brought along.
Begun(j) ==
  /\ j.step \in Steps(j.does.cmd) /\ j.seen \subseteq 1..made
  /\ j.does.cmd # "unpublish" => j.name # None
  /\ j.does.msg \in sent
  /\ j.step # "record" => j.id \in 1..made /\ born[j.id] = j.does.msg
  /\ j.does.cmd = "publish" /\ j.step = "send" => meta[j.id] # None
  /\ j.by # "widget" => chat = j.does /\ (j.does.cmd = "publish" => recent)

\* Where no two commands are at a message everybody there runs the same one, of
\* a ;publish there is one run, and nobody changes what it relies on.
Together(j) == \A k \in At(j.does.msg) : k.does = j.does /\ (j.does.cmd = "publish" => k = j)
Kept(j) ==
  LET m == j.does.msg
  IN /\ j.does.cmd = "publish" =>
          /\ j.step = "record" => events[m] = None
          /\ j.step # "record" => events[m] = j.id /\ j.id \notin told \cup retracted
     /\ j.does.cmd \in {"edit", "replace"} =>
          events[m] = j.id /\ j.name = IF j.does.name = None THEN meta[j.id] ELSE j.does.name
     /\ j.does.cmd = "unpublish" =>
          /\ events[m] \in {j.id, None}
          /\ j.step \in {"read", "write"} => events[m] = None
          /\ j.step # "send" => j.id \in retracted
     /\ j.step = "send" /\ j.does.cmd # "unpublish" => meta[j.id] = j.name

JobSound(j) == Begun(j) /\ (j.does.msg \notin clashed => Together(j) /\ Kept(j))

Running(cmd, steps, i) == \E j \in jobs : j.does.cmd = cmd /\ j.step \in steps /\ j.id = i

IndexAt(i) == i \in blurred \cup halted \/ born[i] \in clashed \/
  /\ events[born[i]] = i => /\ i \in index \/ Running("publish", {"read", "write"}, i)
                            /\ meta[i] # None \/ Running("publish", {"read", "write", "put"}, i)
  /\ i \in index => events[born[i]] = i \/ Running("unpublish", {"read", "write"}, i)
IndexSound == \A i \in 1..made : IndexAt(i)

\* What a follower has fits the video, or an edit is about to be sent.
Fits(h, i) == h # None /\ (h.name = meta[i] \/ Running("edit", {"send"}, i))
Mail(f, i) == {w \in wires : w.to = f /\ w.id = i}
Excused(f, i) == <<f, i>> \in excused \/ born[i] \in clashed

\* Where one activity is under way it settles what the follower has.
FollowerSound(f, i) ==
  /\ i \notin retracted => /\ Mail(f, i) = {} => Fits(holds[f][i], i)
                           /\ \A w \in wires : Mail(f, i) = {w} => Fits(After(w), i)
  /\ i \in retracted => /\ events[born[i]] # i \/ Running("unpublish", {"send", "delete"}, i)
                        /\ Mail(f, i) = {} => holds[f][i] = None
                        /\ \A w \in wires : Mail(f, i) = {w} => w.act = "delete"

Quiet(j) == \A w \in wires : w.id # j.id      \* nothing was sent of its video
FollowersSound ==
  /\ \A f \in Followers, i \in told : Excused(f, i) \/ FollowerSound(f, i)
  /\ \A j \in jobs : j.does.cmd = "publish" /\ j.step # "record" /\ j.does.msg \notin clashed => Quiet(j)

\* The inductive invariant.
Grounds == TypeOK /\ TablesSound /\ OneVideoPerMessage /\ (\A j \in jobs : JobSound(j))
IInv == Grounds /\ IndexSound /\ FollowersSound

-----------------------------------------------------------------------------
(* What commands, jobs and activities are. *)

\* What a command says.
LEMMA CommandFacts ==
  ASSUME NEW c \in Command
  PROVE  /\ c.cmd \in {"publish", "edit", "unpublish", "replace"} /\ c.msg \in Messages
         /\ c.name \in VideoNames \cup {None} /\ c.file \in Files \cup {None}
         /\ c.cmd = "publish" => c.name = "first"
         /\ c.cmd = "unpublish" => c.name = None
         /\ c.cmd = "replace" => c.file \in Replacements /\ c.name = None
BY DEF Command, VideoNames, Files

\* What a job carries, and that it is one after each step.
LEMMA JobFacts ==
  ASSUME NEW j \in Job
  PROVE  /\ j.by \in {"chat", "again", "widget"} /\ j.does \in Command /\ j.id \in Ids \cup {None}
         /\ j.name \in VideoNames \cup {None} /\ j.seen \subseteq Ids
         /\ j.step \in {"record", "read", "write", "put", "send", "delete"}
BY DEF Job

\* A command that begins is a job.
LEMMA StartFacts ==
  ASSUME TypeOK, NEW c \in Command, NEW by \in {"chat", "again", "widget"}
  PROVE  /\ Start(by, c) \in Job /\ Start(by, c).by = by /\ Start(by, c).does = c
         /\ Start(by, c).id = events[c.msg] /\ Start(by, c).seen = {}
         /\ Start(by, c).step = First(c) /\ Start(by, c).name = NameFor(c)
         /\ First(c) \in Steps(c.cmd)
<1>1. c.msg \in Messages /\ c.name \in VideoNames \cup {None}
      /\ c.cmd \in {"publish", "edit", "unpublish", "replace"}
  BY CommandFacts
<1>2. events[c.msg] \in Ids \cup {None}
  BY <1>1 DEF TypeOK
<1>3. NameFor(c) \in VideoNames \cup {None}
  BY <1>1, <1>2 DEF NameFor, Published, TypeOK
<1>4. First(c) \in {"record", "put", "send"} /\ First(c) \in Steps(c.cmd)
  BY <1>1 DEF First, Steps
<1> QED
  BY <1>2, <1>3, <1>4 DEF Start, Job

\* What an activity says, and that what is sent are activities.
LEMMA WireFacts ==
  ASSUME NEW w \in Wire
  PROVE  /\ w.act \in {"create", "announce", "update", "delete"} /\ w.id \in Ids /\ w.to \in Followers
         /\ w.file \in Files \cup {None} /\ w.name \in VideoNames \cup {None}
BY DEF Wire
LEMMA ActivityFacts ==
  ASSUME NEW j \in Job, j.id \in Ids, NEW f \in Followers,
         NEW act \in {"create", "announce", "update", "delete"}
  PROVE  /\ Activity(j, act, f) \in Wire /\ Activity(j, act, f).act = act
         /\ Activity(j, act, f).id = j.id /\ Activity(j, act, f).to = f
         /\ Activity(j, act, f).file = IF act \in {"create", "update"} THEN File(j) ELSE None
         /\ Activity(j, act, f).name = IF act \in {"create", "update"} THEN j.name ELSE None
         /\ j.does.cmd # "unpublish" => File(j) \in Files
<1>1. j.does \in Command /\ j.name \in VideoNames \cup {None}
  BY JobFacts
<1>2. /\ j.does.msg \in Messages
      /\ j.does.cmd = "replace" => j.does.file \in Replacements
  BY <1>1, CommandFacts
<1>3. File(j) \in Files
  BY <1>2 DEF File, Files
<1> QED
  BY <1>1, <1>3 DEF Activity, Wire

\* Who is sent what.
LEMMA Outgoings ==
  ASSUME NEW j \in Job, j.id \in Ids, NEW w \in Outgoing(j)
  PROVE  /\ w \in Wire /\ w.id = j.id
         /\ w.act \in {"create", "update"} => w.file = File(j) /\ w.name = j.name /\ w.file \in Files
         /\ j.does.cmd = "publish" => w.act \in {"create", "announce"}
         /\ j.does.cmd = "unpublish" <=> w.act = "delete"
         /\ j.does.cmd \in {"edit", "replace"} <=> w.act = "update"
<1>1. j.does \in Command /\ j.does.cmd \in {"publish", "edit", "unpublish", "replace"}
  BY JobFacts, CommandFacts
<1>2. OwnerFollowers \subseteq Followers /\ ChannelFollowers \subseteq Followers
  BY DEF Followers
<1>3. CASE j.does.cmd = "publish"
  <2>1. PICK f \in Followers, act \in {"create", "announce"} : w = Activity(j, act, f)
    BY <1>2, <1>3 DEF Outgoing
  <2> QED
    BY <2>1, <1>3, ActivityFacts
<1>4. CASE j.does.cmd = "unpublish"
  <2>1. PICK f \in Followers : w = Activity(j, "delete", f)
    BY <1>2, <1>4 DEF Outgoing
  <2> QED
    BY <2>1, <1>4, ActivityFacts
<1>5. CASE j.does.cmd \in {"edit", "replace"}
  <2>1. PICK f \in Followers : w = Activity(j, "update", f)
    BY <1>2, <1>5 DEF Outgoing
  <2> QED
    BY <2>1, <1>5, ActivityFacts
<1> QED
  BY <1>1, <1>3, <1>4, <1>5

\* A job stays one from step to step.
LEMMA Moves ==
  ASSUME NEW j \in Job, NEW i \in Ids, NEW seen \in SUBSET Ids,
         NEW step \in {"record", "read", "write", "put", "send", "delete"}
  PROVE  /\ [j EXCEPT !.step = step] \in Job
         /\ [j EXCEPT !.seen = seen, !.step = step] \in Job
         /\ [j EXCEPT !.id = i, !.step = step] \in Job
BY DEF Job

\* What writing the index leaves, and that a video it is not about is left alone
\* unless what was read of it is no longer so.
LEMMA IndexWritten ==
  ASSUME TablesSound, NEW j \in jobs, Begun(j), j.step = "write", WriteIndex(j)
  PROVE  /\ index' \subseteq 1..made /\ blurred \subseteq blurred' /\ UNCHANGED <<events, meta>>
         /\ \A i : i # j.id => i \in blurred' \/ (i \in index' <=> i \in index)
<1>1. j.seen \subseteq 1..made /\ j.id \in 1..made /\ index \subseteq 1..made
  BY DEF Begun, TablesSound
<1>2. index' \subseteq 1..made
  BY <1>1 DEF WriteIndex, NewIndex, Added
<1>3. ASSUME NEW i, i # j.id PROVE i \in blurred' \/ (i \in index' <=> i \in index)
  BY <1>3 DEF WriteIndex, NewIndex, Added, Blurs, Differ
<1> QED
  BY <1>2, <1>3 DEF WriteIndex

\* What a command that fails leaves.
LEMMA HaltFacts ==
  ASSUME NEW j \in jobs, Halt(j)
  PROVE  /\ j.step \in {"read", "write", "put"} /\ Ended(j) /\ jobs' = jobs \ {j}
         /\ UNCHANGED <<events, sent, recent, wires, holds, made, born, wanted, told, retracted, clashed>>
         /\ troubles' = troubles + 1
         /\ blurred \subseteq blurred' /\ halted \subseteq halted' /\ excused \subseteq excused'
         /\ j.does.cmd \in {"publish", "unpublish"} => j.id \in halted'
         /\ index' = index \/ (j.step = "write" /\ WriteIndex(j))
         /\ \/ meta' = meta
            \/ /\ j.step = "put" /\ meta' = [meta EXCEPT ![j.id] = j.name]
               /\ \A f \in Followers : <<f, j.id>> \in excused'
BY DEF Halt, Ended, WriteIndex, Places

-----------------------------------------------------------------------------
(* The state stays well formed. *)

LEMMA TypesHold ==
  ASSUME Grounds, [VideosNext]_videosVars
  PROVE  TypeOK'
<1> USE DEF Bounds, Places, Histories
<1>0. TypeOK /\ TablesSound /\ \A j \in jobs : j \in Job /\ JobSound(j)
  BY DEF Grounds, TypeOK
<1>1. ASSUME NEW c \in Command, Ask(c) PROVE TypeOK'
  BY <1>0, <1>1 DEF Ask, TypeOK
<1>2. ASSUME NEW c \in Command, PressPublish(c) PROVE TypeOK'
  <2>1. Start("widget", c) \in Job /\ c.msg \in Messages
    BY <1>0, StartFacts, CommandFacts
  <2> QED
    BY <1>0, <1>2, <2>1 DEF PressPublish, TypeOK
<1>3. ASSUME NEW c \in Command, PressChange(c) PROVE TypeOK'
  <2>1. Start("widget", c) \in Job
    BY <1>0, StartFacts
  <2> QED
    BY <1>0, <1>3, <2>1 DEF PressChange, TypeOK
<1>4. CASE Take
  <2>1. chat \in Command
    BY <1>0, <1>4 DEF Take, TypeOK
  <2>2. Start("chat", chat) \in Job /\ Start("again", chat) \in Job
    BY <1>0, <2>1, StartFacts
  <2>3. jobs' \subseteq Job
    BY <1>0, <1>4, <2>2 DEF Take, TypeOK
  <2>4. chat' \in Command \cup {None}
    BY <2>1, <1>4 DEF Take
  <2> QED
    BY <1>0, <1>4, <2>3, <2>4 DEF Take, TypeOK
<1>5. ASSUME NEW j \in jobs, Run(j) PROVE TypeOK'
  <2>0. j \in Job /\ j.does \in Command /\ j.does.msg \in Messages /\ j.seen \subseteq Ids
        /\ j.id \in Ids \cup {None} /\ j.name \in VideoNames \cup {None}
    BY <1>0, JobFacts, CommandFacts
  <2>1. CASE Record(j)
    <3>1. made + 1 \in Ids
      BY <1>0, <2>1, VideosAssumption DEF Record, TablesSound, Ids
    <3>2. [j EXCEPT !.id = made + 1, !.step = "read"] \in Job
      BY <2>0, <3>1, Moves
    <3> QED
      BY <1>0, <2>0, <2>1, <3>1, <3>2 DEF Record, Onward, TypeOK
  <2>2. CASE Read(j)
    <3>1. [j EXCEPT !.seen = index, !.step = "write"] \in Job /\ [j EXCEPT !.seen = {}, !.step = "write"] \in Job
      BY <1>0, <2>0 DEF TypeOK, Job
    <3> QED
      BY <1>0, <2>2, <3>1 DEF Read, Onward, TypeOK
  <2>3. CASE Write(j)
    <3>1. [j EXCEPT !.step = "put"] \in Job
      BY <2>0 DEF Job
    <3>2. index' \subseteq 1..made /\ UNCHANGED <<events, meta>>
      BY <1>0, <2>3, IndexWritten DEF Write, JobSound
    <3>3. index' \subseteq Ids
      BY <1>0, <3>2, VideosAssumption DEF TablesSound, Ids
    <3>4. jobs' \subseteq Job /\ chat' \in Command \cup {None}
      BY <1>0, <2>3, <3>1 DEF Write, Onward, Ended, TypeOK
    <3> QED
      BY <1>0, <2>3, <3>2, <3>3, <3>4 DEF Write, TypeOK
  <2>4. CASE WriteMeta(j)
    <3>1. [j EXCEPT !.step = "send"] \in Job
      BY <2>0 DEF Job
    <3> QED
      BY <1>0, <2>0, <2>4, <3>1 DEF WriteMeta, Onward, TypeOK
  <2>5. CASE Send(j)
    <3>1. [j EXCEPT !.step = "delete"] \in Job
      BY <2>0 DEF Job
    <3>2. j.id \in Ids
      BY <1>0, <2>5, VideosAssumption DEF Send, JobSound, Begun, TablesSound, Ids
    <3>3. wires' \subseteq Wire
      BY <1>0, <2>0, <2>5, <3>2, Outgoings DEF Send, TypeOK
    <3>4. jobs' \subseteq Job /\ chat' \in Command \cup {None}
      BY <1>0, <2>5, <3>1 DEF Send, Onward, Ended, TypeOK
    <3> QED
      BY <1>0, <2>5, <3>3, <3>4 DEF Send, TypeOK
  <2>6. CASE Delete(j)
    <3>1. [j EXCEPT !.step = "read"] \in Job
      BY <2>0 DEF Job
    <3> QED
      BY <1>0, <2>0, <2>6, <3>1 DEF Delete, Onward, TypeOK
  <2>7. CASE Halt(j)
    <3>1. jobs' \subseteq Job /\ chat' \in Command \cup {None}
      BY <1>0, <2>7, HaltFacts DEF Ended, TypeOK
    <3>2. index' \subseteq 1..made
      BY <1>0, <2>7, HaltFacts, IndexWritten DEF JobSound, TablesSound
    <3>3. index' \subseteq Ids
      BY <1>0, <3>2, VideosAssumption DEF TablesSound, Ids
    <3>4. meta' \in [Ids -> VideoNames \cup {None}]
      BY <1>0, <2>0, <2>7, HaltFacts DEF TypeOK
    <3>5. UNCHANGED <<events, sent, wires, holds>>
      BY <2>7, HaltFacts
    <3> QED
      BY <1>0, <3>1, <3>3, <3>4, <3>5 DEF TypeOK
  <2> QED
    BY <1>5, <2>1, <2>2, <2>3, <2>4, <2>5, <2>6, <2>7 DEF Run
<1>6. ASSUME NEW w \in wires, Deliver(w) PROVE TypeOK'
  <2>1. w \in Wire /\ w.to \in Followers /\ w.id \in Ids
    BY <1>0, WireFacts DEF TypeOK
  <2>2. After(w) \in What \cup {None}
    <3>1. holds[w.to][w.id] \in What \cup {None}
      BY <1>0, <2>1 DEF TypeOK
    <3>2. Fetched(w.id) \in What \cup {None}
      <4>1. CASE Live(w.id) /\ meta[w.id] # None
        <5>1. born[w.id] \in Messages
          BY <1>0, <4>1, <2>1, VideosAssumption DEF Live, TablesSound, Ids
        <5>2. meta[w.id] \in VideoNames \cup {None}
          BY <1>0, <2>1 DEF TypeOK
        <5> QED
          BY <4>1, <5>1, <5>2 DEF Fetched, What, Files
      <4> QED
        BY <4>1 DEF Fetched
    <3>3. w.act \in {"create", "update"} => [file |-> w.file, name |-> w.name] \in What
      BY <1>0, <2>1, WireFacts DEF TablesSound, What
    <3> QED
      BY <3>1, <3>2, <3>3, <2>1, WireFacts DEF After
  <2>3. holds' \in [Followers -> [Ids -> What \cup {None}]]
    BY <1>0, <1>6, <2>1, <2>2 DEF Deliver, TypeOK
  <2> QED
    BY <1>0, <1>6, <2>3 DEF Deliver, TypeOK
<1>7. CASE Crash
  BY <1>0, <1>7 DEF Crash, TypeOK
<1>8. CASE UNCHANGED videosVars
  BY <1>0, <1>8 DEF videosVars, TypeOK
<1> QED
  BY <1>1, <1>2, <1>3, <1>4, <1>5, <1>6, <1>7, <1>8 DEF VideosNext

LEMMA TablesHold ==
  ASSUME Grounds, [VideosNext]_videosVars
  PROVE  TablesSound'
<1> USE VideosAssumption DEF Bounds, Places, Histories
<1>0. /\ TypeOK /\ TablesSound /\ \A j \in jobs : j \in Job /\ JobSound(j)
      /\ \A j \in jobs : j.does \in Command /\ j.does.msg \in Messages
      /\ TypeOK'
  BY JobFacts, CommandFacts, TypesHold DEF Grounds, TypeOK
<1>1. ASSUME NEW c \in Command, Ask(c) PROVE TablesSound'
  BY <1>0, <1>1 DEF Ask, TablesSound
<1>2. ASSUME NEW c \in Command, PressPublish(c) PROVE TablesSound'
  BY <1>0, <1>2 DEF PressPublish, TablesSound
<1>3. ASSUME NEW c \in Command, PressChange(c) PROVE TablesSound'
  <2>1. c.msg \in Messages
    BY CommandFacts
  <2> QED
    BY <1>0, <1>3, <2>1 DEF PressChange, Collide, TablesSound
<1>4. CASE Take
  <2>1. chat.msg \in Messages
    BY <1>0, <1>4, CommandFacts DEF Take, TypeOK
  <2>2. clashed' \subseteq Messages /\ troubles' \in Nat
    BY <1>0, <1>4, <2>1 DEF Take, Collide, TablesSound
  <2>3. recent' \in BOOLEAN
    BY <1>0, <1>4 DEF Take, TablesSound
  <2> QED
    BY <1>0, <1>4, <2>2, <2>3 DEF Take, TablesSound
<1>5. ASSUME NEW j \in jobs, Run(j) PROVE TablesSound'
  <2>0. j \in Job /\ j.does \in Command /\ j.does.msg \in Messages /\ JobSound(j)
        /\ j.id \in Ids \cup {None} /\ (j.step # "record" => j.id \in 1..made /\ born[j.id] = j.does.msg)
        /\ j.does.cmd \in {"publish", "edit", "unpublish", "replace"}
    BY <1>0, JobFacts, CommandFacts DEF JobSound, Begun
  <2>1. CASE Record(j)
    <3>1. /\ made + 1 \in Ids /\ made' \in 0..MaxVideos /\ made' = made + 1
          /\ born' \in [Ids -> Messages \cup {None}]
      BY <1>0, <2>0, <2>1 DEF Record, TablesSound, Ids
    <3>2. \A i \in 1..made' : born'[i] \in Messages /\ (i \in 1..made => born'[i] = born[i])
      BY <1>0, <2>0, <2>1, <3>1 DEF Record, TablesSound, Ids
    <3>3. \A m \in Messages : events'[m] # None => events'[m] \in 1..made' /\ born'[events'[m]] = m /\ m \in sent'
      <4> SUFFICES ASSUME NEW m \in Messages, events'[m] # None
                   PROVE  events'[m] \in 1..made' /\ born'[events'[m]] = m /\ m \in sent'
        OBVIOUS
      <4>1. CASE m = j.does.msg
        <5>1. events'[m] = made + 1 /\ made + 1 \in 1..made' /\ born'[made + 1] = m
          BY <1>0, <2>0, <2>1, <3>1, <4>1 DEF Record, TypeOK, TablesSound, Ids
        <5> QED
          BY <2>0, <2>1, <4>1, <5>1 DEF Record, JobSound, Begun
      <4>2. CASE m # j.does.msg
        <5>1. events'[m] = events[m]
          BY <1>0, <2>0, <2>1, <4>2 DEF Record, TypeOK
        <5> QED
          BY <1>0, <2>1, <3>1, <3>2, <4>2, <5>1 DEF Record, TablesSound
      <4> QED
        BY <4>1, <4>2
    <3>4. 1..made \subseteq 1..made'
      BY <1>0, <3>1 DEF TablesSound
    <3> QED
      BY <1>0, <2>1, <3>1, <3>2, <3>3, <3>4 DEF Record, TablesSound
  <2>2. CASE Read(j)
    BY <1>0, <2>2 DEF Read, TablesSound
  <2>3. CASE Write(j)
    <3>1. index' \subseteq 1..made /\ UNCHANGED <<events, meta>>
      BY <1>0, <2>3, IndexWritten DEF Write, JobSound
    <3> QED
      BY <1>0, <2>3, <3>1 DEF Write, TablesSound
  <2>4. CASE WriteMeta(j)
    <3>1. j.name # None
      BY <2>0, <2>4 DEF WriteMeta, JobSound, Begun, Steps
    <3> QED
      BY <1>0, <2>0, <2>4, <3>1 DEF WriteMeta, TypeOK, TablesSound
  <2>5. CASE Send(j)
    <3>1. j.id \in 1..made /\ j.id \in Ids
      BY <1>0, <2>0, <2>5 DEF Send, TablesSound, Ids
    <3>2. j.does.cmd = "publish" => meta[j.id] # None
      BY <2>0, <2>5 DEF Send, JobSound, Begun
    <3>3. \A w \in Outgoing(j) : w.id \in 1..made /\ (w.act \in {"create", "update"} => w.file \in Files /\ w.name \in VideoNames)
      <4> SUFFICES ASSUME NEW w \in Outgoing(j)
                   PROVE  w.id \in 1..made /\ (w.act \in {"create", "update"} => w.file \in Files /\ w.name \in VideoNames)
        OBVIOUS
      <4>1. w.id = j.id /\ (w.act \in {"create", "update"} =>
                              w.file \in Files /\ w.name = j.name /\ j.does.cmd # "unpublish")
        BY <2>0, <3>1, Outgoings
      <4>2. j.does.cmd # "unpublish" => j.name \in VideoNames
        BY <2>0, JobFacts DEF JobSound, Begun
      <4> QED
        BY <3>1, <4>1, <4>2
    <3>4. \A w \in wires' : w.id \in 1..made /\ (w.act \in {"create", "update"} => w.file \in Files /\ w.name \in VideoNames)
      BY <1>0, <2>5, <3>3 DEF Send, TablesSound
    <3>5. told' \subseteq 1..made /\ retracted' \subseteq 1..made /\ \A i \in told' : meta[i] # None
      BY <1>0, <2>5, <3>1, <3>2 DEF Send, TablesSound
    <3> QED
      BY <1>0, <2>5, <3>4, <3>5 DEF Send, TablesSound
  <2>6. CASE Delete(j)
    BY <1>0, <2>0, <2>6 DEF Delete, TypeOK, TablesSound
  <2>7. CASE Halt(j)
    <3>1. index' \subseteq 1..made
      BY <1>0, <2>0, <2>7, HaltFacts, IndexWritten DEF JobSound, TablesSound
    <3>2. \A i \in told : meta'[i] # None
      <4>1. CASE meta' = meta
        BY <1>0, <4>1 DEF TablesSound
      <4>2. CASE j.step = "put" /\ meta' = [meta EXCEPT ![j.id] = j.name]
        <5>1. j.name # None
          BY <2>0, <4>2 DEF JobSound, Begun, Steps
        <5> QED
          BY <1>0, <4>2, <5>1 DEF TypeOK, TablesSound, Ids
      <4> QED
        BY <2>7, <4>1, <4>2, HaltFacts
    <3>3. UNCHANGED <<events, sent, recent, wires, made, born, told, retracted, clashed>> /\ troubles' \in Nat
      BY <1>0, <2>7, HaltFacts DEF TablesSound
    <3> QED
      BY <1>0, <3>1, <3>2, <3>3 DEF TablesSound
  <2> QED
    BY <1>5, <2>1, <2>2, <2>3, <2>4, <2>5, <2>6, <2>7 DEF Run
<1>6. ASSUME NEW w \in wires, Deliver(w) PROVE TablesSound'
  <2>1. troubles' \in Nat /\ wires' \subseteq wires
    BY <1>0, <1>6 DEF Deliver, TablesSound
  <2> QED
    BY <1>0, <1>6, <2>1 DEF Deliver, TablesSound
<1>7. CASE Crash
  <2>1. /\ UNCHANGED <<made, born, told, retracted, clashed, sent, events, index, meta>>
        /\ wires' = {} /\ recent' = FALSE /\ troubles' = troubles + 1
    BY <1>7 DEF Crash
  <2>2. troubles' \in Nat
    BY <1>0, <2>1 DEF TablesSound
  <2>2a. recent' \in BOOLEAN
    BY <2>1, Zenon
  <2>3. \A w \in wires' : w.id \in 1..made /\ (w.act \in {"create", "update"} => w.file \in Files /\ w.name \in VideoNames)
    BY <2>1
  <2> QED
    BY <1>0, <2>1, <2>2, <2>2a, <2>3 DEF TablesSound
<1>8. CASE UNCHANGED videosVars
  BY <1>0, <1>8 DEF videosVars, TablesSound
<1> QED
  BY <1>1, <1>2, <1>3, <1>4, <1>5, <1>6, <1>7, <1>8 DEF VideosNext

-----------------------------------------------------------------------------
(* Commands keep what they brought along. *)

\* A job that did not move.
BegunFrame == /\ made' \in Nat /\ made <= made' /\ sent \subseteq sent'
              /\ \A i \in 1..made : born'[i] = born[i] /\ (meta[i] # None => meta'[i] # None)
LEMMA BegunStays ==
  ASSUME BegunFrame, made \in Nat, NEW j \in jobs, Begun(j),
         j.by # "widget" => chat' = chat /\ (recent => recent')
  PROVE  Begun(j)'
<1>1. 1..made \subseteq 1..made'
  BY DEF BegunFrame
<1> QED
  BY <1>1 DEF Begun, BegunFrame

LEMMA BegunHold ==
  ASSUME Grounds, [VideosNext]_videosVars
  PROVE  (\A k \in jobs : Begun(k))'
<1> USE VideosAssumption DEF Bounds, Places, Histories
<1>0. /\ TypeOK /\ TablesSound /\ made \in Nat
      /\ \A k \in jobs : k \in Job /\ Begun(k) /\ k.does \in Command /\ k.does.msg \in Messages
  BY JobFacts, CommandFacts DEF Grounds, TypeOK, JobSound, TablesSound
<1>0a. TypeOK' /\ TablesSound' /\ made' \in Nat
  BY TypesHold, TablesHold DEF TablesSound
<1> SUFFICES ASSUME NEW k \in jobs' PROVE Begun(k)'
  OBVIOUS
<1>1. ASSUME NEW c \in Command, Ask(c) PROVE Begun(k)'
  <2>1. k \in jobs /\ k.by = "widget"
    \* Nobody runs a command of the chat while it has none.
    <3>1. k \in jobs /\ k.does \in Command
      BY <1>0, <1>1 DEF Ask
    <3> QED
      BY <1>0, <1>1, <3>1, NoneAssumption DEF Ask, Begun
  <2> QED
    BY <1>0, <1>0a, <1>1, <2>1, BegunStays DEF Ask, BegunFrame
<1>2. ASSUME NEW c \in Command, PressPublish(c) PROVE Begun(k)'
  <2>1. CASE k \in jobs
    BY <1>0, <1>0a, <1>2, <2>1, BegunStays DEF PressPublish, BegunFrame
  <2>2. CASE k = Start("widget", c)
    <3>1. k.does = c /\ k.step = "record" /\ k.seen = {} /\ k.name = "first" /\ k.by = "widget"
      BY <1>0, <1>2, <2>2, StartFacts, CommandFacts DEF PressPublish, First, NameFor, VideoNames
    <3> QED
      BY <1>0, <1>0a, <1>2, <3>1 DEF PressPublish, Begun, Steps, VideoNames
  <2> QED
    BY <1>2, <2>1, <2>2 DEF PressPublish
<1>3. ASSUME NEW c \in Command, PressChange(c) PROVE Begun(k)'
  <2>1. CASE k \in jobs
    BY <1>0, <1>0a, <1>3, <2>1, BegunStays DEF PressChange, BegunFrame
  <2>2. CASE k = Start("widget", c)
    <3>1. k.does = c /\ k.step = First(c) /\ k.seen = {} /\ k.name = NameFor(c) /\ k.by = "widget" /\ k.id = events[c.msg]
          /\ k.step \in Steps(c.cmd) /\ c.msg \in Messages
      BY <1>0, <2>2, StartFacts, CommandFacts
    <3>2. Published(c.msg) /\ (c.cmd # "unpublish" => NameFor(c) # None)
      BY <1>3 DEF PressChange, Editable, Retractable
    <3>3. k.id \in 1..made /\ born[k.id] = c.msg /\ c.msg \in sent
      BY <1>0, <3>1, <3>2 DEF Published, TablesSound
    <3>4. c.cmd # "publish"
      BY <1>3 DEF PressChange
    <3> QED
      BY <1>0, <1>0a, <1>3, <3>1, <3>2, <3>3, <3>4 DEF PressChange, Begun
  <2> QED
    BY <1>3, <2>1, <2>2 DEF PressChange
<1>4. CASE Take
  <2>0. chat \in Command /\ chat # None
    BY <1>0, <1>4 DEF Take, TypeOK
  <2>1. CASE k \in jobs
    <3>1. k.by # "widget" => chat' = chat
      BY <1>4, <2>1 DEF Take, ChatJobs
    <3>2. recent => recent'
      BY <1>4, Zenon DEF Take
    <3>3. BegunFrame
      BY <1>0, <1>0a, <1>4 DEF Take, BegunFrame
    <3> QED
      BY <1>0, <2>1, <3>1, <3>2, <3>3, BegunStays
  <2>2. CASE k \notin jobs
    <3>1. PICK by \in {"chat", "again"} : k = Start(by, chat)
      BY <1>4, <2>2 DEF Take
    <3>2. Unseen /\ Accepted(chat) /\ chat' = chat /\ recent' = (recent \/ chat.cmd = "publish")
      BY <1>4, <2>2 DEF Take
    <3>3. k.does = chat /\ k.step = First(chat) /\ k.seen = {} /\ k.name = NameFor(chat) /\ k.by = by
          /\ k.id = events[chat.msg] /\ k.step \in Steps(chat.cmd) /\ chat.msg \in Messages
          /\ chat.cmd \in {"publish", "edit", "unpublish", "replace"}
      BY <1>0, <2>0, <3>1, StartFacts, CommandFacts
    <3>4. chat.cmd # "unpublish" => NameFor(chat) # None
      BY <3>2, <3>3 DEF Accepted, Publishable, Editable, Replaceable
    <3>5. chat.cmd = "publish" => k.step = "record" /\ chat.msg \in sent
      BY <3>2, <3>3 DEF Accepted, Publishable, First
    <3>6. chat.cmd # "publish" => k.id \in 1..made /\ born[k.id] = chat.msg /\ chat.msg \in sent
      <4>1. chat.cmd # "publish" => Published(chat.msg)
        BY <3>2, <3>3 DEF Accepted, Editable, Retractable, Replaceable
      <4> QED
        BY <1>0, <3>3, <4>1 DEF Published, TablesSound
    <3>7. UNCHANGED <<made, sent, born, meta>>
      BY <1>4 DEF Take
    <3> QED
      BY <1>0, <1>0a, <3>2, <3>3, <3>4, <3>5, <3>6, <3>7 DEF Begun
  <2> QED
    BY <2>1, <2>2
<1>5. ASSUME NEW j \in jobs, Run(j) PROVE Begun(k)'
  <2>0. /\ j \in Job /\ j.does \in Command /\ j.does.msg \in Messages /\ Begun(j)
        /\ j.by \in {"chat", "again", "widget"}
        /\ j.does.cmd \in {"publish", "edit", "unpublish", "replace"}
    BY <1>0, JobFacts, CommandFacts
  <2>1. BegunFrame
    <3>1. CASE Record(j)
      BY <1>0, <1>0a, <3>1 DEF Record, TablesSound, Ids, BegunFrame
    <3>2. CASE WriteMeta(j)
      <4>1. j.name # None
        BY <2>0, <3>2 DEF WriteMeta, Begun, Steps
      <4> QED
        BY <1>0, <1>0a, <2>0, <3>2, <4>1 DEF WriteMeta, TypeOK, TablesSound, BegunFrame, Ids
    <3>3. CASE Halt(j)
      <4>1. j.step = "put" => j.name # None
        BY <2>0 DEF Begun, Steps
      <4>2. \A i \in 1..made : i \in Ids /\ (meta[i] # None => meta'[i] # None)
        BY <1>0, <3>3, <4>1, HaltFacts DEF TypeOK, TablesSound, Ids
      <4> QED
        BY <1>0, <3>3, <4>2, HaltFacts DEF BegunFrame
    <3> QED
      BY <1>0, <1>0a, <1>5, <3>1, <3>2, <3>3 DEF Run, Read, Write, WriteIndex, Send, Delete, BegunFrame
  <2>2. recent' = recent
    BY <1>5, HaltFacts DEF Run, Record, Read, Write, WriteMeta, Send, Delete
  <2>3. CASE k \in jobs
    <3>1. k.by # "widget" => chat' = chat
      \* The chat's command lasts as long as one of its runs.
      <4>1. Onward(j, j) \/ chat' = chat \/ Ended(j)
        BY <1>5, HaltFacts DEF Run, Record, Read, Write, WriteMeta, Send, Delete, Onward
      <4>2. CASE Ended(j)
        BY <2>3, <4>2 DEF Ended, ChatJobs
      <4> QED
        BY <4>1, <4>2 DEF Onward
    <3> QED
      BY <1>0, <1>0a, <2>1, <2>2, <2>3, <3>1, BegunStays
  <2>4. CASE k \notin jobs
    <3>1. CASE Record(j)
      <4>1. k = [j EXCEPT !.id = made + 1, !.step = "read"]
        BY <2>4, <3>1 DEF Record, Onward
      <4>2. k.does = j.does /\ k.by = j.by /\ k.name = j.name /\ k.seen = j.seen /\ k.id = made + 1 /\ k.step = "read"
        BY <2>0, <4>1 DEF Job
      <4>3. made + 1 \in 1..made' /\ born'[made + 1] = j.does.msg /\ 1..made \subseteq 1..made'
        BY <1>0, <3>1 DEF Record, TablesSound, Ids
      <4>4. "read" \in Steps(j.does.cmd) /\ chat' = chat /\ sent' = sent
        BY <2>0, <3>1 DEF Record, Onward, Begun, Steps
      <4> QED
        BY <2>0, <2>2, <4>2, <4>3, <4>4 DEF Begun
    <3>2. CASE Read(j)
      <4>1. PICK s \in {index, {}} : k = [j EXCEPT !.seen = s, !.step = "write"]
        BY <2>4, <3>2 DEF Read, Onward
      <4>2. k.does = j.does /\ k.by = j.by /\ k.name = j.name /\ k.seen \in {index, {}} /\ k.id = j.id /\ k.step = "write"
        BY <2>0, <4>1 DEF Job
      <4>3. "write" \in Steps(j.does.cmd)
        BY <2>0, <3>2 DEF Read, Begun, Steps
      <4>4. UNCHANGED <<made, sent, born, meta, chat>> /\ index \subseteq 1..made /\ j.step = "read"
        BY <1>0, <3>2 DEF Read, Onward, TablesSound
      <4> QED
        BY <2>0, <2>2, <4>2, <4>3, <4>4 DEF Begun
    <3>3. CASE Write(j)
      <4>1. k = [j EXCEPT !.step = "put"] /\ j.does.cmd = "publish" /\ chat' = chat
        BY <2>4, <3>3 DEF Write, Onward, Ended
      <4>2. k.does = j.does /\ k.by = j.by /\ k.name = j.name /\ k.seen = j.seen /\ k.id = j.id /\ k.step = "put"
        BY <2>0, <4>1 DEF Job
      <4>3. UNCHANGED <<made, sent, born, meta>> /\ j.step = "write"
        BY <3>3 DEF Write, WriteIndex
      <4> QED
        BY <2>0, <2>2, <4>1, <4>2, <4>3 DEF Begun, Steps
    <3>4. CASE WriteMeta(j)
      <4>1. k = [j EXCEPT !.step = "send"] /\ chat' = chat
        BY <2>4, <3>4 DEF WriteMeta, Onward
      <4>2. k.does = j.does /\ k.by = j.by /\ k.name = j.name /\ k.seen = j.seen /\ k.id = j.id /\ k.step = "send"
        BY <2>0, <4>1 DEF Job
      <4>3. "send" \in Steps(j.does.cmd) /\ j.name # None /\ j.id \in Ids
        BY <1>0, <2>0, <3>4 DEF WriteMeta, Begun, Steps, TablesSound, Ids
      <4>4. UNCHANGED <<made, sent, born>> /\ meta'[j.id] = j.name /\ j.step = "put"
        BY <1>0, <3>4, <4>3 DEF WriteMeta, TypeOK
      <4> QED
        BY <2>0, <2>2, <4>1, <4>2, <4>3, <4>4 DEF Begun
    <3>5. CASE Send(j)
      <4>1. k = [j EXCEPT !.step = "delete"] /\ j.does.cmd = "unpublish" /\ chat' = chat
        BY <2>4, <3>5 DEF Send, Onward, Ended
      <4>2. k.does = j.does /\ k.by = j.by /\ k.name = j.name /\ k.seen = j.seen /\ k.id = j.id /\ k.step = "delete"
        BY <2>0, <4>1 DEF Job
      <4>3. UNCHANGED <<made, sent, born, meta>> /\ j.step = "send"
        BY <3>5 DEF Send
      <4> QED
        BY <2>0, <2>2, <4>1, <4>2, <4>3 DEF Begun, Steps
    <3>6. CASE Delete(j)
      <4>1. k = [j EXCEPT !.step = "read"] /\ chat' = chat
        BY <2>4, <3>6 DEF Delete, Onward
      <4>2. k.does = j.does /\ k.by = j.by /\ k.name = j.name /\ k.seen = j.seen /\ k.id = j.id /\ k.step = "read"
        BY <2>0, <4>1 DEF Job
      <4>3. UNCHANGED <<made, sent, born, meta>> /\ j.step = "delete"
        BY <3>6 DEF Delete
      <4>4. "read" \in Steps(j.does.cmd)
        BY <2>0, <4>3 DEF Begun, Steps
      <4> QED
        BY <2>0, <2>2, <4>1, <4>2, <4>3, <4>4 DEF Begun
    <3>7. CASE Halt(j)
      BY <2>4, <3>7, HaltFacts
    <3> QED
      BY <1>5, <3>1, <3>2, <3>3, <3>4, <3>5, <3>6, <3>7 DEF Run
  <2> QED
    BY <2>3, <2>4
<1>6. ASSUME NEW w \in wires, Deliver(w) PROVE Begun(k)'
  BY <1>0, <1>0a, <1>6, BegunStays DEF Deliver, BegunFrame
<1>7. CASE Crash
  BY <1>7 DEF Crash
<1>8. CASE UNCHANGED videosVars
  BY <1>0, <1>0a, <1>8, BegunStays DEF videosVars, BegunFrame
<1> QED
  BY <1>1, <1>2, <1>3, <1>4, <1>5, <1>6, <1>7, <1>8 DEF VideosNext

-----------------------------------------------------------------------------
(* Commands at one message stay together. *)

\* When a job moves on or ends.
LEMMA TogetherStays ==
  ASSUME NEW j \in jobs, NEW n, n.does = j.does, jobs' \subseteq (jobs \ {j}) \cup {n},
         \A x \in jobs : x.does.msg \notin clashed => Together(x),
         NEW k \in jobs', k.does.msg \notin clashed
  PROVE  Together(k)'
<1> SUFFICES ASSUME NEW l \in jobs', l.does.msg = k.does.msg
             PROVE  l.does = k.does /\ (k.does.cmd = "publish" => l = k)
  BY DEF Together, At
<1>1. PICK was \in jobs : was.does = k.does /\ ((was = k /\ k # j) \/ (was = j /\ k = n))
  OBVIOUS
<1>2. PICK old \in jobs : old.does = l.does /\ ((old = l /\ l # j) \/ (old = j /\ l = n))
  OBVIOUS
<1>3. old \in At(was.does.msg) /\ Together(was)
  BY <1>1, <1>2 DEF At
<1>4. old.does = was.does /\ (was.does.cmd = "publish" => old = was)
  BY <1>3 DEF Together
<1> QED
  BY <1>1, <1>2, <1>4

\* When a command begins.
LEMMA TogetherStarts ==
  ASSUME NEW c, NEW by, Start(by, c).does = c,
         jobs' = jobs \cup {Start(by, c)}, clashed' = Collide(by, c),
         \A x \in jobs : x.does.msg \notin clashed => Together(x),
         by = "again" => c.cmd # "publish" /\ \E x \in jobs : x.does = c,
         NEW k \in jobs', k.does.msg \notin clashed'
  PROVE  Together(k)'
<1> DEFINE n == Start(by, c)
<1>0. n.does = c
  OBVIOUS
<1> HIDE DEF n
<1>1. /\ jobs' = jobs \cup {n} /\ k.does.msg \notin clashed
      /\ c.msg = k.does.msg => by = "again" \/ At(c.msg) = {}
  BY DEF Collide, n
<1> SUFFICES ASSUME NEW l \in jobs', l.does.msg = k.does.msg
             PROVE  l.does = k.does /\ (k.does.cmd = "publish" => l = k)
  BY DEF Together, At
<1>2. CASE k \in jobs /\ l \in jobs
  BY <1>1, <1>2 DEF Together, At
<1>3. CASE k = n /\ l = n
  BY <1>3
<1>4. CASE (k = n \/ l = n) /\ (k \in jobs \/ l \in jobs) /\ l # k
  <2>1. c.msg = k.does.msg /\ At(c.msg) # {}
    BY <1>0, <1>4 DEF At
  <2>2. PICK x \in jobs : x.does = c
    BY <1>1, <2>1
  <2>3. c.cmd # "publish" /\ Together(x)
    BY <1>1, <2>1, <2>2
  <2>4. \A y \in jobs : y.does.msg = c.msg => y.does = c
    BY <2>2, <2>3 DEF Together, At
  <2> QED
    BY <1>0, <1>1, <1>4, <2>1, <2>3, <2>4
<1> QED
  BY <1>0, <1>1, <1>2, <1>3, <1>4

LEMMA TogetherHold ==
  ASSUME Grounds, [VideosNext]_videosVars
  PROVE  (\A k \in jobs : k.does.msg \notin clashed => Together(k))'
<1>0. /\ TypeOK /\ TablesSound
      /\ \A k \in jobs : k \in Job /\ Begun(k) /\ k.does \in Command /\ (k.does.msg \notin clashed => Together(k))
  BY JobFacts DEF Grounds, TypeOK, JobSound
<1> SUFFICES ASSUME NEW k \in jobs', k.does.msg \notin clashed' PROVE Together(k)'
  OBVIOUS
<1>1. CASE jobs' \subseteq jobs /\ clashed' = clashed
  BY <1>0, <1>1 DEF Together, At
<1>2. ASSUME NEW c \in Command, PressPublish(c) PROVE Together(k)'
  <2>1. Start("widget", c).does = c
    BY <1>0, StartFacts
  <2>2. clashed' = clashed /\ jobs' = jobs \cup {Start("widget", c)} /\ c.msg \notin sent
    BY <1>2 DEF PressPublish, Histories
  <2>3. At(c.msg) = {}
    BY <1>0, <2>2 DEF At, Begun
  <2>4. clashed' = Collide("widget", c)
    BY <2>2, <2>3 DEF Collide
  <2> QED
    BY <1>0, <2>1, <2>2, <2>4, TogetherStarts
<1>3. ASSUME NEW c \in Command, PressChange(c) PROVE Together(k)'
  BY <1>0, <1>3, StartFacts, TogetherStarts DEF PressChange
<1>4. CASE Take /\ jobs' # jobs
  <2>1. chat \in Command
    BY <1>0, <1>4 DEF Take, TypeOK
  <2>2. PICK by \in {"chat", "again"} : /\ by = IF ChatJobs = {} THEN "chat" ELSE "again"
                                        /\ jobs' = jobs \cup {Start(by, chat)} /\ clashed' = Collide(by, chat)
                                        /\ Unseen
    BY <1>4 DEF Take
  <2>3. by = "again" => chat.cmd # "publish" /\ \E x \in jobs : x.does = chat
    <3> SUFFICES ASSUME by = "again" PROVE chat.cmd # "publish" /\ \E x \in jobs : x.does = chat
      OBVIOUS
    <3>1. PICK x \in jobs : x.by # "widget"
      BY <2>2 DEF ChatJobs
    <3>2. x.does = chat /\ (chat.cmd = "publish" => recent)
      BY <1>0, <3>1 DEF Begun
    <3> QED
      BY <2>2, <3>2 DEF Unseen
  <2>4. Start(by, chat).does = chat
    BY <1>0, <2>1, StartFacts
  <2> QED
    BY <1>0, <2>2, <2>3, <2>4, TogetherStarts
<1>5. ASSUME NEW j \in jobs, Run(j) PROVE Together(k)'
  <2>1. clashed' = clashed
    BY <1>5, HaltFacts DEF Run, Record, Read, Write, WriteMeta, Send, Delete, Histories
  <2>2. PICK n : n.does = j.does /\ jobs' \subseteq (jobs \ {j}) \cup {n}
    <3>1. j \in Job
      BY <1>0
    <3>2. CASE Ended(j)
      BY <3>2 DEF Ended
    <3>3. \A i, s, t : /\ [j EXCEPT !.id = i, !.step = t].does = j.does
                       /\ [j EXCEPT !.seen = s, !.step = t].does = j.does
                       /\ [j EXCEPT !.step = t].does = j.does
      <4>1. ASSUME NEW i, NEW t PROVE [j EXCEPT !.id = i, !.step = t].does = j.does
        BY <3>1 DEF Job
      <4>2. ASSUME NEW s, NEW t PROVE [j EXCEPT !.seen = s, !.step = t].does = j.does
        BY <3>1 DEF Job
      <4>3. ASSUME NEW t PROVE [j EXCEPT !.step = t].does = j.does
        BY <3>1 DEF Job
      <4> QED
        BY <4>1, <4>2, <4>3
    <3>10. ASSUME NEW n, Onward(j, n), n.does = j.does
           PROVE  \E x : x.does = j.does /\ jobs' \subseteq (jobs \ {j}) \cup {x}
      BY <3>10 DEF Onward
    <3>4. CASE Record(j)
      <4>1. Onward(j, [j EXCEPT !.id = made + 1, !.step = "read"])
        BY <3>4 DEF Record
      <4> QED
        BY <3>3, <3>10, <4>1
    <3>5. CASE Read(j)
      <4>1. PICK s : Onward(j, [j EXCEPT !.seen = s, !.step = "write"])
        BY <3>5 DEF Read
      <4> QED
        BY <3>3, <3>10, <4>1
    <3>6. CASE WriteMeta(j)
      BY <3>3, <3>6 DEF WriteMeta, Onward
    <3>7. CASE Delete(j)
      BY <3>3, <3>7 DEF Delete, Onward
    <3>8. CASE Write(j) /\ ~ Ended(j)
      BY <3>3, <3>8 DEF Write, Onward
    <3>9. CASE Send(j) /\ ~ Ended(j)
      BY <3>3, <3>9 DEF Send, Onward
    <3> QED
      BY <1>5, <3>2, <3>4, <3>5, <3>6, <3>7, <3>8, <3>9, HaltFacts DEF Run
  <2> QED
    BY <1>0, <2>1, <2>2, TogetherStays
<1>6. ASSUME NEW c \in Command, Ask(c) PROVE Together(k)'
  BY <1>6, <1>1 DEF Ask, Histories
<1>7. ASSUME NEW w \in wires, Deliver(w) PROVE Together(k)'
  BY <1>7, <1>1 DEF Deliver
<1>8. CASE Take /\ jobs' = jobs
  <2>1. clashed \subseteq clashed'
    BY <1>8 DEF Take, Collide
  <2> QED
    BY <1>0, <1>8, <2>1 DEF Together, At
<1>9. CASE Crash
  BY <1>9 DEF Crash
<1>10. CASE UNCHANGED videosVars
  BY <1>10, <1>1 DEF videosVars
<1> QED
  BY <1>2, <1>3, <1>4, <1>5, <1>6, <1>7, <1>8, <1>9, <1>10 DEF VideosNext

-----------------------------------------------------------------------------
(* Nobody changes what a command relies on. *)

LEMMA KeptStays ==
  ASSUME NEW k \in jobs, k.step \in Steps(k.does.cmd), Kept(k), events'[k.does.msg] = events[k.does.msg],
         k.step # "record" => /\ meta'[k.id] = meta[k.id]
                              /\ k.id \in told' <=> k.id \in told
                              /\ k.id \in retracted' <=> k.id \in retracted
  PROVE  Kept(k)'
<1>1. k.does.cmd \in {"edit", "unpublish", "replace"} => k.step # "record"
  BY DEF Steps
<1> QED
  BY <1>1 DEF Kept

\* A command that was accepted has what it relies on.
LEMMA KeptStarts ==
  ASSUME TypeOK, NEW c \in Command, NEW by \in {"chat", "again", "widget"}, NameFor(c) # None \/ c.cmd = "unpublish",
         c.cmd = "publish" <=> events[c.msg] = None, UNCHANGED <<events, meta, told, retracted>>,
         NEW k, k = Start(by, c)
  PROVE  Kept(k)'
<1>1. /\ k.does = c /\ k.id = events[c.msg] /\ k.step = First(c) /\ k.name = NameFor(c)
      /\ c.cmd \in {"publish", "edit", "unpublish", "replace"}
      /\ c.cmd = "replace" => c.name = None
  BY StartFacts, CommandFacts
<1>2. c.cmd # "publish" => NameFor(c) = IF c.name = None THEN meta[k.id] ELSE c.name
  BY <1>1 DEF NameFor, Published
<1>3. /\ c.cmd = "publish" => k.step = "record"
      /\ c.cmd = "edit" => k.step = "put"
      /\ c.cmd \in {"unpublish", "replace"} => k.step = "send"
  BY <1>1 DEF First
<1>4. Kept(k)
  BY <1>1, <1>2, <1>3 DEF Kept
<1> QED
  BY <1>4 DEF Kept

LEMMA KeptHold ==
  ASSUME Grounds, [VideosNext]_videosVars
  PROVE  (\A k \in jobs : k.does.msg \notin clashed => Kept(k))'
<1> USE DEF Bounds, Places, Histories
<1>0. /\ TypeOK /\ TablesSound
      /\ \A k \in jobs : /\ k \in Job /\ Begun(k) /\ k.does \in Command /\ k.does.msg \in Messages
                         /\ k.step \in Steps(k.does.cmd)
                         /\ k.does.msg \notin clashed => Together(k) /\ Kept(k)
  BY JobFacts, CommandFacts DEF Grounds, TypeOK, JobSound, Begun
<1> SUFFICES ASSUME NEW k \in jobs', k.does.msg \notin clashed' PROVE Kept(k)'
  OBVIOUS
<1>1. CASE k \in jobs /\ UNCHANGED <<events, meta, told, retracted>> /\ k.does.msg \notin clashed
  BY <1>0, <1>1, KeptStays
<1>2. ASSUME NEW c \in Command, PressPublish(c) PROVE Kept(k)'
  <2>1. events[c.msg] = None /\ c.cmd = "publish" /\ NameFor(c) # None
    BY <1>0, <1>2, CommandFacts, VideosAssumption DEF PressPublish, TablesSound, NameFor, VideoNames
  <2>2. CASE k = Start("widget", c)
    BY <1>0, <1>2, <2>1, <2>2, KeptStarts DEF PressPublish
  <2> QED
    BY <1>1, <1>2, <2>2 DEF PressPublish
<1>3. ASSUME NEW c \in Command, PressChange(c) PROVE Kept(k)'
  <2>1. events[c.msg] # None /\ c.cmd # "publish" /\ (NameFor(c) # None \/ c.cmd = "unpublish")
    BY <1>3 DEF PressChange, Editable, Retractable, Published
  <2>2. CASE k = Start("widget", c)
    BY <1>0, <1>3, <2>1, <2>2, KeptStarts DEF PressChange
  <2>3. clashed \subseteq clashed'
    BY <1>3 DEF PressChange, Collide
  <2> QED
    BY <1>1, <1>3, <2>2, <2>3 DEF PressChange
<1>4. CASE Take
  <2>1. chat \in Command
    BY <1>0, <1>4 DEF Take, TypeOK
  <2>2. clashed \subseteq clashed' /\ UNCHANGED <<events, meta, told, retracted>>
    BY <1>4 DEF Take, Collide
  <2>3. CASE k \in jobs
    BY <1>1, <2>2, <2>3
  <2>4. CASE k \notin jobs
    <3>1. PICK by \in {"chat", "again"} : k = Start(by, chat) /\ Accepted(chat)
      BY <1>4, <2>4 DEF Take
    <3>2. /\ chat.cmd = "publish" <=> events[chat.msg] = None
          /\ NameFor(chat) # None \/ chat.cmd = "unpublish"
      BY <2>1, <3>1, CommandFacts DEF Accepted, Publishable, Editable, Retractable, Replaceable, Published
    <3> QED
      BY <1>0, <2>1, <2>2, <3>1, <3>2, KeptStarts
  <2> QED
    BY <2>3, <2>4
<1>5. ASSUME NEW j \in jobs, Run(j) PROVE Kept(k)'
  <2>0. /\ j \in Job /\ j.does \in Command /\ j.does.msg \in Messages /\ Begun(j)
        /\ j.does.cmd \in {"publish", "edit", "unpublish", "replace"} /\ j.id \in Ids \cup {None}
        /\ clashed' = clashed
    BY <1>0, <1>5, JobFacts, CommandFacts, HaltFacts DEF Run, Record, Read, Write, WriteMeta, Send, Delete
  <2>1. ASSUME k \in jobs, k # j PROVE Kept(k)'
    <3>0. Kept(k) /\ Together(k) /\ Begun(k) /\ k \in Job /\ k.step \in Steps(k.does.cmd) /\ k.does.msg \in Messages
          /\ k.does.cmd \in {"publish", "edit", "unpublish", "replace"}
      BY <1>0, <2>0, <2>1, CommandFacts
    <3>1. j.does.msg = k.does.msg => j.does = k.does /\ k.does.cmd # "publish"
      BY <2>1, <3>0 DEF Together, At
    <3>2. k.step # "record" /\ j.step # "record" /\ j.id = k.id => j.does.msg = k.does.msg
      BY <2>0, <3>0 DEF Begun
    <3>2a. (k.step # "record" => k.id \in Ids) /\ (j.step # "record" => j.id \in Ids)
      BY <1>0, <2>0, <3>0, VideosAssumption DEF Begun, TablesSound, Ids
    <3>3. CASE Record(j)
      <4>1. j.does.msg # k.does.msg
        BY <2>0, <3>1, <3>3 DEF Record, Begun, Steps
      <4> QED
        BY <1>0, <2>1, <3>0, <3>3, <4>1, KeptStays DEF Record, TypeOK
    \* The metadata is written, and the command goes on or fails.
    <3>4. ASSUME j.step = "put", meta' = [meta EXCEPT ![j.id] = j.name], UNCHANGED <<events, told, retracted>>
          PROVE  Kept(k)'
      <4>1. CASE k.step # "record" /\ j.id = k.id
        <5>1. /\ j.does = k.does /\ k.does.cmd = "edit" /\ meta'[k.id] = j.name /\ j.step = "put"
              /\ UNCHANGED <<events, told, retracted>>
          BY <1>0, <2>0, <3>0, <3>1, <3>2, <3>2a, <3>4, <4>1 DEF Begun, Steps, TypeOK
        <5>2. Kept(j)
          BY <1>0, <2>0, <3>1, <3>2, <3>4, <4>1, <5>1
        <5>3. k.name = j.name
          BY <3>0, <4>1, <5>1, <5>2 DEF Kept
        <5> QED
          BY <3>0, <5>1, <5>2, <5>3 DEF Kept
      <4>2. CASE k.step = "record" \/ j.id # k.id
        <5>1. k.step # "record" => meta'[k.id] = meta[k.id]
          BY <1>0, <3>2a, <3>4, <4>2 DEF TypeOK
        <5> QED
          BY <2>1, <3>0, <3>4, <5>1, KeptStays
      <4> QED
        BY <4>1, <4>2
    <3>5. CASE Send(j)
      <4>1. CASE k.step # "record" /\ j.id = k.id
        <5>1. j.does = k.does /\ k.does.cmd # "publish"
          BY <3>1, <3>2, <3>5, <4>1 DEF Send
        <5>2. UNCHANGED <<events, meta>> /\ retracted \subseteq retracted'
          BY <3>5 DEF Send
        <5> QED
          BY <3>0, <5>1, <5>2 DEF Kept
      <4>2. CASE k.step = "record" \/ j.id # k.id
        <5>1. k.step # "record" => (k.id \in told' <=> k.id \in told) /\ (k.id \in retracted' <=> k.id \in retracted)
          BY <3>5, <4>2 DEF Send
        <5> QED
          BY <2>1, <3>0, <3>5, <5>1, KeptStays DEF Send
      <4> QED
        BY <4>1, <4>2
    <3>6. CASE Delete(j)
      <4>1. CASE j.does.msg = k.does.msg
        <5>1. k.does.cmd = "unpublish"
          BY <2>0, <3>1, <3>6, <4>1 DEF Delete, Begun, Steps
        <5>2. events'[k.does.msg] = None /\ UNCHANGED <<meta, told, retracted>>
          BY <1>0, <3>0, <3>6, <4>1 DEF Delete, TypeOK
        <5> QED
          BY <3>0, <5>1, <5>2 DEF Kept
      <4>2. CASE j.does.msg # k.does.msg
        BY <1>0, <2>1, <3>0, <3>6, <4>2, KeptStays DEF Delete, TypeOK
      <4> QED
        BY <4>1, <4>2
    <3>7. CASE WriteMeta(j)
      BY <3>4, <3>7 DEF WriteMeta
    <3>8. CASE Halt(j)
      BY <1>1, <2>0, <2>1, <3>4, <3>8, HaltFacts
    <3> QED
      BY <1>1, <1>5, <2>0, <2>1, <3>3, <3>5, <3>6, <3>7, <3>8 DEF Run, Read, Write, WriteIndex
  <2>2. ASSUME k \notin jobs \/ k = j PROVE Kept(k)'
    <3>0. k \notin jobs \ {j}
      BY <2>2
    <3>1. CASE Record(j)
      <4>1. k = [j EXCEPT !.id = made + 1, !.step = "read"]
        BY <3>0, <3>1 DEF Record, Onward
      <4>2. k.does = j.does /\ k.id = made + 1 /\ k.step = "read"
        BY <2>0, <4>1 DEF Job
      <4>3. j.does.cmd = "publish" /\ events'[j.does.msg] = made + 1 /\ UNCHANGED <<told, retracted>>
        BY <1>0, <2>0, <3>1 DEF Record, Begun, Steps, TypeOK
      <4>4. made + 1 \notin told \cup retracted
        BY <1>0 DEF TablesSound
      <4> QED
        BY <4>2, <4>3, <4>4 DEF Kept
    <3>2. CASE Read(j)
      <4>1. PICK s \in {index, {}} : k = [j EXCEPT !.seen = s, !.step = "write"]
        BY <3>0, <3>2 DEF Read, Onward
      <4>2. k.does = j.does /\ k.name = j.name /\ k.id = j.id /\ k.step = "write"
        BY <2>0, <4>1 DEF Job
      <4>3. UNCHANGED <<events, meta, told, retracted>> /\ j.step = "read" /\ Kept(j)
        BY <1>0, <2>0, <3>2, <4>2 DEF Read
      <4>4. j.does.cmd \in {"publish", "unpublish"}
        BY <2>0, <4>3 DEF Begun, Steps
      <4> QED
        BY <4>2, <4>3, <4>4 DEF Kept
    <3>3. CASE Write(j)
      <4>1. k = [j EXCEPT !.step = "put"] /\ j.does.cmd = "publish"
        BY <3>0, <3>3 DEF Write, Onward, Ended
      <4>2. k.does = j.does /\ k.name = j.name /\ k.id = j.id /\ k.step = "put"
        BY <2>0, <4>1 DEF Job
      <4>3. UNCHANGED <<events, meta, told, retracted>> /\ j.step = "write" /\ Kept(j)
        BY <1>0, <2>0, <3>3, <4>2 DEF Write, WriteIndex
      <4> QED
        BY <4>1, <4>2, <4>3 DEF Kept
    <3>4. CASE WriteMeta(j)
      <4>1. k = [j EXCEPT !.step = "send"]
        BY <3>0, <3>4 DEF WriteMeta, Onward
      <4>2. k.does = j.does /\ k.name = j.name /\ k.id = j.id /\ k.step = "send"
        BY <2>0, <4>1 DEF Job
      <4>3. j.step = "put" /\ j.does.cmd \in {"publish", "edit"} /\ j.id \in Ids /\ Kept(j)
        BY <1>0, <2>0, <3>4, <4>2, VideosAssumption DEF WriteMeta, Begun, Steps, TablesSound, Ids
      <4>4. UNCHANGED <<events, told, retracted>> /\ meta'[j.id] = j.name
        BY <1>0, <3>4, <4>3 DEF WriteMeta, TypeOK
      <4> QED
        BY <4>2, <4>3, <4>4 DEF Kept
    <3>5. CASE Send(j)
      <4>1. k = [j EXCEPT !.step = "delete"] /\ j.does.cmd = "unpublish"
        BY <3>0, <3>5 DEF Send, Onward, Ended
      <4>2. k.does = j.does /\ k.id = j.id /\ k.step = "delete"
        BY <2>0, <4>1 DEF Job
      <4>3. UNCHANGED <<events, meta>> /\ retracted' = retracted \cup {j.id} /\ Kept(j)
        BY <1>0, <2>0, <3>5, <4>1, <4>2 DEF Send
      <4> QED
        BY <4>1, <4>2, <4>3 DEF Kept
    <3>6. CASE Delete(j)
      <4>1. k = [j EXCEPT !.step = "read"]
        BY <3>0, <3>6 DEF Delete, Onward
      <4>2. k.does = j.does /\ k.id = j.id /\ k.step = "read"
        BY <2>0, <4>1 DEF Job
      <4>3. j.step = "delete" /\ j.does.cmd = "unpublish" /\ Kept(j)
        BY <1>0, <2>0, <3>6, <4>2 DEF Delete, Begun, Steps
      <4>4. UNCHANGED <<meta, told, retracted>> /\ events'[j.does.msg] = None
        BY <1>0, <2>0, <3>6 DEF Delete, TypeOK
      <4> QED
        BY <4>2, <4>3, <4>4 DEF Kept
    <3>7. CASE Halt(j)
      BY <3>0, <3>7, HaltFacts
    <3> QED
      BY <1>5, <3>1, <3>2, <3>3, <3>4, <3>5, <3>6, <3>7 DEF Run
  <2> QED
    BY <2>1, <2>2
<1>6. ASSUME NEW c \in Command, Ask(c) PROVE Kept(k)'
  BY <1>6, <1>1 DEF Ask
<1>7. ASSUME NEW w \in wires, Deliver(w) PROVE Kept(k)'
  BY <1>7, <1>1 DEF Deliver
<1>8. CASE Crash
  BY <1>8 DEF Crash
<1>9. CASE UNCHANGED videosVars
  BY <1>9, <1>1 DEF videosVars
<1> QED
  BY <1>2, <1>3, <1>4, <1>5, <1>6, <1>7, <1>8, <1>9 DEF VideosNext

\* What was sent out keeps its row until it is retracted.
LEMMA RowsHold ==
  ASSUME Grounds, [VideosNext]_videosVars
  PROVE  OneVideoPerMessage'
<1> USE DEF Bounds, Places, Histories
<1>0. /\ TypeOK /\ TablesSound /\ OneVideoPerMessage
      /\ \A k \in jobs : /\ k \in Job /\ Begun(k) /\ k.does \in Command /\ k.does.msg \in Messages
                         /\ k.does.msg \notin clashed => Together(k) /\ Kept(k)
  BY JobFacts, CommandFacts DEF Grounds, TypeOK, JobSound
<1> SUFFICES ASSUME NEW i \in told' \ retracted', born'[i] \notin clashed' PROVE events'[born'[i]] = i
  BY DEF OneVideoPerMessage
<1>1. CASE UNCHANGED <<events, told, retracted, born>> /\ clashed \subseteq clashed'
  BY <1>0, <1>1 DEF OneVideoPerMessage
<1>2. ASSUME NEW j \in jobs, Run(j) PROVE events'[born'[i]] = i
  <2>0. /\ j \in Job /\ Begun(j) /\ j.does.msg \in Messages /\ clashed' = clashed
        /\ j.does.cmd \in {"publish", "edit", "unpublish", "replace"}
    BY <1>0, <1>2, CommandFacts, HaltFacts DEF Run, Record, Read, Write, WriteMeta, Send, Delete
  <2>1. CASE Record(j)
    <3>1. i \in told \ retracted /\ i \in 1..made /\ i # made + 1
      BY <1>0, <2>1 DEF Record, TablesSound
    <3>2. born'[i] = born[i] /\ events[born[i]] = i
      BY <1>0, <2>0, <2>1, <3>1 DEF Record, OneVideoPerMessage, TablesSound
    <3>3. born[i] # j.does.msg
      <4>1. j.does.cmd = "publish"
        BY <2>0, <2>1 DEF Record, Begun, Steps
      <4>2. j.does.msg \notin clashed => events[j.does.msg] = None
        BY <1>0, <2>1, <4>1 DEF Record, Kept
      <4> QED
        BY <1>0, <2>0, <3>1, <3>2, <4>2, VideosAssumption DEF Ids, TablesSound
    <3>4. born[i] \in Messages
      BY <1>0, <3>1 DEF TablesSound
    <3> QED
      BY <1>0, <2>1, <3>2, <3>3, <3>4 DEF Record, TypeOK
  <2>2. CASE Send(j)
    <3>1. CASE i \in told
      BY <1>0, <2>0, <2>2, <3>1 DEF Send, OneVideoPerMessage
    <3>2. CASE i \notin told
      <4>1. i = j.id /\ j.does.cmd = "publish" /\ j.step = "send"
        BY <2>2, <3>2 DEF Send
      <4> QED
        BY <1>0, <2>0, <2>2, <4>1 DEF Send, Begun, Kept
    <3> QED
      BY <3>1, <3>2
  <2>3. CASE Delete(j)
    <3>1. i \in told \ retracted /\ born[i] \in Messages /\ events[born[i]] = i /\ born' = born
      BY <1>0, <2>0, <2>3 DEF Delete, OneVideoPerMessage, TablesSound
    <3>2. born[i] # j.does.msg
      <4>1. j.does.cmd = "unpublish" /\ j.step = "delete"
        BY <2>0, <2>3 DEF Delete, Begun, Steps
      <4>2. j.does.msg \notin clashed => events[j.does.msg] \in {j.id, None} /\ j.id \in retracted
        BY <1>0, <4>1 DEF Kept
      <4> QED
        BY <1>0, <2>0, <3>1, <4>2, VideosAssumption DEF Ids, TablesSound
    <3> QED
      BY <1>0, <2>3, <3>1, <3>2 DEF Delete, TypeOK
  <2> QED
    BY <1>1, <1>2, <2>1, <2>2, <2>3, HaltFacts DEF Run, Read, Write, WriteIndex, WriteMeta
<1>3. CASE \E c \in Command : Ask(c) \/ PressPublish(c) \/ PressChange(c)
  BY <1>1, <1>3 DEF Ask, PressPublish, PressChange, Collide
<1>4. CASE Take
  BY <1>1, <1>4 DEF Take, Collide
<1>5. CASE (\E w \in wires : Deliver(w)) \/ Crash \/ UNCHANGED videosVars
  BY <1>1, <1>5 DEF Deliver, Crash, videosVars
<1> QED
  BY <1>2, <1>3, <1>4, <1>5 DEF VideosNext

-----------------------------------------------------------------------------
(* What was sent out can be retracted. *)

LEMMA GroundsHold ==
  ASSUME Grounds, [VideosNext]_videosVars
  PROVE  Grounds'
<1>1. TypeOK' /\ TablesSound' /\ OneVideoPerMessage'
  BY TypesHold, TablesHold, RowsHold
<1>2. (\A k \in jobs : JobSound(k))'
  BY BegunHold, TogetherHold, KeptHold DEF JobSound
<1> QED
  BY <1>1, <1>2 DEF Grounds

LEMMA GroundsBegin ==
  ASSUME VideosInit
  PROVE  Grounds
<1> USE VideosAssumption DEF VideosInit
<1>1. TypeOK
  <2>1. events \in [Messages -> Ids \cup {None}] /\ meta \in [Ids -> VideoNames \cup {None}]
        /\ holds \in [Followers -> [Ids -> What \cup {None}]]
    OBVIOUS
  <2>2. sent \subseteq Messages /\ index \subseteq Ids /\ chat \in Command \cup {None}
        /\ jobs \subseteq Job /\ wires \subseteq Wire
    BY DEF Messages
  <2> QED
    BY <2>1, <2>2 DEF TypeOK
<1>2. TablesSound
  <2>1. made \in 0..MaxVideos /\ troubles \in Nat
    OBVIOUS
  <2>1a. recent \in BOOLEAN
    BY Zenon
  <2>2. born \in [Ids -> Messages \cup {None}] /\ 1..made = {}
    OBVIOUS
  <2>3. \A m \in Messages : events[m] = None
    OBVIOUS
  <2>4. index = {} /\ told = {} /\ retracted = {} /\ clashed = {} /\ wires = {}
    OBVIOUS
  <2> QED
    BY <2>1, <2>1a, <2>2, <2>3, <2>4 DEF TablesSound
<1>3. OneVideoPerMessage /\ jobs = {}
  BY DEF OneVideoPerMessage
<1> QED
  BY <1>1, <1>2, <1>3 DEF Grounds

-----------------------------------------------------------------------------
(* The channel lists what is published. *)

\* A video nothing happened to.
LEMMA IndexStays ==
  ASSUME NEW i, IndexAt(i), blurred \subseteq blurred', halted \subseteq halted', clashed \subseteq clashed',
         born'[i] = born[i], i \in blurred' \cup halted' \/ born[i] \in clashed' \/
           /\ events'[born[i]] = i <=> events[born[i]] = i
           /\ i \in index' <=> i \in index
           /\ meta[i] # None => meta'[i] # None
           /\ Running("publish", {"read", "write"}, i) => Running("publish", {"read", "write"}, i)'
           /\ Running("publish", {"read", "write", "put"}, i) => Running("publish", {"read", "write", "put"}, i)'
           /\ Running("unpublish", {"read", "write"}, i) => Running("unpublish", {"read", "write"}, i)'
  PROVE  IndexAt(i)'
BY DEF IndexAt

\* What the grounds say of the jobs.
LEMMA GroundFacts ==
  ASSUME Grounds
  PROVE  /\ TypeOK /\ TablesSound /\ OneVideoPerMessage
         /\ made \in Nat /\ 1..made \subseteq Ids
         /\ \A k \in jobs : /\ k \in Job /\ Begun(k) /\ k.does \in Command /\ k.does.msg \in Messages
                            /\ k.step \in Steps(k.does.cmd)
                            /\ k.does.msg \notin clashed => Together(k) /\ Kept(k)
<1>1. TypeOK /\ TablesSound /\ OneVideoPerMessage /\ \A k \in jobs : JobSound(k)
  BY DEF Grounds
<1>2. made \in Nat /\ 1..made \subseteq Ids
  BY <1>1, VideosAssumption DEF TablesSound, Ids
<1>3. ASSUME NEW k \in jobs
      PROVE  /\ k \in Job /\ Begun(k) /\ k.does \in Command /\ k.does.msg \in Messages
             /\ k.step \in Steps(k.does.cmd)
             /\ k.does.msg \notin clashed => Together(k) /\ Kept(k)
  <2>1. k \in Job /\ k.does \in Command
    BY <1>1, JobFacts DEF TypeOK
  <2>2. k.does.msg \in Messages
    BY <2>1, CommandFacts
  <2> QED
    BY <1>1, <2>1, <2>2 DEF JobSound, Begun
<1> QED
  BY <1>1, <1>2, <1>3

LEMMA IndexHold ==
  ASSUME Grounds, Grounds', IndexSound, [VideosNext]_videosVars
  PROVE  IndexSound'
<1> USE DEF Bounds, Places, Histories
<1>0. /\ TypeOK /\ TablesSound /\ made \in Nat /\ 1..made \subseteq Ids /\ None \notin Ids
      /\ \A k \in jobs : /\ k \in Job /\ Begun(k) /\ k.does \in Command /\ k.does.msg \in Messages
                         /\ k.step \in Steps(k.does.cmd)
                         /\ k.does.msg \notin clashed => Together(k) /\ Kept(k)
  <2>1. None \notin Ids
    BY VideosAssumption
  <2> QED
    BY <2>1, GroundFacts
<1> SUFFICES ASSUME NEW i \in 1..made' PROVE IndexAt(i)'
  BY DEF IndexSound
<1>1. CASE /\ UNCHANGED <<events, index, meta, born, made>> /\ clashed \subseteq clashed'
           /\ blurred \subseteq blurred' /\ halted \subseteq halted' /\ jobs \subseteq jobs'
  BY <1>1, IndexStays DEF IndexSound, Running
<1>2. ASSUME NEW j \in jobs, Run(j) PROVE IndexAt(i)'
  <2>0. /\ j \in Job /\ Begun(j) /\ j.does.msg \in Messages
        /\ clashed' = clashed /\ blurred \subseteq blurred' /\ halted \subseteq halted'
        /\ j.does.cmd \in {"publish", "edit", "unpublish", "replace"}
        /\ j.step \in Steps(j.does.cmd)
        /\ j.does.msg \notin clashed => Kept(j)
    BY <1>0, <1>2, CommandFacts, HaltFacts DEF Run, Record, Read, Write, WriteIndex, WriteMeta, Send, Delete
  <2>1. CASE Record(j)
    <3>1. PICK n \in jobs' : n = [j EXCEPT !.id = made + 1, !.step = "read"]
      BY <2>1 DEF Record, Onward
    <3>2. n.does = j.does /\ n.id = made + 1 /\ n.step = "read" /\ j.does.cmd = "publish" /\ j.step = "record"
      BY <2>0, <2>1, <3>1 DEF Record, Job, Steps
    <3>3. events'[j.does.msg] = made + 1 /\ born'[made + 1] = j.does.msg /\ made' = made + 1 /\ index' = index
          /\ meta' = meta
      BY <1>0, <2>0, <2>1, VideosAssumption DEF Record, TypeOK, TablesSound, Ids
    <3>4. CASE i = made + 1
      <4>1. i \notin index
        BY <1>0, <3>4 DEF TablesSound
      <4>2. Running("publish", {"read", "write"}, i)' /\ Running("publish", {"read", "write", "put"}, i)'
        BY <3>1, <3>2, <3>4 DEF Running
      <4> QED
        BY <3>3, <3>4, <4>1, <4>2 DEF IndexAt
    <3>5. CASE i # made + 1
      <4>1. i \in 1..made /\ born'[i] = born[i] /\ born[i] \in Messages
        BY <1>0, <2>1, <3>3, <3>5 DEF Record, TablesSound
      <4>2. born[i] \in clashed \/ (events'[born[i]] = i <=> events[born[i]] = i)
        <5>1. CASE born[i] = j.does.msg
          BY <1>0, <2>0, <3>2, <3>3, <3>5, <4>1, <5>1 DEF Kept
        <5>2. CASE born[i] # j.does.msg
          BY <1>0, <2>1, <4>1, <5>2 DEF Record, TypeOK
        <5> QED
          BY <5>1, <5>2
      <4>3. \A k \in jobs : k.step # "record" => k \in jobs'
        BY <2>1 DEF Record, Onward
      <4> QED
        BY <2>0, <3>3, <4>1, <4>2, <4>3, IndexStays DEF IndexSound, Running
    <3> QED
      BY <3>4, <3>5
  <2>2. CASE Read(j)
    <3>1. PICK n \in jobs' : /\ n.does = j.does /\ n.id = j.id /\ n.step = "write"
                             /\ jobs' = (jobs \ {j}) \cup {n}
      <4>1. PICK s \in {index, {}} : jobs' = (jobs \ {j}) \cup {[j EXCEPT !.seen = s, !.step = "write"]}
        BY <2>2 DEF Read, Onward
      <4> QED
        BY <2>0, <4>1 DEF Job
    <3>2. \A cmd : /\ Running(cmd, {"read", "write"}, i) => Running(cmd, {"read", "write"}, i)'
                   /\ Running(cmd, {"read", "write", "put"}, i) => Running(cmd, {"read", "write", "put"}, i)'
      BY <3>1 DEF Running
    <3> QED
      BY <2>0, <2>2, <3>2, IndexStays DEF Read, IndexSound
  <2>3. CASE Write(j)
    <3>0. /\ j.id \in 1..made /\ born[j.id] = j.does.msg /\ j.step = "write" /\ UNCHANGED <<events, meta, born, made>>
          /\ \A k \in jobs : k # j => k \in jobs'
      BY <2>0, <2>3 DEF Write, WriteIndex, Begun, Onward, Ended
    <3>1. j.does.cmd \in {"publish", "unpublish"}
      BY <2>0, <3>0 DEF Steps
    <3>2. CASE i # j.id
      <4>1. i \in blurred' \/ (i \in index' <=> i \in index)
        BY <1>0, <2>0, <2>3, <3>2, IndexWritten DEF Write
      <4>2. \A cmd, s : Running(cmd, s, i) => Running(cmd, s, i)'
        BY <3>0, <3>2 DEF Running
      <4> QED
        BY <2>0, <3>0, <4>1, <4>2, IndexStays DEF IndexSound
    <3>3. CASE i = j.id /\ j.does.cmd = "publish"
      <4>1. PICK n \in jobs' : n = [j EXCEPT !.step = "put"]
        BY <2>3, <3>3 DEF Write, Onward
      <4>2. n.does = j.does /\ n.id = j.id /\ n.step = "put"
        BY <2>0, <4>1 DEF Job
      <4>3. Running("publish", {"read", "write", "put"}, i)'
        BY <3>3, <4>1, <4>2 DEF Running
      <4>4. i \in index' /\ (born[i] \in clashed \/ events[born[i]] = i)
        BY <2>0, <2>3, <3>0, <3>3 DEF Write, WriteIndex, NewIndex, Added, Kept
      <4> QED
        BY <2>0, <3>0, <4>3, <4>4 DEF IndexAt
    <3>4. CASE i = j.id /\ j.does.cmd = "unpublish"
      <4>1. born[i] \in clashed \/ events[born[i]] = None
        BY <2>0, <3>0, <3>4 DEF Kept
      <4>2. i \in blurred' \/ i \notin index'
        BY <2>3, <3>4 DEF Write, WriteIndex, NewIndex, Blurs
      <4> QED
        BY <1>0, <2>0, <3>0, <4>1, <4>2 DEF IndexAt
    <3> QED
      BY <3>1, <3>2, <3>3, <3>4
  <2>4. CASE WriteMeta(j)
    <3>1. /\ j.id \in Ids /\ j.step = "put" /\ j.name # None /\ UNCHANGED <<events, index, born, made>>
          /\ \A k \in jobs : k # j => k \in jobs'
      BY <1>0, <2>0, <2>4 DEF WriteMeta, Begun, Steps, Onward
    <3>2. meta' = [meta EXCEPT ![j.id] = j.name]
      BY <2>4 DEF WriteMeta
    <3>3. CASE i # j.id
      BY <1>0, <2>0, <3>1, <3>2, <3>3, IndexStays DEF IndexSound, Running, TypeOK
    <3>4. CASE i = j.id
      <4>1. meta'[i] # None
        BY <1>0, <3>1, <3>2, <3>4 DEF TypeOK
      <4>2. \A cmd : Running(cmd, {"read", "write"}, i) => Running(cmd, {"read", "write"}, i)'
        BY <3>1 DEF Running
      <4>3. IndexAt(i)
        BY <3>1 DEF IndexSound
      <4> QED
        BY <2>0, <3>1, <4>1, <4>2, <4>3 DEF IndexAt
    <3> QED
      BY <3>3, <3>4
  <2>5. CASE Send(j)
    <3>1. j.step = "send" /\ \A k \in jobs : k # j => k \in jobs'
      BY <2>5 DEF Send, Onward, Ended
    <3> QED
      BY <2>0, <2>5, <3>1, IndexStays DEF Send, IndexSound, Running
  <2>6. CASE Delete(j)
    <3>0. PICK n \in jobs' : n = [j EXCEPT !.step = "read"]
      BY <2>6 DEF Delete, Onward
    <3>1. /\ n.does = j.does /\ n.id = j.id /\ n.step = "read" /\ j.step = "delete" /\ j.does.cmd = "unpublish"
          /\ UNCHANGED <<index, meta, born, made>> /\ \A k \in jobs : k # j => k \in jobs'
      BY <2>0, <2>6, <3>0 DEF Delete, Job, Steps, Onward
    <3>2. \A cmd : /\ Running(cmd, {"read", "write"}, i) => Running(cmd, {"read", "write"}, i)'
                   /\ Running(cmd, {"read", "write", "put"}, i) => Running(cmd, {"read", "write", "put"}, i)'
      BY <3>1 DEF Running
    <3>3. born[i] \in Messages /\ IndexAt(i) /\ i # None
      BY <1>0, <3>1 DEF TablesSound, IndexSound
    <3>4. CASE born[i] # j.does.msg
      <4>1. events'[born[i]] = events[born[i]]
        BY <1>0, <2>6, <3>3, <3>4 DEF Delete, TypeOK
      <4> QED
        BY <2>0, <3>1, <3>2, <3>3, <4>1, IndexStays
    <3>5. CASE born[i] = j.does.msg
      <4>1. events'[born[i]] = None
        BY <1>0, <2>0, <2>6, <3>5 DEF Delete, TypeOK
      <4>2. born[i] \in clashed \/ events[born[i]] \in {j.id, None}
        BY <2>0, <3>1, <3>5 DEF Kept
      <4>3. events[born[i]] = i /\ born[i] \notin clashed => Running("unpublish", {"read", "write"}, i)'
        BY <3>1, <3>3, <4>2 DEF Running
      <4> QED
        BY <2>0, <3>1, <3>2, <3>3, <4>1, <4>3 DEF IndexAt
    <3> QED
      BY <3>4, <3>5
  <2>7. CASE Halt(j)
    <3>0. /\ UNCHANGED <<events, born, made>> /\ jobs' = jobs \ {j} /\ j.id \in Ids /\ i \in 1..made
          /\ j.step \in {"read", "write", "put"} /\ IndexAt(i)
      BY <1>0, <2>0, <2>7, HaltFacts DEF Begun, IndexSound
    <3>1. CASE i = j.id /\ j.does.cmd \in {"publish", "unpublish"}
      BY <2>7, <3>1, HaltFacts DEF IndexAt
    <3>2. CASE i # j.id \/ j.does.cmd \notin {"publish", "unpublish"}
      <4>1. j.step = "put" \/ j.does.cmd \in {"publish", "unpublish"}
        BY <2>0, <3>0 DEF Steps
      <4>2. i \in blurred' \/ (i \in index' <=> i \in index)
        BY <1>0, <2>0, <2>7, <3>2, <4>1, HaltFacts, IndexWritten
      <4>3. meta[i] # None => meta'[i] # None
        <5>1. j.step = "put" => j.name # None
          BY <2>0 DEF Begun, Steps
        <5> QED
          BY <1>0, <2>7, <3>0, <5>1, HaltFacts DEF TypeOK
      <4>4. /\ Running("publish", {"read", "write"}, i) => Running("publish", {"read", "write"}, i)'
            /\ Running("publish", {"read", "write", "put"}, i) => Running("publish", {"read", "write", "put"}, i)'
            /\ Running("unpublish", {"read", "write"}, i) => Running("unpublish", {"read", "write"}, i)'
        BY <3>0, <3>2 DEF Running
      <4> QED
        BY <2>0, <3>0, <4>2, <4>3, <4>4, IndexStays
    <3> QED
      BY <3>1, <3>2
  <2> QED
    BY <1>2, <2>1, <2>2, <2>3, <2>4, <2>5, <2>6, <2>7 DEF Run
<1>3. CASE \E c \in Command : Ask(c) \/ PressPublish(c) \/ PressChange(c)
  BY <1>1, <1>3 DEF Ask, PressPublish, PressChange, Collide
<1>4. CASE Take
  BY <1>1, <1>4 DEF Take, Collide
<1>5. CASE (\E w \in wires : Deliver(w)) \/ UNCHANGED videosVars
  BY <1>1, <1>5 DEF Deliver, videosVars
<1>6. CASE Crash
  <2>1. i \in blurred' \/ \A k \in jobs : k.id # i
    BY <1>0, <1>6 DEF Crash, Cut
  <2>2. i \in blurred' \/ \A cmd, s : ~ Running(cmd, s, i)
    BY <2>1 DEF Running
  <2> QED
    BY <1>6, <2>2, IndexStays DEF Crash, IndexSound
<1> QED
  BY <1>2, <1>3, <1>4, <1>5, <1>6 DEF VideosNext

-----------------------------------------------------------------------------
(* Followers have what is published. *)

\* A follower who has something of a video has a file and a name.
LEMMA WhatFacts ==
  ASSUME NEW file \in Files, NEW name \in VideoNames \cup {None}
  PROVE  [file |-> file, name |-> name] # None
BY NoneAssumption DEF What

\* What a server that fetches a video is given, by its message.
LEMMA LiveByRow ==
  ASSUME TypeOK, TablesSound, NEW i \in 1..made
  PROVE  Live(i) <=> events[born[i]] = i
<1>1. i # None
  BY VideosAssumption DEF Ids, TablesSound
<1> QED
  BY <1>1 DEF Live, TablesSound

\* A follower and a video nothing happened to.
LEMMA FollowerStays ==
  ASSUME NEW f \in Followers, NEW i \in told, FollowerSound(f, i),
         holds'[f][i] = holds[f][i], Mail(f, i)' = Mail(f, i), i \in retracted' <=> i \in retracted,
         born'[i] = born[i], Live(i)' <=> Live(i), events'[born[i]] = i <=> events[born[i]] = i, meta'[i] = meta[i],
         Running("edit", {"send"}, i) => Running("edit", {"send"}, i)',
         Running("unpublish", {"send", "delete"}, i) => Running("unpublish", {"send", "delete"}, i)'
  PROVE  FollowerSound(f, i)'
<1>1. Fetched(i)' = Fetched(i)
  BY DEF Fetched
<1>2. \A w \in Mail(f, i) : w.to = f /\ w.id = i /\ After(w)' = After(w)
  BY <1>1 DEF Mail, After
<1>4. i \notin retracted' => /\ Mail(f, i)' = {} => Fits(holds[f][i], i)'
                             /\ \A w \in wires' : Mail(f, i)' = {w} => Fits(After(w), i)'
  <2> SUFFICES ASSUME i \notin retracted'
               PROVE  /\ Mail(f, i)' = {} => Fits(holds[f][i], i)'
                      /\ \A w \in wires' : Mail(f, i)' = {w} => Fits(After(w), i)'
    OBVIOUS
  <2>1. Mail(f, i)' = {} => Fits(holds[f][i], i)'
    BY DEF FollowerSound, Fits
  <2>2. ASSUME NEW w \in wires', Mail(f, i)' = {w} PROVE Fits(After(w), i)'
    <3>1. w \in Mail(f, i) /\ w \in wires
      BY <2>2 DEF Mail
    <3> QED
      BY <1>2, <2>2, <3>1 DEF FollowerSound, Fits
  <2> QED
    BY <2>1, <2>2
<1>5. i \in retracted' => /\ events'[born'[i]] # i \/ Running("unpublish", {"send", "delete"}, i)'
                          /\ Mail(f, i)' = {} => holds'[f][i] = None
                          /\ \A w \in wires' : Mail(f, i)' = {w} => w.act = "delete"
  <2>1. \A w \in wires' : Mail(f, i)' = {w} => w \in wires
    BY DEF Mail
  <2> QED
    BY <2>1 DEF FollowerSound
<1> QED
  BY <1>4, <1>5 DEF FollowerSound

\* Nothing is sent of a video before its ;publish sends it.
LEMMA QuietHold ==
  ASSUME Grounds, Grounds', FollowersSound, [VideosNext]_videosVars
  PROVE  (\A j \in jobs : j.does.cmd = "publish" /\ j.step # "record" /\ j.does.msg \notin clashed => Quiet(j))'
<1> USE DEF Bounds, Places, Histories
<1>0. /\ TypeOK /\ TablesSound /\ made \in Nat /\ 1..made \subseteq Ids
      /\ \A k \in jobs : /\ k \in Job /\ Begun(k) /\ k.does \in Command
                         /\ k.step \in Steps(k.does.cmd)
                         /\ k.does.msg \notin clashed => Together(k) /\ Kept(k)
      /\ \A k \in jobs : k.does.cmd = "publish" /\ k.step # "record" /\ k.does.msg \notin clashed => Quiet(k)
      /\ \A k \in jobs' : Begun(k)' /\ (k.does.msg \notin clashed' => Together(k)')
  <2>1. /\ TypeOK /\ TablesSound /\ made \in Nat /\ 1..made \subseteq Ids
        /\ \A k \in jobs : /\ k \in Job /\ Begun(k) /\ k.does \in Command
                           /\ k.step \in Steps(k.does.cmd)
                           /\ k.does.msg \notin clashed => Together(k) /\ Kept(k)
    BY GroundFacts
  <2>4. \A k \in jobs : k.does.cmd = "publish" /\ k.step # "record" /\ k.does.msg \notin clashed => Quiet(k)
    BY DEF FollowersSound
  <2>5. \A k \in jobs' : Begun(k)' /\ (k.does.msg \notin clashed' => Together(k)')
    <3>1. \A k \in jobs' : JobSound(k)'
      BY DEF Grounds
    <3> QED
      BY <3>1 DEF JobSound
  <2> QED
    BY <2>1, <2>4, <2>5
<1> SUFFICES ASSUME NEW k \in jobs', k.does.cmd = "publish", k.step # "record", k.does.msg \notin clashed'
             PROVE  Quiet(k)'
  OBVIOUS
<1>1. CASE k \in jobs /\ clashed \subseteq clashed' /\ wires' \subseteq wires
  BY <1>0, <1>1 DEF Quiet
<1>2. ASSUME NEW j \in jobs, Run(j) PROVE Quiet(k)'
  <2>0. /\ clashed' = clashed /\ j \in Job /\ Begun(j) /\ j.step \in Steps(j.does.cmd)
        /\ j.does \in Command /\ j.id \in Ids \cup {None}
    BY <1>0, <1>2, JobFacts, HaltFacts DEF Run, Record, Read, Write, WriteMeta, Send, Delete
  <2>1. CASE Record(j) /\ k \notin jobs
    <3>1. k = [j EXCEPT !.id = made + 1, !.step = "read"] /\ wires' = wires
      BY <2>1 DEF Record, Onward
    <3>2. k.id = made + 1
      BY <2>0, <3>1 DEF Job
    <3> QED
      BY <1>0, <3>1, <3>2 DEF Quiet, TablesSound
  <2>2. CASE Send(j)
    <3>1. k \in jobs /\ k # j
      BY <2>0, <2>2 DEF Send, Onward, Ended, Job
    <3>2. Quiet(k) /\ Together(k) /\ Begun(k)
      BY <1>0, <2>0, <3>1
    <3>3. j.id # k.id
      BY <2>0, <2>2, <3>1, <3>2 DEF Send, Begun, Together, At
    <3>4. j.id \in Ids
      BY <1>0, <2>0, <2>2 DEF Send, Begun
    <3>5. \A w \in Outgoing(j) : w.id = j.id
      BY <2>0, <3>4, Outgoings
    <3> QED
      BY <2>2, <3>2, <3>3, <3>5 DEF Send, Quiet
  <2>3. CASE k \notin jobs /\ ~ Record(j) /\ ~ Send(j)
    <3>1. k.does = j.does /\ k.id = j.id /\ j.step # "record" /\ wires' = wires
      <4>1. CASE Read(j)
        <5>1. PICK s \in {index, {}} : k = [j EXCEPT !.seen = s, !.step = "write"]
          BY <2>3, <4>1 DEF Read, Onward
        <5> QED
          BY <2>0, <4>1, <5>1 DEF Read, Job
      <4>2. CASE Write(j)
        <5>1. k = [j EXCEPT !.step = "put"]
          BY <2>3, <4>2 DEF Write, Onward, Ended
        <5> QED
          BY <2>0, <4>2, <5>1 DEF Write, Job
      <4>3. CASE WriteMeta(j)
        <5>1. k = [j EXCEPT !.step = "send"]
          BY <2>3, <4>3 DEF WriteMeta, Onward
        <5> QED
          BY <2>0, <4>3, <5>1 DEF WriteMeta, Job
      <4>4. CASE Delete(j)
        <5>1. k = [j EXCEPT !.step = "read"]
          BY <2>3, <4>4 DEF Delete, Onward
        <5> QED
          BY <2>0, <4>4, <5>1 DEF Delete, Job
      <4> QED
        BY <1>2, <2>3, <4>1, <4>2, <4>3, <4>4, HaltFacts DEF Run
    <3> QED
      BY <1>0, <2>0, <3>1 DEF Quiet
  <2>4. CASE k \in jobs /\ ~ Send(j)
    <3>1. wires' = wires
      BY <1>2, <2>4, HaltFacts DEF Run, Record, Read, Write, WriteMeta, Delete
    <3> QED
      BY <1>1, <2>0, <2>4, <3>1
  <2> QED
    BY <2>1, <2>2, <2>3, <2>4
<1>3. CASE k \notin jobs /\ ~ \E j \in jobs : Run(j)
  \* A ;publish begins with its row.
  <2>1. PICK c \in Command, by \in {"chat", "again", "widget"} : k = Start(by, c)
    <3>1. CASE \E c \in Command : Ask(c) \/ PressPublish(c) \/ PressChange(c)
      BY <1>3, <3>1 DEF Ask, PressPublish, PressChange
    <3>2. CASE Take
      <4>1. chat \in Command
        BY <1>0, <3>2 DEF Take, TypeOK
      <4> QED
        BY <1>3, <3>2, <4>1 DEF Take
    <3>3. ~ ((\E w \in wires : Deliver(w)) \/ Crash \/ UNCHANGED videosVars)
      BY <1>3 DEF Deliver, Crash, videosVars
    <3> QED
      BY <1>3, <3>1, <3>2, <3>3 DEF VideosNext
  <2>2. k.does = c /\ k.step = First(c)
    BY <1>0, <2>1, StartFacts
  <2> QED
    BY <2>2 DEF First
<1>4. CASE \E c \in Command : Ask(c) \/ PressPublish(c) \/ PressChange(c)
  BY <1>1, <1>3, <1>2, <1>4 DEF Ask, PressPublish, PressChange, Collide
<1>5. CASE Take
  BY <1>1, <1>3, <1>2, <1>5 DEF Take, Collide
<1>6. CASE (\E w \in wires : Deliver(w)) \/ Crash \/ UNCHANGED videosVars
  BY <1>1, <1>6 DEF Deliver, Crash, videosVars
<1> QED
  BY <1>2, <1>4, <1>5, <1>6 DEF VideosNext

\* What a job does to what the followers of a video have.
LEMMA RunFollowers ==
  ASSUME Grounds, Grounds', FollowersSound, NEW j \in jobs, Run(j),
         NEW f \in Followers, NEW i \in told', ~ Excused(f, i)'
  PROVE  FollowerSound(f, i)'
<1> USE DEF Bounds, Places, Histories
<1>0. /\ TypeOK /\ TablesSound /\ TablesSound' /\ made \in Nat /\ 1..made \subseteq Ids /\ None \notin Ids
      /\ OneVideoPerMessage
      /\ \A k \in jobs : /\ k \in Job /\ Begun(k) /\ k.does \in Command /\ k.does.msg \in Messages
                         /\ k.step \in Steps(k.does.cmd)
                         /\ k.does.msg \notin clashed => Together(k) /\ Kept(k)
  <2>1. TablesSound' /\ None \notin Ids
    BY VideosAssumption DEF Grounds
  <2> QED
    BY <2>1, GroundFacts
<1>1. /\ j \in Job /\ Begun(j) /\ j.does \in Command /\ j.does.msg \in Messages /\ j.step \in Steps(j.does.cmd)
      /\ j.does.cmd \in {"publish", "edit", "unpublish", "replace"}
      /\ clashed' = clashed /\ excused \subseteq excused' /\ holds' = holds
      /\ j.does.msg \notin clashed => Together(j) /\ Kept(j)
  <2>1. clashed' = clashed /\ excused \subseteq excused' /\ holds' = holds
    BY HaltFacts DEF Run, Record, Read, Write, WriteMeta, Send, Delete
  <2> QED
    BY <1>0, <2>1, CommandFacts
<1>2. i \in 1..made /\ born'[i] = born[i] /\ born[i] \in Messages /\ born[i] \notin clashed /\ <<f, i>> \notin excused
  <2>1. i \in 1..made
    BY <1>0, <1>1, HaltFacts DEF Run, Record, Read, Write, WriteMeta, Send, Delete, TablesSound, Begun
  <2>2. born'[i] = born[i]
    BY <1>0, <2>1, HaltFacts DEF Run, Record, Read, Write, WriteMeta, Send, Delete, TablesSound
  <2> QED
    BY <1>0, <1>1, <2>1, <2>2 DEF TablesSound, Excused
<1>3. i \in told => FollowerSound(f, i)
  BY <1>2 DEF FollowersSound, Excused
<1>4. Live(i) <=> events[born[i]] = i
  BY <1>0, <1>2, LiveByRow
<1>5. Live(i)' <=> events'[born[i]] = i
  <2>1. i \in 1..made' /\ i # None
    BY <1>0, <1>2 DEF TablesSound
  <2> QED
    BY <1>0, <1>2, <2>1 DEF Live, TablesSound
<1>6. CASE Record(j)
  <2>1. events'[born[i]] = i <=> events[born[i]] = i
    <3>1. j.does.cmd = "publish" /\ j.step = "record"
      BY <1>1, <1>6 DEF Record, Steps
    <3>2. CASE born[i] = j.does.msg
      <4>1. events[born[i]] = None /\ events'[born[i]] = made + 1
        BY <1>0, <1>1, <1>2, <1>6, <3>1, <3>2 DEF Record, Kept, TypeOK
      <4> QED
        BY <1>0, <1>2, <4>1
    <3>3. CASE born[i] # j.does.msg
      BY <1>0, <1>2, <1>6, <3>3 DEF Record, TypeOK
    <3> QED
      BY <3>2, <3>3
  <2>2. UNCHANGED <<meta, wires, told, retracted>> /\ \A k \in jobs : k.step # "record" => k \in jobs'
    BY <1>6 DEF Record, Onward
  <2>3. Mail(f, i)' = Mail(f, i)
    BY <2>2 DEF Mail
  <2>4. \A cmd : Running(cmd, {"send"}, i) => Running(cmd, {"send"}, i)'
    BY <2>2 DEF Running
  <2>5. \A cmd : Running(cmd, {"send", "delete"}, i) => Running(cmd, {"send", "delete"}, i)'
    BY <2>2 DEF Running
  <2> QED
    BY <1>1, <1>2, <1>3, <1>4, <1>5, <2>1, <2>2, <2>3, <2>4, <2>5, FollowerStays
<1>7. CASE Read(j) \/ Write(j)
  <2>1. /\ UNCHANGED <<events, meta, wires, told, retracted>>
        /\ \A k \in jobs : k.step \notin {"read", "write"} => k \in jobs'
    BY <1>7 DEF Read, Write, WriteIndex, Onward, Ended
  <2>2. Mail(f, i)' = Mail(f, i)
    BY <2>1 DEF Mail
  <2>3. \A cmd : Running(cmd, {"send"}, i) => Running(cmd, {"send"}, i)'
    BY <2>1 DEF Running
  <2>4. \A cmd : Running(cmd, {"send", "delete"}, i) => Running(cmd, {"send", "delete"}, i)'
    BY <2>1 DEF Running
  <2> QED
    BY <1>1, <1>2, <1>3, <1>4, <1>5, <2>1, <2>2, <2>3, <2>4, FollowerStays
<1>8. CASE WriteMeta(j)
  <2>1. /\ UNCHANGED <<events, wires, told, retracted, born>> /\ j.step = "put" /\ j.id \in Ids
        /\ \A k \in jobs : k.step # "put" => k \in jobs'
        /\ meta' = [meta EXCEPT ![j.id] = j.name]
    BY <1>0, <1>1, <1>8 DEF WriteMeta, Onward, Begun
  <2>2. Mail(f, i)' = Mail(f, i)
    BY <2>1 DEF Mail
  <2>3. \A cmd : Running(cmd, {"send"}, i) => Running(cmd, {"send"}, i)'
    BY <2>1 DEF Running
  <2>4. \A cmd : Running(cmd, {"send", "delete"}, i) => Running(cmd, {"send", "delete"}, i)'
    BY <2>1 DEF Running
  <2>5. CASE i # j.id
    <3>1. meta'[i] = meta[i]
      BY <1>0, <1>2, <2>1, <2>5 DEF TypeOK
    <3> QED
      BY <1>1, <1>2, <1>3, <1>4, <1>5, <2>1, <2>2, <2>3, <2>4, <3>1, FollowerStays
  <2>6. CASE i = j.id
    \* An edit: it is about to be sent.
    <3>1. j.does.cmd = "edit"
      BY <1>1, <1>2, <2>1, <2>6 DEF Steps, Begun, Kept
    <3>2. PICK n \in jobs' : n = [j EXCEPT !.step = "send"]
      BY <1>8 DEF WriteMeta, Onward
    <3>3. n.does.cmd = "edit" /\ n.step = "send" /\ n.id = i
      BY <1>1, <2>6, <3>1, <3>2 DEF Job
    <3>4. Running("edit", {"send"}, i)'
      BY <3>2, <3>3 DEF Running
    <3>5. (Live(i)' <=> Live(i)) /\ meta[i] # None /\ meta'[i] # None
      <4>1. i \in told
        BY <2>1
      <4>2. meta[i] # None /\ meta'[i] # None
        BY <1>0, <4>1 DEF TablesSound
      <4>3. events' = events
        BY <2>1
      <4> QED
        BY <1>4, <1>5, <4>2, <4>3
    <3>6. Fetched(i) = None <=> Fetched(i)' = None
      <4>1. meta[i] \in VideoNames \cup {None} /\ meta'[i] \in VideoNames \cup {None}
        BY <1>0, <1>2 DEF TypeOK, Grounds
      <4> QED
        BY <1>2, <3>5, <4>1, WhatFacts DEF Fetched, Files
    <3>7. \A w \in Mail(f, i) : w.to = f /\ w.id = i /\ (After(w) # None => After(w)' # None)
      <4> SUFFICES ASSUME NEW w \in Mail(f, i), After(w) # None PROVE After(w)' # None
        BY DEF Mail
      <4>1. w.to = f /\ w.id = i /\ w \in wires /\ w \in Wire /\ holds'[f][i] = holds[f][i]
        BY <1>0, <1>1 DEF Mail, TypeOK
      <4>2. w.act \in {"create", "update"} => [file |-> w.file, name |-> w.name] # None
        BY <1>0, <4>1, WhatFacts DEF TablesSound
      <4> QED
        BY <3>6, <4>1, <4>2, WireFacts DEF After
    <3>8. i \in told /\ FollowerSound(f, i)
      BY <1>3, <2>1
    <3>9. i \notin retracted' => /\ Mail(f, i)' = {} => Fits(holds[f][i], i)'
                                 /\ \A w \in wires' : Mail(f, i)' = {w} => Fits(After(w), i)'
      <4>1. Mail(f, i)' = {} /\ i \notin retracted' => Fits(holds[f][i], i)'
        BY <1>1, <2>1, <2>2, <3>4, <3>8 DEF FollowerSound, Fits
      <4>2. ASSUME NEW w \in wires', Mail(f, i)' = {w}, i \notin retracted' PROVE Fits(After(w), i)'
        <5>1. w \in Mail(f, i) /\ After(w) # None
          BY <2>1, <2>2, <3>8, <4>2 DEF FollowerSound, Fits
        <5> QED
          BY <3>4, <3>7, <5>1 DEF Fits
      <4> QED
        BY <4>1, <4>2
    <3>10. i \in retracted' => /\ events'[born'[i]] # i \/ Running("unpublish", {"send", "delete"}, i)'
                               /\ Mail(f, i)' = {} => holds'[f][i] = None
                               /\ \A w \in wires' : Mail(f, i)' = {w} => w.act = "delete"
      BY <1>1, <1>2, <2>1, <2>2, <2>4, <3>8 DEF FollowerSound
    <3> QED
      BY <3>9, <3>10 DEF FollowerSound
  <2> QED
    BY <2>5, <2>6
<1>9. CASE Send(j)
  <2>1. /\ UNCHANGED <<events, meta, born>> /\ j.step = "send" /\ j.id \in 1..made /\ j.id \in Ids /\ born[j.id] = j.does.msg
        /\ \A k \in jobs : k.step # "send" => k \in jobs'
        /\ \A k \in jobs : k.id # j.id => k \in jobs'
        /\ wires' = wires \cup Outgoing(j)
    BY <1>0, <1>1, <1>9 DEF Send, Onward, Ended, Begun
  <2>2. \A w \in Outgoing(j) : w.id = j.id
    BY <1>1, <2>1, Outgoings
  <2>3. CASE i # j.id
    <3>1. i \in told /\ (i \in retracted' <=> i \in retracted)
      BY <1>9, <2>3 DEF Send
    <3>2. Mail(f, i)' = Mail(f, i)
      BY <2>1, <2>2, <2>3 DEF Mail
    <3>3. \A cmd : Running(cmd, {"send"}, i) => Running(cmd, {"send"}, i)'
      BY <2>1, <2>3 DEF Running
    <3>4. \A cmd : Running(cmd, {"send", "delete"}, i) => Running(cmd, {"send", "delete"}, i)'
      BY <2>1, <2>3 DEF Running
    <3> QED
      BY <1>1, <1>2, <1>3, <1>4, <1>5, <2>1, <3>1, <3>2, <3>3, <3>4, FollowerStays
  <2>4. ASSUME i = j.id
        PROVE  Kept(j) /\ Together(j) /\ f \in OwnerFollowers \cup ChannelFollowers
    BY <1>1, <1>2, <2>1, <2>4 DEF Followers
  <2>5. CASE i = j.id /\ j.does.cmd = "publish"
    <3>1. PICK w \in Outgoing(j) : /\ w.to = f
                                   /\ w = Activity(j, IF f \in OwnerFollowers THEN "create" ELSE "announce", f)
      BY <2>1, <2>4, <2>5, <1>1, ActivityFacts DEF Outgoing
    <3>2. Quiet(j)
      BY <1>1, <1>2, <2>1, <2>5 DEF FollowersSound
    <3>3. \A v \in Outgoing(j) : v.to = f => v = w
      <4> SUFFICES ASSUME NEW v \in Outgoing(j), v.to = f PROVE v = w
        OBVIOUS
      <4>1. PICK g \in Followers : \/ g \in OwnerFollowers /\ v = Activity(j, "create", g)
                                   \/ g \in ChannelFollowers /\ v = Activity(j, "announce", g)
        BY <2>5 DEF Outgoing, Followers
      <4>2. g = f
        BY <1>1, <2>1, <4>1, ActivityFacts
      <4> QED
        BY <3>1, <4>1, <4>2, VideosAssumption
    <3>4. Mail(f, i)' = {w}
      BY <2>1, <2>2, <2>5, <3>1, <3>2, <3>3 DEF Mail, Quiet
    <3>5. meta[i] = j.name /\ events[born[i]] = i /\ i \notin retracted /\ meta[i] # None
      BY <1>1, <2>1, <2>4, <2>5 DEF Kept, Begun
    <3>6. retracted' = retracted
      BY <1>9, <2>5 DEF Send
    <3>7. Fits(After(w), i)'
      <4>1. /\ w.id = i /\ w.to = f /\ w.act = (IF f \in OwnerFollowers THEN "create" ELSE "announce")
            /\ w.act = "create" => w.name = j.name /\ w.file \in Files
        BY <1>1, <2>1, <2>5, <3>1, ActivityFacts
      <4>2. Live(i)' /\ Fetched(i)' = [file |-> born[i], name |-> meta[i]]
        BY <1>2, <1>5, <2>1, <3>5 DEF Fetched
      <4>3. meta[i] \in VideoNames \cup {None} /\ j.name \in VideoNames \cup {None} /\ born[i] \in Files
        BY <1>0, <1>1, <1>2, JobFacts DEF TypeOK, Files
      <4>4. [file |-> born[i], name |-> meta[i]] # None
        BY <4>3, WhatFacts
      <4>5. w.act = "create" => [file |-> w.file, name |-> w.name] # None
        BY <4>1, <4>3, WhatFacts
      <4>6. After(w)' # None /\ After(w)'.name = meta'[i]
        BY <2>1, <3>5, <4>1, <4>2, <4>4, <4>5 DEF After
      <4> QED
        BY <4>6 DEF Fits
    <3> QED
      BY <3>4, <3>5, <3>6, <3>7 DEF FollowerSound
  <2>6. CASE i = j.id /\ j.does.cmd = "unpublish"
    <3>1. PICK w \in Outgoing(j) : w.to = f /\ w.act = "delete" /\ w.id = i
      BY <1>1, <2>1, <2>6, ActivityFacts DEF Outgoing
    <3>2. w \in Mail(f, i)' /\ i \in retracted'
      BY <1>9, <2>1, <2>6, <3>1 DEF Mail, Send
    <3>3. PICK n \in jobs' : n = [j EXCEPT !.step = "delete"]
      BY <1>9, <2>6 DEF Send, Onward
    <3>4. Running("unpublish", {"send", "delete"}, i)'
      BY <1>1, <2>6, <3>3 DEF Running, Job
    <3> QED
      BY <3>1, <3>2, <3>4 DEF FollowerSound
  <2>7. CASE i = j.id /\ j.does.cmd \in {"edit", "replace"}
    <3>1. PICK u \in Outgoing(j) : u.to = f /\ u.act = "update" /\ u.id = i /\ u.name = j.name /\ u.file \in Files
      BY <1>1, <2>1, <2>7, ActivityFacts DEF Outgoing
    <3>2. i \in told /\ UNCHANGED retracted /\ FollowerSound(f, i) /\ u \in Mail(f, i)'
      BY <1>3, <1>9, <2>1, <2>7, <3>1 DEF Send, Mail
    <3>3. Kept(j) /\ Together(j) /\ events[born[i]] = i /\ meta[i] = j.name
      BY <1>1, <2>1, <2>4, <2>7 DEF Kept
    <3>4. i \notin retracted
      <4>1. ~ Running("unpublish", {"send", "delete"}, i)
        <5> SUFFICES ASSUME NEW k \in jobs, k.does.cmd = "unpublish", k.step \in {"send", "delete"}, k.id = i
                     PROVE  FALSE
          BY DEF Running
        <5>1. k \in At(j.does.msg)
          BY <1>0, <2>1, <2>7 DEF At, Begun
        <5> QED
          BY <2>7, <3>3, <5>1 DEF Together
      <4> QED
        BY <3>2, <3>3, <4>1 DEF FollowerSound
    <3>5. ASSUME NEW w \in wires', Mail(f, i)' = {w} PROVE Fits(After(w), i)'
      <4>1. w = u /\ (Mail(f, i) = {} \/ (Mail(f, i) = {u} /\ u \in wires))
        BY <2>1, <3>2, <3>5 DEF Mail
      <4>2. holds[f][i] # None
        BY <3>1, <3>2, <3>4, <4>1 DEF FollowerSound, Fits, After
      <4>3. j.name \in VideoNames \cup {None}
        BY <1>1, JobFacts
      <4>4. After(w)' = [file |-> u.file, name |-> j.name]
        BY <1>1, <3>1, <4>1, <4>2 DEF After
      <4> QED
        BY <2>1, <3>1, <3>3, <4>3, <4>4, WhatFacts DEF Fits
    <3> QED
      BY <3>2, <3>4, <3>5 DEF FollowerSound
  <2> QED
    BY <1>1, <2>3, <2>5, <2>6, <2>7
<1>10. CASE Delete(j)
  <2>1. /\ UNCHANGED <<meta, wires, born, told, retracted>> /\ j.step = "delete" /\ j.does.cmd = "unpublish"
        /\ \A k \in jobs : k # j => k \in jobs'
    BY <1>1, <1>10 DEF Delete, Onward, Steps
  <2>2. Mail(f, i)' = Mail(f, i)
    BY <2>1 DEF Mail
  <2>3. CASE born[i] # j.does.msg
    <3>1. events'[born[i]] = events[born[i]]
      BY <1>0, <1>2, <1>10, <2>3 DEF Delete, TypeOK
    <3>2. i # j.id
      BY <1>1, <2>1, <2>3 DEF Begun
    <3>3. \A cmd : Running(cmd, {"send"}, i) => Running(cmd, {"send"}, i)'
      BY <2>1, <3>2 DEF Running
    <3>4. \A cmd : Running(cmd, {"send", "delete"}, i) => Running(cmd, {"send", "delete"}, i)'
      BY <2>1, <3>2 DEF Running
    <3> QED
      BY <1>1, <1>2, <1>3, <1>4, <1>5, <2>1, <2>2, <3>1, <3>3, <3>4, FollowerStays
  <2>4. CASE born[i] = j.does.msg
    <3>1. events'[born[i]] = None /\ events[born[i]] \in {j.id, None} /\ j.id \in retracted
      BY <1>0, <1>1, <1>2, <1>10, <2>1, <2>4 DEF Delete, TypeOK, Kept
    <3>2. i \in retracted
      BY <1>0, <1>2, <2>1, <3>1 DEF OneVideoPerMessage
    <3>3. i \in told /\ FollowerSound(f, i)
      BY <1>3, <2>1
    <3> QED
      BY <1>0, <1>1, <1>2, <2>1, <2>2, <3>1, <3>2, <3>3 DEF FollowerSound
  <2> QED
    BY <2>3, <2>4
<1>11. CASE Halt(j)
  <2>1. /\ UNCHANGED <<events, wires, told, retracted>> /\ \A k \in jobs : k.step \in {"send", "delete"} => k \in jobs'
    BY <1>11, HaltFacts
  <2>2. meta'[i] = meta[i]
    \* Whoever is owed what an edit wrote is excused.
    <3>1. meta' = meta \/ (i # j.id /\ meta' = [meta EXCEPT ![j.id] = j.name])
      BY <1>11, HaltFacts DEF Excused
    <3> QED
      BY <1>0, <1>2, <3>1 DEF TypeOK
  <2>3. Mail(f, i)' = Mail(f, i)
    BY <2>1 DEF Mail
  <2>4. \A cmd : Running(cmd, {"send"}, i) => Running(cmd, {"send"}, i)'
    BY <2>1 DEF Running
  <2>5. \A cmd : Running(cmd, {"send", "delete"}, i) => Running(cmd, {"send", "delete"}, i)'
    BY <2>1 DEF Running
  <2> QED
    BY <1>1, <1>2, <1>3, <1>4, <1>5, <2>1, <2>2, <2>3, <2>4, <2>5, FollowerStays
<1> QED
  BY <1>6, <1>7, <1>8, <1>9, <1>10, <1>11 DEF Run

LEMMA FollowersHold ==
  ASSUME Grounds, Grounds', FollowersSound, [VideosNext]_videosVars
  PROVE  FollowersSound'
<1> USE DEF Bounds, Places, Histories
<1>0. /\ TypeOK /\ TablesSound /\ 1..made \subseteq Ids /\ None \notin Ids
      /\ \A i \in told : i \in 1..made /\ (Live(i) <=> events[born[i]] = i)
  BY VideosAssumption, LiveByRow DEF Grounds, TablesSound, Ids
<1>1. ASSUME NEW f \in Followers, NEW i \in told', ~ Excused(f, i)' PROVE FollowerSound(f, i)'
  <2>1. CASE \E j \in jobs : Run(j)
    BY <1>1, <2>1, RunFollowers
  <2>2. CASE /\ UNCHANGED <<events, meta, wires, holds, told, retracted, born, excused>>
             /\ jobs \subseteq jobs' /\ clashed \subseteq clashed'
    <3>1. FollowerSound(f, i)
      BY <1>1, <2>2 DEF FollowersSound, Excused
    <3>2. Mail(f, i)' = Mail(f, i) /\ (Live(i)' <=> Live(i))
      BY <2>2 DEF Mail, Live
    <3>3. \A cmd : Running(cmd, {"send"}, i) => Running(cmd, {"send"}, i)'
      BY <2>2 DEF Running
    <3>4. \A cmd : Running(cmd, {"send", "delete"}, i) => Running(cmd, {"send", "delete"}, i)'
      BY <2>2 DEF Running
    <3> QED
      BY <2>2, <3>1, <3>2, <3>3, <3>4, FollowerStays
  <2>3. CASE \E c \in Command : Ask(c) \/ PressPublish(c) \/ PressChange(c)
    BY <2>2, <2>3 DEF Ask, PressPublish, PressChange, Collide
  <2>4. CASE Take
    BY <2>2, <2>4 DEF Take, Collide
  <2>5. CASE UNCHANGED videosVars
    BY <2>2, <2>5 DEF videosVars
  <2>6. ASSUME NEW w \in wires, Deliver(w) PROVE FollowerSound(f, i)'
    <3>1. /\ UNCHANGED <<events, meta, told, retracted, born, clashed, jobs>> /\ excused \subseteq excused'
          /\ wires' = wires \ {w} /\ w \in Wire /\ w.to \in Followers /\ w.id \in Ids
      BY <1>0, <2>6, WireFacts DEF Deliver, TypeOK
    <3>2. FollowerSound(f, i)
      BY <1>1, <3>1 DEF FollowersSound, Excused
    <3>3. CASE w \notin Mail(f, i)
      <4>1. Mail(f, i)' = Mail(f, i) /\ (Live(i)' <=> Live(i))
        BY <3>1, <3>3 DEF Mail, Live
      <4>2. w.to # f \/ w.id # i
        BY <3>3 DEF Mail
      <4>3. holds'[f][i] = holds[f][i]
        BY <1>0, <2>6, <3>1, <4>2 DEF Deliver, TypeOK
      <4>4. \A cmd, s : Running(cmd, s, i) => Running(cmd, s, i)'
        BY <3>1 DEF Running
      <4> QED
        BY <3>1, <3>2, <4>1, <4>3, <4>4, FollowerStays
    <3>4. CASE w \in Mail(f, i)
      <4>1. w.to = f /\ w.id = i /\ <<f, i>> \notin excused'
        BY <1>1, <3>4 DEF Mail, Excused
      <4>2. ~ Overtaken(w) /\ holds' = [holds EXCEPT ![w.to][w.id] = After(w)]
        BY <2>6, <4>1 DEF Deliver
      <4>3. Mail(f, i) = {w} /\ Mail(f, i)' = {}
        BY <3>1, <3>4, <4>1, <4>2 DEF Mail, Overtaken
      <4>4. holds'[f][i] = After(w)
        BY <1>0, <3>1, <4>1, <4>2 DEF TypeOK
      <4>5. i \notin retracted' => Fits(holds[f][i], i)'
        <5>1. Running("edit", {"send"}, i) => Running("edit", {"send"}, i)'
          BY <3>1 DEF Running
        <5> QED
          BY <3>1, <3>2, <4>3, <4>4, <5>1 DEF FollowerSound, Fits
      <4>6. i \in retracted' => holds'[f][i] = None
        BY <3>1, <3>2, <4>3, <4>4 DEF FollowerSound, After
      <4>7. Running("unpublish", {"send", "delete"}, i) => Running("unpublish", {"send", "delete"}, i)'
        BY <3>1 DEF Running
      <4> QED
        BY <3>1, <3>2, <4>3, <4>5, <4>6, <4>7 DEF FollowerSound
    <3> QED
      BY <3>3, <3>4
  <2>7. CASE Crash
    <3>1. /\ UNCHANGED <<events, meta, told, retracted, born, clashed, holds>> /\ wires' = {} /\ jobs' = {}
          /\ excused \subseteq excused'
          /\ \A w \in wires : <<w.to, w.id>> \in excused'
          /\ \A k \in jobs, g \in Followers : k.id # None => <<g, k.id>> \in excused'
      BY <2>7 DEF Crash, Cut
    <3>2. FollowerSound(f, i) /\ <<f, i>> \notin excused' /\ i # None
      BY <1>0, <1>1, <3>1 DEF FollowersSound, Excused
    <3>3. Mail(f, i) = {} /\ Mail(f, i)' = {}
      BY <3>1, <3>2 DEF Mail
    <3>4. \A cmd, s : ~ Running(cmd, s, i)
      BY <3>1, <3>2 DEF Running
    <3> QED
      BY <3>1, <3>2, <3>3, <3>4 DEF FollowerSound, Fits
  <2> QED
    BY <2>1, <2>3, <2>4, <2>5, <2>6, <2>7 DEF VideosNext
<1>2. (\A j \in jobs : j.does.cmd = "publish" /\ j.step # "record" /\ j.does.msg \notin clashed => Quiet(j))'
  BY QuietHold
<1> QED
  BY <1>1, <1>2 DEF FollowersSound

-----------------------------------------------------------------------------
(* The theorems. *)

LEMMA Invariance == VideosSpec => []IInv
<1>1. VideosInit => IInv
  <2> SUFFICES ASSUME VideosInit PROVE IInv
    OBVIOUS
  <2>1. Grounds
    BY GroundsBegin
  <2>2. IndexSound /\ FollowersSound
    BY DEF VideosInit, IndexSound, FollowersSound
  <2> QED
    BY <2>1, <2>2 DEF IInv
<1>2. IInv /\ [VideosNext]_videosVars => IInv'
  <2> SUFFICES ASSUME IInv, [VideosNext]_videosVars PROVE IInv'
    OBVIOUS
  <2>1. Grounds /\ IndexSound /\ FollowersSound
    BY DEF IInv
  <2>2. Grounds'
    BY <2>1, GroundsHold
  <2>3. IndexSound' /\ FollowersSound'
    BY <2>1, <2>2, IndexHold, FollowersHold
  <2> QED
    BY <2>2, <2>3 DEF IInv
<1> QED
  BY <1>1, <1>2, PTL DEF VideosSpec

\* The state stays well formed, a row's video was made from its message, and
\* what was sent out can be retracted whatever the homeserver repeats.
THEOREM SentVideosAreOnRecord == VideosSpec => []VideosInv
<1>1. IInv => VideosInv
  BY DEF IInv, Grounds, TablesSound, VideosInv
<1> QED
  BY <1>1, Invariance, PTL

\* At rest the channel's page and outbox list what is published and its index
\* names nothing else, of any two commands at different messages, where none
\* failed on its way.
THEOREM ChannelListsItsVideos == VideosSpec => []IndexMatches
<1>1. IInv => IndexMatches
  <2> SUFFICES ASSUME IInv, jobs = {}, NEW i \in 1..made, i \notin blurred \cup halted, born[i] \notin clashed
               PROVE  (Live(i) => Listed(i)) /\ (i \in index => Live(i))
    BY DEF IndexMatches
  <2>1. TypeOK /\ TablesSound /\ IndexAt(i) /\ born[i] \in Messages
    BY DEF IInv, Grounds, IndexSound, TablesSound
  <2>2. \A cmd, s : ~ Running(cmd, s, i)
    BY DEF Running
  <2>3. Live(i) <=> events[born[i]] = i
    BY <2>1, LiveByRow
  <2>4. i \in index => Live(i)
    BY <2>1, <2>2, <2>3 DEF IndexAt
  <2>5. Live(i) => i \in index /\ meta[i] # None
    BY <2>1, <2>2, <2>3 DEF IndexAt
  <2>6. Live(i) => Fetched(i) # None
    <3>1. meta[i] \in VideoNames \cup {None} /\ born[i] \in Files
      BY <2>1, VideosAssumption DEF TypeOK, TablesSound, Ids, Files
    <3> QED
      BY <2>5, <3>1, WhatFacts DEF Fetched
  <2> QED
    BY <2>4, <2>5, <2>6 DEF Listed
<1> QED
  BY <1>1, Invariance, PTL

\* At rest the followers of the owner and of the channel have what is published
\* under its name and nothing that was retracted.
THEOREM FollowersHaveTheVideos == VideosSpec => []FollowersMatch
<1>1. IInv => FollowersMatch
  <2> SUFFICES ASSUME IInv, jobs = {}, wires = {}, NEW f \in Followers, NEW i \in told,
                      <<f, i>> \notin excused, born[i] \notin clashed
               PROVE  IF Live(i) THEN holds[f][i] # None /\ holds[f][i].name = meta[i] ELSE holds[f][i] = None
    BY DEF FollowersMatch
  <2>1. TypeOK /\ TablesSound /\ OneVideoPerMessage /\ i \in 1..made /\ FollowerSound(f, i)
    BY DEF IInv, Grounds, TablesSound, FollowersSound, Excused
  <2>2. (\A cmd, s : ~ Running(cmd, s, i)) /\ Mail(f, i) = {}
    BY DEF Running, Mail
  <2>3. Live(i) <=> events[born[i]] = i
    BY <2>1, LiveByRow
  <2>4. i \in retracted <=> ~ Live(i)
    BY <2>1, <2>2, <2>3 DEF FollowerSound, OneVideoPerMessage
  <2> QED
    BY <2>1, <2>2, <2>4 DEF FollowerSound, Fits
<1> QED
  BY <1>1, Invariance, PTL

-----------------------------------------------------------------------------
(* The repository, three times. *)


\* A Postgres table as the rows of a function from its key, d.
Values(d) == {d[k] : k \in DOMAIN d}
Keyed(d, key) == \A k \in DOMAIN d : d[k][key] = k

\* Flags, as values a row holds.
Yes == TRUE
No == FALSE
LEMMA FlagFacts == Yes \in BOOLEAN /\ No \in BOOLEAN /\ Yes # No
  BY DEF Yes, No

-----------------------------------------------------------------------------
(* Dictionaries. *)

LEMMA PutFacts ==
  ASSUME NEW d, NEW k, NEW v
  PROVE  /\ \A x : x \in DOMAIN Put(d, k, v) <=> x \in DOMAIN d \/ x = k
         /\ Put(d, k, v)[k] = v
         /\ \A x \in DOMAIN d : x # k => Put(d, k, v)[x] = d[x]
  BY DEF Put, PutAll

LEMMA PopFacts ==
  ASSUME NEW d, NEW K
  PROVE  /\ \A x : x \in DOMAIN Pop(d, K) <=> x \in DOMAIN d /\ x \notin K
         /\ \A x \in DOMAIN d : x \notin K => Pop(d, K)[x] = d[x]
  BY DEF Pop

LEMMA GetFacts ==
  ASSUME NEW d, NEW k
  PROVE  /\ k \in DOMAIN d => Get(d, k) = d[k]
         /\ k \notin DOMAIN d => Get(d, k) = Nil
  BY DEF Get

LEMMA FieldFacts ==
  ASSUME NEW d, NEW k, NEW f
  PROVE  /\ k \in DOMAIN d => Field(d, k, f) = d[k][f]
         /\ k \notin DOMAIN d => Field(d, k, f) = Nil
  BY DEF Field

LEMMA EmptyFacts == DOMAIN Empty = {} /\ Values(Empty) = {}
  BY DEF Empty, Values

\* The key of the one row that matches.
LEMMA KeyOfOne ==
  ASSUME NEW d, NEW f, NEW v, NEW k \in DOMAIN d, d[k][f] = v,
         \A j \in DOMAIN d : d[j][f] = v => j = k
  PROVE  KeyOf(d, f, v) = k
<1>1. {j \in DOMAIN d : d[j][f] = v} = {k}
  OBVIOUS
<1> QED
  BY <1>1 DEF KeyOf, OneOf

LEMMA KeyOfNone ==
  ASSUME NEW d, NEW f, NEW v, \A j \in DOMAIN d : d[j][f] # v
  PROVE  KeyOf(d, f, v) = Nil
<1>1. {j \in DOMAIN d : d[j][f] = v} = {}
  OBVIOUS
<1> QED
  BY <1>1 DEF KeyOf, OneOf

-----------------------------------------------------------------------------
(* Rows. *)

\* The row an upsert leaves.
Merged(d, row, k, columns) ==
  IF k \in DOMAIN d THEN [f \in DOMAIN d[k] |-> IF f \in columns THEN row[f] ELSE d[k][f]] ELSE row

\* An upsert of the row at k, whose key columns are those of no other row.
LEMMA UpsertRows ==
  ASSUME NEW d, NEW row, NEW key, NEW columns, NEW k,
         \A x \in DOMAIN d : (\A f \in key : d[x][f] = row[f]) <=> x = k
  PROVE  PgUpsert(Values(d), row, key, columns) = Values(Put(d, k, Merged(d, row, k, columns)))
<1> DEFINE same == {x \in Values(d) : \A f \in key : x[f] = row[f]}
           e == Put(d, k, Merged(d, row, k, columns))
<1>1. PgUpsert(Values(d), row, key, columns) =
        IF same = {} THEN Values(d) \cup {row}
        ELSE (Values(d) \ same) \cup {[f \in DOMAIN x |-> IF f \in columns THEN row[f] ELSE x[f]] : x \in same}
  BY DEF PgUpsert
<1>2. same = IF k \in DOMAIN d THEN {d[k]} ELSE {}
  BY DEF Values
<1>3. DOMAIN e = DOMAIN d \cup {k} /\ e[k] = Merged(d, row, k, columns) /\ \A j \in DOMAIN d : j # k => e[j] = d[j]
  BY DEF Put, PutAll
<1>4. CASE k \notin DOMAIN d
  <2>1. same = {} /\ e[k] = row
    BY <1>2, <1>3, <1>4 DEF Merged
  <2>2. Values(e) = Values(d) \cup {row}
    BY <1>3, <1>4, <2>1 DEF Values
  <2> QED
    BY <1>1, <2>1, <2>2
<1>5. CASE k \in DOMAIN d
  <2>1. same = {d[k]} /\ e[k] = [f \in DOMAIN d[k] |-> IF f \in columns THEN row[f] ELSE d[k][f]]
    BY <1>2, <1>3, <1>5 DEF Merged
  <2>2. {[f \in DOMAIN x |-> IF f \in columns THEN row[f] ELSE x[f]] : x \in same} = {e[k]}
    BY <2>1
  <2>3. \A j \in DOMAIN d : d[j] = d[k] <=> j = k
    <3>1. \A j \in DOMAIN d : d[j] = d[k] => \A f \in key : d[j][f] = row[f]
      BY <1>5
    <3> QED
      BY <3>1
  <2>4. Values(e) = (Values(d) \ {d[k]}) \cup {e[k]}
    BY <1>3, <1>5, <2>3 DEF Values
  <2> QED
    BY <1>1, <2>1, <2>2, <2>4
<1> QED
  BY <1>4, <1>5

\* Equal dictionaries have the same rows.
LEMMA SameRows ==
  ASSUME NEW d, NEW e, \A x : x \in DOMAIN d <=> x \in DOMAIN e, \A k \in DOMAIN d : d[k] = e[k]
  PROVE  Values(d) = Values(e)
  BY DEF Values

\* The table after an upsert, a delete or an update, named by its rows.
LEMMA UpsertedRow ==
  ASSUME NEW d, NEW e, NEW row, NEW key, NEW columns, NEW k,
         \A x \in DOMAIN d : (\A f \in key : d[x][f] = row[f]) <=> x = k,
         \A x : x \in DOMAIN e <=> x \in DOMAIN d \/ x = k,
         \A x \in DOMAIN d : x # k => e[x] = d[x],
         e[k] = Merged(d, row, k, columns)
  PROVE  PgUpsert(Values(d), row, key, columns) = Values(e)
<1> DEFINE p == Put(d, k, Merged(d, row, k, columns))
<1>1. PgUpsert(Values(d), row, key, columns) = Values(p)
  BY UpsertRows
<1>2. (\A x : x \in DOMAIN p <=> x \in DOMAIN e) /\ (\A x \in DOMAIN p : p[x] = e[x])
  BY PutFacts
<1> HIDE DEF p
<1> QED
  BY <1>1, <1>2, SameRows

\* The same for a table whose key is one column.
LEMMA Upserted ==
  ASSUME NEW d, NEW e, NEW row, NEW key, NEW columns, NEW k, Keyed(d, key), row[key] = k,
         \A x : x \in DOMAIN e <=> x \in DOMAIN d \/ x = k,
         \A x \in DOMAIN d : x # k => e[x] = d[x],
         e[k] = Merged(d, row, k, columns)
  PROVE  PgUpsert(Values(d), row, {key}, columns) = Values(e)
<1> DEFINE K == {key}
<1>1. \A x \in DOMAIN d : (\A f \in K : d[x][f] = row[f]) <=> x = k
  BY DEF Keyed
<1> HIDE DEF K
<1>2. PgUpsert(Values(d), row, K, columns) = Values(e)
  BY <1>1, UpsertedRow
<1> QED
  BY <1>2 DEF K

\* What the row holds that an upsert leaves.
LEMMA MergedFacts ==
  ASSUME NEW d, NEW row, NEW k, NEW columns
  PROVE  /\ k \notin DOMAIN d => Merged(d, row, k, columns) = row
         /\ k \in DOMAIN d => \A f \in DOMAIN d[k] :
              /\ f \in columns => Merged(d, row, k, columns)[f] = row[f]
              /\ f \notin columns => Merged(d, row, k, columns)[f] = d[k][f]
  BY DEF Merged

\* A DELETE by key takes the key out of the dictionary.
LEMMA Deleted ==
  ASSUME NEW d, NEW e, NEW key, NEW k, Keyed(d, key),
         \A x : x \in DOMAIN e <=> x \in DOMAIN d /\ x # k,
         \A x \in DOMAIN e : e[x] = d[x]
  PROVE  PgDelete(Values(d), key, k) = Values(e)
  BY DEF PgDelete, Values, Keyed

With(row, column, value) == [row EXCEPT ![column] = value]
\* An UPDATE changes one column of the rows it finds.
LEMMA Updated ==
  ASSUME NEW d, NEW e, NEW f, NEW v, NEW column, NEW value,
         \A x : x \in DOMAIN e <=> x \in DOMAIN d,
         \A x \in DOMAIN d : d[x][f] = v => e[x] = With(d[x], column, value),
         \A x \in DOMAIN d : d[x][f] # v => e[x] = d[x]
  PROVE  PgUpdate(Values(d), f, v, column, value) = Values(e)
<1>1. PgUpdate(Values(d), f, v, column, value) =
        {IF d[k][f] = v THEN [d[k] EXCEPT ![column] = value] ELSE d[k] : k \in DOMAIN d}
  BY DEF PgUpdate, Values
<1>2. \A k \in DOMAIN d : (IF d[k][f] = v THEN [d[k] EXCEPT ![column] = value] ELSE d[k]) = e[k]
  BY DEF With
<1>3. \A x : x \in PgUpdate(Values(d), f, v, column, value) <=> \E k \in DOMAIN d : x = e[k]
  BY <1>1, <1>2
<1> QED
  BY <1>3 DEF Values

\* What a SELECT by key finds, and one by another column that tells rows apart.
LEMMA FindByKey ==
  ASSUME NEW d, NEW key, NEW k, Keyed(d, key)
  PROVE  /\ k \in DOMAIN d <=> PgWhere(Values(d), key, k) # {}
         /\ k \in DOMAIN d => \A c : PgOne(PgWhere(Values(d), key, k), c) = d[k][c]
         /\ k \notin DOMAIN d => \A c : PgOne(PgWhere(Values(d), key, k), c) = Nil
<1>1. PgWhere(Values(d), key, k) = IF k \in DOMAIN d THEN {d[k]} ELSE {}
  BY DEF PgWhere, Values, Keyed
<1> QED
  BY <1>1 DEF PgOne

\* A query that one row answers, and one that none does.
LEMMA FindOne ==
  ASSUME NEW d, NEW f, NEW v, NEW k \in DOMAIN d, d[k][f] = v,
         \A j \in DOMAIN d : d[j][f] = v => j = k
  PROVE  /\ PgWhere(Values(d), f, v) # {}
         /\ \A c : PgOne(PgWhere(Values(d), f, v), c) = d[k][c]
<1>1. PgWhere(Values(d), f, v) = {d[k]}
  BY DEF PgWhere, Values
<1> QED
  BY <1>1 DEF PgOne

LEMMA FindNone ==
  ASSUME NEW d, NEW f, NEW v, \A j \in DOMAIN d : d[j][f] # v
  PROVE  /\ PgWhere(Values(d), f, v) = {}
         /\ \A c : PgOne(PgWhere(Values(d), f, v), c) = Nil
<1>1. PgWhere(Values(d), f, v) = {}
  BY DEF PgWhere, Values
<1> QED
  BY <1>1 DEF PgOne

\* What a column of all rows holds.
LEMMA ColumnOf ==
  ASSUME NEW d, NEW c, NEW v
  PROVE  v \in PgColumn(Values(d), c) <=> \E k \in DOMAIN d : d[k][c] = v
  BY DEF PgColumn, Values

\* A table read by its key is the dictionary.
LEMMA ByKey ==
  ASSUME NEW d, NEW e, NEW key, NEW c, Keyed(d, key), e = [k \in DOMAIN d |-> d[k][c]]
  PROVE  PgBy(Values(d), key, c) = e
<1>1. PgColumn(Values(d), key) = DOMAIN d
  BY DEF PgColumn, Values, Keyed
<1>2. \A k \in DOMAIN d : PgOne(PgWhere(Values(d), key, k), c) = d[k][c]
  BY FindByKey
<1> QED
  BY <1>1, <1>2 DEF PgBy
-----------------------------------------------------------------------------
(* Histories of rooms: of remote actors, DMs and Chats. *)

\* Rooms and history tell one story.
History(h, K) == h \in [DOMAIN h -> [key : K, current : BOOLEAN]]
Flagged(s, r) ==
  LET e == s.history[r]
  IN \/ s.rooms[e.key].room = r /\ e.current = Yes
     \/ s.rooms[e.key].room # r /\ e.current = No
HistorySound(s, K) ==
  /\ DOMAIN s.rooms \subseteq K /\ DOMAIN s.history \subseteq Rooms
  /\ History(s.history, K)
  /\ \A k \in DOMAIN s.rooms : s.rooms[k].room \in DOMAIN s.history /\ s.history[s.rooms[k].room].key = k
  /\ \A r \in DOMAIN s.history :
       /\ s.history[r].key \in DOMAIN s.rooms
       /\ Flagged(s, r)

\* A row of the history when k gets another room.
Now(k) == [key |-> k, current |-> Yes]
Past(e, k) == IF e.key = k THEN [key |-> k, current |-> No] ELSE e
LEMMA NowFacts == ASSUME NEW k PROVE Now(k).key = k /\ Now(k).current = Yes
  BY DEF Now
LEMMA PastFacts ==
  ASSUME NEW e, NEW k
  PROVE  /\ e.key = k => Past(e, k).key = k /\ Past(e, k).current = No
         /\ e.key # k => Past(e, k) = e
         /\ Past(e, k).key = e.key
  BY DEF Past

LEMMA RecordedFacts ==
  ASSUME NEW K, NEW h, History(h, K), NEW k \in K, NEW r,
         r \in DOMAIN h => h[r].key = k
  PROVE  /\ \A x : x \in DOMAIN Recorded(h, k, r) <=> x \in DOMAIN h \/ x = r
         /\ History(Recorded(h, k, r), K)
         /\ Recorded(h, k, r)[r] = Now(k)
         /\ \A x \in DOMAIN h : x # r => Recorded(h, k, r)[x] = Past(h[x], k)
<1> DEFINE c == [x \in DOMAIN h |-> IF h[x].key = k THEN [h[x] EXCEPT !.current = No] ELSE h[x]]
           e == [key |-> IF r \in DOMAIN h THEN h[r].key ELSE k, current |-> Yes]
<1>1. Recorded(h, k, r) = Put(c, r, e)
  BY Zenon DEF Recorded, No, Yes
<1>2. \A x \in DOMAIN h : c[x] = Past(h[x], k) /\ c[x] \in [key : K, current : BOOLEAN]
  BY FlagFacts DEF Past, History
<1>3. DOMAIN c = DOMAIN h
  OBVIOUS
<1>4. e = Now(k) /\ e \in [key : K, current : BOOLEAN]
  BY FlagFacts DEF Now
<1> HIDE DEF c, e
<1>5. Recorded(h, k, r) = [x \in DOMAIN h \cup {r} |-> IF x = r THEN e ELSE c[x]]
  BY <1>1, <1>3 DEF Put, PutAll
<1> QED
  BY <1>2, <1>4, <1>5 DEF History

\* A room is registered that is new or the key's own.
LEMMA HistoryKept ==
  ASSUME NEW K, NEW s, NEW t, HistorySound(s, K), NEW k \in K, NEW r \in Rooms,
         r \in DOMAIN s.history => s.history[r].key = k,
         t.history = Recorded(s.history, k, r),
         \A x : x \in DOMAIN t.rooms <=> x \in DOMAIN s.rooms \/ x = k, t.rooms[k].room = r,
         \A x \in DOMAIN s.rooms : x # k => t.rooms[x].room = s.rooms[x].room
  PROVE  HistorySound(t, K)
<1>0. History(s.history, K)
  BY DEF HistorySound
<1>1. /\ \A x : x \in DOMAIN t.history <=> x \in DOMAIN s.history \/ x = r
      /\ History(t.history, K)
      /\ t.history[r] = Now(k)
      /\ \A x \in DOMAIN s.history : x # r => t.history[x] = Past(s.history[x], k)
  BY <1>0, RecordedFacts
<1>2. \A j \in DOMAIN t.rooms : t.rooms[j].room \in DOMAIN t.history /\ t.history[t.rooms[j].room].key = j
  <2> SUFFICES ASSUME NEW j \in DOMAIN t.rooms
               PROVE  t.rooms[j].room \in DOMAIN t.history /\ t.history[t.rooms[j].room].key = j
    OBVIOUS
  <2>1. CASE j = k
    BY <1>1, <2>1, NowFacts
  <2>2. CASE j # k
    <3>1. s.rooms[j].room \in DOMAIN s.history /\ s.history[s.rooms[j].room].key = j
      BY <2>2 DEF HistorySound
    <3>2. s.rooms[j].room # r
      BY <2>2, <3>1
    <3> QED
      BY <1>1, <2>2, <3>1, <3>2, PastFacts
  <2> QED
    BY <2>1, <2>2
<1>3. \A x \in DOMAIN t.history : t.history[x].key \in DOMAIN t.rooms /\ Flagged(t, x)
  <2> SUFFICES ASSUME NEW x \in DOMAIN t.history
               PROVE  t.history[x].key \in DOMAIN t.rooms /\ Flagged(t, x)
    OBVIOUS
  <2>1. CASE x = r
    BY <1>1, <2>1, NowFacts DEF Flagged
  <2>2. CASE x # r
    <3>1. s.history[x].key \in DOMAIN s.rooms /\ Flagged(s, x) /\ t.history[x] = Past(s.history[x], k)
      BY <1>1, <2>2 DEF HistorySound
    <3>2. CASE s.history[x].key = k
      BY <2>2, <3>1, <3>2, PastFacts DEF Flagged
    <3>3. CASE s.history[x].key # k
      BY <2>2, <3>1, <3>3, PastFacts DEF Flagged
    <3> QED
      BY <3>2, <3>3
  <2> QED
    BY <2>1, <2>2
<1>4. DOMAIN t.rooms \subseteq K /\ DOMAIN t.history \subseteq Rooms
  BY <1>1 DEF HistorySound
<1> QED
  BY <1>1, <1>2, <1>3, <1>4 DEF HistorySound

\* The flag is on the key's own room alone (HistoryFollows).
LEMMA HistoryOfRooms ==
  ASSUME NEW K, NEW s, HistorySound(s, K), NEW k \in DOMAIN s.rooms
  PROVE  {r \in DOMAIN s.history : s.history[r].key = k /\ s.history[r].current} = {s.rooms[k].room}
<1>1. \A r \in DOMAIN s.history : (s.history[r].key = k /\ s.history[r].current) <=> r = s.rooms[k].room
  BY Zenon DEF HistorySound, Flagged, Yes, No
<1> QED
  BY <1>1 DEF HistorySound

-----------------------------------------------------------------------------
(* Rooms of remote actors. *)

RoomTable(d) == d \in [DOMAIN d -> [room : Rooms, pending : BOOLEAN]]

RemoteRow(a, e) == [actor |-> a, room |-> e.room, pending |-> e.pending]
RemoteRows(d) == [a \in DOMAIN d |-> RemoteRow(a, d[a])]
RemotePast(r, e) == [room |-> r, actor |-> e.key, current |-> e.current]
RemotePasts(h) == [r \in DOMAIN h |-> RemotePast(r, h[r])]
Entry(a, pending) == [actor |-> a, pending |-> pending]
Room(r, pending) == [room |-> r, pending |-> pending]

LEMMA RoomFacts ==
  ASSUME NEW r \in Rooms, NEW p \in BOOLEAN
  PROVE  Room(r, p) \in [room : Rooms, pending : BOOLEAN] /\ Room(r, p) # Nil
  BY NilAssumption DEF Room

LEMMA RoomFields ==
  ASSUME NEW r, NEW p
  PROVE  Room(r, p).room = r /\ Room(r, p).pending = p
  BY DEF Room

LEMMA EntryFacts ==
  ASSUME NEW a, NEW p
  PROVE  Entry(a, p).actor = a /\ Entry(a, p).pending = p
  BY DEF Entry

\* By room, the dictionary names the actor whose room it is now, and its flag.
BackEntries(b, d) ==
  /\ \A r \in DOMAIN b : \E a \in DOMAIN d : d[a].room = r
  /\ \A a \in DOMAIN d : d[a].room \in DOMAIN b /\ b[d[a].room] = Entry(a, d[a].pending)
  /\ \A a, c \in DOMAIN d : d[a].room = d[c].room => a = c

RemoteSound(m, s, g) ==
  /\ DOMAIN m = {"rooms", "byRoom", "history"} /\ DOMAIN s = {"rooms", "history"} /\ DOMAIN g = {"rooms", "history"}
  /\ RoomTable(s.rooms)
  /\ HistorySound(s, Actors)
  /\ m.rooms = s.rooms
  /\ BackEntries(m.byRoom, s.rooms)
  /\ \A r : r \in DOMAIN m.history <=> r \in DOMAIN s.history
  /\ \A r \in DOMAIN s.history : m.history[r] = s.history[r].key
  /\ g.rooms = Values(RemoteRows(s.rooms)) /\ g.history = Values(RemotePasts(s.history))

LEMMA RemoteRowsFacts ==
  ASSUME NEW d
  PROVE  /\ DOMAIN RemoteRows(d) = DOMAIN d /\ Keyed(RemoteRows(d), "actor")
         /\ \A a \in DOMAIN d : RemoteRows(d)[a] = RemoteRow(a, d[a])
  BY DEF RemoteRows, RemoteRow, Keyed

LEMMA RemotePastsFacts ==
  ASSUME NEW h
  PROVE  /\ DOMAIN RemotePasts(h) = DOMAIN h /\ Keyed(RemotePasts(h), "room")
         /\ \A r \in DOMAIN h : RemotePasts(h)[r] = RemotePast(r, h[r])
  BY DEF RemotePasts, RemotePast, Keyed

\* The room row an upsert of a room leaves (the flag stays), and the history's.
LEMMA RemoteRowsUpserted ==
  ASSUME NEW d, NEW e, NEW a, NEW r, NEW pending, NEW keep,
         \A x : x \in DOMAIN e <=> x \in DOMAIN d \/ x = a,
         \A x \in DOMAIN d : x # a => e[x] = d[x],
         e[a] = Room(r, keep), keep = IF a \in DOMAIN d THEN d[a].pending ELSE pending
  PROVE  PgUpsert(Values(RemoteRows(d)), [actor |-> a, room |-> r, pending |-> pending], {"actor"}, {"room"})
           = Values(RemoteRows(e))
<1> DEFINE row == [actor |-> a, room |-> r, pending |-> pending]
<1>1. row["actor"] = a
  OBVIOUS
<1>2. RemoteRow(a, e[a]) = Merged(RemoteRows(d), row, a, {"room"})
  BY DEF Merged, RemoteRow, RemoteRows, Room
<1> HIDE DEF row
<1> QED
  BY <1>1, <1>2, Upserted, RemoteRowsFacts DEF row

LEMMA RemotePastsRecorded ==
  ASSUME NEW h, History(h, Actors), NEW a \in Actors, NEW r, r \in DOMAIN h => h[r].key = a
  PROVE  PgUpsert(PgUpdate(Values(RemotePasts(h)), "actor", a, "current", No),
                  [room |-> r, actor |-> a, current |-> Yes], {"room"}, {"current"})
           = Values(RemotePasts(Recorded(h, a, r)))
<1> DEFINE d == RemotePasts(h)
           c == [x \in DOMAIN h |-> RemotePast(x, Past(h[x], a))]
           e == RemotePasts(Recorded(h, a, r))
           row == [room |-> r, actor |-> a, current |-> Yes]
<1>1. /\ \A x : x \in DOMAIN c <=> x \in DOMAIN h
      /\ \A x \in DOMAIN h : c[x] = RemotePast(x, Past(h[x], a))
  OBVIOUS
<1>2. \A x \in DOMAIN h : /\ d[x]["actor"] = a => c[x] = With(d[x], "current", No)
                          /\ d[x]["actor"] # a => c[x] = d[x]
  BY DEF RemotePasts, RemotePast, Past, With
<1>3. row["room"] = r /\ Keyed(c, "room")
  BY DEF Keyed, RemotePast
<1>4. r \in DOMAIN h => Merged(c, row, r, {"current"}) = RemotePast(r, Now(a))
  BY DEF Merged, RemotePast, Now, Past
<1>5. r \notin DOMAIN h => Merged(c, row, r, {"current"}) = RemotePast(r, Now(a))
  BY DEF Merged, RemotePast, Now
<1> HIDE DEF d, c, e, row
<1>6. DOMAIN d = DOMAIN h
  BY RemotePastsFacts DEF d
<1>7. PgUpdate(Values(d), "actor", a, "current", No) = Values(c)
  BY <1>1, <1>2, <1>6, Updated
<1>8. /\ \A x : x \in DOMAIN e <=> x \in DOMAIN c \/ x = r
      /\ e[r] = RemotePast(r, Now(a))
      /\ \A x \in DOMAIN c : x # r => e[x] = c[x]
  <2>1. /\ \A x : x \in DOMAIN Recorded(h, a, r) <=> x \in DOMAIN h \/ x = r
        /\ Recorded(h, a, r)[r] = Now(a)
        /\ \A x \in DOMAIN h : x # r => Recorded(h, a, r)[x] = Past(h[x], a)
    BY RecordedFacts
  <2> QED
    BY <1>1, <2>1, RemotePastsFacts DEF e
<1>9. PgUpsert(Values(c), row, {"room"}, {"current"}) = Values(e)
  BY <1>3, <1>4, <1>5, <1>8, Upserted
<1> QED
  BY <1>7, <1>9 DEF d, e, row

\* register_remote_actor_room keeps the three stores at one content.
LEMMA RemoteRegistered ==
  ASSUME NEW m, NEW s, NEW g, RemoteSound(m, s, g), NEW a \in Actors, NEW r \in Rooms, NEW pending \in BOOLEAN,
         r \in DOMAIN s.history => s.history[r].key = a
  PROVE  RemoteSound(MemRegisterRemote(m, a, r, pending), SqlRegisterRemote(s, a, r, pending),
                     PgRegisterRemote(g, a, r, pending))
<1> DEFINE n == MemRegisterRemote(m, a, r, pending)
           t == SqlRegisterRemote(s, a, r, pending)
           h == PgRegisterRemote(g, a, r, pending)
           keep == IF a \in DOMAIN s.rooms THEN s.rooms[a].pending ELSE pending
<1>0. /\ s.rooms \in [DOMAIN s.rooms -> [room : Rooms, pending : BOOLEAN]] /\ DOMAIN s.rooms \subseteq Actors
      /\ History(s.history, Actors)
      /\ keep \in BOOLEAN
      /\ \A x \in DOMAIN s.rooms : s.rooms[x].room \in DOMAIN s.history /\ s.history[s.rooms[x].room].key = x
  BY DEF RemoteSound, HistorySound, RoomTable
<1>1. t.rooms = Put(s.rooms, a, Room(r, keep)) /\ t.history = Recorded(s.history, a, r)
  BY DEF SqlRegisterRemote, Room
<1>2. /\ \A x : x \in DOMAIN t.rooms <=> x \in DOMAIN s.rooms \/ x = a
      /\ t.rooms[a] = Room(r, keep)
      /\ \A x \in DOMAIN s.rooms : x # a => t.rooms[x] = s.rooms[x]
  BY <1>1, PutFacts
<1>3. /\ \A x : x \in DOMAIN t.history <=> x \in DOMAIN s.history \/ x = r
      /\ t.history[r] = Now(a)
      /\ \A x \in DOMAIN s.history : x # r => t.history[x] = Past(s.history[x], a)
  BY <1>0, <1>1, RecordedFacts
<1>4. PICK left : /\ n.byRoom = Put(Pop(m.byRoom, left), r, Entry(a, keep))
                  /\ n.rooms = Put(s.rooms, a, Room(r, keep))
                  /\ n.history = Put(m.history, r, a)
                  /\ \A x : x \in left <=> a \in DOMAIN s.rooms /\ x = s.rooms[a].room /\ x # r
  <2>1. CASE a \in DOMAIN s.rooms
    <3>1. s.rooms[a] # Nil
      BY <1>0, <2>1, NilAssumption
    <3>2. /\ n.byRoom = Put(Pop(m.byRoom, IF s.rooms[a].room # r THEN {s.rooms[a].room} ELSE {}), r, Entry(a, keep))
          /\ n.rooms = Put(s.rooms, a, Room(r, keep))
          /\ n.history = Put(m.history, r, a)
      BY <2>1, <3>1 DEF MemRegisterRemote, RemoteSound, Get, Entry, Room
    <3> HIDE DEF n, keep
    <3> QED
      BY <2>1, <3>2
  <2>2. CASE a \notin DOMAIN s.rooms
    <3>2. /\ n.byRoom = Put(Pop(m.byRoom, {}), r, Entry(a, keep))
          /\ n.rooms = Put(s.rooms, a, Room(r, keep))
          /\ n.history = Put(m.history, r, a)
      BY <2>2 DEF MemRegisterRemote, RemoteSound, Get, Entry, Room
    <3> HIDE DEF n, keep
    <3> QED
      BY <2>2, <3>2
  <2> QED
    BY <2>1, <2>2
<1>5. /\ h.rooms = PgUpsert(Values(RemoteRows(s.rooms)), [actor |-> a, room |-> r, pending |-> pending], {"actor"}, {"room"})
      /\ h.history = PgUpsert(PgUpdate(Values(RemotePasts(s.history)), "actor", a, "current", No),
                              [room |-> r, actor |-> a, current |-> Yes], {"room"}, {"current"})
  BY Zenon DEF PgRegisterRemote, RemoteSound, No, Yes
<1>6. keep = IF a \in DOMAIN s.rooms THEN s.rooms[a].pending ELSE pending
  OBVIOUS
<1>14. DOMAIN n = {"rooms", "byRoom", "history"} /\ DOMAIN t = {"rooms", "history"} /\ DOMAIN h = {"rooms", "history"}
  BY DEF MemRegisterRemote, SqlRegisterRemote, PgRegisterRemote
<1> HIDE DEF n, t, h, keep
<1>7. h.rooms = Values(RemoteRows(t.rooms)) /\ h.history = Values(RemotePasts(t.history))
  <2>1. h.rooms = Values(RemoteRows(t.rooms))
    BY <1>2, <1>5, <1>6, RemoteRowsUpserted
  <2>2. h.history = Values(RemotePasts(t.history))
    BY <1>0, <1>1, <1>5, RemotePastsRecorded
  <2> QED
    BY <2>1, <2>2
<1>8. Room(r, keep).room = r /\ Room(r, keep).pending = keep /\ Room(r, keep) \in [room : Rooms, pending : BOOLEAN]
  BY <1>0, RoomFacts, RoomFields
<1>9. HistorySound(t, Actors)
  BY <1>1, <1>2, <1>8, HistoryKept DEF RemoteSound
<1>10. RoomTable(t.rooms)
  <2>1. t.rooms = [x \in DOMAIN s.rooms \cup {a} |-> IF x = a THEN Room(r, keep) ELSE s.rooms[x]]
    BY <1>1 DEF Put, PutAll
  <2> QED
    BY <1>0, <1>8, <2>1 DEF RoomTable
<1>11. BackEntries(n.byRoom, t.rooms)
  <2>0. BackEntries(m.byRoom, s.rooms)
    BY DEF RemoteSound
  <2>1. \A x \in DOMAIN s.rooms : s.rooms[x].room = r => x = a
    BY <1>0
  <2>2. /\ \A x : x \in DOMAIN n.byRoom <=> (x \in DOMAIN m.byRoom /\ x \notin left) \/ x = r
        /\ n.byRoom[r] = Entry(a, keep)
        /\ \A x \in DOMAIN m.byRoom : x \notin left /\ x # r => n.byRoom[x] = m.byRoom[x]
    BY <1>4, PutFacts, PopFacts
  <2>3. ASSUME NEW x \in DOMAIN n.byRoom PROVE \E b \in DOMAIN t.rooms : t.rooms[b].room = x
    <3>1. CASE x = r
      BY <1>2, <1>8, <3>1
    <3>2. CASE x # r
      <4>1. x \in DOMAIN m.byRoom /\ x \notin left
        BY <2>2, <3>2
      <4>2. PICK b \in DOMAIN s.rooms : s.rooms[b].room = x
        BY <2>0, <4>1 DEF BackEntries
      <4>3. b # a
        BY <1>4, <3>2, <4>1, <4>2
      <4> QED
        BY <1>2, <4>2, <4>3
    <3> QED
      BY <3>1, <3>2
  <2>4. ASSUME NEW x \in DOMAIN t.rooms
        PROVE  t.rooms[x].room \in DOMAIN n.byRoom /\ n.byRoom[t.rooms[x].room] = Entry(x, t.rooms[x].pending)
    <3>1. CASE x = a
      BY <1>2, <1>8, <2>2, <3>1
    <3>2. CASE x # a
      <4>1. x \in DOMAIN s.rooms /\ t.rooms[x] = s.rooms[x] /\ s.rooms[x].room # r
        BY <1>2, <2>1, <3>2
      <4>2. s.rooms[x].room \in DOMAIN m.byRoom /\ m.byRoom[s.rooms[x].room] = Entry(x, s.rooms[x].pending)
        BY <2>0, <4>1 DEF BackEntries
      <4>3. s.rooms[x].room \notin left
        BY <1>4, <2>0, <3>2, <4>1 DEF BackEntries
      <4> QED
        BY <2>2, <4>1, <4>2, <4>3
    <3> QED
      BY <3>1, <3>2
  <2>5. \A x, y \in DOMAIN t.rooms : t.rooms[x].room = t.rooms[y].room => x = y
    BY <1>2, <1>8, <2>0, <2>1 DEF BackEntries
  <2> QED
    BY <2>3, <2>4, <2>5 DEF BackEntries
<1>12. /\ \A x : x \in DOMAIN n.history <=> x \in DOMAIN t.history
       /\ \A x \in DOMAIN t.history : n.history[x] = t.history[x].key
  <2>1. /\ \A x : x \in DOMAIN n.history <=> x \in DOMAIN m.history \/ x = r
        /\ n.history[r] = a
        /\ \A x \in DOMAIN m.history : x # r => n.history[x] = m.history[x]
    BY <1>4, PutFacts
  <2>2. /\ \A x : x \in DOMAIN m.history <=> x \in DOMAIN s.history
        /\ \A x \in DOMAIN s.history : m.history[x] = s.history[x].key
    BY DEF RemoteSound
  <2> QED
    BY <1>3, <2>1, <2>2, NowFacts, PastFacts
<1>13. n.rooms = t.rooms
  BY <1>1, <1>4
<1> QED
  BY <1>7, <1>9, <1>10, <1>11, <1>12, <1>13, <1>14 DEF RemoteSound, n, t, h


BackfillOf(d, r) == [a \in DOMAIN d |-> IF d[a].room = r THEN [d[a] EXCEPT !.pending = No] ELSE d[a]]

LEMMA BackfillOfFacts ==
  ASSUME NEW d, RoomTable(d), NEW r
  PROVE  /\ \A x : x \in DOMAIN BackfillOf(d, r) <=> x \in DOMAIN d
         /\ RoomTable(BackfillOf(d, r))
         /\ \A a \in DOMAIN d : d[a].room = r => BackfillOf(d, r)[a] = Room(r, No)
         /\ \A a \in DOMAIN d : d[a].room # r => BackfillOf(d, r)[a] = d[a]
  BY FlagFacts DEF BackfillOf, Room, RoomTable

\* The backfill of a room is done: its flag goes down in every table of rooms.
LEMMA RemoteRowsUpdated ==
  ASSUME NEW d, RoomTable(d), NEW r
  PROVE  PgUpdate(Values(RemoteRows(d)), "room", r, "pending", No) = Values(RemoteRows(BackfillOf(d, r)))
<1> DEFINE e == BackfillOf(d, r)
<1>1. /\ \A x : x \in DOMAIN e <=> x \in DOMAIN d
      /\ \A a \in DOMAIN d : d[a].room = r => e[a] = Room(r, No)
      /\ \A a \in DOMAIN d : d[a].room # r => e[a] = d[a]
  BY BackfillOfFacts
<1>2. \A a \in DOMAIN d : d[a].room = r => RemoteRow(a, Room(r, No)) = With(RemoteRow(a, d[a]), "pending", No)
  BY DEF RemoteRow, Room, With
<1>3. \A a \in DOMAIN d : RemoteRow(a, d[a])["room"] = d[a].room
  BY DEF RemoteRow
<1> HIDE DEF e
<1>4. /\ DOMAIN RemoteRows(d) = DOMAIN d /\ DOMAIN RemoteRows(e) = DOMAIN e
      /\ \A a \in DOMAIN d : RemoteRows(d)[a] = RemoteRow(a, d[a])
      /\ \A a \in DOMAIN e : RemoteRows(e)[a] = RemoteRow(a, e[a])
  BY RemoteRowsFacts
<1>5. /\ \A x : x \in DOMAIN RemoteRows(e) <=> x \in DOMAIN RemoteRows(d)
      /\ \A x \in DOMAIN RemoteRows(d) : RemoteRows(d)[x]["room"] = r => RemoteRows(e)[x] = With(RemoteRows(d)[x], "pending", No)
      /\ \A x \in DOMAIN RemoteRows(d) : RemoteRows(d)[x]["room"] # r => RemoteRows(e)[x] = RemoteRows(d)[x]
  BY <1>1, <1>2, <1>3, <1>4
<1> QED
  BY <1>5, Updated DEF e

\* The dictionaries set the flag in both directions, if the room is known.
LEMMA BackEntriesBackfilled ==
  ASSUME NEW b, NEW d, RoomTable(d), BackEntries(b, d), NEW r
  PROVE  /\ r \notin DOMAIN b => BackfillOf(d, r) = d
         /\ r \in DOMAIN b => BackfillOf(d, r) = Put(d, b[r].actor, Room(r, No))
         /\ r \in DOMAIN b => BackEntries(Put(b, r, Entry(b[r].actor, No)), BackfillOf(d, r))
<1> DEFINE e == BackfillOf(d, r)
<1>1. /\ \A x : x \in DOMAIN e <=> x \in DOMAIN d
      /\ \A a \in DOMAIN d : d[a].room = r => e[a] = Room(r, No)
      /\ \A a \in DOMAIN d : d[a].room # r => e[a] = d[a]
  BY BackfillOfFacts
<1>0. e = [x \in DOMAIN e |-> e[x]] /\ d = [x \in DOMAIN d |-> d[x]]
  BY DEF BackfillOf, RoomTable
<1> HIDE DEF e
<1>2. CASE r \notin DOMAIN b
  <2>1. \A a \in DOMAIN d : e[a] = d[a]
    BY <1>1, <1>2 DEF BackEntries
  <2> QED
    BY <1>0, <1>1, <1>2, <2>1 DEF e
<1>3. CASE r \in DOMAIN b
  <2>1. PICK a \in DOMAIN d : d[a].room = r
    BY <1>3 DEF BackEntries
  <2>2. b[r] = Entry(a, d[a].pending) /\ b[r].actor = a
    BY <2>1, EntryFacts DEF BackEntries
  <2>3. \A c \in DOMAIN d : d[c].room = r <=> c = a
    BY <2>1 DEF BackEntries
  <2>4. e = Put(d, a, Room(r, No))
    <3> DEFINE p == Put(d, a, Room(r, No))
    <3>1. p = [x \in DOMAIN d \cup {a} |-> IF x = a THEN Room(r, No) ELSE d[x]]
      BY DEF Put, PutAll
    <3>2. DOMAIN e = DOMAIN p /\ \A x \in DOMAIN e : e[x] = p[x]
      BY <1>1, <2>1, <2>3, <3>1
    <3>3. p = [x \in DOMAIN p |-> p[x]]
      BY <3>1
    <3> HIDE DEF p
    <3> QED
      BY <1>0, <3>2, <3>3 DEF p
  <2> DEFINE q == Put(b, r, Entry(a, No))
  <2>5. /\ \A x : x \in DOMAIN q <=> x \in DOMAIN b \/ x = r
        /\ q[r] = Entry(a, No)
        /\ \A x \in DOMAIN b : x # r => q[x] = b[x]
    BY PutFacts
  <2>6. Room(r, No).room = r /\ Room(r, No).pending = No
    BY DEF Room
  <2> HIDE DEF q
  <2>7. BackEntries(q, e)
    <3>1. \A x \in DOMAIN e : e[x].room = d[x].room
      BY <1>1, <2>6
    <3>2. \A x \in DOMAIN q : \E c \in DOMAIN e : e[c].room = x
      BY <1>1, <1>3, <2>5, <3>1 DEF BackEntries
    <3>3. \A x \in DOMAIN e : e[x].room \in DOMAIN q /\ q[e[x].room] = Entry(x, e[x].pending)
      <4> SUFFICES ASSUME NEW x \in DOMAIN e
                   PROVE  e[x].room \in DOMAIN q /\ q[e[x].room] = Entry(x, e[x].pending)
        OBVIOUS
      <4>1. CASE x = a
        BY <1>1, <2>1, <2>5, <2>6, <4>1
      <4>2. CASE x # a
        <5>1. x \in DOMAIN d /\ d[x].room # r /\ e[x] = d[x]
          BY <1>1, <2>3, <4>2
        <5> QED
          BY <2>5, <5>1 DEF BackEntries
      <4> QED
        BY <4>1, <4>2
    <3>4. \A x, y \in DOMAIN e : e[x].room = e[y].room => x = y
      BY <1>1, <3>1 DEF BackEntries
    <3> QED
      BY <3>2, <3>3, <3>4 DEF BackEntries
  <2> QED
    BY <1>3, <2>2, <2>4, <2>7 DEF e, q
<1> QED
  BY <1>2, <1>3

\* mark_backfill_pending_done keeps them so.
LEMMA RemoteBackfilled ==
  ASSUME NEW m, NEW s, NEW g, RemoteSound(m, s, g), NEW r \in Rooms
  PROVE  RemoteSound(MemBackfillDone(m, r), SqlBackfillDone(s, r), PgBackfillDone(g, r))
<1> DEFINE n == MemBackfillDone(m, r)
           t == SqlBackfillDone(s, r)
           h == PgBackfillDone(g, r)
<1>0. RoomTable(s.rooms) /\ BackEntries(m.byRoom, s.rooms) /\ m.rooms = s.rooms
  BY DEF RemoteSound
<1>1. t.rooms = BackfillOf(s.rooms, r) /\ t.history = s.history /\ DOMAIN t = {"rooms", "history"}
  <2>1. t = [s EXCEPT !.rooms = BackfillOf(s.rooms, r)]
    BY Zenon DEF SqlBackfillDone, BackfillOf, No
  <2> QED
    BY <2>1 DEF RemoteSound
<1>2. h.rooms = PgUpdate(g.rooms, "room", r, "pending", No) /\ h.history = g.history /\ DOMAIN h = {"rooms", "history"}
  <2>1. h = [g EXCEPT !.rooms = PgUpdate(g.rooms, "room", r, "pending", No)]
    BY Zenon DEF PgBackfillDone, No
  <2> QED
    BY <2>1 DEF RemoteSound
<1>3. /\ DOMAIN n = {"rooms", "byRoom", "history"} /\ n.history = m.history
      /\ r \notin DOMAIN m.byRoom => n = m
      /\ r \in DOMAIN m.byRoom => n.rooms = Put(m.rooms, m.byRoom[r].actor, Room(r, No))
      /\ r \in DOMAIN m.byRoom => n.byRoom = Put(m.byRoom, r, Entry(m.byRoom[r].actor, No))
  <2>1. n = IF r \notin DOMAIN m.byRoom THEN m
            ELSE [m EXCEPT !.rooms = Put(m.rooms, m.byRoom[r].actor, Room(r, No)),
                           !.byRoom = Put(m.byRoom, r, Entry(m.byRoom[r].actor, No))]
    BY Zenon DEF MemBackfillDone, No, Room, Entry
  <2> QED
    BY <2>1 DEF RemoteSound
<1> HIDE DEF n, t, h
<1>4. n.rooms = t.rooms /\ BackEntries(n.byRoom, t.rooms)
  BY <1>0, <1>1, <1>3, BackEntriesBackfilled
<1>5. h.rooms = Values(RemoteRows(t.rooms)) /\ h.history = Values(RemotePasts(t.history))
  BY <1>0, <1>1, <1>2, RemoteRowsUpdated DEF RemoteSound
<1>6. RoomTable(t.rooms)
  BY <1>0, <1>1, BackfillOfFacts
<1>7. HistorySound(t, Actors)
  <2>1. /\ \A x : x \in DOMAIN t.rooms <=> x \in DOMAIN s.rooms
        /\ \A x \in DOMAIN s.rooms : t.rooms[x].room = s.rooms[x].room
    BY <1>0, <1>1, BackfillOfFacts, RoomFields
  <2> QED
    BY <1>1, <2>1 DEF RemoteSound, HistorySound, Flagged
<1>8. /\ \A x : x \in DOMAIN n.history <=> x \in DOMAIN t.history
      /\ \A x \in DOMAIN t.history : n.history[x] = t.history[x].key
  BY <1>1, <1>3 DEF RemoteSound
<1> QED
  BY <1>1, <1>2, <1>3, <1>4, <1>5, <1>6, <1>7, <1>8 DEF RemoteSound, n, t, h

\* A room and its actor, whatever table of rooms is asked.
LEMMA KeyOfRoom ==
  ASSUME NEW b, NEW d, BackEntries(b, d), NEW r
  PROVE  /\ \A a \in DOMAIN d : d[a].room = r => KeyOf(d, "room", r) = a /\ Field(b, r, "actor") = a
         /\ (\A a \in DOMAIN d : d[a].room # r) => KeyOf(d, "room", r) = Nil /\ Field(b, r, "actor") = Nil
         /\ \A a \in DOMAIN d : d[a].room = r => Field(b, r, "pending") = d[a].pending
         /\ (\A a \in DOMAIN d : d[a].room # r) => Field(b, r, "pending") = Nil
<1>1. ASSUME NEW a \in DOMAIN d, d[a].room = r
      PROVE  KeyOf(d, "room", r) = a /\ Field(b, r, "actor") = a /\ Field(b, r, "pending") = d[a].pending
  <2>1. \A c \in DOMAIN d : d[c]["room"] = r => c = a
    BY <1>1 DEF BackEntries
  <2>2. KeyOf(d, "room", r) = a
    BY <1>1, <2>1, KeyOfOne
  <2>3. r \in DOMAIN b /\ b[r] = Entry(a, d[a].pending)
    BY <1>1 DEF BackEntries
  <2> QED
    BY <2>2, <2>3, FieldFacts, EntryFacts
<1>2. ASSUME \A a \in DOMAIN d : d[a].room # r
      PROVE  KeyOf(d, "room", r) = Nil /\ Field(b, r, "actor") = Nil /\ Field(b, r, "pending") = Nil
  <2>1. r \notin DOMAIN b
    BY <1>2 DEF BackEntries
  <2>2. KeyOf(d, "room", r) = Nil
    BY <1>2, KeyOfNone
  <2> QED
    BY <2>1, <2>2, FieldFacts
<1> QED
  BY <1>1, <1>2

LEMMA RowsOfRoom ==
  ASSUME NEW d, RoomTable(d), \A a, c \in DOMAIN d : d[a].room = d[c].room => a = c, NEW r
  PROVE  /\ \A a \in DOMAIN d : d[a].room = r =>
              /\ PgOne(PgWhere(Values(RemoteRows(d)), "room", r), "actor") = a
              /\ PgOne(PgWhere(Values(RemoteRows(d)), "room", r), "pending") = d[a].pending
         /\ (\A a \in DOMAIN d : d[a].room # r) =>
              /\ PgOne(PgWhere(Values(RemoteRows(d)), "room", r), "actor") = Nil
              /\ PgOne(PgWhere(Values(RemoteRows(d)), "room", r), "pending") = Nil
<1> DEFINE e == RemoteRows(d)
<1>1. DOMAIN e = DOMAIN d /\ \A a \in DOMAIN d : e[a]["room"] = d[a].room /\ e[a]["actor"] = a /\ e[a]["pending"] = d[a].pending
  BY DEF RemoteRows, RemoteRow
<1> HIDE DEF e
<1>2. ASSUME NEW a \in DOMAIN d, d[a].room = r
      PROVE  \A c : PgOne(PgWhere(Values(e), "room", r), c) = e[a][c]
  BY <1>1, <1>2, FindOne
<1>3. ASSUME \A a \in DOMAIN d : d[a].room # r
      PROVE  \A c : PgOne(PgWhere(Values(e), "room", r), c) = Nil
  BY <1>1, <1>3, FindNone
<1> QED
  BY <1>1, <1>2, <1>3 DEF e

LEMMA RowsOfActor ==
  ASSUME NEW d, RoomTable(d), NEW a
  PROVE  (IF PgWhere(Values(RemoteRows(d)), "actor", a) = {} THEN Nil
          ELSE [room |-> PgOne(PgWhere(Values(RemoteRows(d)), "actor", a), "room"),
                pending |-> PgOne(PgWhere(Values(RemoteRows(d)), "actor", a), "pending")]) = Get(d, a)
<1> DEFINE e == RemoteRows(d)
<1>1. /\ DOMAIN e = DOMAIN d /\ Keyed(e, "actor")
      /\ \A x \in DOMAIN d : e[x]["room"] = d[x].room /\ e[x]["pending"] = d[x].pending
  BY DEF RemoteRows, RemoteRow, Keyed
<1> HIDE DEF e
<1>2. CASE a \in DOMAIN d
  <2>1. /\ PgWhere(Values(e), "actor", a) # {}
        /\ PgOne(PgWhere(Values(e), "actor", a), "room") = d[a].room
        /\ PgOne(PgWhere(Values(e), "actor", a), "pending") = d[a].pending
    BY <1>1, <1>2, FindByKey
  <2>2. d[a] = [room |-> d[a].room, pending |-> d[a].pending]
    BY <1>2 DEF RoomTable
  <2> QED
    BY <1>2, <2>1, <2>2, GetFacts DEF e
<1>3. CASE a \notin DOMAIN d
  BY <1>1, <1>3, FindByKey, GetFacts DEF e
<1> QED
  BY <1>2, <1>3

\* What is asked of the rooms of remote actors follows from it.
LEMMA RemoteAlike ==
  ASSUME NEW m, NEW s, NEW g, RemoteSound(m, s, g)
  PROVE  Alike(MemRemoteAnswers(m), SqlRemoteAnswers(s), PgRemoteAnswers(g))
<1>0. /\ RoomTable(s.rooms) /\ BackEntries(m.byRoom, s.rooms) /\ m.rooms = s.rooms
      /\ \A a, c \in DOMAIN s.rooms : s.rooms[a].room = s.rooms[c].room => a = c
      /\ \A r : r \in DOMAIN m.history <=> r \in DOMAIN s.history
      /\ \A r \in DOMAIN s.history : m.history[r] = s.history[r].key
      /\ g.rooms = Values(RemoteRows(s.rooms)) /\ g.history = Values(RemotePasts(s.history))
      /\ DOMAIN s.rooms \subseteq Actors
  BY DEF RemoteSound, BackEntries, HistorySound
<1>1. \A a \in Actors : PgRemoteAnswers(g).room[a] = Get(s.rooms, a)
  BY <1>0, RowsOfActor DEF PgRemoteAnswers
<1>2. ASSUME NEW r \in Rooms
      PROVE  /\ Field(m.byRoom, r, "actor") = KeyOf(s.rooms, "room", r)
             /\ PgOne(PgWhere(g.rooms, "room", r), "actor") = KeyOf(s.rooms, "room", r)
             /\ Field(m.byRoom, r, "pending") = Field(s.rooms, KeyOf(s.rooms, "room", r), "pending")
             /\ PgOne(PgWhere(g.rooms, "room", r), "pending") = Field(s.rooms, KeyOf(s.rooms, "room", r), "pending")
             /\ Get(m.history, r) = Field(s.history, r, "key")
             /\ PgOne(PgWhere(g.history, "room", r), "actor") = Field(s.history, r, "key")
  <2> DEFINE same == /\ Field(m.byRoom, r, "actor") = KeyOf(s.rooms, "room", r)
                     /\ PgOne(PgWhere(g.rooms, "room", r), "actor") = KeyOf(s.rooms, "room", r)
                     /\ Field(m.byRoom, r, "pending") = Field(s.rooms, KeyOf(s.rooms, "room", r), "pending")
                     /\ PgOne(PgWhere(g.rooms, "room", r), "pending") = Field(s.rooms, KeyOf(s.rooms, "room", r), "pending")
  <2>1. ASSUME \E a \in DOMAIN s.rooms : s.rooms[a].room = r PROVE same
    <3>1. PICK a \in DOMAIN s.rooms : s.rooms[a].room = r
      BY <2>1
    <3>2. KeyOf(s.rooms, "room", r) = a /\ Field(m.byRoom, r, "actor") = a /\ Field(m.byRoom, r, "pending") = s.rooms[a].pending
      BY <1>0, <3>1, KeyOfRoom
    <3>3. /\ PgOne(PgWhere(g.rooms, "room", r), "actor") = a
          /\ PgOne(PgWhere(g.rooms, "room", r), "pending") = s.rooms[a].pending
      BY <1>0, <3>1, RowsOfRoom
    <3> QED
      BY <3>2, <3>3, FieldFacts
  <2>2. ASSUME \A a \in DOMAIN s.rooms : s.rooms[a].room # r PROVE same
    <3>1. KeyOf(s.rooms, "room", r) = Nil /\ Field(m.byRoom, r, "actor") = Nil /\ Field(m.byRoom, r, "pending") = Nil
      BY <1>0, <2>2, KeyOfRoom
    <3>2. /\ PgOne(PgWhere(g.rooms, "room", r), "actor") = Nil
          /\ PgOne(PgWhere(g.rooms, "room", r), "pending") = Nil
      BY <1>0, <2>2, RowsOfRoom
    <3>3. Nil \notin DOMAIN s.rooms
      BY <1>0, NilAssumption
    <3> QED
      BY <3>1, <3>2, <3>3, FieldFacts
  <2>3. /\ DOMAIN RemotePasts(s.history) = DOMAIN s.history /\ Keyed(RemotePasts(s.history), "room")
        /\ \A x \in DOMAIN s.history : RemotePasts(s.history)[x]["actor"] = s.history[x].key
    BY DEF RemotePasts, RemotePast, Keyed
  <2>4. PgOne(PgWhere(g.history, "room", r), "actor") = Field(s.history, r, "key")
    BY <1>0, <2>3, FindByKey, FieldFacts
  <2>5. Get(m.history, r) = Field(s.history, r, "key")
    BY <1>0, GetFacts, FieldFacts
  <2> QED
    BY <2>1, <2>2, <2>4, <2>5
<1> QED
  BY <1>0, <1>1, <1>2 DEF Alike, MemRemoteAnswers, SqlRemoteAnswers, PgRemoteAnswers
-----------------------------------------------------------------------------
(* DM and Chat rooms. *)

Seat(r, stamp) == [room |-> r, stamp |-> stamp]
PairRow(p, e) == [actor |-> p[1], user |-> p[2], room |-> e.room, stamp |-> e.stamp]
PairRows(d) == [p \in DOMAIN d |-> PairRow(p, d[p])]
PairPast(r, e) == [room |-> r, actor |-> e.key[1], user |-> e.key[2], current |-> e.current]
PairPasts(h) == [r \in DOMAIN h |-> PairPast(r, h[r])]

DmSound(m, s, g) ==
  /\ HistorySound(s, Pairs)
  /\ \A p : p \in DOMAIN m.rooms <=> p \in DOMAIN s.rooms
  /\ \A p \in DOMAIN s.rooms : m.rooms[p] = s.rooms[p].room
  /\ \A r : r \in DOMAIN m.history <=> r \in DOMAIN s.history
  /\ \A r \in DOMAIN s.history : m.history[r] = s.history[r].key
  /\ g.rooms = Values(PairRows(s.rooms)) /\ g.history = Values(PairPasts(s.history))

LEMMA SeatFields ==
  ASSUME NEW r, NEW stamp
  PROVE  Seat(r, stamp).room = r /\ Seat(r, stamp).stamp = stamp
  BY DEF Seat

LEMMA PairEq ==
  ASSUME NEW p \in Pairs, NEW q \in Pairs, p[1] = q[1], p[2] = q[2]
  PROVE  p = q
  BY DEF Pairs

LEMMA PairRowsFacts ==
  ASSUME NEW d
  PROVE  /\ \A x : x \in DOMAIN PairRows(d) <=> x \in DOMAIN d
         /\ \A p \in DOMAIN d : PairRows(d)[p] = PairRow(p, d[p])
  BY DEF PairRows

LEMMA PairRowFields ==
  ASSUME NEW p, NEW e
  PROVE  /\ PairRow(p, e)["actor"] = p[1] /\ PairRow(p, e)["user"] = p[2]
         /\ PairRow(p, e)["room"] = e.room /\ PairRow(p, e)["stamp"] = e.stamp
  BY DEF PairRow

LEMMA PairPastsFacts ==
  ASSUME NEW h
  PROVE  /\ \A x : x \in DOMAIN PairPasts(h) <=> x \in DOMAIN h
         /\ Keyed(PairPasts(h), "room")
         /\ \A r \in DOMAIN h : PairPasts(h)[r] = PairPast(r, h[r])
  BY DEF PairPasts, PairPast, Keyed

LEMMA PairRowsUpserted ==
  ASSUME NEW d, DOMAIN d \subseteq Pairs, NEW e, NEW p \in Pairs, NEW r, NEW name, NEW keep,
         \A x : x \in DOMAIN e <=> x \in DOMAIN d \/ x = p,
         \A x \in DOMAIN d : x # p => e[x] = d[x],
         e[p] = Seat(r, keep), keep = IF p \in DOMAIN d THEN d[p].stamp ELSE name
  PROVE  PgUpsert(Values(PairRows(d)), [actor |-> p[1], user |-> p[2], room |-> r, stamp |-> name],
                  {"actor", "user"}, {"room"})
           = Values(PairRows(e))
<1> DEFINE row == [actor |-> p[1], user |-> p[2], room |-> r, stamp |-> name]
           K == {"actor", "user"}
<1>1. \A x \in DOMAIN PairRows(d) : (\A f \in K : PairRows(d)[x][f] = row[f]) <=> x = p
  BY PairEq DEF PairRows, PairRow
<1>2. PairRow(p, e[p]) = Merged(PairRows(d), row, p, {"room"})
  BY DEF Merged, PairRow, PairRows, Seat
<1> HIDE DEF row, K
<1>3. PgUpsert(Values(PairRows(d)), row, K, {"room"}) = Values(PairRows(e))
  BY <1>1, <1>2, UpsertedRow, PairRowsFacts
<1> QED
  BY <1>3 DEF row, K

LEMMA PairPastsRecorded ==
  ASSUME NEW h, History(h, Pairs), NEW p \in Pairs, NEW r, r \in DOMAIN h => h[r].key = p
  PROVE  PgUpsert({IF x.actor = p[1] /\ x.user = p[2] THEN With(x, "current", No) ELSE x :
                     x \in Values(PairPasts(h))},
                  [room |-> r, actor |-> p[1], user |-> p[2], current |-> Yes], {"room"}, {"current"})
           = Values(PairPasts(Recorded(h, p, r)))
<1> DEFINE d == PairPasts(h)
           F(x) == IF x.actor = p[1] /\ x.user = p[2] THEN With(x, "current", No) ELSE x
           c == [x \in DOMAIN h |-> PairPast(x, Past(h[x], p))]
           e == PairPasts(Recorded(h, p, r))
           row == [room |-> r, actor |-> p[1], user |-> p[2], current |-> Yes]
<1>1. /\ \A x : x \in DOMAIN c <=> x \in DOMAIN h
      /\ \A x \in DOMAIN h : c[x] = PairPast(x, Past(h[x], p))
  OBVIOUS
<1>2. \A x \in DOMAIN h : F(d[x]) = c[x]
  <2> SUFFICES ASSUME NEW x \in DOMAIN h PROVE F(d[x]) = c[x]
    OBVIOUS
  <2>1. h[x].key \in Pairs
    BY DEF History
  <2>2. CASE h[x].key = p
    BY <2>1, <2>2 DEF PairPasts, PairPast, Past, With
  <2>3. CASE h[x].key # p
    <3>1. ~ (d[x].actor = p[1] /\ d[x].user = p[2])
      BY <2>1, <2>3, PairEq DEF PairPasts, PairPast
    <3> QED
      BY <2>1, <2>3, <3>1 DEF PairPasts, PairPast, Past
  <2> QED
    BY <2>2, <2>3
<1>3. row["room"] = r /\ Keyed(c, "room")
  BY DEF Keyed, PairPast
<1>4. r \in DOMAIN h => Merged(c, row, r, {"current"}) = PairPast(r, Now(p))
  BY DEF Merged, PairPast, Now, Past
<1>5. r \notin DOMAIN h => Merged(c, row, r, {"current"}) = PairPast(r, Now(p))
  BY DEF Merged, PairPast, Now
<1> HIDE DEF d, c, e, row, F
<1>6. \A x : x \in DOMAIN d <=> x \in DOMAIN h
  BY PairPastsFacts DEF d
<1>7. {F(x) : x \in Values(d)} = Values(c)
  BY <1>1, <1>2, <1>6 DEF Values
<1>8. /\ \A x : x \in DOMAIN e <=> x \in DOMAIN c \/ x = r
      /\ e[r] = PairPast(r, Now(p))
      /\ \A x \in DOMAIN c : x # r => e[x] = c[x]
  <2>1. /\ \A x : x \in DOMAIN Recorded(h, p, r) <=> x \in DOMAIN h \/ x = r
        /\ Recorded(h, p, r)[r] = Now(p)
        /\ \A x \in DOMAIN h : x # r => Recorded(h, p, r)[x] = Past(h[x], p)
    BY RecordedFacts
  <2> QED
    BY <1>1, <2>1, PairPastsFacts DEF e
<1>9. PgUpsert(Values(c), row, {"room"}, {"current"}) = Values(e)
  BY <1>3, <1>4, <1>5, <1>8, Upserted
<1> QED
  BY <1>7, <1>9 DEF d, e, row, F

\* register_ghost_dm_room and register_ghost_chat_room keep the stores at one
\* content.
LEMMA DmRegistered ==
  ASSUME NEW m, NEW s, NEW g, DmSound(m, s, g), NEW p \in Pairs, NEW r \in Rooms, NEW name \in Names,
         r \in DOMAIN s.history => s.history[r].key = p
  PROVE  DmSound(MemRegisterDm(m, p, r, name), SqlRegisterDm(s, p, r, name), PgRegisterDm(g, p, r, name))
<1> DEFINE n == MemRegisterDm(m, p, r, name)
           t == SqlRegisterDm(s, p, r, name)
           h == PgRegisterDm(g, p, r, name)
           keep == IF p \in DOMAIN s.rooms THEN s.rooms[p].stamp ELSE name
<1>0. History(s.history, Pairs) /\ DOMAIN s.rooms \subseteq Pairs
  BY DEF DmSound, HistorySound
<1>1. t.rooms = Put(s.rooms, p, Seat(r, keep)) /\ t.history = Recorded(s.history, p, r)
  BY DEF SqlRegisterDm, Seat
<1>2. n.rooms = Put(m.rooms, p, r) /\ n.history = Put(m.history, r, p)
  BY DEF MemRegisterDm
<1>3. /\ h.rooms = PgUpsert(Values(PairRows(s.rooms)), [actor |-> p[1], user |-> p[2], room |-> r, stamp |-> name],
                            {"actor", "user"}, {"room"})
      /\ h.history = PgUpsert({IF x.actor = p[1] /\ x.user = p[2] THEN With(x, "current", No) ELSE x :
                                 x \in Values(PairPasts(s.history))},
                              [room |-> r, actor |-> p[1], user |-> p[2], current |-> Yes], {"room"}, {"current"})
  BY Zenon DEF PgRegisterDm, DmSound, No, Yes, With
<1>4. keep = IF p \in DOMAIN s.rooms THEN s.rooms[p].stamp ELSE name
  OBVIOUS
<1> HIDE DEF n, t, h, keep
<1>5. /\ \A x : x \in DOMAIN t.rooms <=> x \in DOMAIN s.rooms \/ x = p
      /\ t.rooms[p] = Seat(r, keep)
      /\ \A x \in DOMAIN s.rooms : x # p => t.rooms[x] = s.rooms[x]
  BY <1>1, PutFacts
<1>6. h.rooms = Values(PairRows(t.rooms))
  BY <1>0, <1>3, <1>4, <1>5, PairRowsUpserted
<1>7. h.history = Values(PairPasts(t.history))
  BY <1>0, <1>1, <1>3, PairPastsRecorded
<1>8. HistorySound(t, Pairs)
  BY <1>1, <1>5, SeatFields, HistoryKept DEF DmSound
<1>9. /\ \A x : x \in DOMAIN n.rooms <=> x \in DOMAIN t.rooms
      /\ \A x \in DOMAIN t.rooms : n.rooms[x] = t.rooms[x].room
  BY <1>2, <1>5, PutFacts, SeatFields DEF DmSound
<1>10. /\ \A x : x \in DOMAIN n.history <=> x \in DOMAIN t.history
       /\ \A x \in DOMAIN t.history : n.history[x] = t.history[x].key
  <2>1. /\ \A x : x \in DOMAIN t.history <=> x \in DOMAIN s.history \/ x = r
        /\ t.history[r] = Now(p)
        /\ \A x \in DOMAIN s.history : x # r => t.history[x] = Past(s.history[x], p)
    BY <1>0, <1>1, RecordedFacts
  <2>2. /\ \A x : x \in DOMAIN n.history <=> x \in DOMAIN m.history \/ x = r
        /\ n.history[r] = p
        /\ \A x \in DOMAIN m.history : x # r => n.history[x] = m.history[x]
    BY <1>2, PutFacts
  <2>3. /\ \A x : x \in DOMAIN m.history <=> x \in DOMAIN s.history
        /\ \A x \in DOMAIN s.history : m.history[x] = s.history[x].key
    BY DEF DmSound
  <2> QED
    BY <2>1, <2>2, <2>3, NowFacts, PastFacts
<1> QED
  BY <1>6, <1>7, <1>8, <1>9, <1>10 DEF DmSound, n, t, h

\* What is asked of DMs and Chats follows from it.
LEMMA DmAlike ==
  ASSUME NEW m, NEW s, NEW g, DmSound(m, s, g)
  PROVE  Alike(MemDmAnswers(m), SqlDmAnswers(s), PgDmAnswers(g))
<1> DEFINE d == PairRows(s.rooms)
           h == PairPasts(s.history)
<1>0. /\ \A x : x \in DOMAIN m.rooms <=> x \in DOMAIN s.rooms
      /\ \A x \in DOMAIN s.rooms : m.rooms[x] = s.rooms[x].room
      /\ \A x : x \in DOMAIN m.history <=> x \in DOMAIN s.history
      /\ \A x \in DOMAIN s.history : m.history[x] = s.history[x].key
      /\ g.rooms = Values(d) /\ g.history = Values(h)
      /\ DOMAIN s.rooms \subseteq Pairs /\ History(s.history, Pairs)
      /\ \A x, y \in DOMAIN s.rooms : s.rooms[x].room = s.rooms[y].room => x = y
  BY DEF DmSound, HistorySound
<1>1. /\ \A x : x \in DOMAIN d <=> x \in DOMAIN s.rooms
      /\ \A x \in DOMAIN s.rooms : /\ d[x].actor = x[1] /\ d[x].user = x[2] /\ d[x].room = s.rooms[x].room
  BY DEF PairRows, PairRow
<1>2. /\ \A x : x \in DOMAIN h <=> x \in DOMAIN s.history
      /\ Keyed(h, "room")
      /\ \A x \in DOMAIN s.history : /\ h[x].actor = s.history[x].key[1] /\ h[x].user = s.history[x].key[2]
  BY DEF PairPasts, PairPast, Keyed
<1> HIDE DEF d, h
<1>3. ASSUME NEW p \in Pairs
      PROVE  /\ Get(m.rooms, p) = Field(s.rooms, p, "room")
             /\ PgOne(PgWhere(PgWhere(g.rooms, "actor", p[1]), "user", p[2]), "room") = Field(s.rooms, p, "room")
  <2>1. Get(m.rooms, p) = Field(s.rooms, p, "room")
    BY <1>0, GetFacts, FieldFacts
  <2>2. CASE p \in DOMAIN s.rooms
    <3>1. PgWhere(PgWhere(g.rooms, "actor", p[1]), "user", p[2]) = {d[p]}
      BY <1>0, <1>1, <2>2, PairEq DEF PgWhere, Values
    <3> QED
      BY <1>1, <2>1, <2>2, <3>1, FieldFacts DEF PgOne
  <2>3. CASE p \notin DOMAIN s.rooms
    <3>1. PgWhere(PgWhere(g.rooms, "actor", p[1]), "user", p[2]) = {}
      BY <1>0, <1>1, <2>3, PairEq DEF PgWhere, Values
    <3> QED
      BY <2>1, <2>3, <3>1, FieldFacts DEF PgOne
  <2> QED
    BY <2>2, <2>3
<1>4. ASSUME NEW r \in Rooms
      PROVE  /\ OneOf({p \in DOMAIN m.rooms : m.rooms[p] = r}) = KeyOf(s.rooms, "room", r)
             /\ PgPair(PgWhere(g.rooms, "room", r)) = KeyOf(s.rooms, "room", r)
  <2>1. {p \in DOMAIN m.rooms : m.rooms[p] = r} = {p \in DOMAIN s.rooms : s.rooms[p]["room"] = r}
    BY <1>0
  <2>2. OneOf({p \in DOMAIN m.rooms : m.rooms[p] = r}) = KeyOf(s.rooms, "room", r)
    BY <2>1 DEF KeyOf
  <2>3. CASE \E p \in DOMAIN s.rooms : s.rooms[p].room = r
    <3>1. PICK p \in DOMAIN s.rooms : s.rooms[p].room = r
      BY <2>3
    <3>2. KeyOf(s.rooms, "room", r) = p
      BY <1>0, <3>1, KeyOfOne
    <3>3. /\ PgWhere(Values(d), "room", r) # {}
          /\ \A c : PgOne(PgWhere(Values(d), "room", r), c) = d[p][c]
      BY <1>0, <1>1, <3>1, FindOne
    <3>4. p = <<p[1], p[2]>>
      BY <1>0 DEF Pairs
    <3> QED
      BY <1>0, <1>1, <2>2, <3>2, <3>3, <3>4 DEF PgPair
  <2>4. CASE \A p \in DOMAIN s.rooms : s.rooms[p].room # r
    <3>1. KeyOf(s.rooms, "room", r) = Nil
      BY <2>4, KeyOfNone
    <3>2. PgWhere(Values(d), "room", r) = {}
      BY <1>1, <2>4, FindNone
    <3> QED
      BY <1>0, <2>2, <3>1, <3>2 DEF PgPair
  <2> QED
    BY <2>3, <2>4
<1>5. ASSUME NEW r \in Rooms
      PROVE  /\ Get(m.history, r) = Field(s.history, r, "key")
             /\ PgPair(PgWhere(g.history, "room", r)) = Field(s.history, r, "key")
  <2>1. Get(m.history, r) = Field(s.history, r, "key")
    BY <1>0, GetFacts, FieldFacts
  <2>2. CASE r \in DOMAIN s.history
    <3>1. /\ PgWhere(Values(h), "room", r) # {}
          /\ \A c : PgOne(PgWhere(Values(h), "room", r), c) = h[r][c]
      BY <1>2, <2>2, FindByKey
    <3>2. s.history[r].key = <<s.history[r].key[1], s.history[r].key[2]>>
      BY <1>0, <2>2 DEF Pairs, History
    <3> QED
      BY <1>0, <1>2, <2>1, <2>2, <3>1, <3>2, FieldFacts DEF PgPair
  <2>3. CASE r \notin DOMAIN s.history
    <3>1. PgWhere(Values(h), "room", r) = {}
      BY <1>2, <2>3, FindByKey
    <3> QED
      BY <1>0, <2>1, <2>3, <3>1, FieldFacts DEF PgPair
  <2> QED
    BY <2>2, <2>3
<1>6. ASSUME NEW a \in Actors
      PROVE  /\ {m.rooms[p] : p \in {q \in DOMAIN m.rooms : q[1] = a}}
                  = {s.rooms[p].room : p \in {q \in DOMAIN s.rooms : q[1] = a}}
             /\ PgColumn(PgWhere(g.rooms, "actor", a), "room")
                  = {s.rooms[p].room : p \in {q \in DOMAIN s.rooms : q[1] = a}}
  <2>1. {m.rooms[p] : p \in {q \in DOMAIN m.rooms : q[1] = a}}
                  = {s.rooms[p].room : p \in {q \in DOMAIN s.rooms : q[1] = a}}
    BY <1>0
  <2>2. PgColumn(PgWhere(g.rooms, "actor", a), "room")
                  = {s.rooms[p].room : p \in {q \in DOMAIN s.rooms : q[1] = a}}
    BY <1>0, <1>1 DEF PgColumn, PgWhere, Values
  <2> QED
    BY <2>1, <2>2
<1>7. ASSUME NEW u \in Users
      PROVE  /\ {m.rooms[p] : p \in {q \in DOMAIN m.rooms : q[2] = u}}
                  = {s.rooms[p].room : p \in {q \in DOMAIN s.rooms : q[2] = u}}
             /\ PgColumn(PgWhere(g.rooms, "user", u), "room")
                  = {s.rooms[p].room : p \in {q \in DOMAIN s.rooms : q[2] = u}}
  <2>1. {m.rooms[p] : p \in {q \in DOMAIN m.rooms : q[2] = u}}
                  = {s.rooms[p].room : p \in {q \in DOMAIN s.rooms : q[2] = u}}
    BY <1>0
  <2>2. PgColumn(PgWhere(g.rooms, "user", u), "room")
                  = {s.rooms[p].room : p \in {q \in DOMAIN s.rooms : q[2] = u}}
    BY <1>0, <1>1 DEF PgColumn, PgWhere, Values
  <2> QED
    BY <2>1, <2>2
<1> QED
  BY <1>3, <1>4, <1>5, <1>6, <1>7 DEF Alike, MemDmAnswers, SqlDmAnswers, PgDmAnswers

-----------------------------------------------------------------------------
(* Tables of one value per key: d, its rows in sqlite, its rows in Postgres. *)

Box(d) == [k \in DOMAIN d |-> [room |-> d[k]]]
TwoRow(key, column, k, v) == [x \in {key, column} |-> IF x = key THEN k ELSE v]
TwoRows(key, column, d) == [k \in DOMAIN d |-> TwoRow(key, column, k, d[k])]
Dictionary(d) == d = [k \in DOMAIN d |-> d[k]]
Distinct(d) == \A j, k \in DOMAIN d : d[j] = d[k] => j = k
With1(r) == [room |-> r]

LEMMA SameDictionary ==
  ASSUME NEW d, NEW e,
         Dictionary(d), Dictionary(e), \A x : x \in DOMAIN d <=> x \in DOMAIN e,
         \A x \in DOMAIN d : d[x] = e[x]
  PROVE  d = e
  BY DEF Dictionary

LEMMA PutIsDictionary ==
  ASSUME NEW d, NEW k, NEW v
  PROVE  Dictionary(Put(d, k, v))
  BY DEF Dictionary, Put, PutAll

LEMMA PopIsDictionary ==
  ASSUME NEW d, NEW K
  PROVE  Dictionary(Pop(d, K))
  BY DEF Dictionary, Pop

LEMMA EmptyIsDictionary == Dictionary(Empty) /\ Box(Empty) = Empty
<1>1. Empty = [k \in {} |-> k]
  BY DEF Empty
<1> QED
  BY <1>1 DEF Dictionary, Box

LEMMA BoxFacts ==
  ASSUME NEW d
  PROVE  /\ \A x : x \in DOMAIN Box(d) <=> x \in DOMAIN d
         /\ \A k \in DOMAIN d : Box(d)[k] = With1(d[k]) /\ Box(d)[k].room = d[k]
         /\ Dictionary(Box(d))
  BY DEF Box, With1, Dictionary

LEMMA BoxPut ==
  ASSUME NEW d, NEW k, NEW r
  PROVE  Put(Box(d), k, With1(r)) = Box(Put(d, k, r))
<1> DEFINE p == Put(Box(d), k, With1(r))
           e == Put(d, k, r)
           q == Box(e)
<1>1. Dictionary(p) /\ Dictionary(q)
  BY PutIsDictionary, BoxFacts
<1>2. (\A x : x \in DOMAIN p <=> x \in DOMAIN d \/ x = k) /\ p[k] = With1(r) /\ (\A x \in DOMAIN d : x # k => p[x] = With1(d[x]))
  BY PutFacts, BoxFacts
<1>3. (\A x : x \in DOMAIN e <=> x \in DOMAIN d \/ x = k) /\ e[k] = r /\ (\A x \in DOMAIN d : x # k => e[x] = d[x])
  BY PutFacts
<1>4. (\A x : x \in DOMAIN q <=> x \in DOMAIN e) /\ (\A x \in DOMAIN e : q[x] = With1(e[x]))
  BY BoxFacts
<1> HIDE DEF p, e, q
<1>5. p = q
  BY <1>1, <1>2, <1>3, <1>4, SameDictionary
<1> QED
  BY <1>5 DEF p, e, q

LEMMA BoxPop ==
  ASSUME NEW d, NEW K
  PROVE  Pop(Box(d), K) = Box(Pop(d, K))
<1> DEFINE p == Pop(Box(d), K)
           e == Pop(d, K)
           q == Box(e)
<1>1. Dictionary(p) /\ Dictionary(q)
  BY PopIsDictionary, BoxFacts
<1>2. (\A x : x \in DOMAIN p <=> x \in DOMAIN d /\ x \notin K) /\ (\A x \in DOMAIN d : x \notin K => p[x] = With1(d[x]))
  BY PopFacts, BoxFacts
<1>3. (\A x : x \in DOMAIN e <=> x \in DOMAIN d /\ x \notin K) /\ (\A x \in DOMAIN d : x \notin K => e[x] = d[x])
  BY PopFacts
<1>4. (\A x : x \in DOMAIN q <=> x \in DOMAIN e) /\ (\A x \in DOMAIN e : q[x] = With1(e[x]))
  BY BoxFacts
<1> HIDE DEF p, e, q
<1>5. p = q
  BY <1>1, <1>2, <1>3, <1>4, SameDictionary
<1> QED
  BY <1>5 DEF p, e, q

LEMMA TwoRowsKeyed ==
  ASSUME NEW key, NEW column, NEW d,
         key # column
  PROVE  Keyed(TwoRows(key, column, d), key)
  BY DEF TwoRows, TwoRow, Keyed

LEMMA TwoRowsFacts ==
  ASSUME NEW key, NEW column, NEW d,
         key # column
  PROVE  /\ \A x : x \in DOMAIN TwoRows(key, column, d) <=> x \in DOMAIN d
         /\ \A k \in DOMAIN d : TwoRows(key, column, d)[k] = TwoRow(key, column, k, d[k])
         /\ \A k \in DOMAIN d : TwoRows(key, column, d)[k][key] = k
         /\ \A k \in DOMAIN d : TwoRows(key, column, d)[k][column] = d[k]
  BY DEF TwoRows, TwoRow

\* A value written at a key, as an upsert of a row of two columns.
LEMMA TwoPut ==
  ASSUME NEW key, NEW column, NEW d, NEW k, NEW v,
         key # column
  PROVE  PgUpsert(Values(TwoRows(key, column, d)), TwoRow(key, column, k, v), {key}, {column})
           = Values(TwoRows(key, column, Put(d, k, v)))
<1> DEFINE row == TwoRow(key, column, k, v)
           e == TwoRows(key, column, Put(d, k, v))
           t == TwoRows(key, column, d)
           C == {column}
<1>1. row[key] = k
  BY DEF TwoRow
<1>2. row = Merged(t, row, k, C)
  BY DEF Merged, TwoRow, TwoRows
<1>3. (\A x : x \in DOMAIN e <=> x \in DOMAIN t \/ x = k) /\ e[k] = row /\ (\A x \in DOMAIN t : x # k => e[x] = t[x])
  BY TwoRowsFacts, PutFacts
<1>4. Keyed(t, key)
  BY TwoRowsFacts, TwoRowsKeyed
<1> HIDE DEF row, e, t, C
<1>5. PgUpsert(Values(t), row, {key}, C) = Values(e)
  BY <1>1, <1>2, <1>3, <1>4, Upserted
<1> QED
  BY <1>5 DEF row, e, t, C

\* A key taken out, as a DELETE.
LEMMA TwoPop ==
  ASSUME NEW key, NEW column, NEW d, NEW k,
         key # column
  PROVE  PgDelete(Values(TwoRows(key, column, d)), key, k) = Values(TwoRows(key, column, Pop(d, {k})))
<1> DEFINE K == {k}
           p == Pop(d, K)
           e == TwoRows(key, column, p)
           t == TwoRows(key, column, d)
<1>1. \A x : x \in K <=> x = k
  OBVIOUS
<1> HIDE DEF K
<1>2. (\A x : x \in DOMAIN p <=> x \in DOMAIN d /\ x # k) /\ (\A x \in DOMAIN d : x # k => p[x] = d[x])
  BY <1>1, PopFacts
<1>3. /\ \A x : x \in DOMAIN t <=> x \in DOMAIN d
      /\ \A x \in DOMAIN d : t[x] = TwoRow(key, column, x, d[x])
      /\ \A x : x \in DOMAIN e <=> x \in DOMAIN p
      /\ \A x \in DOMAIN p : e[x] = TwoRow(key, column, x, p[x])
      /\ Keyed(t, key)
  BY TwoRowsFacts, TwoRowsKeyed
<1> HIDE DEF e, t, p
<1>4. PgDelete(Values(t), key, k) = Values(e)
  BY <1>2, <1>3, Deleted
<1> QED
  BY <1>4 DEF e, t, p, K

\* The one value of a key, and the one key of a value, in every store.
LEMMA TwoFind ==
  ASSUME NEW key, NEW column, NEW d, NEW k,
         key # column
  PROVE  /\ PgOne(PgWhere(Values(TwoRows(key, column, d)), key, k), column) = Get(d, k)
         /\ k \in DOMAIN d <=> PgWhere(Values(TwoRows(key, column, d)), key, k) # {}
         /\ k \in DOMAIN d => PgOne(PgWhere(Values(TwoRows(key, column, d)), key, k), key) = k
         /\ Field(Box(d), k, "room") = Get(d, k)
<1> DEFINE t == TwoRows(key, column, d)
<1>1. /\ \A x : x \in DOMAIN t <=> x \in DOMAIN d
      /\ Keyed(t, key)
      /\ \A x \in DOMAIN d : t[x][key] = x /\ t[x][column] = d[x]
  BY TwoRowsFacts, TwoRowsKeyed
<1> HIDE DEF t
<1>2. /\ PgOne(PgWhere(Values(t), key, k), column) = Get(d, k)
      /\ k \in DOMAIN d <=> PgWhere(Values(t), key, k) # {}
      /\ k \in DOMAIN d => PgOne(PgWhere(Values(t), key, k), key) = k
  BY <1>1, FindByKey, GetFacts
<1>3. Field(Box(d), k, "room") = Get(d, k)
  BY BoxFacts, FieldFacts, GetFacts
<1> QED
  BY <1>2, <1>3 DEF t

\* A value found by the dictionary of the reverse direction, or by a query.
LEMMA TwoBack ==
  ASSUME NEW key, NEW column, NEW d, NEW v,
         key # column, Distinct(d)
  PROVE  /\ KeyOf(Box(d), "room", v) = OneOf({k \in DOMAIN d : d[k] = v})
         /\ PgOne(PgWhere(Values(TwoRows(key, column, d)), column, v), key) = OneOf({k \in DOMAIN d : d[k] = v})
         /\ \A k \in DOMAIN d : d[k] = v => OneOf({j \in DOMAIN d : d[j] = v}) = k
         /\ (\A k \in DOMAIN d : d[k] # v) => OneOf({j \in DOMAIN d : d[j] = v}) = Nil
<1> DEFINE t == TwoRows(key, column, d)
           o == OneOf({k \in DOMAIN d : d[k] = v})
<1>1. /\ \A x : x \in DOMAIN t <=> x \in DOMAIN d
      /\ \A x \in DOMAIN d : t[x][key] = x /\ t[x][column] = d[x]
  BY TwoRowsFacts, TwoRowsKeyed
<1>2. KeyOf(Box(d), "room", v) = o
  <2>1. {k \in DOMAIN Box(d) : Box(d)[k]["room"] = v} = {k \in DOMAIN d : d[k] = v}
    BY BoxFacts
  <2> QED
    BY <2>1 DEF KeyOf
<1>3. ASSUME NEW k \in DOMAIN d, d[k] = v
      PROVE  o = k /\ PgOne(PgWhere(Values(t), column, v), key) = k
  <2>1. {j \in DOMAIN d : d[j] = v} = {k}
    BY <1>3 DEF Distinct
  <2>2. o = k
    BY <2>1 DEF OneOf
  <2> HIDE DEF t, o
  <2>3. \A c : PgOne(PgWhere(Values(t), column, v), c) = t[k][c]
    BY <1>1, <1>3, FindOne DEF Distinct
  <2> QED
    BY <1>1, <2>2, <2>3
<1>4. ASSUME \A k \in DOMAIN d : d[k] # v
      PROVE  o = Nil /\ PgOne(PgWhere(Values(t), column, v), key) = Nil
  <2>1. {j \in DOMAIN d : d[j] = v} = {}
    BY <1>4
  <2>2. o = Nil
    BY <2>1 DEF OneOf
  <2> HIDE DEF t, o
  <2>3. \A c : PgOne(PgWhere(Values(t), column, v), c) = Nil
    BY <1>1, <1>4, FindNone
  <2> QED
    BY <2>2, <2>3
<1> HIDE DEF t, o
<1>5. PgOne(PgWhere(Values(t), column, v), key) = o
  BY <1>3, <1>4
<1>6. (\A k \in DOMAIN d : d[k] = v => o = k) /\ ((\A k \in DOMAIN d : d[k] # v) => o = Nil)
  BY <1>3, <1>4
<1> QED
  BY <1>2, <1>5, <1>6 DEF t, o

LEMMA TwoKeys ==
  ASSUME NEW key, NEW column, NEW d,
         key # column, Dictionary(d)
  PROVE  /\ PgColumn(Values(TwoRows(key, column, d)), key) = DOMAIN d
         /\ PgBy(Values(TwoRows(key, column, d)), key, column) = d
<1> DEFINE t == TwoRows(key, column, d)
<1>1. /\ \A x : x \in DOMAIN t <=> x \in DOMAIN d
      /\ Keyed(t, key)
      /\ \A x \in DOMAIN d : t[x][key] = x /\ t[x][column] = d[x]
  BY TwoRowsFacts, TwoRowsKeyed
<1> HIDE DEF t
<1>2. \A v : v \in PgColumn(Values(t), key) <=> v \in DOMAIN d
  BY <1>1, ColumnOf
<1>3. d = [k \in DOMAIN t |-> t[k][column]]
  BY <1>1 DEF Dictionary
<1>4. PgBy(Values(t), key, column) = d
  BY <1>1, <1>3, ByKey
<1>5. PgColumn(Values(t), key) = DOMAIN d
  BY <1>2
<1> QED
  BY <1>4, <1>5 DEF t

\* Rows as the calls write them.
LEMMA RowForms ==
  ASSUME NEW k, NEW v
  PROVE  /\ TwoRow("name", "room", k, v) = [name |-> k, room |-> v]
         /\ TwoRow("actor", "room", k, v) = [actor |-> k, room |-> v]
         /\ TwoRow("guild", "room", k, v) = [guild |-> k, room |-> v]
         /\ TwoRow("user", "room", k, v) = [user |-> k, room |-> v]
         /\ TwoRow("key", "value", k, v) = [key |-> k, value |-> v]
         /\ TwoRow("id", "at", k, v) = [id |-> k, at |-> v]
         /\ TwoRow("id", "guild", k, v) = [id |-> k, guild |-> v]
         /\ TwoRow("rule", "tier", k, v) = [rule |-> k, tier |-> v]
         /\ TwoRow("channel", "guild", k, v) = [channel |-> k, guild |-> v]
         /\ TwoRow("user", "name", k, v) = [user |-> k, name |-> v]
         /\ With1(v) = [room |-> v]
  BY DEF TwoRow, With1

LEMMA DistinctPut ==
  ASSUME NEW d, NEW k, NEW v,
         Distinct(d), \A j \in DOMAIN d : j # k => d[j] # v
  PROVE  Distinct(Put(d, k, v))
  BY PutFacts DEF Distinct

LEMMA DistinctPop ==
  ASSUME NEW d, NEW K,
         Distinct(d)
  PROVE  Distinct(Pop(d, K))
  BY PopFacts DEF Distinct

-----------------------------------------------------------------------------
(* Rooms that mirror a guild channel, a Lemmy community or a group. *)

\* A room no row has, asked by column.
LEMMA NoKeyOf ==
  ASSUME NEW d, NEW f, NEW v,
         Nil \notin DOMAIN d, KeyOf(d, f, v) = Nil
  PROVE  \A k \in DOMAIN d : d[k][f] # v
<1> SUFFICES ASSUME NEW k \in DOMAIN d, d[k][f] = v PROVE FALSE
  OBVIOUS
<1>1. KeyOf(d, f, v) \in {j \in DOMAIN d : d[j][f] = v}
  BY DEF KeyOf, OneOf
<1> QED
  BY <1>1

LEMMA BackEntriesPut ==
  ASSUME NEW b, NEW d, NEW a, NEW r, NEW keep,
         BackEntries(b, d),
         \A x \in DOMAIN d : x # a => d[x].room # r,
         a \in DOMAIN d => d[a].room = r
  PROVE  BackEntries(Put(b, r, Entry(a, keep)), Put(d, a, Room(r, keep)))
<1> DEFINE c == Put(b, r, Entry(a, keep))
           e == Put(d, a, Room(r, keep))
<1>1. /\ \A x : x \in DOMAIN c <=> x \in DOMAIN b \/ x = r
      /\ c[r] = Entry(a, keep)
      /\ \A x \in DOMAIN b : x # r => c[x] = b[x]
  BY PutFacts
<1>2. /\ \A x : x \in DOMAIN e <=> x \in DOMAIN d \/ x = a
      /\ e[a] = Room(r, keep) /\ e[a].room = r /\ e[a].pending = keep
      /\ \A x \in DOMAIN d : x # a => e[x] = d[x]
  BY PutFacts, RoomFields
<1> HIDE DEF c, e
<1>3. ASSUME NEW x \in DOMAIN c PROVE \E y \in DOMAIN e : e[y].room = x
  <2>1. CASE x = r
    BY <1>2, <2>1
  <2>2. CASE x # r
    <3>1. PICK y \in DOMAIN d : d[y].room = x
      BY <1>1, <2>2 DEF BackEntries
    <3>2. y # a
      BY <2>2, <3>1
    <3> QED
      BY <1>2, <3>1, <3>2
  <2> QED
    BY <2>1, <2>2
<1>4. ASSUME NEW x \in DOMAIN e
      PROVE  e[x].room \in DOMAIN c /\ c[e[x].room] = Entry(x, e[x].pending)
  <2>1. CASE x = a
    BY <1>1, <1>2, <2>1
  <2>2. CASE x # a
    <3>1. x \in DOMAIN d /\ e[x] = d[x] /\ d[x].room # r
      BY <1>2, <2>2
    <3>2. d[x].room \in DOMAIN b /\ b[d[x].room] = Entry(x, d[x].pending)
      BY <3>1 DEF BackEntries
    <3> QED
      BY <1>1, <3>1, <3>2
  <2> QED
    BY <2>1, <2>2
<1>5. ASSUME NEW x \in DOMAIN e, NEW y \in DOMAIN e, e[x].room = e[y].room PROVE x = y
  BY <1>2, <1>5 DEF BackEntries
<1>6. BackEntries(c, e)
  BY <1>3, <1>4, <1>5 DEF BackEntries
<1> QED
  BY <1>6 DEF c, e

LEMMA RoomTablePut ==
  ASSUME NEW d, NEW a, NEW r, NEW keep,
         RoomTable(d), r \in Rooms, keep \in BOOLEAN
  PROVE  RoomTable(Put(d, a, Room(r, keep)))
<1>1. Put(d, a, Room(r, keep)) = [x \in DOMAIN d \cup {a} |-> IF x = a THEN Room(r, keep) ELSE d[x]]
  BY DEF Put, PutAll
<1>2. Room(r, keep) \in [room : Rooms, pending : BOOLEAN]
  BY RoomFacts
<1> QED
  BY <1>1, <1>2 DEF RoomTable

\* The rooms of channels, by room: those a channel has left still name it.
ChannelRooms(b, d) ==
  /\ \A c \in DOMAIN d : d[c] \in DOMAIN b /\ b[d[c]] = c
  /\ DOMAIN d \subseteq Actors /\ Dictionary(d)

MirroredSound(m, s, g) ==
  /\ DOMAIN m = {"channel", "channelAt", "mirror", "mirrorAt"}
  /\ DOMAIN s = {"channel", "mirror"} /\ DOMAIN g = {"channel", "mirror"}
  /\ ChannelRooms(m.channelAt, m.channel)
  /\ s.channel = Box(m.channel) /\ g.channel = Values(TwoRows("actor", "room", m.channel))
  /\ RoomTable(s.mirror) /\ DOMAIN s.mirror \subseteq Actors
  /\ m.mirror = s.mirror /\ BackEntries(m.mirrorAt, s.mirror)
  /\ g.mirror = Values(RemoteRows(s.mirror))

\* register_channel_room keeps the stores at one content.
LEMMA ChannelRegistered ==
  ASSUME NEW m, NEW s, NEW g, NEW c, NEW r,
         MirroredSound(m, s, g), c \in Actors, r \in Rooms, r \notin DOMAIN m.channelAt
  PROVE  MirroredSound(MemRegisterChannelRoom(m, c, r), SqlRegisterChannelRoom(s, c, r), PgRegisterChannelRoom(g, c, r))
<1> DEFINE n == MemRegisterChannelRoom(m, c, r)
           t == SqlRegisterChannelRoom(s, c, r)
           h == PgRegisterChannelRoom(g, c, r)
<1>1. /\ DOMAIN n = {"channel", "channelAt", "mirror", "mirrorAt"}
      /\ n.channel = Put(m.channel, c, r) /\ n.channelAt = Put(m.channelAt, r, c)
      /\ n.mirror = m.mirror /\ n.mirrorAt = m.mirrorAt
  BY DEF MemRegisterChannelRoom, MirroredSound
<1>2. /\ DOMAIN t = {"channel", "mirror"}
      /\ t.channel = Put(Box(m.channel), c, With1(r)) /\ t.mirror = s.mirror
  BY DEF SqlRegisterChannelRoom, MirroredSound, With1
<1>3. /\ DOMAIN h = {"channel", "mirror"}
      /\ h.channel = PgUpsert(Values(TwoRows("actor", "room", m.channel)), TwoRow("actor", "room", c, r), {"actor"}, {"room"})
      /\ h.mirror = g.mirror
  BY RowForms DEF PgRegisterChannelRoom, MirroredSound
<1> HIDE DEF n, t, h
<1>4. t.channel = Box(n.channel)
  BY <1>1, <1>2, BoxPut
<1>5. h.channel = Values(TwoRows("actor", "room", n.channel))
  <2>1. "actor" # "room"
    OBVIOUS
  <2> QED
    BY <1>1, <1>3, <2>1, TwoPut
<1>6. ChannelRooms(n.channelAt, n.channel)
  <2>1. ChannelRooms(m.channelAt, m.channel)
    BY DEF MirroredSound
  <2>2. /\ \A x : x \in DOMAIN n.channel <=> x \in DOMAIN m.channel \/ x = c
        /\ n.channel[c] = r /\ \A x \in DOMAIN m.channel : x # c => n.channel[x] = m.channel[x]
        /\ \A x : x \in DOMAIN n.channelAt <=> x \in DOMAIN m.channelAt \/ x = r
        /\ n.channelAt[r] = c /\ \A x \in DOMAIN m.channelAt : x # r => n.channelAt[x] = m.channelAt[x]
    BY <1>1, PutFacts
  <2>3. Dictionary(n.channel)
    BY <1>1, PutIsDictionary
  <2> QED
    BY <2>1, <2>2, <2>3 DEF ChannelRooms
<1> QED
  BY <1>1, <1>2, <1>3, <1>4, <1>5, <1>6 DEF MirroredSound, n, t, h

\* register_lemmy_community_room and register_group_room keep the stores at one
\* content.
LEMMA CommunityMirrored ==
  ASSUME NEW m, NEW s, NEW g, NEW c, NEW r, NEW pending,
         MirroredSound(m, s, g), c \in Actors, r \in Rooms, pending \in BOOLEAN,
         c \in DOMAIN s.mirror => r = s.mirror[c].room,
         c \notin DOMAIN s.mirror => KeyOf(s.mirror, "room", r) = Nil
  PROVE  MirroredSound(MemRegisterCommunityRoom(m, c, r, pending), SqlRegisterCommunityRoom(s, c, r, pending),
                       PgRegisterCommunityRoom(g, c, r, pending))
<1> DEFINE n == MemRegisterCommunityRoom(m, c, r, pending)
           t == SqlRegisterCommunityRoom(s, c, r, pending)
           h == PgRegisterCommunityRoom(g, c, r, pending)
           keep == IF c \in DOMAIN s.mirror THEN s.mirror[c].pending ELSE pending
<1>0. RoomTable(s.mirror) /\ BackEntries(m.mirrorAt, s.mirror) /\ DOMAIN s.mirror \subseteq Actors
  BY DEF MirroredSound
<1>1. /\ DOMAIN n = {"channel", "channelAt", "mirror", "mirrorAt"}
      /\ n.channel = m.channel /\ n.channelAt = m.channelAt
      /\ n.mirror = Put(s.mirror, c, Room(r, keep)) /\ n.mirrorAt = Put(m.mirrorAt, r, Entry(c, keep))
  BY DEF MemRegisterCommunityRoom, MirroredSound, Room, Entry
<1>2. /\ DOMAIN t = {"channel", "mirror"}
      /\ t.channel = s.channel /\ t.mirror = Put(s.mirror, c, Room(r, keep))
  BY DEF SqlRegisterCommunityRoom, MirroredSound, Room
<1>3. /\ DOMAIN h = {"channel", "mirror"} /\ h.channel = g.channel
      /\ h.mirror = PgUpsert(Values(RemoteRows(s.mirror)), [actor |-> c, room |-> r, pending |-> pending], {"actor"}, {"room"})
  BY DEF PgRegisterCommunityRoom, MirroredSound
<1>4. keep = (IF c \in DOMAIN s.mirror THEN s.mirror[c].pending ELSE pending) /\ keep \in BOOLEAN
  BY <1>0 DEF RoomTable
<1> HIDE DEF n, t, h, keep
<1>5. \A x \in DOMAIN s.mirror : x # c => s.mirror[x].room # r
  <2>1. CASE c \in DOMAIN s.mirror
    BY <1>0, <2>1 DEF BackEntries
  <2>2. CASE c \notin DOMAIN s.mirror
    <3>1. Nil \notin DOMAIN s.mirror
      BY <1>0, NilAssumption
    <3>2. \A x \in DOMAIN s.mirror : s.mirror[x]["room"] # r
      BY <2>2, <3>1, NoKeyOf
    <3> QED
      BY <3>2
  <2> QED
    BY <2>1, <2>2
<1>6. BackEntries(n.mirrorAt, t.mirror)
  BY <1>0, <1>1, <1>2, <1>5, BackEntriesPut
<1>7. RoomTable(t.mirror)
  BY <1>0, <1>2, <1>4, RoomTablePut
<1>8. /\ \A x : x \in DOMAIN t.mirror <=> x \in DOMAIN s.mirror \/ x = c
      /\ t.mirror[c] = Room(r, keep) /\ \A x \in DOMAIN s.mirror : x # c => t.mirror[x] = s.mirror[x]
  BY <1>2, PutFacts
<1>9. h.mirror = Values(RemoteRows(t.mirror))
  BY <1>3, <1>4, <1>8, RemoteRowsUpserted
<1> QED
  BY <1>0, <1>1, <1>2, <1>3, <1>6, <1>7, <1>8, <1>9 DEF MirroredSound, n, t, h

\* So do the calls that mark the backfill done.
LEMMA MirrorBackfilled ==
  ASSUME NEW m, NEW s, NEW g, NEW r,
         MirroredSound(m, s, g), r \in Rooms
  PROVE  MirroredSound(MemMirrorBackfillDone(m, r), SqlMirrorBackfillDone(s, r), PgMirrorBackfillDone(g, r))
<1> DEFINE n == MemMirrorBackfillDone(m, r)
           t == SqlMirrorBackfillDone(s, r)
           h == PgMirrorBackfillDone(g, r)
<1>0. RoomTable(s.mirror) /\ BackEntries(m.mirrorAt, s.mirror) /\ m.mirror = s.mirror /\ DOMAIN s.mirror \subseteq Actors
  BY DEF MirroredSound
<1>1. t.mirror = BackfillOf(s.mirror, r) /\ t.channel = s.channel /\ DOMAIN t = {"channel", "mirror"}
  <2>1. t = [s EXCEPT !.mirror = BackfillOf(s.mirror, r)]
    BY Zenon DEF SqlMirrorBackfillDone, BackfillOf, No
  <2> QED
    BY <2>1 DEF MirroredSound
<1>2. h.mirror = PgUpdate(g.mirror, "room", r, "pending", No) /\ h.channel = g.channel /\ DOMAIN h = {"channel", "mirror"}
  <2>1. h = [g EXCEPT !.mirror = PgUpdate(g.mirror, "room", r, "pending", No)]
    BY Zenon DEF PgMirrorBackfillDone, No
  <2> QED
    BY <2>1 DEF MirroredSound
<1>3. /\ DOMAIN n = {"channel", "channelAt", "mirror", "mirrorAt"}
      /\ n.channel = m.channel /\ n.channelAt = m.channelAt
      /\ r \notin DOMAIN m.mirrorAt => n = m
      /\ r \in DOMAIN m.mirrorAt => n.mirror = Put(m.mirror, m.mirrorAt[r].actor, Room(r, No))
      /\ r \in DOMAIN m.mirrorAt => n.mirrorAt = Put(m.mirrorAt, r, Entry(m.mirrorAt[r].actor, No))
  <2>1. n = IF r \notin DOMAIN m.mirrorAt THEN m
            ELSE [m EXCEPT !.mirror = Put(m.mirror, m.mirrorAt[r].actor, Room(r, No)),
                           !.mirrorAt = Put(m.mirrorAt, r, Entry(m.mirrorAt[r].actor, No))]
    BY Zenon DEF MemMirrorBackfillDone, No, Room, Entry
  <2> QED
    BY <2>1 DEF MirroredSound
<1> HIDE DEF n, t, h
<1>4. n.mirror = t.mirror /\ BackEntries(n.mirrorAt, t.mirror)
  BY <1>0, <1>1, <1>3, BackEntriesBackfilled
<1>5. h.mirror = Values(RemoteRows(t.mirror))
  BY <1>0, <1>1, <1>2, RemoteRowsUpdated DEF MirroredSound
<1>6. RoomTable(t.mirror) /\ DOMAIN t.mirror \subseteq Actors
  BY <1>0, <1>1, BackfillOfFacts
<1> QED
  BY <1>1, <1>2, <1>3, <1>4, <1>5, <1>6 DEF MirroredSound, n, t, h

\* A room's actor and flag, in the three forms a store keeps them in.
LEMMA RoomAnswers ==
  ASSUME NEW b, NEW d, NEW r,
         RoomTable(d), BackEntries(b, d), DOMAIN d \subseteq Actors
  PROVE  /\ Field(b, r, "actor") = KeyOf(d, "room", r)
         /\ PgOne(PgWhere(Values(RemoteRows(d)), "room", r), "actor") = KeyOf(d, "room", r)
         /\ Field(b, r, "pending") = Field(d, KeyOf(d, "room", r), "pending")
         /\ PgOne(PgWhere(Values(RemoteRows(d)), "room", r), "pending") = Field(d, KeyOf(d, "room", r), "pending")
<1>0. \A a, c \in DOMAIN d : d[a].room = d[c].room => a = c
  BY DEF BackEntries
<1>1. CASE \E a \in DOMAIN d : d[a].room = r
  <2>1. PICK a \in DOMAIN d : d[a].room = r
    BY <1>1
  <2>2. KeyOf(d, "room", r) = a /\ Field(b, r, "actor") = a /\ Field(b, r, "pending") = d[a].pending
    BY <2>1, KeyOfRoom
  <2>3. /\ PgOne(PgWhere(Values(RemoteRows(d)), "room", r), "actor") = a
        /\ PgOne(PgWhere(Values(RemoteRows(d)), "room", r), "pending") = d[a].pending
    BY <1>0, <2>1, RowsOfRoom
  <2> QED
    BY <2>2, <2>3, FieldFacts
<1>2. CASE \A a \in DOMAIN d : d[a].room # r
  <2>1. KeyOf(d, "room", r) = Nil /\ Field(b, r, "actor") = Nil /\ Field(b, r, "pending") = Nil
    BY <1>2, KeyOfRoom
  <2>2. /\ PgOne(PgWhere(Values(RemoteRows(d)), "room", r), "actor") = Nil
        /\ PgOne(PgWhere(Values(RemoteRows(d)), "room", r), "pending") = Nil
    BY <1>0, <1>2, RowsOfRoom
  <2>3. Nil \notin DOMAIN d
    BY NilAssumption
  <2> QED
    BY <2>1, <2>2, <2>3, FieldFacts
<1> QED
  BY <1>1, <1>2

\* What is asked of mirrored rooms follows from it.
LEMMA MirroredAlike ==
  ASSUME NEW m, NEW s, NEW g,
         MirroredSound(m, s, g)
  PROVE  /\ Alike(MemMirroredAnswers(m), SqlMirroredAnswers(s), PgMirroredAnswers(g))
         /\ \A r \in Rooms : KeyOf(s.channel, "room", r) # Nil =>
              /\ Get(m.channelAt, r) = KeyOf(s.channel, "room", r)
         /\ \A r \in Rooms : PgOne(PgWhere(g.channel, "room", r), "actor") = KeyOf(s.channel, "room", r)
<1>0. /\ RoomTable(s.mirror) /\ BackEntries(m.mirrorAt, s.mirror) /\ m.mirror = s.mirror /\ DOMAIN s.mirror \subseteq Actors
      /\ g.mirror = Values(RemoteRows(s.mirror))
      /\ ChannelRooms(m.channelAt, m.channel)
      /\ s.channel = Box(m.channel) /\ g.channel = Values(TwoRows("actor", "room", m.channel))
  BY DEF MirroredSound
<1>1. "actor" # "room"
  OBVIOUS
<1>2. ASSUME NEW c \in Actors
      PROVE  /\ Field(s.channel, c, "room") = Get(m.channel, c)
             /\ PgOne(PgWhere(g.channel, "actor", c), "room") = Get(m.channel, c)
             /\ (IF PgWhere(g.mirror, "actor", c) = {} THEN Nil
                 ELSE [room |-> PgOne(PgWhere(g.mirror, "actor", c), "room"),
                       pending |-> PgOne(PgWhere(g.mirror, "actor", c), "pending")]) = Get(m.mirror, c)
  <2>1. /\ Field(s.channel, c, "room") = Get(m.channel, c)
        /\ PgOne(PgWhere(g.channel, "actor", c), "room") = Get(m.channel, c)
    BY <1>0, <1>1, TwoFind
  <2> QED
    BY <1>0, <2>1, RowsOfActor
<1>3. ASSUME NEW r \in Rooms
      PROVE  /\ Field(m.mirrorAt, r, "actor") = KeyOf(s.mirror, "room", r)
             /\ PgOne(PgWhere(g.mirror, "room", r), "actor") = KeyOf(s.mirror, "room", r)
             /\ Field(m.mirrorAt, r, "pending") = Field(s.mirror, KeyOf(s.mirror, "room", r), "pending")
             /\ PgOne(PgWhere(g.mirror, "room", r), "pending") = Field(s.mirror, KeyOf(s.mirror, "room", r), "pending")
  BY <1>0, RoomAnswers
<1>4. Alike(MemMirroredAnswers(m), SqlMirroredAnswers(s), PgMirroredAnswers(g))
  BY <1>0, <1>2, <1>3 DEF Alike, MemMirroredAnswers, SqlMirroredAnswers, PgMirroredAnswers
<1>5. ASSUME NEW r \in Rooms
      PROVE  /\ KeyOf(s.channel, "room", r) # Nil => Get(m.channelAt, r) = KeyOf(s.channel, "room", r)
             /\ PgOne(PgWhere(g.channel, "room", r), "actor") = KeyOf(s.channel, "room", r)
  <2> DEFINE d == m.channel
             o == OneOf({k \in DOMAIN d : d[k] = r})
  <2>1. Distinct(d) /\ Nil \notin DOMAIN d /\ \A c \in DOMAIN d : d[c] \in DOMAIN m.channelAt /\ m.channelAt[d[c]] = c
    BY <1>0, NilAssumption DEF Distinct, ChannelRooms
  <2> HIDE DEF d
  <2>2. /\ KeyOf(Box(d), "room", r) = o
        /\ PgOne(PgWhere(Values(TwoRows("actor", "room", d)), "room", r), "actor") = o
        /\ \A k \in DOMAIN d : d[k] = r => o = k
        /\ (\A k \in DOMAIN d : d[k] # r) => o = Nil
    BY <1>1, <2>1, TwoBack
  <2> HIDE DEF o
  <2>3. o # Nil => Get(m.channelAt, r) = o
    BY <2>1, <2>2, GetFacts
  <2> QED
    BY <1>0, <2>2, <2>3 DEF d
<1> QED
  BY <1>4, <1>5

-----------------------------------------------------------------------------
(* Tables of pairs: a set F of pairs, and the rows of two columns it makes. *)

LinkTable(one, other, F) == [f \in F |-> TwoRow(one, other, f[1], f[2])]
Links(one, other, F) == Values(LinkTable(one, other, F))
AllPairs(F) == \A f \in F : f = <<f[1], f[2]>>

LEMMA LinkTableFacts ==
  ASSUME NEW one, NEW other, NEW F,
         one # other
  PROVE  /\ \A f : f \in DOMAIN LinkTable(one, other, F) <=> f \in F
         /\ \A f \in F : LinkTable(one, other, F)[f] = TwoRow(one, other, f[1], f[2])
         /\ \A f \in F : LinkTable(one, other, F)[f][one] = f[1]
         /\ \A f \in F : LinkTable(one, other, F)[f][other] = f[2]
  BY DEF LinkTable, TwoRow

LEMMA TwoRowFields ==
  ASSUME NEW one, NEW other, NEW a, NEW b,
         one # other
  PROVE  /\ TwoRow(one, other, a, b)[one] = a /\ TwoRow(one, other, a, b)[other] = b
         /\ \A f : f \in DOMAIN TwoRow(one, other, a, b) <=> f = one \/ f = other
  BY DEF TwoRow

\* A pair added once, as an insert that ignores a conflict.
LEMMA LinkAdded ==
  ASSUME NEW one, NEW other, NEW F, NEW a, NEW b,
         one # other, AllPairs(F)
  PROVE  PgInsertOnce(Links(one, other, F), TwoRow(one, other, a, b), {one, other})
           = Links(one, other, F \cup {<<a, b>>})
<1> DEFINE d == LinkTable(one, other, F)
           G == F \cup {<<a, b>>}
           e == LinkTable(one, other, G)
           row == TwoRow(one, other, a, b)
           K == {one, other}
           t == <<a, b>>
           none == {}
<1>1. t[1] = a /\ t[2] = b /\ (\A x : x \in G <=> x \in F \/ x = t) /\ (\A f : f \in K <=> f = one \/ f = other)
  OBVIOUS
<1>2. \A f \in F : f[1] = a /\ f[2] = b => f = t
  BY DEF AllPairs
<1>3. row[one] = a /\ row[other] = b /\ row = [f \in DOMAIN row |-> row[f]]
  BY DEF TwoRow
<1>4. /\ \A f : f \in DOMAIN d <=> f \in F
      /\ \A f \in F : d[f] = TwoRow(one, other, f[1], f[2]) /\ d[f][one] = f[1] /\ d[f][other] = f[2]
      /\ \A f : f \in DOMAIN e <=> f \in G
      /\ \A f \in G : e[f] = TwoRow(one, other, f[1], f[2])
  BY LinkTableFacts
<1> HIDE DEF G, K, t, d, e
<1>5. e[t] = row
  BY <1>1, <1>4
<1>6. row = Merged(d, row, t, none)
  <2>1. t \in DOMAIN d => d[t] = row
    BY <1>1, <1>4
  <2> HIDE DEF row
  <2> QED
    BY <1>3, <2>1 DEF Merged
<1> HIDE DEF row, none
<1>7. \A x \in DOMAIN d : (\A f \in K : d[x][f] = row[f]) <=> x = t
  BY <1>1, <1>2, <1>3, <1>4
<1>8. PgUpsert(Values(d), row, K, none) = Values(e)
  BY <1>1, <1>4, <1>5, <1>6, <1>7, UpsertedRow
<1> QED
  BY <1>8 DEF d, e, row, K, none, G, t, PgInsertOnce, Links

Minus(S, T) == S \ T

\* A pair removed.
LEMMA LinkMinus ==
  ASSUME NEW one, NEW other, NEW F, NEW a, NEW b,
         one # other, AllPairs(F)
  PROVE  Minus(Links(one, other, F), {TwoRow(one, other, a, b)}) = Links(one, other, Minus(F, {<<a, b>>}))
<1>1. \A f \in F : TwoRow(one, other, f[1], f[2]) = TwoRow(one, other, a, b) <=> f = <<a, b>>
  BY TwoRowFields DEF AllPairs
<1> QED
  BY <1>1 DEF Links, Values, LinkTable, Minus

\* All pairs of one key removed.
LEMMA LinksDeleted ==
  ASSUME NEW one, NEW other, NEW F, NEW a,
         one # other
  PROVE  PgDelete(Links(one, other, F), one, a) = Links(one, other, {f \in F : f[1] # a})
<1>1. \A f \in F : TwoRow(one, other, f[1], f[2])[one] = f[1]
  BY TwoRowFields
<1> QED
  BY <1>1 DEF PgDelete, Links, Values, LinkTable

\* The rows read back are the pairs.
LEMMA LinksRead ==
  ASSUME NEW one, NEW other, NEW F,
         one # other, AllPairs(F)
  PROVE  /\ {<<x[one], x[other]>> : x \in Links(one, other, F)} = F
         /\ PgColumn(Links(one, other, F), other) = {f[2] : f \in F}
<1>1. \A f \in F : /\ TwoRow(one, other, f[1], f[2])[one] = f[1]
                   /\ TwoRow(one, other, f[1], f[2])[other] = f[2]
  BY TwoRowFields
<1>2. Links(one, other, F) = {TwoRow(one, other, f[1], f[2]) : f \in F}
  BY DEF Links, Values, LinkTable
<1>3. {<<x[one], x[other]>> : x \in Links(one, other, F)} = {<<f[1], f[2]>> : f \in F}
  BY <1>1, <1>2
<1>4. {<<f[1], f[2]>> : f \in F} = F
  BY DEF AllPairs
<1>5. PgColumn(Links(one, other, F), other) = {f[2] : f \in F}
  BY <1>1, <1>2 DEF PgColumn
<1> QED
  BY <1>3, <1>4, <1>5

LEMMA LinkForms ==
  ASSUME NEW a, NEW b
  PROVE  /\ TwoRow("name", "actor", a, b) = [name |-> a, actor |-> b]
         /\ TwoRow("user", "guild", a, b) = [user |-> a, guild |-> b]
  BY DEF TwoRow

LEMMA NoLinks ==
  ASSUME NEW one, NEW other
  PROVE  Links(one, other, {}) = {}
  BY DEF Links, Values, LinkTable

-----------------------------------------------------------------------------
(* Channels, communities and groups the bridge hosts, and who follows them. *)

\* The rooms d of one kind, by name; b names them by room.
HostedKind(d, b, s, g) ==
  /\ DOMAIN d \subseteq Names /\ \A n \in DOMAIN d : d[n] \in Rooms
  /\ \A n \in DOMAIN d : d[n] \in DOMAIN b /\ b[d[n]] = n
  /\ \A r \in DOMAIN b : \E n \in DOMAIN d : d[n] = r
  /\ s = Box(d) /\ g = Values(TwoRows("name", "room", d))

HostedSound(m, s, g) ==
  /\ DOMAIN m = {"rec", "at", "followers"} /\ DOMAIN s = {"rec", "followers"} /\ DOMAIN g = {"rec", "followers"}
  /\ DOMAIN m.rec = Kinds /\ DOMAIN m.at = Kinds /\ DOMAIN s.rec = Kinds /\ DOMAIN g.rec = Kinds
  /\ \A kind \in Kinds : HostedKind(m.rec[kind], m.at[kind], s.rec[kind], g.rec[kind])
  /\ m.followers = s.followers /\ AllPairs(s.followers) /\ g.followers = Links("name", "actor", s.followers)

\* One kind of hosted actor registered.
LEMMA KindRegistered ==
  ASSUME NEW d, NEW b, NEW s, NEW g, NEW n \in Names, NEW r \in Rooms,
         HostedKind(d, b, s, g), ~ Taken(s, n, "room", r)
  PROVE  HostedKind(Put(d, n, r), Put(Pop(b, {x \in DOMAIN b : x = Get(d, n) /\ x # r}), r, n),
                    Put(s, n, With1(r)), PgUpsert(g, TwoRow("name", "room", n, r), {"name"}, {"room"}))
<1> DEFINE e == Put(d, n, r)
           left == {x \in DOMAIN b : x = Get(d, n) /\ x # r}
           kept == Pop(b, left)
           c == Put(kept, r, n)
<1>1. (\A x : x \in DOMAIN e <=> x \in DOMAIN d \/ x = n) /\ e[n] = r /\ (\A x \in DOMAIN d : x # n => e[x] = d[x])
  BY PutFacts
<1>2. (\A x : x \in DOMAIN c <=> x \in DOMAIN kept \/ x = r) /\ c[r] = n /\ (\A x \in DOMAIN kept : x # r => c[x] = kept[x])
  BY PutFacts
<1>3. (\A x : x \in DOMAIN kept <=> x \in DOMAIN b /\ x \notin left) /\ (\A x \in DOMAIN b : x \notin left => kept[x] = b[x])
  BY PopFacts
<1>4. \A x : x \in left <=> x \in DOMAIN b /\ x = Get(d, n) /\ x # r
  OBVIOUS
<1>5. /\ DOMAIN d \subseteq Names /\ \A x \in DOMAIN d : d[x] \in Rooms
      /\ \A x \in DOMAIN d : d[x] \in DOMAIN b /\ b[d[x]] = x
      /\ \A x \in DOMAIN b : \E y \in DOMAIN d : d[y] = x
      /\ s = Box(d) /\ g = Values(TwoRows("name", "room", d))
  BY DEF HostedKind
<1>6. \A x \in DOMAIN d : x # n => d[x] # r
  BY <1>5, BoxFacts DEF Taken
<1>7. (n \in DOMAIN d => Get(d, n) = d[n]) /\ (n \notin DOMAIN d => Get(d, n) = Nil) /\ Nil \notin Rooms
  BY GetFacts, NilAssumption
<1> HIDE DEF e, left, kept, c
<1>8. ASSUME NEW x \in DOMAIN e PROVE e[x] \in DOMAIN c /\ c[e[x]] = x
  <2>1. CASE x = n
    BY <1>1, <1>2, <2>1
  <2>2. CASE x # n
    <3>1. x \in DOMAIN d /\ e[x] = d[x] /\ d[x] # r /\ d[x] \in DOMAIN b /\ b[d[x]] = x
      BY <1>1, <1>5, <1>6, <2>2
    <3>2. d[x] # Get(d, n)
      BY <1>5, <1>7, <2>2, <3>1
    <3> QED
      BY <1>2, <1>3, <1>4, <3>1, <3>2
  <2> QED
    BY <2>1, <2>2
<1>9. ASSUME NEW x \in DOMAIN c PROVE \E y \in DOMAIN e : e[y] = x
  <2>1. CASE x = r
    BY <1>1, <2>1
  <2>2. CASE x # r
    <3>1. x \in DOMAIN b /\ x # Get(d, n)
      BY <1>2, <1>3, <1>4, <2>2
    <3>2. PICK y \in DOMAIN d : d[y] = x
      BY <1>5, <3>1
    <3>3. y # n
      BY <1>7, <3>1, <3>2
    <3> QED
      BY <1>1, <3>2, <3>3
  <2> QED
    BY <2>1, <2>2
<1>10. Put(s, n, With1(r)) = Box(e)
  BY <1>5, BoxPut DEF e
<1>11. PgUpsert(g, TwoRow("name", "room", n, r), {"name"}, {"room"}) = Values(TwoRows("name", "room", e))
  <2>1. "name" # "room"
    OBVIOUS
  <2> QED
    BY <1>5, <2>1, TwoPut DEF e
<1>12. DOMAIN e \subseteq Names /\ \A x \in DOMAIN e : e[x] \in Rooms
  BY <1>1, <1>5
<1> QED
  BY <1>8, <1>9, <1>10, <1>11, <1>12 DEF HostedKind, e, c, kept, left

\* One kind of hosted actor unregistered.
LEMMA KindUnregistered ==
  ASSUME NEW d, NEW b, NEW s, NEW g, NEW n,
         HostedKind(d, b, s, g)
  PROVE  HostedKind(Pop(d, {n}), Pop(b, {Get(d, n)}), Pop(s, {n}), PgDelete(g, "name", n))
<1> DEFINE N == {n}
           R == {Get(d, n)}
           e == Pop(d, N)
           c == Pop(b, R)
<1>1. (\A x : x \in N <=> x = n) /\ (\A x : x \in R <=> x = Get(d, n))
  OBVIOUS
<1> HIDE DEF N, R
<1>2. (\A x : x \in DOMAIN e <=> x \in DOMAIN d /\ x \notin N) /\ (\A x \in DOMAIN d : x \notin N => e[x] = d[x])
  BY PopFacts
<1>3. (\A x : x \in DOMAIN c <=> x \in DOMAIN b /\ x \notin R) /\ (\A x \in DOMAIN b : x \notin R => c[x] = b[x])
  BY PopFacts
<1>4. /\ DOMAIN d \subseteq Names /\ \A x \in DOMAIN d : d[x] \in Rooms
      /\ \A x \in DOMAIN d : d[x] \in DOMAIN b /\ b[d[x]] = x
      /\ \A x \in DOMAIN b : \E y \in DOMAIN d : d[y] = x
      /\ s = Box(d) /\ g = Values(TwoRows("name", "room", d))
  BY DEF HostedKind
<1>5. (n \in DOMAIN d => Get(d, n) = d[n]) /\ (n \notin DOMAIN d => Get(d, n) = Nil) /\ Nil \notin Rooms
  BY GetFacts, NilAssumption
<1> HIDE DEF e, c
<1>6. \A x \in DOMAIN e : e[x] \in DOMAIN c /\ c[e[x]] = x
  <2> SUFFICES ASSUME NEW x \in DOMAIN e PROVE e[x] \in DOMAIN c /\ c[e[x]] = x
    OBVIOUS
  <2>1. x \in DOMAIN d /\ x # n /\ e[x] = d[x] /\ d[x] \in DOMAIN b /\ b[d[x]] = x /\ d[x] \in Rooms
    BY <1>1, <1>2, <1>4
  <2>2. d[x] # Get(d, n)
    BY <1>4, <1>5, <2>1
  <2> QED
    BY <1>1, <1>3, <2>1, <2>2
<1>7. \A x \in DOMAIN c : \E y \in DOMAIN e : e[y] = x
  <2> SUFFICES ASSUME NEW x \in DOMAIN c PROVE \E y \in DOMAIN e : e[y] = x
    OBVIOUS
  <2>1. x \in DOMAIN b /\ x # Get(d, n)
    BY <1>1, <1>3
  <2>2. PICK y \in DOMAIN d : d[y] = x
    BY <1>4, <2>1
  <2>3. y # n
    BY <1>5, <2>1, <2>2
  <2> QED
    BY <1>1, <1>2, <2>2, <2>3
<1>8. Pop(s, {n}) = Box(e)
  BY <1>4, BoxPop DEF e, N
<1>9. PgDelete(g, "name", n) = Values(TwoRows("name", "room", e))
  <2>1. "name" # "room"
    OBVIOUS
  <2> QED
    BY <1>4, <2>1, TwoPop DEF e, N
<1>10. DOMAIN e \subseteq Names /\ \A x \in DOMAIN e : e[x] \in Rooms
  BY <1>2, <1>4
<1> QED
  BY <1>6, <1>7, <1>8, <1>9, <1>10 DEF HostedKind, e, c, N, R

\* What is asked of one kind of hosted actor.
LEMMA KindAnswers ==
  ASSUME NEW d, NEW b, NEW s, NEW g,
         HostedKind(d, b, s, g)
  PROVE  /\ \A n : Field(s, n, "room") = Get(d, n) /\ PgOne(PgWhere(g, "name", n), "room") = Get(d, n)
         /\ \A r : KeyOf(s, "room", r) = Get(b, r) /\ PgOne(PgWhere(g, "room", r), "name") = Get(b, r)
<1>1. "name" # "room"
  OBVIOUS
<1>2. /\ \A x \in DOMAIN d : d[x] \in DOMAIN b /\ b[d[x]] = x
      /\ \A x \in DOMAIN b : \E y \in DOMAIN d : d[y] = x
      /\ s = Box(d) /\ g = Values(TwoRows("name", "room", d))
  BY DEF HostedKind
<1>3. ASSUME NEW n PROVE Field(s, n, "room") = Get(d, n) /\ PgOne(PgWhere(g, "name", n), "room") = Get(d, n)
  BY <1>1, <1>2, TwoFind
<1>4. ASSUME NEW r PROVE KeyOf(s, "room", r) = Get(b, r) /\ PgOne(PgWhere(g, "room", r), "name") = Get(b, r)
  <2> DEFINE o == OneOf({k \in DOMAIN d : d[k] = r})
  <2>1. Distinct(d)
    BY <1>2 DEF Distinct
  <2>2. /\ KeyOf(s, "room", r) = o /\ PgOne(PgWhere(g, "room", r), "name") = o
        /\ \A k \in DOMAIN d : d[k] = r => o = k
        /\ (\A k \in DOMAIN d : d[k] # r) => o = Nil
    BY <1>1, <1>2, <2>1, TwoBack
  <2> HIDE DEF o
  <2>3. Get(b, r) = o
    BY <1>2, <2>2, GetFacts
  <2> QED
    BY <2>2, <2>3
<1> QED
  BY <1>3, <1>4

\* Registering a channel, community or group keeps the stores at one content.
LEMMA HostedRegistered ==
  ASSUME NEW m, NEW s, NEW g, NEW kind \in Kinds, NEW n \in Names, NEW r \in Rooms,
         HostedSound(m, s, g), ~ Taken(s.rec[kind], n, "room", r)
  PROVE  HostedSound(MemRegisterHosted(m, kind, n, r), SqlRegisterHosted(s, kind, n, r), PgRegisterHosted(g, kind, n, r))
<1> DEFINE x == MemRegisterHosted(m, kind, n, r)
           y == SqlRegisterHosted(s, kind, n, r)
           z == PgRegisterHosted(g, kind, n, r)
           left == {q \in DOMAIN m.at[kind] : q = Get(m.rec[kind], n) /\ q # r}
<1>1. /\ DOMAIN x = {"rec", "at", "followers"} /\ x.followers = m.followers
      /\ x.rec = [m.rec EXCEPT ![kind] = Put(m.rec[kind], n, r)]
      /\ x.at = [m.at EXCEPT ![kind] = Put(Pop(m.at[kind], left), r, n)]
  BY DEF MemRegisterHosted, HostedSound
<1>2. /\ DOMAIN y = {"rec", "followers"} /\ y.followers = s.followers
      /\ y.rec = [s.rec EXCEPT ![kind] = Put(s.rec[kind], n, With1(r))]
  BY DEF SqlRegisterHosted, HostedSound, With1
<1>3. /\ DOMAIN z = {"rec", "followers"} /\ z.followers = g.followers
      /\ z.rec = [g.rec EXCEPT ![kind] = PgUpsert(g.rec[kind], TwoRow("name", "room", n, r), {"name"}, {"room"})]
  BY RowForms DEF PgRegisterHosted, HostedSound
<1>4. HostedKind(Put(m.rec[kind], n, r), Put(Pop(m.at[kind], left), r, n),
                 Put(s.rec[kind], n, With1(r)), PgUpsert(g.rec[kind], TwoRow("name", "room", n, r), {"name"}, {"room"}))
  BY KindRegistered DEF HostedSound
<1> HIDE DEF x, y, z, left
<1>5. \A k \in Kinds : HostedKind(x.rec[k], x.at[k], y.rec[k], z.rec[k])
  BY <1>1, <1>2, <1>3, <1>4 DEF HostedSound
<1>6. HostedSound(x, y, z)
  BY <1>1, <1>2, <1>3, <1>5 DEF HostedSound
<1> QED
  BY <1>6 DEF x, y, z

\* Unregistering one keeps them so.
LEMMA HostedUnregistered ==
  ASSUME NEW m, NEW s, NEW g, NEW kind \in Kinds, NEW n,
         HostedSound(m, s, g)
  PROVE  HostedSound(MemUnregisterHosted(m, kind, n), SqlUnregisterHosted(s, kind, n), PgUnregisterHosted(g, kind, n))
<1> DEFINE x == MemUnregisterHosted(m, kind, n)
           y == SqlUnregisterHosted(s, kind, n)
           z == PgUnregisterHosted(g, kind, n)
           F == {f \in s.followers : f[1] # n}
<1>1. /\ DOMAIN x = {"rec", "at", "followers"} /\ x.followers = F
      /\ x.rec = [m.rec EXCEPT ![kind] = Pop(m.rec[kind], {n})]
      /\ x.at = [m.at EXCEPT ![kind] = Pop(m.at[kind], {Get(m.rec[kind], n)})]
  BY DEF MemUnregisterHosted, HostedSound
<1>2. /\ DOMAIN y = {"rec", "followers"} /\ y.followers = F
      /\ y.rec = [s.rec EXCEPT ![kind] = Pop(s.rec[kind], {n})]
  BY DEF SqlUnregisterHosted, HostedSound
<1>3. /\ DOMAIN z = {"rec", "followers"} /\ z.followers = PgDelete(g.followers, "name", n)
      /\ z.rec = [g.rec EXCEPT ![kind] = PgDelete(g.rec[kind], "name", n)]
  BY DEF PgUnregisterHosted, HostedSound
<1>4. HostedKind(Pop(m.rec[kind], {n}), Pop(m.at[kind], {Get(m.rec[kind], n)}),
                 Pop(s.rec[kind], {n}), PgDelete(g.rec[kind], "name", n))
  BY KindUnregistered DEF HostedSound
<1>5. PgDelete(g.followers, "name", n) = Links("name", "actor", F) /\ AllPairs(F)
  <2>1. "name" # "actor"
    OBVIOUS
  <2>2. g.followers = Links("name", "actor", s.followers) /\ AllPairs(s.followers)
    BY DEF HostedSound
  <2>3. AllPairs(F)
    BY <2>2 DEF AllPairs
  <2> QED
    BY <2>1, <2>2, <2>3, LinksDeleted
<1> HIDE DEF x, y, z, F
<1>6. \A k \in Kinds : HostedKind(x.rec[k], x.at[k], y.rec[k], z.rec[k])
  BY <1>1, <1>2, <1>3, <1>4 DEF HostedSound
<1>7. HostedSound(x, y, z)
  BY <1>1, <1>2, <1>3, <1>5, <1>6 DEF HostedSound
<1> QED
  BY <1>7 DEF x, y, z

\* A follower who comes or goes keeps them so.
LEMMA HostedFollowed ==
  ASSUME NEW m, NEW s, NEW g, NEW n, NEW a,
         HostedSound(m, s, g)
  PROVE  HostedSound([m EXCEPT !.followers = @ \cup {<<n, a>>}], [s EXCEPT !.followers = @ \cup {<<n, a>>}],
                     PgFollowHosted(g, n, a))
<1> DEFINE x == [m EXCEPT !.followers = @ \cup {<<n, a>>}]
           y == [s EXCEPT !.followers = @ \cup {<<n, a>>}]
           z == PgFollowHosted(g, n, a)
           F == s.followers \cup {<<n, a>>}
<1>1. /\ DOMAIN x = {"rec", "at", "followers"} /\ x.followers = F /\ x.rec = m.rec /\ x.at = m.at
      /\ DOMAIN y = {"rec", "followers"} /\ y.followers = F /\ y.rec = s.rec
  BY DEF HostedSound
<1>2. /\ DOMAIN z = {"rec", "followers"} /\ z.rec = g.rec
      /\ z.followers = PgInsertOnce(Links("name", "actor", s.followers), TwoRow("name", "actor", n, a), {"name", "actor"})
  BY LinkForms DEF PgFollowHosted, HostedSound
<1>3. AllPairs(s.followers)
  BY DEF HostedSound
<1>4. AllPairs(F)
  BY <1>3 DEF AllPairs
<1>5. z.followers = Links("name", "actor", F)
  <2>1. "name" # "actor"
    OBVIOUS
  <2> QED
    BY <1>2, <1>3, <2>1, LinkAdded
<1> HIDE DEF x, y, z, F
<1>6. HostedSound(x, y, z)
  BY <1>1, <1>2, <1>4, <1>5 DEF HostedSound
<1> QED
  BY <1>6 DEF x, y, z

\* What is asked of hosted actors follows from it.
LEMMA HostedAlike ==
  ASSUME NEW m, NEW s, NEW g,
         HostedSound(m, s, g)
  PROVE  Alike(MemHostedAnswers(m), SqlHostedAnswers(s), PgHostedAnswers(g))
<1>1. ASSUME NEW kind \in Kinds
      PROVE  /\ \A n : Field(s.rec[kind], n, "room") = Get(m.rec[kind], n)
             /\ \A n : PgOne(PgWhere(g.rec[kind], "name", n), "room") = Get(m.rec[kind], n)
             /\ \A r : KeyOf(s.rec[kind], "room", r) = Get(m.at[kind], r)
             /\ \A r : PgOne(PgWhere(g.rec[kind], "room", r), "name") = Get(m.at[kind], r)
  <2>1. HostedKind(m.rec[kind], m.at[kind], s.rec[kind], g.rec[kind])
    BY DEF HostedSound
  <2> QED
    BY <2>1, KindAnswers
<1>2. {<<x.name, x.actor>> : x \in g.followers} = m.followers /\ s.followers = m.followers
  <2>1. "name" # "actor"
    OBVIOUS
  <2>2. g.followers = Links("name", "actor", s.followers) /\ AllPairs(s.followers) /\ s.followers = m.followers
    BY DEF HostedSound
  <2>3. {<<x["name"], x["actor"]>> : x \in g.followers} = s.followers
    BY <2>1, <2>2, LinksRead
  <2> QED
    BY <2>2, <2>3
<1> QED
  BY <1>1, <1>2 DEF Alike, MemHostedAnswers, SqlHostedAnswers, PgHostedAnswers

-----------------------------------------------------------------------------
(* Values by key, and rooms that are each of one key. *)

KeyValue(d, e, t) == d = e /\ Dictionary(d) /\ t = Values(TwoRows("key", "value", d))

LEMMA KeyValueSet ==
  ASSUME NEW d, NEW e, NEW t, NEW k, NEW v,
         KeyValue(d, e, t)
  PROVE  KeyValue(Put(d, k, v), Put(e, k, v), PgUpsert(t, [key |-> k, value |-> v], {"key"}, {"value"}))
<1>1. "key" # "value" /\ TwoRow("key", "value", k, v) = [key |-> k, value |-> v]
  BY RowForms
<1>2. PgUpsert(Values(TwoRows("key", "value", d)), TwoRow("key", "value", k, v), {"key"}, {"value"})
        = Values(TwoRows("key", "value", Put(d, k, v)))
  BY <1>1, TwoPut
<1>3. Dictionary(Put(d, k, v))
  BY PutIsDictionary
<1> QED
  BY <1>1, <1>2, <1>3 DEF KeyValue

LEMMA KeyValueCleared ==
  ASSUME NEW d, NEW e, NEW t, NEW k,
         KeyValue(d, e, t)
  PROVE  KeyValue(Pop(d, {k}), Pop(e, {k}), PgDelete(t, "key", k))
<1>1. "key" # "value"
  OBVIOUS
<1>2. PgDelete(Values(TwoRows("key", "value", d)), "key", k) = Values(TwoRows("key", "value", Pop(d, {k})))
  BY <1>1, TwoPop
<1>3. Dictionary(Pop(d, {k}))
  BY PopIsDictionary
<1> QED
  BY <1>2, <1>3 DEF KeyValue

LEMMA KeyValueRead ==
  ASSUME NEW d, NEW e, NEW t,
         KeyValue(d, e, t)
  PROVE  e = d /\ PgBy(t, "key", "value") = d
<1>1. "key" # "value"
  OBVIOUS
<1> QED
  BY <1>1, TwoKeys DEF KeyValue

Boxed(key, d, e, t) == Distinct(d) /\ e = Box(d) /\ t = Values(TwoRows(key, "room", d))

LEMMA BoxedSet ==
  ASSUME NEW key, NEW d, NEW e, NEW t, NEW k, NEW r,
         key # "room", Boxed(key, d, e, t), ~ Taken(e, k, "room", r)
  PROVE  Boxed(key, Put(d, k, r), Put(e, k, With1(r)), PgUpsert(t, TwoRow(key, "room", k, r), {key}, {"room"}))
<1>1. \A j \in DOMAIN d : j # k => d[j] # r
  BY BoxFacts DEF Taken, Boxed
<1>2. Distinct(Put(d, k, r))
  BY <1>1, DistinctPut DEF Boxed
<1>3. Put(e, k, With1(r)) = Box(Put(d, k, r))
  BY BoxPut DEF Boxed
<1>4. PgUpsert(t, TwoRow(key, "room", k, r), {key}, {"room"}) = Values(TwoRows(key, "room", Put(d, k, r)))
  BY TwoPut DEF Boxed
<1> QED
  BY <1>2, <1>3, <1>4 DEF Boxed

LEMMA BoxedRead ==
  ASSUME NEW key, NEW d, NEW e, NEW t,
         key # "room", Boxed(key, d, e, t)
  PROVE  /\ \A k : Field(e, k, "room") = Get(d, k)
         /\ \A k : PgOne(PgWhere(t, key, k), "room") = Get(d, k)
         /\ \A r : KeyOf(e, "room", r) = OneOf({k \in DOMAIN d : d[k] = r})
         /\ \A r : PgOne(PgWhere(t, "room", r), key) = OneOf({k \in DOMAIN d : d[k] = r})
<1>1. ASSUME NEW k PROVE Field(e, k, "room") = Get(d, k) /\ PgOne(PgWhere(t, key, k), "room") = Get(d, k)
  BY TwoFind DEF Boxed
<1>2. ASSUME NEW r
      PROVE  /\ KeyOf(e, "room", r) = OneOf({k \in DOMAIN d : d[k] = r})
             /\ PgOne(PgWhere(t, "room", r), key) = OneOf({k \in DOMAIN d : d[k] = r})
  BY TwoBack DEF Boxed
<1> QED
  BY <1>1, <1>2

-----------------------------------------------------------------------------
(* Emoji: the image of a source, the source and the name of an image. *)

Look(image, name) == [image |-> image, name |-> name]
Source(source, name) == [source |-> source, name |-> name]
EmojiRow(o, e) == [source |-> o, image |-> e.image, name |-> e.name]
EmojiRows(e) == [o \in DOMAIN e |-> EmojiRow(o, e[o])]

EmojiSound(images, sources, e, t) ==
  /\ DOMAIN e \subseteq Objects
  /\ \A o \in DOMAIN e : e[o] = Look(e[o].image, e[o].name)
  /\ \A o : o \in DOMAIN images <=> o \in DOMAIN e
  /\ \A o \in DOMAIN e : images[o] = e[o].image
  /\ \A o \in DOMAIN e : e[o].image \in DOMAIN sources /\ sources[e[o].image] = Source(o, e[o].name)
  /\ \A r \in DOMAIN sources : \E o \in DOMAIN e : e[o].image = r
  /\ t = Values(EmojiRows(e))

LEMMA EmojiForms ==
  ASSUME NEW a, NEW b
  PROVE  /\ Look(a, b).image = a /\ Look(a, b).name = b
         /\ Source(a, b).source = a /\ Source(a, b).name = b
         /\ \A c : [Look(a, b) EXCEPT !.name = c] = Look(a, c)
         /\ \A c : [Source(a, b) EXCEPT !.name = c] = Source(a, c)
         /\ \A o : EmojiRow(o, Look(a, b)) = [source |-> o, image |-> a, name |-> b]
  BY DEF Look, Source, EmojiRow

LEMMA SourceFields ==
  ASSUME NEW a, NEW b
  PROVE  Source(a, b).source = a /\ Source(a, b).name = b
  BY DEF Source

LEMMA EmojiRowsFacts ==
  ASSUME NEW e
  PROVE  /\ \A o : o \in DOMAIN EmojiRows(e) <=> o \in DOMAIN e
         /\ Keyed(EmojiRows(e), "source")
         /\ \A o \in DOMAIN e : EmojiRows(e)[o] = EmojiRow(o, e[o])
         /\ \A o \in DOMAIN e : EmojiRows(e)[o]["image"] = e[o].image /\ EmojiRows(e)[o]["name"] = e[o].name
                                /\ EmojiRows(e)[o]["source"] = o
  BY DEF EmojiRows, EmojiRow, Keyed

\* The emoji table after an emoji is recorded: its name is the first it was given.
NameOf(e, o, name) == IF o \in DOMAIN e /\ e[o].name # Nil THEN e[o].name ELSE name

LEMMA EmojiRowsRecorded ==
  ASSUME NEW e, NEW x, NEW o, NEW r, NEW name,
         \A q : q \in DOMAIN x <=> q \in DOMAIN e \/ q = o,
         \A q \in DOMAIN e : q # o => x[q] = e[q],
         x[o] = Look(r, NameOf(e, o, name)),
         o \in DOMAIN e => e[o].image = r
  PROVE  PgUpsert(Values(EmojiRows(e)), [source |-> o, image |-> r, name |-> NameOf(e, o, name)], {"source"}, {"name"})
           = Values(EmojiRows(x))
<1> DEFINE d == EmojiRows(e)
           y == EmojiRows(x)
           row == [source |-> o, image |-> r, name |-> NameOf(e, o, name)]
           C == {"name"}
<1>1. row["source"] = o /\ y[o] = row
  BY EmojiForms DEF EmojiRows
<1>2. row = Merged(d, row, o, C)
  <2>1. o \in DOMAIN e => d[o] = [source |-> o, image |-> r, name |-> e[o].name]
    BY DEF EmojiRows, EmojiRow
  <2>2. DOMAIN d = DOMAIN e
    BY DEF EmojiRows
  <2> HIDE DEF d
  <2> QED
    BY <2>1, <2>2 DEF Merged
<1>3. /\ \A q : q \in DOMAIN y <=> q \in DOMAIN x
      /\ \A q : q \in DOMAIN d <=> q \in DOMAIN e
      /\ \A q \in DOMAIN x : y[q] = EmojiRow(q, x[q])
      /\ \A q \in DOMAIN e : d[q] = EmojiRow(q, e[q])
      /\ Keyed(d, "source")
  BY EmojiRowsFacts
<1> HIDE DEF d, y, row, C
<1>4. PgUpsert(Values(d), row, {"source"}, C) = Values(y)
  BY <1>1, <1>2, <1>3, Upserted
<1> QED
  BY <1>4 DEF d, y, row, C

MemImages(images, o, r) == IF o \in DOMAIN images THEN images ELSE Put(images, o, r)
MemSources(sources, o, r, name) ==
  IF r \notin DOMAIN sources THEN Put(sources, r, Source(o, name))
  ELSE IF sources[r].name = Nil THEN [sources EXCEPT ![r].name = name] ELSE sources
SqlEmojis(e, o, r, name) ==
  IF o \notin DOMAIN e THEN Put(e, o, Look(r, name))
  ELSE IF e[o].name = Nil THEN [e EXCEPT ![o].name = name] ELSE e
PgEmojis(t, o, r, name) ==
  LET known == PgOne(PgWhere(t, "source", o), "name")
  IN PgUpsert(t, [source |-> o, image |-> r, name |-> IF known = Nil THEN name ELSE known], {"source"}, {"name"})

\* record_custom_emoji_mxc keeps the stores at one content: an image has one
\* source in all of them.
LEMMA EmojiRecorded ==
  ASSUME NEW images, NEW sources, NEW e, NEW t, NEW o \in Objects, NEW r, NEW name,
         EmojiSound(images, sources, e, t),
         o \in DOMAIN e => e[o].image = r,
         o \notin DOMAIN e => KeyOf(e, "image", r) = Nil
  PROVE  EmojiSound(MemImages(images, o, r), MemSources(sources, o, r, name),
                    SqlEmojis(e, o, r, name), PgEmojis(t, o, r, name))
<1> DEFINE i == MemImages(images, o, r)
           c == MemSources(sources, o, r, name)
           x == SqlEmojis(e, o, r, name)
           u == PgEmojis(t, o, r, name)
           final == NameOf(e, o, name)
<1>0. /\ DOMAIN e \subseteq Objects
      /\ \A q \in DOMAIN e : e[q] = Look(e[q].image, e[q].name)
      /\ \A q : q \in DOMAIN images <=> q \in DOMAIN e
      /\ \A q \in DOMAIN e : images[q] = e[q].image
      /\ \A q \in DOMAIN e : e[q].image \in DOMAIN sources /\ sources[e[q].image] = Source(q, e[q].name)
      /\ \A y \in DOMAIN sources : \E q \in DOMAIN e : e[q].image = y
      /\ t = Values(EmojiRows(e))
  BY DEF EmojiSound
<1>1. \A q \in DOMAIN e : q # o => e[q].image # r
  <2>1. CASE o \in DOMAIN e
    BY <1>0, <2>1, SourceFields
  <2>2. CASE o \notin DOMAIN e
    <3>1. Nil \notin DOMAIN e
      BY <1>0, NilAssumption
    <3>2. \A q \in DOMAIN e : e[q]["image"] # r
      BY <2>2, <3>1, NoKeyOf
    <3> QED
      BY <3>2
  <2> QED
    BY <2>1, <2>2
<1>2. r \in DOMAIN sources <=> o \in DOMAIN e
  BY <1>0, <1>1
<1>3. /\ \A q : q \in DOMAIN x <=> q \in DOMAIN e \/ q = o
      /\ \A q \in DOMAIN e : q # o => x[q] = e[q]
      /\ x[o] = Look(r, final)
  <2>1. CASE o \notin DOMAIN e
    BY <2>1, PutFacts DEF SqlEmojis, NameOf
  <2>2. CASE o \in DOMAIN e /\ e[o].name = Nil
    <3>1. e[o] = Look(r, e[o].name)
      BY <1>0, <2>2
    <3>2. [e[o] EXCEPT !.name = name] = Look(r, name)
      BY <3>1, EmojiForms
    <3>3. x = [e EXCEPT ![o] = Look(r, name)]
      BY <2>2, <3>2 DEF SqlEmojis
    <3> QED
      BY <2>2, <3>3 DEF NameOf
  <2>3. CASE o \in DOMAIN e /\ e[o].name # Nil
    BY <1>0, <2>3 DEF SqlEmojis, NameOf
  <2> QED
    BY <2>1, <2>2, <2>3
<1>4. /\ \A q : q \in DOMAIN c <=> q \in DOMAIN sources \/ q = r
      /\ \A q \in DOMAIN sources : q # r => c[q] = sources[q]
      /\ c[r] = Source(o, final)
  <2>1. CASE o \notin DOMAIN e
    BY <1>2, <2>1, PutFacts DEF MemSources, NameOf
  <2>2. CASE o \in DOMAIN e /\ e[o].name = Nil
    <3>1. sources[r] = Source(o, e[o].name) /\ sources[r].name = Nil
      BY <1>0, <2>2, EmojiForms
    <3>2. [sources[r] EXCEPT !.name = name] = Source(o, name)
      BY <3>1, EmojiForms
    <3>3. c = [sources EXCEPT ![r] = Source(o, name)]
      BY <1>2, <2>2, <3>1, <3>2 DEF MemSources
    <3> QED
      BY <1>2, <2>2, <3>3 DEF NameOf
  <2>3. CASE o \in DOMAIN e /\ e[o].name # Nil
    <3>1. sources[r] = Source(o, e[o].name) /\ sources[r].name # Nil
      BY <1>0, <2>3, EmojiForms
    <3> QED
      BY <1>2, <2>3, <3>1 DEF MemSources, NameOf
  <2> QED
    BY <2>1, <2>2, <2>3
<1>5. /\ \A q : q \in DOMAIN i <=> q \in DOMAIN images \/ q = o
      /\ \A q \in DOMAIN images : i[q] = images[q]
      /\ o \notin DOMAIN images => i[o] = r
  BY PutFacts DEF MemImages
<1>6. u = PgUpsert(t, [source |-> o, image |-> r, name |-> final], {"source"}, {"name"})
  <2>1. (IF PgOne(PgWhere(t, "source", o), "name") = Nil THEN name ELSE PgOne(PgWhere(t, "source", o), "name")) = final
    <3> DEFINE d == EmojiRows(e)
    <3>1. /\ \A q : q \in DOMAIN d <=> q \in DOMAIN e
          /\ Keyed(d, "source")
          /\ \A q \in DOMAIN e : d[q]["name"] = e[q].name
      BY EmojiRowsFacts
    <3> HIDE DEF d
    <3>2. /\ o \in DOMAIN d => PgOne(PgWhere(Values(d), "source", o), "name") = d[o]["name"]
          /\ o \notin DOMAIN d => PgOne(PgWhere(Values(d), "source", o), "name") = Nil
      BY <3>1, FindByKey
    <3> QED
      BY <1>0, <3>1, <3>2 DEF NameOf, d
  <2> QED
    BY <2>1 DEF PgEmojis
<1> HIDE DEF i, c, x, u
<1>7. u = Values(EmojiRows(x))
  BY <1>0, <1>3, <1>6, EmojiRowsRecorded
<1> HIDE DEF final
<1>8. \A q \in DOMAIN x : x[q] = Look(x[q].image, x[q].name) /\ i[q] = x[q].image /\ (q # o => x[q].image # r)
  BY <1>0, <1>1, <1>3, <1>5, EmojiForms
<1>9. \A q \in DOMAIN x : x[q].image \in DOMAIN c /\ c[x[q].image] = Source(q, x[q].name)
  BY <1>0, <1>1, <1>3, <1>4, EmojiForms
<1>10. \A y \in DOMAIN c : \E q \in DOMAIN x : x[q].image = y
  <2> SUFFICES ASSUME NEW y \in DOMAIN c PROVE \E q \in DOMAIN x : x[q].image = y
    OBVIOUS
  <2>1. CASE y = r
    BY <1>3, <2>1, EmojiForms
  <2>2. CASE y # r
    <3>1. PICK q \in DOMAIN e : e[q].image = y
      BY <1>0, <1>4, <2>2
    <3>2. q # o
      BY <2>2, <3>1
    <3> QED
      BY <1>3, <3>1, <3>2
  <2> QED
    BY <2>1, <2>2
<1>11. EmojiSound(i, c, x, u)
  BY <1>0, <1>3, <1>5, <1>7, <1>8, <1>9, <1>10 DEF EmojiSound
<1> QED
  BY <1>11 DEF i, c, x, u

\* What is asked of emoji follows from it.
LEMMA EmojiAnswers ==
  ASSUME NEW images, NEW sources, NEW e, NEW t,
         EmojiSound(images, sources, e, t)
  PROVE  /\ \A o : Field(e, o, "image") = Get(images, o)
         /\ \A o : PgOne(PgWhere(t, "source", o), "image") = Get(images, o)
         /\ \A r : (IF KeyOf(e, "image", r) = Nil THEN Nil
                    ELSE Source(KeyOf(e, "image", r), e[KeyOf(e, "image", r)].name)) = Get(sources, r)
         /\ \A r : (IF PgWhere(t, "image", r) = {} THEN Nil
                    ELSE Source(PgOne(PgWhere(t, "image", r), "source"), PgOne(PgWhere(t, "image", r), "name"))) = Get(sources, r)
<1> DEFINE d == EmojiRows(e)
<1>0. /\ DOMAIN e \subseteq Objects
      /\ \A q : q \in DOMAIN images <=> q \in DOMAIN e
      /\ \A q \in DOMAIN e : images[q] = e[q].image
      /\ \A q \in DOMAIN e : e[q].image \in DOMAIN sources /\ sources[e[q].image] = Source(q, e[q].name)
      /\ \A y \in DOMAIN sources : \E q \in DOMAIN e : e[q].image = y
      /\ t = Values(d)
  BY DEF EmojiSound
<1>1. /\ \A q : q \in DOMAIN d <=> q \in DOMAIN e
      /\ Keyed(d, "source")
      /\ \A q \in DOMAIN e : d[q]["image"] = e[q].image /\ d[q]["name"] = e[q].name /\ d[q]["source"] = q
  BY EmojiRowsFacts
<1> HIDE DEF d
<1>2. ASSUME NEW o PROVE Field(e, o, "image") = Get(images, o) /\ PgOne(PgWhere(t, "source", o), "image") = Get(images, o)
  <2>1. /\ o \in DOMAIN d => PgOne(PgWhere(Values(d), "source", o), "image") = d[o]["image"]
        /\ o \notin DOMAIN d => PgOne(PgWhere(Values(d), "source", o), "image") = Nil
    BY <1>1, FindByKey
  <2> QED
    BY <1>0, <1>1, <2>1, FieldFacts, GetFacts
<1>3. ASSUME NEW r
      PROVE  /\ (IF KeyOf(e, "image", r) = Nil THEN Nil
                 ELSE Source(KeyOf(e, "image", r), e[KeyOf(e, "image", r)].name)) = Get(sources, r)
             /\ (IF PgWhere(t, "image", r) = {} THEN Nil
                 ELSE Source(PgOne(PgWhere(t, "image", r), "source"), PgOne(PgWhere(t, "image", r), "name"))) = Get(sources, r)
  <2>1. CASE \E q \in DOMAIN e : e[q].image = r
    <3>1. PICK q \in DOMAIN e : e[q].image = r
      BY <2>1
    <3>2. Get(sources, r) = Source(q, e[q].name) /\ q # Nil
      BY <1>0, <3>1, GetFacts, NilAssumption
    <3>3. \A p \in DOMAIN e : e[p].image = r => p = q
      BY <1>0, <3>1, EmojiForms
    <3>4. KeyOf(e, "image", r) = q
      BY <3>1, <3>3, KeyOfOne
    <3>5. PgWhere(Values(d), "image", r) # {} /\ \A c : PgOne(PgWhere(Values(d), "image", r), c) = d[q][c]
      BY <1>1, <3>1, <3>3, FindOne
    <3>6. PgOne(PgWhere(t, "image", r), "source") = q /\ PgOne(PgWhere(t, "image", r), "name") = e[q].name
      BY <1>0, <1>1, <3>5
    <3> QED
      BY <1>0, <3>2, <3>4, <3>5, <3>6
  <2>2. CASE \A q \in DOMAIN e : e[q].image # r
    <3>1. Get(sources, r) = Nil
      BY <1>0, <2>2, GetFacts
    <3>2. KeyOf(e, "image", r) = Nil
      BY <2>2, KeyOfNone
    <3>3. PgWhere(Values(d), "image", r) = {}
      BY <1>1, <2>2, FindNone
    <3> QED
      BY <1>0, <3>1, <3>2, <3>3
  <2> QED
    BY <2>1, <2>2
<1> QED
  BY <1>2, <1>3

-----------------------------------------------------------------------------
(* Settings, logins, notification rooms, ghosts and emoji together. *)

KeyedSound(m, s, g) ==
  /\ DOMAIN m = {"settings", "logins", "bot", "ghosts", "images", "sources"}
  /\ DOMAIN s = {"settings", "logins", "bot", "ghosts", "emoji"}
  /\ DOMAIN g = {"settings", "logins", "bot", "ghosts", "emoji"}
  /\ KeyValue(m.settings, s.settings, g.settings)
  /\ KeyValue(m.logins, s.logins, g.logins)
  /\ Boxed("user", m.bot, s.bot, g.bot)
  /\ KeyValue(m.ghosts, s.ghosts, g.ghosts)
  /\ EmojiSound(m.images, m.sources, s.emoji, g.emoji)

\* Settings, logins, notification rooms, ghosts and emoji, call by call.
LEMMA SettingSet ==
  ASSUME NEW m, NEW s, NEW g, NEW k, NEW v,
         KeyedSound(m, s, g)
  PROVE  /\ KeyedSound(MemSetSetting(m, k, v), SqlSetSetting(s, k, v), PgSetSetting(g, k, v))
         /\ KeyedSound(MemClearSetting(m, k), SqlClearSetting(s, k), PgClearSetting(g, k))
<1>1. KeyValue(m.settings, s.settings, g.settings)
  BY DEF KeyedSound
<1>2. KeyValue(Put(m.settings, k, v), Put(s.settings, k, v), PgUpsert(g.settings, [key |-> k, value |-> v], {"key"}, {"value"}))
  BY <1>1, KeyValueSet
<1>3. KeyValue(Pop(m.settings, {k}), Pop(s.settings, {k}), PgDelete(g.settings, "key", k))
  BY <1>1, KeyValueCleared
<1>4. KeyedSound(MemSetSetting(m, k, v), SqlSetSetting(s, k, v), PgSetSetting(g, k, v))
  BY <1>2 DEF KeyedSound, MemSetSetting, SqlSetSetting, PgSetSetting
<1>5. KeyedSound(MemClearSetting(m, k), SqlClearSetting(s, k), PgClearSetting(g, k))
  BY <1>3 DEF KeyedSound, MemClearSetting, SqlClearSetting, PgClearSetting
<1> QED
  BY <1>4, <1>5

LEMMA LoginSaved ==
  ASSUME NEW m, NEW s, NEW g, NEW k, NEW v,
         KeyedSound(m, s, g)
  PROVE  /\ KeyedSound(MemSaveLogin(m, k, v), SqlSaveLogin(s, k, v), PgSaveLogin(g, k, v))
         /\ KeyedSound(MemDeleteLogin(m, k), SqlDeleteLogin(s, k), PgDeleteLogin(g, k))
<1>1. KeyValue(m.logins, s.logins, g.logins)
  BY DEF KeyedSound
<1>2. KeyValue(Put(m.logins, k, v), Put(s.logins, k, v), PgUpsert(g.logins, [key |-> k, value |-> v], {"key"}, {"value"}))
  BY <1>1, KeyValueSet
<1>3. KeyValue(Pop(m.logins, {k}), Pop(s.logins, {k}), PgDelete(g.logins, "key", k))
  BY <1>1, KeyValueCleared
<1>4. KeyedSound(MemSaveLogin(m, k, v), SqlSaveLogin(s, k, v), PgSaveLogin(g, k, v))
  BY <1>2 DEF KeyedSound, MemSaveLogin, SqlSaveLogin, PgSaveLogin
<1>5. KeyedSound(MemDeleteLogin(m, k), SqlDeleteLogin(s, k), PgDeleteLogin(g, k))
  BY <1>3 DEF KeyedSound, MemDeleteLogin, SqlDeleteLogin, PgDeleteLogin
<1> QED
  BY <1>4, <1>5

LEMMA BotRoomSet ==
  ASSUME NEW m, NEW s, NEW g, NEW u, NEW r,
         KeyedSound(m, s, g), ~ Taken(s.bot, u, "room", r)
  PROVE  KeyedSound(MemBotRoom(m, u, r), SqlBotRoom(s, u, r), PgBotRoom(g, u, r))
<1>1. "user" # "room" /\ TwoRow("user", "room", u, r) = [user |-> u, room |-> r]
  BY RowForms
<1>2. Boxed("user", Put(m.bot, u, r), Put(s.bot, u, With1(r)), PgUpsert(g.bot, TwoRow("user", "room", u, r), {"user"}, {"room"}))
  BY <1>1, BoxedSet DEF KeyedSound
<1>3. Boxed("user", Put(m.bot, u, r), Put(s.bot, u, [room |-> r]), PgUpsert(g.bot, [user |-> u, room |-> r], {"user"}, {"room"}))
  BY <1>1, <1>2 DEF With1
<1> QED
  BY <1>3 DEF KeyedSound, MemBotRoom, SqlBotRoom, PgBotRoom

LEMMA GhostSet ==
  ASSUME NEW m, NEW s, NEW g, NEW k, NEW v,
         KeyedSound(m, s, g)
  PROVE  KeyedSound(MemGhostProfile(m, k, v), SqlGhostProfile(s, k, v), PgGhostProfile(g, k, v))
<1>1. KeyValue(Put(m.ghosts, k, v), Put(s.ghosts, k, v), PgUpsert(g.ghosts, [key |-> k, value |-> v], {"key"}, {"value"}))
  BY KeyValueSet DEF KeyedSound
<1> QED
  BY <1>1 DEF KeyedSound, MemGhostProfile, SqlGhostProfile, PgGhostProfile

LEMMA EmojiSet ==
  ASSUME NEW m, NEW s, NEW g, NEW o \in Objects, NEW r, NEW name,
         KeyedSound(m, s, g),
         o \in DOMAIN s.emoji => s.emoji[o].image = r,
         o \notin DOMAIN s.emoji => KeyOf(s.emoji, "image", r) = Nil
  PROVE  KeyedSound(MemEmoji(m, o, r, name), SqlEmoji(s, o, r, name), PgEmoji(g, o, r, name))
<1>1. EmojiSound(MemImages(m.images, o, r), MemSources(m.sources, o, r, name),
                 SqlEmojis(s.emoji, o, r, name), PgEmojis(g.emoji, o, r, name))
  BY EmojiRecorded DEF KeyedSound
<1>2. MemEmoji(m, o, r, name) =
        [m EXCEPT !.images = MemImages(m.images, o, r), !.sources = MemSources(m.sources, o, r, name)]
  BY DEF MemEmoji, MemImages, MemSources, Source
<1>3. SqlEmoji(s, o, r, name) = [s EXCEPT !.emoji = SqlEmojis(s.emoji, o, r, name)]
  BY DEF SqlEmoji, SqlEmojis, Look
<1>4. PgEmoji(g, o, r, name) = [g EXCEPT !.emoji = PgEmojis(g.emoji, o, r, name)]
  BY DEF PgEmoji, PgEmojis
<1> QED
  BY <1>1, <1>2, <1>3, <1>4 DEF KeyedSound

\* What is asked of them follows from the one content.
LEMMA KeyedAlike ==
  ASSUME NEW m, NEW s, NEW g,
         KeyedSound(m, s, g)
  PROVE  Alike(MemKeyedAnswers(m), SqlKeyedAnswers(s), PgKeyedAnswers(g))
<1>1. /\ s.settings = m.settings /\ PgBy(g.settings, "key", "value") = m.settings
      /\ s.logins = m.logins /\ PgBy(g.logins, "key", "value") = m.logins
      /\ s.ghosts = m.ghosts /\ PgBy(g.ghosts, "key", "value") = m.ghosts
  BY KeyValueRead DEF KeyedSound
<1>2. /\ \A k : Field(s.bot, k, "room") = Get(m.bot, k)
      /\ \A k : PgOne(PgWhere(g.bot, "user", k), "room") = Get(m.bot, k)
      /\ \A r : KeyOf(s.bot, "room", r) = OneOf({k \in DOMAIN m.bot : m.bot[k] = r})
      /\ \A r : PgOne(PgWhere(g.bot, "room", r), "user") = OneOf({k \in DOMAIN m.bot : m.bot[k] = r})
  <2>1. "user" # "room"
    OBVIOUS
  <2> QED
    BY <2>1, BoxedRead DEF KeyedSound
<1>3. /\ \A o : Field(s.emoji, o, "image") = Get(m.images, o)
      /\ \A o : PgOne(PgWhere(g.emoji, "source", o), "image") = Get(m.images, o)
      /\ \A r : (IF KeyOf(s.emoji, "image", r) = Nil THEN Nil
                 ELSE Source(KeyOf(s.emoji, "image", r), s.emoji[KeyOf(s.emoji, "image", r)].name)) = Get(m.sources, r)
      /\ \A r : (IF PgWhere(g.emoji, "image", r) = {} THEN Nil
                 ELSE Source(PgOne(PgWhere(g.emoji, "image", r), "source"), PgOne(PgWhere(g.emoji, "image", r), "name")))
                   = Get(m.sources, r)
  BY EmojiAnswers DEF KeyedSound
<1>4. /\ [o \in Objects |-> Field(s.emoji, o, "image")] = [o \in Objects |-> Get(m.images, o)]
      /\ [o \in Objects |-> PgOne(PgWhere(g.emoji, "source", o), "image")] = [o \in Objects |-> Get(m.images, o)]
  BY <1>3
<1>5. /\ [u \in Users |-> Field(s.bot, u, "room")] = [u \in Users |-> Get(m.bot, u)]
      /\ [u \in Users |-> PgOne(PgWhere(g.bot, "user", u), "room")] = [u \in Users |-> Get(m.bot, u)]
  BY <1>2
<1>6. /\ [r \in Rooms |-> KeyOf(s.bot, "room", r)] = [r \in Rooms |-> OneOf({u \in DOMAIN m.bot : m.bot[u] = r})]
      /\ [r \in Rooms |-> PgOne(PgWhere(g.bot, "room", r), "user")] = [r \in Rooms |-> OneOf({u \in DOMAIN m.bot : m.bot[u] = r})]
  BY <1>2
<1>7. [r \in Rooms |-> IF KeyOf(s.emoji, "image", r) = Nil THEN Nil
                       ELSE Source(KeyOf(s.emoji, "image", r), s.emoji[KeyOf(s.emoji, "image", r)].name)]
        = [r \in Rooms |-> Get(m.sources, r)]
  BY <1>3
<1>8. [r \in Rooms |-> IF PgWhere(g.emoji, "image", r) = {} THEN Nil
                       ELSE Source(PgOne(PgWhere(g.emoji, "image", r), "source"), PgOne(PgWhere(g.emoji, "image", r), "name"))]
        = [r \in Rooms |-> Get(m.sources, r)]
  BY <1>3
<1>9. MemKeyedAnswers(m) = SqlKeyedAnswers(s)
  BY Zenon, <1>1, <1>4, <1>5, <1>6, <1>7 DEF MemKeyedAnswers, SqlKeyedAnswers, Source
<1>10. MemKeyedAnswers(m) = PgKeyedAnswers(g)
  BY Zenon, <1>1, <1>4, <1>5, <1>6, <1>8 DEF MemKeyedAnswers, PgKeyedAnswers, Source
<1> QED
  BY <1>9, <1>10 DEF Alike

-----------------------------------------------------------------------------
(* Guilds: joins under way, members, spaces and channels. *)

GuildSound(m, s, g) ==
  /\ DOMAIN m = {"pending", "members", "space", "channels"}
  /\ DOMAIN s = {"pending", "members", "space", "channels"}
  /\ DOMAIN g = {"pending", "members", "space", "channels"}
  /\ DOMAIN s.pending = DOMAIN m.pending /\ g.pending = Values(TwoRows("id", "guild", m.pending))
  /\ DOMAIN m.members = s.members /\ AllPairs(s.members) /\ g.members = Links("user", "guild", s.members)
  /\ Boxed("guild", m.space, s.space, g.space)
  /\ m.channels = s.channels /\ g.channels = Values(TwoRows("channel", "guild", m.channels))

\* The domain of a dictionary after a call, as a set.
LEMMA DomainOfPut ==
  ASSUME NEW d, NEW k, NEW v
  PROVE  DOMAIN Put(d, k, v) = DOMAIN d \cup {k}
  BY DEF Put, PutAll

LEMMA DomainOfPop ==
  ASSUME NEW d, NEW K
  PROVE  DOMAIN Pop(d, K) = DOMAIN d \ K
  BY DEF Pop

\* Joins, members, spaces and channels of guilds, call by call.
LEMMA PendingSet ==
  ASSUME NEW m, NEW s, NEW g, NEW u, NEW c,
         GuildSound(m, s, g)
  PROVE  /\ GuildSound(MemPendingGuildFollow(m, u, c), SqlPendingGuildFollow(s, u, c), PgPendingGuildFollow(g, u, c))
         /\ GuildSound(MemNoPendingGuildFollow(m, u, c), SqlNoPendingGuildFollow(s, u, c), PgNoPendingGuildFollow(g, u, c))
<1> DEFINE k == <<u, c>>
<1>1. "id" # "guild" /\ TwoRow("id", "guild", k, c) = [id |-> k, guild |-> c]
  BY RowForms
<1>2. DOMAIN s.pending = DOMAIN m.pending /\ g.pending = Values(TwoRows("id", "guild", m.pending))
  BY DEF GuildSound
<1>3. PgUpsert(g.pending, [id |-> k, guild |-> c], {"id"}, {"guild"}) = Values(TwoRows("id", "guild", Put(m.pending, k, c)))
  BY <1>1, <1>2, TwoPut
<1>4. PgDelete(g.pending, "id", k) = Values(TwoRows("id", "guild", Pop(m.pending, {k})))
  BY <1>1, <1>2, TwoPop
<1>5. DOMAIN Put(s.pending, k, [guild |-> c]) = DOMAIN Put(m.pending, k, c)
  BY <1>2 DEF Put, PutAll
<1>6. DOMAIN Pop(s.pending, {k}) = DOMAIN Pop(m.pending, {k})
  BY <1>2 DEF Pop
<1> HIDE DEF k
<1>7. GuildSound([m EXCEPT !.pending = Put(@, k, c)], [s EXCEPT !.pending = Put(@, k, [guild |-> c])],
                 [g EXCEPT !.pending = PgUpsert(@, [id |-> k, guild |-> c], {"id"}, {"guild"})])
  BY <1>3, <1>5 DEF GuildSound
<1>8. GuildSound([m EXCEPT !.pending = Pop(@, {k})], [s EXCEPT !.pending = Pop(@, {k})],
                 [g EXCEPT !.pending = PgDelete(@, "id", k)])
  BY <1>4, <1>6 DEF GuildSound
<1> QED
  BY <1>7, <1>8 DEF k, MemPendingGuildFollow, SqlPendingGuildFollow, PgPendingGuildFollow,
                    MemNoPendingGuildFollow, SqlNoPendingGuildFollow, PgNoPendingGuildFollow

LEMMA MemberSet ==
  ASSUME NEW m, NEW s, NEW g, NEW u, NEW c,
         GuildSound(m, s, g)
  PROVE  /\ GuildSound(MemGuildMember(m, u, c), SqlGuildMember(s, u, c), PgGuildMember(g, u, c))
         /\ GuildSound(MemNoGuildMember(m, u, c), SqlNoGuildMember(s, u, c), PgNoGuildMember(g, u, c))
<1> DEFINE k == <<u, c>>
<1>1. "user" # "guild" /\ TwoRow("user", "guild", u, c) = [user |-> u, guild |-> c]
  BY LinkForms
<1>2. DOMAIN m.members = s.members /\ AllPairs(s.members) /\ g.members = Links("user", "guild", s.members)
  BY DEF GuildSound
<1>3. PgInsertOnce(g.members, [user |-> u, guild |-> c], {"user", "guild"}) = Links("user", "guild", s.members \cup {k})
  BY <1>1, <1>2, LinkAdded
<1>4. g.members \ {[user |-> u, guild |-> c]} = Links("user", "guild", s.members \ {k})
  <2>1. Minus(Links("user", "guild", s.members), {TwoRow("user", "guild", u, c)}) = Links("user", "guild", Minus(s.members, {k}))
    BY <1>1, <1>2, LinkMinus
  <2> QED
    BY <1>1, <1>2, <2>1 DEF Minus
<1>5. AllPairs(s.members \cup {k}) /\ AllPairs(s.members \ {k})
  BY <1>2 DEF AllPairs
<1>6. DOMAIN Put(m.members, k, c) = s.members \cup {k} /\ DOMAIN Pop(m.members, {k}) = s.members \ {k}
  BY <1>2, DomainOfPut, DomainOfPop
<1> HIDE DEF k
<1>7. GuildSound([m EXCEPT !.members = Put(@, k, c)], [s EXCEPT !.members = @ \cup {k}],
                 [g EXCEPT !.members = PgInsertOnce(@, [user |-> u, guild |-> c], {"user", "guild"})])
  BY <1>3, <1>5, <1>6 DEF GuildSound
<1>8. GuildSound([m EXCEPT !.members = Pop(@, {k})], [s EXCEPT !.members = @ \ {k}],
                 [g EXCEPT !.members = @ \ {[user |-> u, guild |-> c]}])
  BY <1>4, <1>5, <1>6 DEF GuildSound
<1> QED
  BY <1>7, <1>8 DEF k, MemGuildMember, SqlGuildMember, PgGuildMember, MemNoGuildMember, SqlNoGuildMember, PgNoGuildMember

LEMMA SpaceSet ==
  ASSUME NEW m, NEW s, NEW g, NEW c, NEW r,
         GuildSound(m, s, g), ~ Taken(s.space, c, "room", r)
  PROVE  GuildSound(MemGuildSpace(m, c, r), SqlGuildSpace(s, c, r), PgGuildSpace(g, c, r))
<1>1. "guild" # "room" /\ TwoRow("guild", "room", c, r) = [guild |-> c, room |-> r]
  BY RowForms
<1>2. Boxed("guild", Put(m.space, c, r), Put(s.space, c, With1(r)), PgUpsert(g.space, TwoRow("guild", "room", c, r), {"guild"}, {"room"}))
  BY <1>1, BoxedSet DEF GuildSound
<1>3. Boxed("guild", Put(m.space, c, r), Put(s.space, c, [room |-> r]), PgUpsert(g.space, [guild |-> c, room |-> r], {"guild"}, {"room"}))
  BY <1>1, <1>2 DEF With1
<1> QED
  BY <1>3 DEF GuildSound, MemGuildSpace, SqlGuildSpace, PgGuildSpace

\* The rows of the channels C go, and come back with their guild.
LEMMA ChannelsListed ==
  ASSUME NEW d, NEW C, NEW c
  PROVE  {x \in Values(TwoRows("channel", "guild", d)) : x.channel \notin C} \cup {[channel |-> k, guild |-> c] : k \in C}
           = Values(TwoRows("channel", "guild", PutAll(d, C, c)))
<1> DEFINE e == PutAll(d, C, c)
           t == TwoRows("channel", "guild", d)
           u == TwoRows("channel", "guild", e)
<1>1. (\A x : x \in DOMAIN e <=> x \in DOMAIN d \/ x \in C) /\ (\A x \in C : e[x] = c) /\ (\A x \in DOMAIN d : x \notin C => e[x] = d[x])
  BY DEF PutAll
<1>2. "channel" # "guild"
  OBVIOUS
<1>3. /\ \A x : x \in DOMAIN t <=> x \in DOMAIN d
      /\ \A x \in DOMAIN d : t[x] = TwoRow("channel", "guild", x, d[x]) /\ t[x]["channel"] = x
      /\ \A x : x \in DOMAIN u <=> x \in DOMAIN e
      /\ \A x \in DOMAIN e : u[x] = TwoRow("channel", "guild", x, e[x])
  BY <1>2, TwoRowsFacts
<1>4. \A k \in C : [channel |-> k, guild |-> c] = TwoRow("channel", "guild", k, c)
  BY RowForms
<1> HIDE DEF e, t, u
<1>5. {[channel |-> k, guild |-> c] : k \in C} = {u[k] : k \in C}
  BY <1>1, <1>3, <1>4
<1>6. {x \in Values(t) : x.channel \notin C} = {u[k] : k \in DOMAIN d \ C}
  <2>1. {x \in Values(t) : x.channel \notin C} = {t[k] : k \in DOMAIN d \ C}
    BY <1>3 DEF Values
  <2>2. \A k \in DOMAIN d \ C : t[k] = u[k]
    BY <1>1, <1>3
  <2> QED
    BY <2>1, <2>2
<1>7. Values(u) = {u[k] : k \in DOMAIN d \ C} \cup {u[k] : k \in C}
  BY <1>1, <1>3 DEF Values
<1> QED
  BY <1>5, <1>6, <1>7 DEF e, t, u

LEMMA ChannelsSet ==
  ASSUME NEW m, NEW s, NEW g, NEW c, NEW C,
         GuildSound(m, s, g)
  PROVE  GuildSound(MemGuildChannels(m, c, C), SqlGuildChannels(s, c, C), PgGuildChannels(g, c, C))
<1>1. {x \in g.channels : x.channel \notin C} \cup {[channel |-> k, guild |-> c] : k \in C}
        = Values(TwoRows("channel", "guild", PutAll(m.channels, C, c)))
  BY ChannelsListed DEF GuildSound
<1>2. PgGuildChannels(g, c, C) = [g EXCEPT !.channels = Values(TwoRows("channel", "guild", PutAll(m.channels, C, c)))]
  BY <1>1 DEF PgGuildChannels
<1> QED
  BY <1>2 DEF GuildSound, MemGuildChannels, SqlGuildChannels

\* What is asked of guilds follows from the one content.
LEMMA GuildAlike ==
  ASSUME NEW m, NEW s, NEW g,
         GuildSound(m, s, g)
  PROVE  Alike(MemGuildAnswers(m), SqlGuildAnswers(s), PgGuildAnswers(g))
<1>1. DOMAIN s.pending = DOMAIN m.pending /\ PgColumn(g.pending, "id") = DOMAIN m.pending
  <2>1. DOMAIN s.pending = DOMAIN m.pending /\ g.pending = Values(TwoRows("id", "guild", m.pending))
    BY DEF GuildSound
  <2> DEFINE t == TwoRows("id", "guild", m.pending)
  <2>2. (\A x : x \in DOMAIN t <=> x \in DOMAIN m.pending) /\ (\A x \in DOMAIN m.pending : t[x]["id"] = x)
    <3>1. "id" # "guild"
      OBVIOUS
    <3> QED
      BY <3>1, TwoRowsFacts
  <2> HIDE DEF t
  <2>3. \A v : v \in PgColumn(Values(t), "id") <=> v \in DOMAIN m.pending
    BY <2>2, ColumnOf
  <2>4. PgColumn(Values(t), "id") = DOMAIN m.pending
    BY <2>3
  <2> QED
    BY <2>1, <2>4 DEF t
<1>2. s.members = DOMAIN m.members /\ {<<x.user, x.guild>> : x \in g.members} = DOMAIN m.members
  <2>1. "user" # "guild"
    OBVIOUS
  <2>2. g.members = Links("user", "guild", s.members) /\ AllPairs(s.members) /\ s.members = DOMAIN m.members
    BY DEF GuildSound
  <2>3. {<<x["user"], x["guild"]>> : x \in g.members} = s.members
    BY <2>1, <2>2, LinksRead
  <2> QED
    BY <2>2, <2>3
<1>3. /\ \A k : Field(s.space, k, "room") = Get(m.space, k)
      /\ \A k : PgOne(PgWhere(g.space, "guild", k), "room") = Get(m.space, k)
      /\ \A r : KeyOf(s.space, "room", r) = OneOf({k \in DOMAIN m.space : m.space[k] = r})
      /\ \A r : PgOne(PgWhere(g.space, "room", r), "guild") = OneOf({k \in DOMAIN m.space : m.space[k] = r})
  <2>1. "guild" # "room"
    OBVIOUS
  <2> QED
    BY <2>1, BoxedRead DEF GuildSound
<1>4. s.channels = m.channels /\ \A k : PgOne(PgWhere(g.channels, "channel", k), "guild") = Get(m.channels, k)
  <2>1. "channel" # "guild"
    OBVIOUS
  <2>2. g.channels = Values(TwoRows("channel", "guild", m.channels)) /\ s.channels = m.channels
    BY DEF GuildSound
  <2> QED
    BY <2>1, <2>2, TwoFind
<1>5. /\ [c \in Actors |-> Field(s.space, c, "room")] = [c \in Actors |-> Get(m.space, c)]
      /\ [c \in Actors |-> PgOne(PgWhere(g.space, "guild", c), "room")] = [c \in Actors |-> Get(m.space, c)]
      /\ [c \in Actors |-> PgOne(PgWhere(g.channels, "channel", c), "guild")] = [c \in Actors |-> Get(m.channels, c)]
  BY <1>3, <1>4
<1>6. /\ [r \in Rooms |-> KeyOf(s.space, "room", r)] = [r \in Rooms |-> OneOf({c \in DOMAIN m.space : m.space[c] = r})]
      /\ [r \in Rooms |-> PgOne(PgWhere(g.space, "room", r), "guild")] = [r \in Rooms |-> OneOf({c \in DOMAIN m.space : m.space[c] = r})]
  BY <1>3
<1>7. MemGuildAnswers(m) = SqlGuildAnswers(s)
  BY Zenon, <1>1, <1>2, <1>4, <1>5, <1>6 DEF MemGuildAnswers, SqlGuildAnswers
<1>8. MemGuildAnswers(m) = PgGuildAnswers(g)
  BY Zenon, <1>1, <1>2, <1>5, <1>6 DEF MemGuildAnswers, PgGuildAnswers
<1> QED
  BY <1>7, <1>8 DEF Alike

-----------------------------------------------------------------------------
(* Who may use the bridge from another homeserver. *)

AllowSound(m, s, g) ==
  /\ m = s /\ \A rule \in DOMAIN m : m[rule] \in {"full", "shadow", "banned"}
  /\ g = Values(TwoRows("rule", "tier", m))

\* Allowing, banning and forgetting a user keeps the stores at one content.
LEMMA AllowSet ==
  ASSUME NEW m, NEW s, NEW g, NEW rule, NEW tier \in {"full", "shadow", "banned"},
         AllowSound(m, s, g)
  PROVE  /\ AllowSound(MemSetAllow(m, rule, tier), SqlSetAllow(s, rule, tier), PgSetAllow(g, rule, tier))
         /\ AllowSound(MemBan(m), SqlBan(s), PgBan(g))
         /\ AllowSound(MemRemoveAllow(m, rule), SqlRemoveAllow(s, rule), PgRemoveAllow(g, rule))
<1>1. ASSUME NEW k, NEW v \in {"full", "shadow", "banned"}
      PROVE  AllowSound(Put(m, k, v), Put(s, k, v), PgUpsert(g, [rule |-> k, tier |-> v], {"rule"}, {"tier"}))
  <2>1. "rule" # "tier" /\ TwoRow("rule", "tier", k, v) = [rule |-> k, tier |-> v]
    BY RowForms
  <2>2. PgUpsert(g, [rule |-> k, tier |-> v], {"rule"}, {"tier"}) = Values(TwoRows("rule", "tier", Put(m, k, v)))
    BY <2>1, TwoPut DEF AllowSound
  <2>3. \A x \in DOMAIN Put(m, k, v) : Put(m, k, v)[x] \in {"full", "shadow", "banned"}
    BY PutFacts DEF AllowSound
  <2> QED
    BY <2>2, <2>3 DEF AllowSound
<1>2. AllowSound(Pop(m, {rule}), Pop(s, {rule}), PgDelete(g, "rule", rule))
  <2>1. "rule" # "tier"
    OBVIOUS
  <2>2. PgDelete(g, "rule", rule) = Values(TwoRows("rule", "tier", Pop(m, {rule})))
    BY <2>1, TwoPop DEF AllowSound
  <2>3. \A x \in DOMAIN Pop(m, {rule}) : Pop(m, {rule})[x] \in {"full", "shadow", "banned"}
    BY PopFacts DEF AllowSound
  <2> QED
    BY <2>2, <2>3 DEF AllowSound
<1>3. AllowSound(MemSetAllow(m, rule, tier), SqlSetAllow(s, rule, tier), PgSetAllow(g, rule, tier))
  BY <1>1 DEF MemSetAllow, SqlSetAllow, PgSetAllow
<1>4. AllowSound(MemBan(m), SqlBan(s), PgBan(g))
  BY <1>1 DEF MemBan, SqlBan, PgBan, PgSetAllow
<1> QED
  BY <1>2, <1>3, <1>4 DEF MemRemoveAllow, SqlRemoveAllow, PgRemoveAllow

\* The rules as each store finds them.
LEMMA AllowRead ==
  ASSUME NEW m, NEW s, NEW g,
         AllowSound(m, s, g)
  PROVE  /\ \A rule \in DOMAIN m : Get(s, rule) = m[rule] /\ m[rule] # Nil
         /\ \A rule : rule \notin DOMAIN m => Get(s, rule) = Nil
         /\ \A rule : PgOne(PgWhere(g, "rule", rule), "tier") = Get(s, rule)
         /\ \A rule : PgWhere(g, "rule", rule) # {} <=> Get(s, rule) # Nil
<1>1. "rule" # "tier"
  OBVIOUS
<1>2. m = s /\ g = Values(TwoRows("rule", "tier", m)) /\ \A rule \in DOMAIN m : m[rule] # Nil
  BY NilAssumption DEF AllowSound
<1> QED
  BY <1>1, <1>2, GetFacts, TwoFind

\* Every tier asked for follows from it.
LEMMA AllowAlike ==
  ASSUME NEW m, NEW s, NEW g,
         AllowSound(m, s, g)
  PROVE  Alike(MemAllowAnswers(m), SqlAllowAnswers(s), PgAllowAnswers(g))
<1>0. /\ \A rule \in DOMAIN m : Get(s, rule) = m[rule] /\ m[rule] # Nil
      /\ \A rule : rule \notin DOMAIN m => Get(s, rule) = Nil
      /\ \A rule : PgOne(PgWhere(g, "rule", rule), "tier") = Get(s, rule)
      /\ \A rule : PgWhere(g, "rule", rule) # {} <=> Get(s, rule) # Nil
  BY AllowRead
<1>1. ASSUME NEW b PROVE MemResolveTier(m, b) = SqlResolveTier(s, b)
  <2>1. CASE "mxid" \in DOMAIN m
    BY <1>0, <2>1 DEF MemResolveTier, SqlResolveTier
  <2>2. CASE "mxid" \notin DOMAIN m /\ "homeserver" \in DOMAIN m
    BY <1>0, <2>2 DEF MemResolveTier, SqlResolveTier
  <2>3. CASE "mxid" \notin DOMAIN m /\ "homeserver" \notin DOMAIN m
    <3>1. "room" \in DOMAIN m <=> Get(s, "room") # Nil
      BY <1>0
    <3> QED
      BY <1>0, <2>3, <3>1 DEF MemResolveTier, SqlResolveTier
  <2> QED
    BY <2>1, <2>2, <2>3
<1>2. ASSUME NEW b PROVE PgResolveTier(g, b) = SqlResolveTier(s, b)
  BY <1>0 DEF PgResolveTier, SqlResolveTier
<1>3. MemAllowAnswers(m) = SqlAllowAnswers(s)
  <2>1. [inRoom \in BOOLEAN |-> MemResolveTier(m, inRoom)] = [inRoom \in BOOLEAN |-> SqlResolveTier(s, inRoom)]
    BY <1>1
  <2>2. MemResolveTier(m, FALSE) = SqlResolveTier(s, FALSE)
    BY Zenon, <1>1
  <2>3. ASSUME NEW roomless \in BOOLEAN, NEW third \in BOOLEAN
        PROVE  MemShadowTier(m, roomless, third) = SqlShadowTier(s, roomless, third)
    BY Zenon, <2>2 DEF MemShadowTier, SqlShadowTier
  <2>4. ASSUME NEW roomless \in BOOLEAN
        PROVE  [third \in BOOLEAN |-> MemShadowTier(m, roomless, third)] = [third \in BOOLEAN |-> SqlShadowTier(s, roomless, third)]
    BY <2>3
  <2>5. [roomless \in BOOLEAN |-> [third \in BOOLEAN |-> MemShadowTier(m, roomless, third)]]
          = [roomless \in BOOLEAN |-> [third \in BOOLEAN |-> SqlShadowTier(s, roomless, third)]]
    BY <2>4
  <2> QED
    BY Zenon, <2>1, <2>5 DEF MemAllowAnswers, SqlAllowAnswers
<1>4. PgAllowAnswers(g) = SqlAllowAnswers(s)
  <2>1. [inRoom \in BOOLEAN |-> PgResolveTier(g, inRoom)] = [inRoom \in BOOLEAN |-> SqlResolveTier(s, inRoom)]
    BY <1>2
  <2>2. PgResolveTier(g, FALSE) = SqlResolveTier(s, FALSE)
    BY Zenon, <1>2
  <2>3. ASSUME NEW roomless \in BOOLEAN, NEW third \in BOOLEAN
        PROVE  PgShadowTier(g, roomless, third) = SqlShadowTier(s, roomless, third)
    BY Zenon, <2>2 DEF PgShadowTier, SqlShadowTier
  <2>4. ASSUME NEW roomless \in BOOLEAN
        PROVE  [third \in BOOLEAN |-> PgShadowTier(g, roomless, third)] = [third \in BOOLEAN |-> SqlShadowTier(s, roomless, third)]
    BY <2>3
  <2>5. [roomless \in BOOLEAN |-> [third \in BOOLEAN |-> PgShadowTier(g, roomless, third)]]
          = [roomless \in BOOLEAN |-> [third \in BOOLEAN |-> SqlShadowTier(s, roomless, third)]]
    BY <2>4
  <2> QED
    BY Zenon, <2>1, <2>5 DEF PgAllowAnswers, SqlAllowAnswers
<1> QED
  BY <1>3, <1>4 DEF Alike

-----------------------------------------------------------------------------
(* Votes. *)

Ballot(q, u, e) == [question |-> q, user |-> u, event |-> e]
VoteRow(act, v) == [activity |-> act, question |-> v.question, user |-> v.user, event |-> v.event]
VoteRows(d) == [act \in DOMAIN d |-> VoteRow(act, d[act])]

VotesSound(m, s, g) ==
  /\ m = s /\ g = Values(VoteRows(s))
  /\ \A act \in DOMAIN s : /\ s[act] = Ballot(s[act].question, s[act].user, s[act].event)
                           /\ s[act].question \in Objects /\ s[act].user \in Users

LEMMA BallotFields ==
  ASSUME NEW q, NEW u, NEW e
  PROVE  /\ Ballot(q, u, e).question = q /\ Ballot(q, u, e).user = u /\ Ballot(q, u, e).event = e
         /\ \A act : VoteRow(act, Ballot(q, u, e)) = [activity |-> act, question |-> q, user |-> u, event |-> e]
  BY DEF Ballot, VoteRow

LEMMA VoteRowsFacts ==
  ASSUME NEW d
  PROVE  /\ \A x : x \in DOMAIN VoteRows(d) <=> x \in DOMAIN d
         /\ Keyed(VoteRows(d), "activity")
         /\ \A x \in DOMAIN d : VoteRows(d)[x] = VoteRow(x, d[x])
  BY DEF VoteRows, VoteRow, Keyed

\* record_poll_vote keeps the stores at one content, a second vote with the same
\* activity included.
LEMMA VoteRecorded ==
  ASSUME NEW m, NEW s, NEW g, NEW act, NEW q \in Objects, NEW u \in Users, NEW e,
         VotesSound(m, s, g)
  PROVE  VotesSound(MemRecordVote(m, act, q, u, e), SqlRecordVote(s, act, q, u, e), PgRecordVote(g, act, q, u, e))
<1> DEFINE d == VoteRows(s)
           t == Put(s, act, Ballot(q, u, e))
           f == VoteRows(t)
           row == [activity |-> act, question |-> q, user |-> u, event |-> e]
           C == {"question", "user", "event"}
<1>1. (\A x : x \in DOMAIN t <=> x \in DOMAIN s \/ x = act) /\ t[act] = Ballot(q, u, e) /\ (\A x \in DOMAIN s : x # act => t[x] = s[x])
  BY PutFacts
<1>2. row["activity"] = act /\ VoteRow(act, Ballot(q, u, e)) = row
  BY BallotFields
<1>3. row = Merged(d, row, act, C)
  <2>1. act \in DOMAIN s => d[act] = [activity |-> act, question |-> s[act].question, user |-> s[act].user, event |-> s[act].event]
    BY DEF VoteRows, VoteRow
  <2>2. DOMAIN d = DOMAIN s
    BY DEF VoteRows
  <2> HIDE DEF d
  <2> QED
    BY <2>1, <2>2 DEF Merged
<1>4. /\ \A x : x \in DOMAIN d <=> x \in DOMAIN s
      /\ \A x \in DOMAIN s : d[x] = VoteRow(x, s[x])
      /\ \A x : x \in DOMAIN f <=> x \in DOMAIN t
      /\ \A x \in DOMAIN t : f[x] = VoteRow(x, t[x])
      /\ Keyed(d, "activity")
  BY VoteRowsFacts
<1> HIDE DEF t, d, f, row, C
<1>5. PgUpsert(Values(d), row, {"activity"}, C) = Values(f)
  BY <1>1, <1>2, <1>3, <1>4, Upserted
<1>6. \A x \in DOMAIN t : /\ t[x] = Ballot(t[x].question, t[x].user, t[x].event)
                          /\ t[x].question \in Objects /\ t[x].user \in Users
  BY <1>1, BallotFields DEF VotesSound
<1>7. VotesSound(t, t, PgUpsert(g, row, {"activity"}, C))
  BY <1>5, <1>6 DEF VotesSound, d, f
<1> QED
  BY <1>7 DEF t, row, C, VotesSound, MemRecordVote, SqlRecordVote, PgRecordVote, Ballot

\* What is asked of votes follows from it.
LEMMA VotesAlike ==
  ASSUME NEW m, NEW s, NEW g,
         VotesSound(m, s, g)
  PROVE  Alike(MemVoteAnswers(m), SqlVoteAnswers(s), PgVoteAnswers(g))
<1> DEFINE d == VoteRows(s)
<1>1. m = s /\ g = Values(d)
  BY DEF VotesSound
<1>2. /\ \A x : x \in DOMAIN d <=> x \in DOMAIN s
      /\ \A x \in DOMAIN s : d[x] = VoteRow(x, s[x])
      /\ Keyed(d, "activity")
  BY VoteRowsFacts
<1>3. \A act, v : VoteRow(act, v).question = v.question /\ VoteRow(act, v).user = v.user /\ VoteRow(act, v).event = v.event
                  /\ VoteRow(act, v).activity = act
  BY DEF VoteRow
<1> HIDE DEF d
<1>4. ASSUME NEW act \in Objects
      PROVE  (IF PgWhere(g, "activity", act) = {} THEN Nil
              ELSE [question |-> (CHOOSE y \in g : y.activity = act).question,
                    user |-> (CHOOSE y \in g : y.activity = act).user,
                    event |-> (CHOOSE y \in g : y.activity = act).event]) = Get(s, act)
  <2>1. act \in DOMAIN d <=> PgWhere(g, "activity", act) # {}
    BY <1>1, <1>2, FindByKey
  <2>2. CASE act \in DOMAIN s
    <3>1. \A y \in g : y.activity = act <=> y = d[act]
      BY <1>1, <1>2, <1>3, <2>2 DEF Values
    <3>2. d[act] \in g
      BY <1>1, <1>2, <2>2 DEF Values
    <3>3. (CHOOSE y \in g : y.activity = act) = d[act]
      BY <3>1, <3>2
    <3>4. s[act] = Ballot(s[act].question, s[act].user, s[act].event)
      BY <2>2 DEF VotesSound
    <3>5. Get(s, act) = [question |-> s[act].question, user |-> s[act].user, event |-> s[act].event]
      BY <2>2, <3>4, GetFacts DEF Ballot
    <3>6. d[act].question = s[act].question /\ d[act].user = s[act].user /\ d[act].event = s[act].event
      BY <1>2, <1>3, <2>2
    <3> QED
      BY <1>2, <2>1, <2>2, <3>3, <3>5, <3>6
  <2>3. CASE act \notin DOMAIN s
    BY <1>2, <2>1, <2>3, GetFacts
  <2> QED
    BY <2>2, <2>3
<1>5. {qu \in Objects \X Users : \E act \in DOMAIN s : s[act].question = qu[1] /\ s[act].user = qu[2]}
        = {<<s[act].question, s[act].user>> : act \in DOMAIN s}
  <2>1. \A act \in DOMAIN s : s[act].question \in Objects /\ s[act].user \in Users
    BY DEF VotesSound
  <2> QED
    BY <2>1
<1>6. {<<x.question, x.user>> : x \in g} = {<<s[act].question, s[act].user>> : act \in DOMAIN s}
  <2>1. g = {d[act] : act \in DOMAIN s}
    BY <1>1, <1>2 DEF Values
  <2>2. \A act \in DOMAIN s : d[act].question = s[act].question /\ d[act].user = s[act].user
    BY <1>2, <1>3
  <2> QED
    BY <2>1, <2>2
<1>7. MemVoteAnswers(m) = SqlVoteAnswers(s)
  BY <1>1, <1>5 DEF MemVoteAnswers, SqlVoteAnswers
<1>8. PgVoteAnswers(g) = SqlVoteAnswers(s)
  BY <1>4, <1>6 DEF PgVoteAnswers, SqlVoteAnswers
<1> QED
  BY <1>7, <1>8 DEF Alike

-----------------------------------------------------------------------------
(* Followers, following, blocks and mutes. *)

\* The sets d of one relation, by name, and its pairs.
RelationOf(d, F, t) ==
  /\ F \subseteq Names \X Actors /\ t = Links("name", "actor", F)
  /\ \A n \in Names : \A a \in Actors : <<n, a>> \in F <=> n \in DOMAIN d /\ a \in d[n]
  /\ \A n \in DOMAIN d : n \in Names /\ d[n] \subseteq Actors

RelationsSound(m, s, g) ==
  /\ DOMAIN m = Relations /\ DOMAIN s = Relations /\ DOMAIN g = Relations
  /\ s = [rel \in Relations |-> s[rel]]
  /\ \A rel \in Relations : RelationOf(m[rel], s[rel], g[rel])

LEMMA RelationAdded ==
  ASSUME NEW d, NEW F, NEW t, NEW n \in Names, NEW a \in Actors,
         RelationOf(d, F, t)
  PROVE  RelationOf(Put(d, n, (IF n \in DOMAIN d THEN d[n] ELSE {}) \cup {a}), F \cup {<<n, a>>},
                    PgInsertOnce(t, TwoRow("name", "actor", n, a), {"name", "actor"}))
<1> DEFINE S == (IF n \in DOMAIN d THEN d[n] ELSE {}) \cup {a}
           e == Put(d, n, S)
           G == F \cup {<<n, a>>}
<1>0. /\ F \subseteq Names \X Actors /\ t = Links("name", "actor", F)
      /\ \A x \in Names : \A y \in Actors : <<x, y>> \in F <=> x \in DOMAIN d /\ y \in d[x]
      /\ \A x \in DOMAIN d : x \in Names /\ d[x] \subseteq Actors
  BY DEF RelationOf
<1>1. (\A x : x \in DOMAIN e <=> x \in DOMAIN d \/ x = n) /\ e[n] = S /\ (\A x \in DOMAIN d : x # n => e[x] = d[x])
  BY PutFacts
<1>2. \A y : y \in S <=> y = a \/ (n \in DOMAIN d /\ y \in d[n])
  OBVIOUS
<1>3. "name" # "actor" /\ AllPairs(F)
  BY <1>0 DEF AllPairs
<1>4. PgInsertOnce(t, TwoRow("name", "actor", n, a), {"name", "actor"}) = Links("name", "actor", G)
  BY <1>0, <1>3, LinkAdded
<1>5. G \subseteq Names \X Actors /\ \A x \in Names, y \in Actors : <<x, y>> \in G <=> <<x, y>> \in F \/ (x = n /\ y = a)
  BY <1>0
<1> HIDE DEF S, e, G
<1>6. ASSUME NEW x \in Names, NEW y \in Actors PROVE <<x, y>> \in G <=> x \in DOMAIN e /\ y \in e[x]
  <2>1. <<x, y>> \in G <=> <<x, y>> \in F \/ (x = n /\ y = a)
    BY <1>5
  <2>2. <<x, y>> \in F <=> x \in DOMAIN d /\ y \in d[x]
    BY <1>0
  <2>3. CASE x = n
    BY <1>1, <1>2, <2>1, <2>2, <2>3
  <2>4. CASE x # n
    BY <1>1, <2>1, <2>2, <2>4
  <2> QED
    BY <2>3, <2>4
<1>7. \A x \in DOMAIN e : x \in Names /\ e[x] \subseteq Actors
  BY <1>0, <1>1, <1>2
<1> QED
  BY <1>4, <1>5, <1>6, <1>7 DEF RelationOf, e, S, G

LEMMA RelationRemoved ==
  ASSUME NEW d, NEW F, NEW t, NEW n \in Names, NEW a \in Actors,
         RelationOf(d, F, t)
  PROVE  /\ n \in DOMAIN d => RelationOf([d EXCEPT ![n] = @ \ {a}], F \ {<<n, a>>}, t \ {TwoRow("name", "actor", n, a)})
         /\ n \notin DOMAIN d => RelationOf(d, F \ {<<n, a>>}, t \ {TwoRow("name", "actor", n, a)})
<1> DEFINE e == [d EXCEPT ![n] = @ \ {a}]
           G == F \ {<<n, a>>}
<1>0. /\ F \subseteq Names \X Actors /\ t = Links("name", "actor", F)
      /\ \A x \in Names : \A y \in Actors : <<x, y>> \in F <=> x \in DOMAIN d /\ y \in d[x]
      /\ \A x \in DOMAIN d : x \in Names /\ d[x] \subseteq Actors
  BY DEF RelationOf
<1>1. "name" # "actor" /\ AllPairs(F)
  BY <1>0 DEF AllPairs
<1>2. t \ {TwoRow("name", "actor", n, a)} = Links("name", "actor", G)
  <2>1. Minus(Links("name", "actor", F), {TwoRow("name", "actor", n, a)}) = Links("name", "actor", Minus(F, {<<n, a>>}))
    BY <1>1, LinkMinus
  <2> QED
    BY <1>0, <2>1 DEF Minus
<1>3. G \subseteq Names \X Actors /\ \A x \in Names, y \in Actors : <<x, y>> \in G <=> <<x, y>> \in F /\ ~ (x = n /\ y = a)
  BY <1>0
<1>4. ASSUME n \in DOMAIN d PROVE RelationOf(e, G, Links("name", "actor", G))
  <2>1. /\ \A x : x \in DOMAIN e <=> x \in DOMAIN d
        /\ \A x \in DOMAIN d : x # n => e[x] = d[x]
        /\ \A y : y \in e[n] <=> y \in d[n] /\ y # a
    BY <1>4
  <2> HIDE DEF e, G
  <2>2. ASSUME NEW x \in Names, NEW y \in Actors PROVE <<x, y>> \in G <=> x \in DOMAIN e /\ y \in e[x]
    <3>1. <<x, y>> \in G <=> <<x, y>> \in F /\ ~ (x = n /\ y = a)
      BY <1>3
    <3>2. <<x, y>> \in F <=> x \in DOMAIN d /\ y \in d[x]
      BY <1>0
    <3>3. CASE x = n
      BY <2>1, <3>1, <3>2, <3>3
    <3>4. CASE x # n
      BY <2>1, <3>1, <3>2, <3>4
    <3> QED
      BY <3>3, <3>4
  <2>3. \A x \in DOMAIN e : x \in Names /\ e[x] \subseteq Actors
    BY <1>0, <2>1
  <2> QED
    BY <1>3, <2>2, <2>3 DEF RelationOf
<1>5. ASSUME n \notin DOMAIN d PROVE RelationOf(d, G, Links("name", "actor", G))
  <2> HIDE DEF G
  <2>1. \A x \in Names : \A y \in Actors : <<x, y>> \in G <=> x \in DOMAIN d /\ y \in d[x]
    BY <1>0, <1>3, <1>5
  <2> QED
    BY <1>0, <1>3, <2>1 DEF RelationOf
<1> QED
  BY <1>2, <1>4, <1>5

\* A follower, followed, blocked or muted actor added keeps the stores at one
\* content.
LEMMA RelationsAdded ==
  ASSUME NEW m, NEW s, NEW g, NEW rel \in Relations, NEW t \in Names \X Actors,
         RelationsSound(m, s, g)
  PROVE  RelationsSound(MemAdd(m, rel, t), SqlAdd(s, rel, t), PgAdd(g, rel, t))
<1> DEFINE x == MemAdd(m, rel, t)
           y == SqlAdd(s, rel, t)
           z == PgAdd(g, rel, t)
<1>1. PICK n \in Names, a \in Actors : t = <<n, a>>
  OBVIOUS
<1>2. RelationOf(m[rel], s[rel], g[rel])
  BY DEF RelationsSound
<1>3. RelationOf(Put(m[rel], n, (IF n \in DOMAIN m[rel] THEN m[rel][n] ELSE {}) \cup {a}), s[rel] \cup {<<n, a>>},
                 PgInsertOnce(g[rel], TwoRow("name", "actor", n, a), {"name", "actor"}))
  BY <1>2, RelationAdded
<1>4. /\ x = [m EXCEPT ![rel] = Put(m[rel], n, (IF n \in DOMAIN m[rel] THEN m[rel][n] ELSE {}) \cup {a})]
      /\ y = [s EXCEPT ![rel] = s[rel] \cup {<<n, a>>}]
      /\ z = [g EXCEPT ![rel] = PgInsertOnce(g[rel], TwoRow("name", "actor", n, a), {"name", "actor"})]
  BY <1>1, LinkForms DEF MemAdd, SqlAdd, PgAdd
<1> HIDE DEF x, y, z
<1>5. RelationsSound(x, y, z)
  BY <1>3, <1>4 DEF RelationsSound
<1> QED
  BY <1>5 DEF x, y, z

\* One removed keeps them so.
LEMMA RelationsRemoved ==
  ASSUME NEW m, NEW s, NEW g, NEW rel \in Relations, NEW t \in Names \X Actors,
         RelationsSound(m, s, g)
  PROVE  RelationsSound(MemRemove(m, rel, t), SqlRemove(s, rel, t), PgRemove(g, rel, t))
<1> DEFINE x == MemRemove(m, rel, t)
           y == SqlRemove(s, rel, t)
           z == PgRemove(g, rel, t)
<1>1. PICK n \in Names, a \in Actors : t = <<n, a>>
  OBVIOUS
<1>2. RelationOf(m[rel], s[rel], g[rel])
  BY DEF RelationsSound
<1>3. /\ n \in DOMAIN m[rel] => RelationOf([m[rel] EXCEPT ![n] = @ \ {a}], s[rel] \ {<<n, a>>}, g[rel] \ {TwoRow("name", "actor", n, a)})
      /\ n \notin DOMAIN m[rel] => RelationOf(m[rel], s[rel] \ {<<n, a>>}, g[rel] \ {TwoRow("name", "actor", n, a)})
  BY <1>2, RelationRemoved
<1>4. /\ n \in DOMAIN m[rel] => x = [m EXCEPT ![rel] = [m[rel] EXCEPT ![n] = @ \ {a}]]
      /\ n \notin DOMAIN m[rel] => x = m
      /\ y = [s EXCEPT ![rel] = s[rel] \ {<<n, a>>}]
      /\ z = [g EXCEPT ![rel] = g[rel] \ {TwoRow("name", "actor", n, a)}]
  BY <1>1, LinkForms DEF MemRemove, SqlRemove, PgRemove
<1> HIDE DEF x, y, z
<1>5. RelationsSound(x, y, z)
  <2>1. CASE n \in DOMAIN m[rel]
    BY <1>3, <1>4, <2>1 DEF RelationsSound
  <2>2. CASE n \notin DOMAIN m[rel]
    BY <1>3, <1>4, <2>2 DEF RelationsSound
  <2> QED
    BY <2>1, <2>2
<1> QED
  BY <1>5 DEF x, y, z

\* What is asked of relations follows from it.
LEMMA RelationsAlike ==
  ASSUME NEW m, NEW s, NEW g,
         RelationsSound(m, s, g)
  PROVE  Alike(MemRelationAnswers(m), SqlRelationAnswers(s), PgRelationAnswers(g))
<1>1. ASSUME NEW rel \in Relations
      PROVE  /\ {t \in Names \X Actors : t[1] \in DOMAIN m[rel] /\ t[2] \in m[rel][t[1]]} = s[rel]
             /\ {<<x.name, x.actor>> : x \in g[rel]} = s[rel]
             /\ PgColumn(g[rel], "actor") = {t[2] : t \in s[rel]}
             /\ {a \in Actors : \E n \in DOMAIN m[rel] : a \in m[rel][n]} = {t[2] : t \in s[rel]}
  <2>0. /\ s[rel] \subseteq Names \X Actors /\ g[rel] = Links("name", "actor", s[rel])
        /\ \A x \in Names : \A y \in Actors : <<x, y>> \in s[rel] <=> x \in DOMAIN m[rel] /\ y \in m[rel][x]
        /\ \A x \in DOMAIN m[rel] : x \in Names /\ m[rel][x] \subseteq Actors
    BY DEF RelationsSound, RelationOf
  <2>1. {t \in Names \X Actors : t[1] \in DOMAIN m[rel] /\ t[2] \in m[rel][t[1]]} = s[rel]
    BY <2>0
  <2>2. "name" # "actor" /\ AllPairs(s[rel])
    BY <2>0 DEF AllPairs
  <2>3. {<<x["name"], x["actor"]>> : x \in g[rel]} = s[rel] /\ PgColumn(g[rel], "actor") = {t[2] : t \in s[rel]}
    BY <2>0, <2>2, LinksRead
  <2>4. {a \in Actors : \E n \in DOMAIN m[rel] : a \in m[rel][n]} = {t[2] : t \in s[rel]}
    <3>1. ASSUME NEW a \in Actors, NEW n \in DOMAIN m[rel], a \in m[rel][n] PROVE a \in {t[2] : t \in s[rel]}
      <4>1. <<n, a>> \in s[rel] /\ <<n, a>>[2] = a
        BY <2>0, <3>1
      <4> QED
        BY <4>1
    <3>2. ASSUME NEW t \in s[rel] PROVE t[2] \in Actors /\ \E n \in DOMAIN m[rel] : t[2] \in m[rel][n]
      <4>1. t = <<t[1], t[2]>> /\ t[1] \in Names /\ t[2] \in Actors
        BY <2>0
      <4> QED
        BY <2>0, <4>1
    <3> QED
      BY <3>1, <3>2
  <2> QED
    BY <2>1, <2>3, <2>4
<1>2. "following" \in Relations
  BY DEF Relations
<1>3. [rel \in Relations |-> {t \in Names \X Actors : t[1] \in DOMAIN m[rel] /\ t[2] \in m[rel][t[1]]}] = s
  BY <1>1 DEF RelationsSound
<1>4. [rel \in Relations |-> {<<x.name, x.actor>> : x \in g[rel]}] = s
  BY <1>1 DEF RelationsSound
<1>5. MemRelationAnswers(m) = SqlRelationAnswers(s)
  BY <1>1, <1>2, <1>3 DEF MemRelationAnswers, SqlRelationAnswers
<1>6. PgRelationAnswers(g) = SqlRelationAnswers(s)
  BY <1>1, <1>2, <1>4 DEF PgRelationAnswers, SqlRelationAnswers
<1> QED
  BY <1>5, <1>6 DEF Alike

-----------------------------------------------------------------------------
(* Transactions and events already handled. *)

WindowsSound(m, s, g, now) ==
  /\ DOMAIN m = {"ids", "order"} /\ m.order \in Seq(Events) /\ now \in Nat
  /\ Dictionary(s) /\ g = Values(TwoRows("id", "at", s))
  /\ \A k \in DOMAIN s : s[k] \in 0 .. now
  /\ now <= Retention => m.ids \subseteq DOMAIN s
  /\ Len(m.order) < Tracked => DOMAIN s \subseteq m.ids

\* A row is inserted if its key has none, and the old ones go.
LEMMA TwoKept ==
  ASSUME NEW d, NEW k, NEW v
  PROVE  PgInsertOnce(Values(TwoRows("id", "at", d)), TwoRow("id", "at", k, v), {"id"})
           = Values(TwoRows("id", "at", IF k \in DOMAIN d THEN d ELSE Put(d, k, v)))
<1> DEFINE e == IF k \in DOMAIN d THEN d ELSE Put(d, k, v)
           t == TwoRows("id", "at", d)
           u == TwoRows("id", "at", e)
           row == TwoRow("id", "at", k, v)
           none == {}
<1>1. "id" # "at"
  OBVIOUS
<1>2. /\ \A x : x \in DOMAIN e <=> x \in DOMAIN d \/ x = k
      /\ \A x \in DOMAIN d : e[x] = d[x]
      /\ k \notin DOMAIN d => e[k] = v
  BY PutFacts
<1>3. /\ \A x : x \in DOMAIN t <=> x \in DOMAIN d
      /\ \A x \in DOMAIN d : t[x] = TwoRow("id", "at", x, d[x])
      /\ \A x : x \in DOMAIN u <=> x \in DOMAIN e
      /\ \A x \in DOMAIN e : u[x] = TwoRow("id", "at", x, e[x])
      /\ Keyed(t, "id") /\ row["id"] = k
  BY <1>1, TwoRowsFacts, TwoRowsKeyed, TwoRowFields
<1>4. u[k] = Merged(t, row, k, none)
  <2>1. ASSUME NEW a, NEW b PROVE TwoRow("id", "at", a, b) = [f \in DOMAIN TwoRow("id", "at", a, b) |-> TwoRow("id", "at", a, b)[f]]
    BY DEF TwoRow
  <2> HIDE DEF e, t, u, row
  <2>2. CASE k \in DOMAIN d
    <3>1. t[k] = [f \in DOMAIN t[k] |-> t[k][f]] /\ u[k] = t[k] /\ k \in DOMAIN t
      BY <1>2, <1>3, <2>1, <2>2
    <3> QED
      BY <3>1 DEF Merged
  <2>3. CASE k \notin DOMAIN d
    BY <1>2, <1>3, <2>3 DEF Merged, row
  <2> QED
    BY <2>2, <2>3
<1> HIDE DEF e, t, u, row, none
<1>5. PgUpsert(Values(t), row, {"id"}, none) = Values(u)
  BY <1>2, <1>3, <1>4, Upserted
<1> QED
  BY <1>5 DEF e, t, u, row, none, PgInsertOnce

LEMMA TwoExpired ==
  ASSUME NEW d, NEW c,
         c \in Int, \A k \in DOMAIN d : d[k] \in Int
  PROVE  {x \in Values(TwoRows("id", "at", d)) : x.at >= c}
           = Values(TwoRows("id", "at", Pop(d, {k \in DOMAIN d : d[k] < c})))
<1> DEFINE K == {k \in DOMAIN d : d[k] < c}
           e == Pop(d, K)
           t == TwoRows("id", "at", d)
           u == TwoRows("id", "at", e)
<1>1. "id" # "at" /\ (\A k : k \in K <=> k \in DOMAIN d /\ d[k] < c)
  OBVIOUS
<1>2. (\A x : x \in DOMAIN e <=> x \in DOMAIN d /\ x \notin K) /\ (\A x \in DOMAIN d : x \notin K => e[x] = d[x])
  BY PopFacts
<1>3. /\ \A x : x \in DOMAIN t <=> x \in DOMAIN d
      /\ \A x \in DOMAIN d : t[x] = TwoRow("id", "at", x, d[x]) /\ t[x]["at"] = d[x]
      /\ \A x : x \in DOMAIN u <=> x \in DOMAIN e
      /\ \A x \in DOMAIN e : u[x] = TwoRow("id", "at", x, e[x])
  BY <1>1, TwoRowsFacts
<1> HIDE DEF K, e, t, u
<1>4. \A k \in DOMAIN t : t[k].at >= c <=> k \in DOMAIN u
  BY <1>1, <1>2, <1>3
<1>5. \A k \in DOMAIN u : u[k] = t[k] /\ k \in DOMAIN t
  BY <1>2, <1>3
<1>6. {x \in Values(t) : x.at >= c} = Values(u)
  BY <1>4, <1>5 DEF Values
<1> QED
  BY <1>6 DEF t, u, e, K

\* Marking a transaction or event handled keeps the stores at one content: all
\* prune the same.
LEMMA Marked ==
  ASSUME NEW m, NEW s, NEW g, NEW now, NEW k \in Events,
         WindowsSound(m, s, g, now)
  PROVE  WindowsSound(MemMark(m, k), SqlMark(s, k, now), PgMark(g, k, now), now)
<1> DEFINE e == IF k \in DOMAIN s THEN s ELSE Put(s, k, now)
           K == {j \in DOMAIN e : e[j] < now - Retention}
           n == MemMark(m, k)
           t == SqlMark(s, k, now)
           h == PgMark(g, k, now)
<1>0. /\ m.order \in Seq(Events) /\ now \in Nat /\ g = Values(TwoRows("id", "at", s))
      /\ \A j \in DOMAIN s : s[j] \in 0 .. now
      /\ now <= Retention => m.ids \subseteq DOMAIN s
      /\ Len(m.order) < Tracked => DOMAIN s \subseteq m.ids
      /\ Retention \in Nat /\ Tracked \in Nat \ {0}
  BY TablesAssumption DEF WindowsSound
<1>1. t = Pop(e, K)
  BY DEF SqlMark
<1>2. (\A x : x \in DOMAIN e <=> x \in DOMAIN s \/ x = k) /\ \A x \in DOMAIN e : e[x] \in 0 .. now
  BY <1>0, PutFacts
<1>3. h = Values(TwoRows("id", "at", t))
  <2>1. [id |-> k, at |-> now] = TwoRow("id", "at", k, now)
    BY RowForms
  <2>2. h = {x \in Values(TwoRows("id", "at", e)) : x.at >= now - Retention}
    BY <1>0, <2>1, TwoKept DEF PgMark
  <2>3. now - Retention \in Int /\ \A x \in DOMAIN e : e[x] \in Int
    BY <1>0, <1>2
  <2> HIDE DEF e
  <2> QED
    BY <1>1, <2>2, <2>3, TwoExpired
<1>4. Dictionary(t)
  BY <1>1, PopIsDictionary
<1>5. \A x : x \in K <=> x \in DOMAIN e /\ e[x] < now - Retention
  OBVIOUS
<1> HIDE DEF e, K
<1>6. (\A x : x \in DOMAIN t <=> x \in DOMAIN e /\ x \notin K) /\ (\A x \in DOMAIN e : x \notin K => t[x] = e[x])
  BY <1>1, PopFacts
<1>7. \A x \in DOMAIN t : t[x] \in 0 .. now
  BY <1>2, <1>6
<1>8. /\ DOMAIN n = {"ids", "order"}
      /\ n.order = IF Len(Append(m.order, k)) > Tracked THEN Tail(Append(m.order, k)) ELSE Append(m.order, k)
      /\ n.ids = (m.ids \cup {k}) \ (IF Len(Append(m.order, k)) > Tracked THEN {Head(Append(m.order, k))} ELSE {})
  BY DEF MemMark
<1> HIDE DEF n, t, h
<1>9. /\ Append(m.order, k) \in Seq(Events) /\ Len(Append(m.order, k)) = Len(m.order) + 1 /\ Len(m.order) \in Nat
      /\ Tail(Append(m.order, k)) \in Seq(Events) /\ Len(Tail(Append(m.order, k))) = Len(m.order)
  BY <1>0
<1>10. n.order \in Seq(Events)
  BY <1>8, <1>9
<1>11. ASSUME now <= Retention PROVE n.ids \subseteq DOMAIN t
  <2>1. \A x \in DOMAIN e : x \notin K
    BY <1>0, <1>2, <1>5, <1>11
  <2> QED
    BY <1>0, <1>2, <1>6, <1>8, <1>11, <2>1
<1>12. ASSUME Len(n.order) < Tracked PROVE DOMAIN t \subseteq n.ids
  <2>1. ~ (Len(Append(m.order, k)) > Tracked) /\ Len(m.order) < Tracked
    BY <1>0, <1>8, <1>9, <1>12
  <2> QED
    BY <1>0, <1>2, <1>6, <1>8, <2>1
<1>13. WindowsSound(n, t, h, now)
  BY <1>0, <1>3, <1>4, <1>7, <1>8, <1>10, <1>11, <1>12 DEF WindowsSound
<1> QED
  BY <1>13 DEF n, t, h

\* Time that passes keeps them so.
LEMMA Ticked ==
  ASSUME NEW m, NEW s, NEW g, NEW now,
         WindowsSound(m, s, g, now)
  PROVE  WindowsSound(m, s, g, now + 1)
<1>1. Retention \in Nat /\ now \in Nat
  BY TablesAssumption DEF WindowsSound
<1>2. \A k \in DOMAIN s : s[k] \in 0 .. now + 1
  BY <1>1 DEF WindowsSound
<1>3. now + 1 <= Retention => m.ids \subseteq DOMAIN s
  BY <1>1 DEF WindowsSound
<1> QED
  BY <1>1, <1>2, <1>3 DEF WindowsSound

\* What is asked of what was handled follows from it.
LEMMA WindowsAlike ==
  ASSUME NEW m, NEW s, NEW g, NEW now,
         WindowsSound(m, s, g, now)
  PROVE  /\ now <= Retention => m.ids \subseteq DOMAIN s
         /\ Len(m.order) < Tracked => DOMAIN s \subseteq m.ids
         /\ PgBy(g, "id", "at") = s
<1>1. "id" # "at"
  OBVIOUS
<1> QED
  BY <1>1, TwoKeys DEF WindowsSound

-----------------------------------------------------------------------------
(* Posts and their events. *)

Post(o, primary) == [object |-> o, primary |-> primary]
PostRow(e, x) == [event |-> e, object |-> x.object, primary |-> x.primary]
PostRows(d) == [e \in DOMAIN d |-> PostRow(e, d[e])]

EventsSound(m, s, g) ==
  /\ DOMAIN m = {"byEvent", "byObject"}
  /\ DOMAIN s \subseteq Events
  /\ \A e \in DOMAIN s : s[e] = Post(s[e].object, s[e].primary) /\ s[e].primary \in BOOLEAN
  /\ \A e : e \in DOMAIN m.byEvent <=> e \in DOMAIN s
  /\ \A e \in DOMAIN s : m.byEvent[e] = s[e].object
  /\ \A o \in DOMAIN m.byObject :
       /\ m.byObject[o] \in DOMAIN s
       /\ s[m.byObject[o]].object = o /\ s[m.byObject[o]].primary = Yes
  /\ \A e \in DOMAIN s : s[e].primary = Yes =>
       s[e].object \in DOMAIN m.byObject /\ m.byObject[s[e].object] = e
  /\ g = Values(PostRows(s))

LEMMA PostFields ==
  ASSUME NEW o, NEW primary
  PROVE  Post(o, primary).object = o /\ Post(o, primary).primary = primary
  BY DEF Post

LEMMA PostRowFields ==
  ASSUME NEW e, NEW o, NEW primary
  PROVE  PostRow(e, Post(o, primary)) = [event |-> e, object |-> o, primary |-> primary]
  BY DEF Post, PostRow

LEMMA PostRowsFacts ==
  ASSUME NEW d
  PROVE  /\ \A x : x \in DOMAIN PostRows(d) <=> x \in DOMAIN d
         /\ Keyed(PostRows(d), "event")
         /\ \A x \in DOMAIN d : PostRows(d)[x] = PostRow(x, d[x])
         /\ \A x \in DOMAIN d : /\ PostRows(d)[x]["object"] = d[x].object
                                /\ PostRows(d)[x]["primary"] = d[x].primary
                                /\ PostRows(d)[x]["event"] = x
  BY DEF PostRows, PostRow, Keyed

\* The primary event of an object, asked of the tables.
LEMMA EventByObject ==
  ASSUME NEW m, NEW s, NEW g, NEW o,
         EventsSound(m, s, g)
  PROVE  /\ SqlEventByObject(s, o) = Get(m.byObject, o)
         /\ PgOne(PgWhere(PgWhere(g, "object", o), "primary", Yes), "event") = Get(m.byObject, o)
         /\ Get(m.byObject, o) = Nil => o \notin DOMAIN m.byObject
<1> DEFINE d == PostRows(s)
<1>0. /\ DOMAIN s \subseteq Events
      /\ \A e \in DOMAIN s : s[e].primary \in BOOLEAN
      /\ \A x \in DOMAIN m.byObject :
           /\ m.byObject[x] \in DOMAIN s
           /\ s[m.byObject[x]].object = x /\ s[m.byObject[x]].primary = Yes
      /\ \A e \in DOMAIN s : s[e].primary = Yes =>
           s[e].object \in DOMAIN m.byObject /\ m.byObject[s[e].object] = e
      /\ g = Values(d)
  BY DEF EventsSound
<1>1. /\ \A x : x \in DOMAIN d <=> x \in DOMAIN s
      /\ \A x \in DOMAIN s : d[x]["object"] = s[x].object /\ d[x]["primary"] = s[x].primary /\ d[x]["event"] = x
  BY PostRowsFacts
<1> HIDE DEF d
<1>2. SqlEventByObject(s, o) = OneOf({e \in DOMAIN s : s[e].object = o /\ s[e].primary = Yes})
  <2>1. \A e \in DOMAIN s : s[e].primary <=> s[e].primary = Yes
    BY Zenon, <1>0 DEF Yes
  <2>2. {e \in DOMAIN s : s[e].object = o /\ s[e].primary} = {e \in DOMAIN s : s[e].object = o /\ s[e].primary = Yes}
    BY Zenon, <2>1
  <2> QED
    BY Zenon, <2>2 DEF SqlEventByObject
<1>3. PgWhere(PgWhere(g, "object", o), "primary", Yes) = {d[e] : e \in {x \in DOMAIN s : s[x].object = o /\ s[x].primary = Yes}}
  <2>1. PgWhere(PgWhere(g, "object", o), "primary", Yes) = {x \in Values(d) : x["object"] = o /\ x["primary"] = Yes}
    BY <1>0 DEF PgWhere
  <2> QED
    BY <1>1, <2>1 DEF Values
<1>4. CASE o \in DOMAIN m.byObject
  <2> DEFINE e == m.byObject[o]
  <2>1. {x \in DOMAIN s : s[x].object = o /\ s[x].primary = Yes} = {e} /\ e \in DOMAIN s /\ Get(m.byObject, o) = e /\ e # Nil
    BY <1>0, <1>4, GetFacts, NilAssumption
  <2> HIDE DEF e
  <2>2. PgWhere(PgWhere(g, "object", o), "primary", Yes) = {d[e]}
    BY <1>3, <2>1
  <2>3. SqlEventByObject(s, o) = e
    BY <1>2, <2>1 DEF OneOf
  <2>4. PgOne({d[e]}, "event") = d[e]["event"]
    BY DEF PgOne
  <2> QED
    BY <1>1, <2>1, <2>2, <2>3, <2>4
<1>5. CASE o \notin DOMAIN m.byObject
  <2>1. {x \in DOMAIN s : s[x].object = o /\ s[x].primary = Yes} = {} /\ Get(m.byObject, o) = Nil
    BY <1>0, <1>5, GetFacts
  <2>2. PgWhere(PgWhere(g, "object", o), "primary", Yes) = {}
    BY <1>3, <2>1
  <2>3. SqlEventByObject(s, o) = Nil
    BY <1>2, <2>1 DEF OneOf
  <2>4. PgOne({}, "event") = Nil
    BY DEF PgOne
  <2> QED
    BY <1>5, <2>1, <2>2, <2>3, <2>4
<1> QED
  BY <1>4, <1>5

\* record_federated_event keeps the stores at one content.
LEMMA EventRecorded ==
  ASSUME NEW m, NEW s, NEW g, NEW e \in Events, NEW o, NEW primary \in BOOLEAN,
         EventsSound(m, s, g), e \notin DOMAIN s, primary = Yes => SqlEventByObject(s, o) = Nil
  PROVE  EventsSound(MemRecordEvent(m, e, o, primary), SqlRecordEvent(s, e, o, primary), PgRecordEvent(g, e, o, primary))
<1> DEFINE n == MemRecordEvent(m, e, o, primary)
           t == SqlRecordEvent(s, e, o, primary)
           h == PgRecordEvent(g, e, o, primary)
           row == [event |-> e, object |-> o, primary |-> primary]
           C == {"object", "primary"}
           d == PostRows(s)
           f == PostRows(t)
<1>0. /\ DOMAIN s \subseteq Events
      /\ \A x \in DOMAIN s : s[x] = Post(s[x].object, s[x].primary) /\ s[x].primary \in BOOLEAN
      /\ \A x : x \in DOMAIN m.byEvent <=> x \in DOMAIN s
      /\ \A x \in DOMAIN s : m.byEvent[x] = s[x].object
      /\ \A x \in DOMAIN m.byObject :
           /\ m.byObject[x] \in DOMAIN s
           /\ s[m.byObject[x]].object = x /\ s[m.byObject[x]].primary = Yes
      /\ \A x \in DOMAIN s : s[x].primary = Yes =>
           s[x].object \in DOMAIN m.byObject /\ m.byObject[s[x].object] = x
      /\ g = Values(d)
  BY DEF EventsSound
<1>1. /\ DOMAIN n = {"byEvent", "byObject"} /\ n.byEvent = Put(m.byEvent, e, o)
      /\ primary = Yes => n.byObject = Put(m.byObject, o, e)
      /\ primary # Yes => n.byObject = m.byObject
  <2>1. DOMAIN n = {"byEvent", "byObject"} /\ n.byEvent = Put(m.byEvent, e, o)
        /\ n.byObject = IF primary THEN Put(m.byObject, o, e) ELSE m.byObject
    BY DEF MemRecordEvent
  <2>2. primary = Yes => primary
    BY Zenon DEF Yes
  <2>3. primary # Yes => ~ primary
    BY Zenon DEF Yes
  <2> HIDE DEF n
  <2>4. ASSUME primary = Yes PROVE n.byObject = Put(m.byObject, o, e)
    BY Zenon, <2>1, <2>2, <2>4
  <2>5. ASSUME primary # Yes PROVE n.byObject = m.byObject
    BY Zenon, <2>1, <2>3, <2>5
  <2> QED
    BY <2>1, <2>4, <2>5
<1>2. (\A x : x \in DOMAIN t <=> x \in DOMAIN s \/ x = e) /\ t[e] = Post(o, primary) /\ (\A x \in DOMAIN s : x # e => t[x] = s[x])
  <2>1. t = Put(s, e, Post(o, primary))
    BY DEF SqlRecordEvent, Post
  <2> HIDE DEF t
  <2> QED
    BY <2>1, PutFacts
<1>3. /\ \A x : x \in DOMAIN n.byEvent <=> x \in DOMAIN m.byEvent \/ x = e
      /\ n.byEvent[e] = o
      /\ \A x \in DOMAIN m.byEvent : x # e => n.byEvent[x] = m.byEvent[x]
  BY <1>1, PutFacts
<1>4. ASSUME primary = Yes
      PROVE  /\ o \notin DOMAIN m.byObject
             /\ \A x : x \in DOMAIN n.byObject <=> x \in DOMAIN m.byObject \/ x = o
             /\ n.byObject[o] = e
             /\ \A x \in DOMAIN m.byObject : x # o => n.byObject[x] = m.byObject[x]
  <2>1. o \notin DOMAIN m.byObject
    BY <1>4, EventByObject
  <2> QED
    BY <1>1, <1>4, <2>1, PutFacts
<1>5. h = Values(f)
  <2>1. /\ \A x : x \in DOMAIN d <=> x \in DOMAIN s
        /\ \A x \in DOMAIN s : d[x] = PostRow(x, s[x])
        /\ Keyed(d, "event")
        /\ \A x : x \in DOMAIN f <=> x \in DOMAIN t
        /\ \A x \in DOMAIN t : f[x] = PostRow(x, t[x])
    BY PostRowsFacts
  <2>2. row["event"] = e /\ PostRow(e, Post(o, primary)) = row
    BY PostRowFields
  <2> HIDE DEF t, d, f, row, C
  <2>3. Merged(d, row, e, C) = row
    BY <2>1 DEF Merged
  <2>4. PgUpsert(Values(d), row, {"event"}, C) = Values(f)
    BY <1>2, <2>1, <2>2, <2>3, Upserted
  <2> QED
    BY <1>0, <2>4 DEF PgRecordEvent, row, C
<1> HIDE DEF n, t, h, f
<1>6. \A x \in DOMAIN t : t[x] = Post(t[x].object, t[x].primary) /\ t[x].primary \in BOOLEAN
  BY <1>0, <1>2, PostFields
<1>7. \A x \in DOMAIN t : n.byEvent[x] = t[x].object
  BY <1>0, <1>2, <1>3, PostFields
<1>8. ASSUME NEW x \in DOMAIN n.byObject
      PROVE  n.byObject[x] \in DOMAIN t /\ t[n.byObject[x]].object = x /\ t[n.byObject[x]].primary = Yes
  <2>1. CASE primary = Yes /\ x = o
    BY <1>2, <1>4, <2>1, PostFields
  <2>2. CASE ~ (primary = Yes /\ x = o)
    <3>1. x \in DOMAIN m.byObject /\ n.byObject[x] = m.byObject[x]
      BY <1>1, <1>4, <2>2
    <3>2. m.byObject[x] \in DOMAIN s /\ m.byObject[x] # e /\ s[m.byObject[x]].object = x /\ s[m.byObject[x]].primary = Yes
      BY <1>0, <3>1
    <3> QED
      BY <1>2, <3>1, <3>2
  <2> QED
    BY <2>1, <2>2
<1>9. ASSUME NEW x \in DOMAIN t, t[x].primary = Yes
      PROVE  t[x].object \in DOMAIN n.byObject /\ n.byObject[t[x].object] = x
  <2>1. CASE x = e
    <3>1. primary = Yes /\ t[x].object = o
      BY <1>2, <1>9, <2>1, PostFields
    <3> QED
      BY <1>4, <2>1, <3>1
  <2>2. CASE x # e
    <3>1. x \in DOMAIN s /\ t[x] = s[x]
      BY <1>2, <2>2
    <3>2. s[x].object \in DOMAIN m.byObject /\ m.byObject[s[x].object] = x
      BY <1>0, <1>9, <3>1
    <3> QED
      BY <1>1, <1>4, <3>1, <3>2
  <2> QED
    BY <2>1, <2>2
<1>10. EventsSound(n, t, h)
  BY <1>0, <1>1, <1>2, <1>3, <1>5, <1>6, <1>7, <1>8, <1>9 DEF EventsSound, f
<1> QED
  BY <1>10 DEF n, t, h

\* delete_federated_event keeps them so.
LEMMA EventDeleted ==
  ASSUME NEW m, NEW s, NEW g, NEW e,
         EventsSound(m, s, g)
  PROVE  EventsSound(MemDeleteEvent(m, e), SqlDeleteEvent(s, e), PgDeleteEvent(g, e))
<1> DEFINE n == MemDeleteEvent(m, e)
           E == {e}
           t == Pop(s, E)
           h == PgDeleteEvent(g, e)
           O == {o \in DOMAIN m.byObject : m.byObject[o] = e}
           d == PostRows(s)
           f == PostRows(t)
<1>0. /\ DOMAIN s \subseteq Events
      /\ \A x \in DOMAIN s : s[x] = Post(s[x].object, s[x].primary) /\ s[x].primary \in BOOLEAN
      /\ \A x : x \in DOMAIN m.byEvent <=> x \in DOMAIN s
      /\ \A x \in DOMAIN s : m.byEvent[x] = s[x].object
      /\ \A x \in DOMAIN m.byObject :
           /\ m.byObject[x] \in DOMAIN s
           /\ s[m.byObject[x]].object = x /\ s[m.byObject[x]].primary = Yes
      /\ \A x \in DOMAIN s : s[x].primary = Yes =>
           s[x].object \in DOMAIN m.byObject /\ m.byObject[s[x].object] = x
      /\ g = Values(d)
  BY DEF EventsSound
<1>1. DOMAIN n = {"byEvent", "byObject"} /\ n.byEvent = Pop(m.byEvent, E) /\ n.byObject = Pop(m.byObject, O)
  BY DEF MemDeleteEvent
<1>2. (\A x : x \in E <=> x = e) /\ (\A o : o \in O <=> o \in DOMAIN m.byObject /\ m.byObject[o] = e)
  OBVIOUS
<1> HIDE DEF n, E, O
<1>3. (\A x : x \in DOMAIN t <=> x \in DOMAIN s /\ x # e) /\ (\A x \in DOMAIN s : x # e => t[x] = s[x])
  BY <1>2, PopFacts
<1>4. (\A x : x \in DOMAIN n.byEvent <=> x \in DOMAIN m.byEvent /\ x # e) /\ (\A x \in DOMAIN m.byEvent : x # e => n.byEvent[x] = m.byEvent[x])
  BY <1>1, <1>2, PopFacts
<1>5. (\A x : x \in DOMAIN n.byObject <=> x \in DOMAIN m.byObject /\ x \notin O) /\ (\A x \in DOMAIN m.byObject : x \notin O => n.byObject[x] = m.byObject[x])
  BY <1>1, PopFacts
<1>6. h = Values(f)
  <2>1. /\ \A x : x \in DOMAIN d <=> x \in DOMAIN s
        /\ \A x \in DOMAIN s : d[x] = PostRow(x, s[x])
        /\ Keyed(d, "event")
        /\ \A x : x \in DOMAIN f <=> x \in DOMAIN t
        /\ \A x \in DOMAIN t : f[x] = PostRow(x, t[x])
    BY PostRowsFacts
  <2> HIDE DEF t, d, f
  <2>2. PgDelete(Values(d), "event", e) = Values(f)
    BY <1>3, <2>1, Deleted
  <2> QED
    BY <1>0, <2>2 DEF PgDeleteEvent
<1> HIDE DEF t, h, f
<1>7. \A x \in DOMAIN t : t[x] = Post(t[x].object, t[x].primary) /\ t[x].primary \in BOOLEAN /\ n.byEvent[x] = t[x].object
  BY <1>0, <1>3, <1>4
<1>8. \A x \in DOMAIN n.byObject :
        n.byObject[x] \in DOMAIN t /\ t[n.byObject[x]].object = x /\ t[n.byObject[x]].primary = Yes
  BY <1>0, <1>2, <1>3, <1>5
<1>9. \A x \in DOMAIN t : t[x].primary = Yes =>
        t[x].object \in DOMAIN n.byObject /\ n.byObject[t[x].object] = x
  BY <1>0, <1>2, <1>3, <1>5
<1>10. EventsSound(n, t, h)
  BY <1>0, <1>1, <1>3, <1>4, <1>6, <1>7, <1>8, <1>9 DEF EventsSound, f
<1> QED
  BY <1>10 DEF n, t, h, E, SqlDeleteEvent

\* What is asked of posts and events follows from it.
LEMMA EventsAlike ==
  ASSUME NEW m, NEW s, NEW g,
         EventsSound(m, s, g)
  PROVE  Alike(MemEventAnswers(m), SqlEventAnswers(s), PgEventAnswers(g))
<1>1. ASSUME NEW e
      PROVE  Field(s, e, "object") = Get(m.byEvent, e) /\ PgOne(PgWhere(g, "event", e), "object") = Get(m.byEvent, e)
  <2> DEFINE d == PostRows(s)
  <2>0. /\ \A x : x \in DOMAIN m.byEvent <=> x \in DOMAIN s
        /\ \A x \in DOMAIN s : m.byEvent[x] = s[x].object
        /\ g = Values(d)
    BY DEF EventsSound
  <2>1. /\ \A x : x \in DOMAIN d <=> x \in DOMAIN s
        /\ \A x \in DOMAIN s : d[x]["object"] = s[x].object
        /\ Keyed(d, "event")
    BY PostRowsFacts
  <2> HIDE DEF d
  <2>2. /\ e \in DOMAIN d => PgOne(PgWhere(Values(d), "event", e), "object") = d[e]["object"]
        /\ e \notin DOMAIN d => PgOne(PgWhere(Values(d), "event", e), "object") = Nil
    BY <2>1, FindByKey
  <2> QED
    BY <2>0, <2>1, <2>2, GetFacts, FieldFacts
<1>2. ASSUME NEW o
      PROVE  /\ SqlEventByObject(s, o) = Get(m.byObject, o)
             /\ PgOne(PgWhere(PgWhere(g, "object", o), "primary", Yes), "event") = Get(m.byObject, o)
  BY EventByObject
<1>3. [e \in Events |-> Field(s, e, "object")] = [e \in Events |-> Get(m.byEvent, e)]
  BY <1>1
<1>4. [e \in Events |-> PgOne(PgWhere(g, "event", e), "object")] = [e \in Events |-> Get(m.byEvent, e)]
  BY <1>1
<1>5. [o \in Objects |-> SqlEventByObject(s, o)] = [o \in Objects |-> Get(m.byObject, o)]
  BY <1>2
<1>6. [o \in Objects |-> PgOne(PgWhere(PgWhere(g, "object", o), "primary", Yes), "event")] = [o \in Objects |-> Get(m.byObject, o)]
  BY <1>2
<1>7. MemEventAnswers(m) = SqlEventAnswers(s)
  BY Zenon, <1>3, <1>5 DEF MemEventAnswers, SqlEventAnswers
<1>8. MemEventAnswers(m) = PgEventAnswers(g)
  BY Zenon, <1>4, <1>6 DEF MemEventAnswers, PgEventAnswers, Yes
<1> QED
  BY <1>7, <1>8 DEF Alike

-----------------------------------------------------------------------------
(* Reactions. *)

Marks(e, second) == [event |-> e, second |-> second]
ReactionRow(act, x) == PgReaction(act, x.event, x.second)
ReactionRows(d) == [act \in DOMAIN d |-> ReactionRow(act, d[act])]
MarkedBy(x, e) == x.event = e \/ x.second = e

\* The rows s, and who is at each event, b: an event marks one reaction.
ReactionTables(b, s) ==
  /\ DOMAIN s \subseteq Objects /\ DOMAIN b \subseteq Events
  /\ \A act \in DOMAIN s : s[act] = Marks(s[act].event, s[act].second) /\ s[act].event \in Events
  /\ \A e \in DOMAIN b : b[e] \in DOMAIN s /\ MarkedBy(s[b[e]], e)
  /\ \A act \in DOMAIN s : \A e \in Events : MarkedBy(s[act], e) => e \in DOMAIN b /\ b[e] = act

ReactionsSound(m, s, g) ==
  /\ DOMAIN m = {"byActivity", "byEvent"} /\ m.byActivity = s /\ Dictionary(s)
  /\ ReactionTables(m.byEvent, s) /\ g = Values(ReactionRows(s))

LEMMA MarksFields ==
  ASSUME NEW e, NEW second
  PROVE  /\ Marks(e, second).event = e /\ Marks(e, second).second = second
         /\ \A x : MarkedBy(Marks(e, second), x) <=> x = e \/ x = second
  BY DEF Marks, MarkedBy

LEMMA ReactionRowsFacts ==
  ASSUME NEW d
  PROVE  /\ \A x : x \in DOMAIN ReactionRows(d) <=> x \in DOMAIN d
         /\ Keyed(ReactionRows(d), "activity")
         /\ \A x \in DOMAIN d : ReactionRows(d)[x] = ReactionRow(x, d[x])
         /\ \A x \in DOMAIN d : /\ ReactionRows(d)[x]["event"] = d[x].event
                                /\ ReactionRows(d)[x]["second"] = d[x].second
                                /\ ReactionRows(d)[x]["activity"] = x
  BY DEF ReactionRows, ReactionRow, PgReaction, Keyed

\* The one row that holds an event, in either column.
LEMMA ReactionKeys ==
  ASSUME NEW b, NEW s, NEW e \in Events,
         ReactionTables(b, s)
  PROVE  /\ KeyOf(s, "event", e) # Nil => e \in DOMAIN b /\ b[e] = KeyOf(s, "event", e) /\ s[b[e]].event = e
         /\ KeyOf(s, "event", e) = Nil => \A act \in DOMAIN s : s[act].event # e
         /\ KeyOf(s, "second", e) = Nil => \A act \in DOMAIN s : s[act].second # e
<1>0. /\ Nil \notin DOMAIN s
      /\ \A x \in DOMAIN b : b[x] \in DOMAIN s /\ MarkedBy(s[b[x]], x)
      /\ \A act \in DOMAIN s : MarkedBy(s[act], e) => e \in DOMAIN b /\ b[e] = act
  BY NilAssumption DEF ReactionTables
<1>1. ASSUME NEW f \in {"event", "second"}
      PROVE  /\ \A act \in DOMAIN s : s[act][f] = e => KeyOf(s, f, e) = act
             /\ (\A act \in DOMAIN s : s[act][f] # e) => KeyOf(s, f, e) = Nil
  <2>1. ASSUME NEW act \in DOMAIN s, s[act][f] = e PROVE KeyOf(s, f, e) = act
    <3>1. \A j \in DOMAIN s : s[j][f] = e => j = act
      BY <1>0, <2>1 DEF MarkedBy
    <3> QED
      BY <2>1, <3>1, KeyOfOne
  <2>2. ASSUME \A act \in DOMAIN s : s[act][f] # e PROVE KeyOf(s, f, e) = Nil
    BY <2>2, KeyOfNone
  <2> QED
    BY <2>1, <2>2
<1>2. /\ \A act \in DOMAIN s : s[act].event = e => KeyOf(s, "event", e) = act
      /\ (\A act \in DOMAIN s : s[act].event # e) => KeyOf(s, "event", e) = Nil
      /\ \A act \in DOMAIN s : s[act].second = e => KeyOf(s, "second", e) = act
      /\ (\A act \in DOMAIN s : s[act].second # e) => KeyOf(s, "second", e) = Nil
  BY <1>1
<1> QED
  BY <1>0, <1>2 DEF MarkedBy

LEMMA NoEventKey ==
  ASSUME NEW b, NEW s, NEW e \in Events,
         ReactionTables(b, s), KeyOf(s, "event", e) = Nil
  PROVE  \A act \in DOMAIN s : s[act].event # e
<1> SUFFICES ASSUME NEW act \in DOMAIN s, s[act].event = e PROVE FALSE
  OBVIOUS
<1>1. /\ act # Nil
      /\ \A x \in DOMAIN s : MarkedBy(s[x], e) => b[e] = x
  BY NilAssumption DEF ReactionTables
<1>2. \A j \in DOMAIN s : s[j]["event"] = e => j = act
  BY <1>1 DEF MarkedBy
<1> QED
  BY <1>1, <1>2, KeyOfOne

\* Which reaction a Matrix event belongs to, asked of the tables.
LEMMA ReactionByEvent ==
  ASSUME NEW b, NEW s, NEW e \in Events,
         ReactionTables(b, s)
  PROVE  SqlReactionByEvent(s, e) = Get(b, e)
<1>0. /\ Nil \notin DOMAIN s
      /\ \A x \in DOMAIN b : b[x] \in DOMAIN s /\ MarkedBy(s[b[x]], x)
      /\ \A act \in DOMAIN s : MarkedBy(s[act], e) => e \in DOMAIN b /\ b[e] = act
  BY NilAssumption DEF ReactionTables
<1>1. ASSUME NEW f \in {"event", "second"}
      PROVE  /\ \A act \in DOMAIN s : s[act][f] = e => KeyOf(s, f, e) = act
             /\ (\A act \in DOMAIN s : s[act][f] # e) => KeyOf(s, f, e) = Nil
  <2>1. ASSUME NEW act \in DOMAIN s, s[act][f] = e PROVE KeyOf(s, f, e) = act
    <3>1. \A j \in DOMAIN s : s[j][f] = e => j = act
      BY <1>0, <2>1 DEF MarkedBy
    <3> QED
      BY <2>1, <3>1, KeyOfOne
  <2>2. ASSUME \A act \in DOMAIN s : s[act][f] # e PROVE KeyOf(s, f, e) = Nil
    BY <2>2, KeyOfNone
  <2> QED
    BY <2>1, <2>2
<1>2. /\ \A act \in DOMAIN s : s[act].event = e => KeyOf(s, "event", e) = act
      /\ (\A act \in DOMAIN s : s[act].event # e) => KeyOf(s, "event", e) = Nil
      /\ \A act \in DOMAIN s : s[act].second = e => KeyOf(s, "second", e) = act
      /\ (\A act \in DOMAIN s : s[act].second # e) => KeyOf(s, "second", e) = Nil
  BY <1>1
<1>3. SqlReactionByEvent(s, e) = Get(b, e)
  <2>1. CASE \E act \in DOMAIN s : s[act].event = e
    <3>1. PICK act \in DOMAIN s : s[act].event = e
      BY <2>1
    <3> QED
      BY <1>0, <1>2, <3>1, GetFacts DEF SqlReactionByEvent, MarkedBy
  <2>2. CASE (\A act \in DOMAIN s : s[act].event # e) /\ \E act \in DOMAIN s : s[act].second = e
    <3>1. PICK act \in DOMAIN s : s[act].second = e
      BY <2>2
    <3> QED
      BY <1>0, <1>2, <2>2, <3>1, GetFacts DEF SqlReactionByEvent, MarkedBy
  <2>3. CASE \A act \in DOMAIN s : s[act].event # e /\ s[act].second # e
    <3>1. e \notin DOMAIN b
      BY <1>0, <2>3 DEF MarkedBy
    <3> QED
      BY <1>2, <2>3, <3>1, GetFacts DEF SqlReactionByEvent
  <2> QED
    BY <2>1, <2>2, <2>3
<1> QED
  BY <1>3

\* The rows in Postgres after an insert that no row of the event refuses, or that one does.
LEMMA ReactionRowsPut ==
  ASSUME NEW s, NEW act, NEW e, NEW second
  PROVE  PgUpsert(Values(ReactionRows(s)), PgReaction(act, e, second), {"activity"}, {"event", "second"})
           = Values(ReactionRows(Put(s, act, Marks(e, second))))
<1> DEFINE d == ReactionRows(s)
           t == Put(s, act, Marks(e, second))
           f == ReactionRows(t)
           row == PgReaction(act, e, second)
           C == {"event", "second"}
<1>1. (\A x : x \in DOMAIN t <=> x \in DOMAIN s \/ x = act) /\ t[act] = Marks(e, second) /\ (\A x \in DOMAIN s : x # act => t[x] = s[x])
  BY PutFacts
<1>2. /\ \A x : x \in DOMAIN d <=> x \in DOMAIN s
      /\ \A x \in DOMAIN s : d[x] = ReactionRow(x, s[x])
      /\ Keyed(d, "activity")
      /\ \A x : x \in DOMAIN f <=> x \in DOMAIN t
      /\ \A x \in DOMAIN t : f[x] = ReactionRow(x, t[x])
  BY ReactionRowsFacts
<1>3. row["activity"] = act /\ ReactionRow(act, Marks(e, second)) = row
  BY DEF ReactionRow, PgReaction, Marks
<1>4. row = Merged(d, row, act, C)
  <2>1. act \in DOMAIN s => d[act] = [activity |-> act, event |-> s[act].event, second |-> s[act].second]
    BY DEF ReactionRows, ReactionRow, PgReaction
  <2>2. row = [activity |-> act, event |-> e, second |-> second]
    BY DEF PgReaction
  <2> HIDE DEF d, row
  <2> QED
    BY <1>2, <2>1, <2>2 DEF Merged
<1> HIDE DEF t, d, f, row, C
<1>5. PgUpsert(Values(d), row, {"activity"}, C) = Values(f)
  BY <1>1, <1>2, <1>3, <1>4, Upserted
<1> QED
  BY <1>5 DEF d, t, f, row, C

\* b with the events of a reaction that gains its own, or a second one.
LEMMA ReactionPut ==
  ASSUME NEW b, NEW s, NEW act \in Objects, NEW e \in Events, NEW second \in Events \cup {Nil}, NEW c,
         ReactionTables(b, s),
         act \in DOMAIN s => s[act].event = e /\ s[act].second \in {second, Nil},
         e \in DOMAIN b => b[e] = act, second \in DOMAIN b => b[second] = act,
         \A x : x \in DOMAIN c <=> x \in DOMAIN b \/ x = e \/ (x = second /\ second # Nil),
         \A x \in DOMAIN b : c[x] = b[x], c[e] = act, second # Nil => c[second] = act
  PROVE  ReactionTables(c, Put(s, act, Marks(e, second)))
<1> DEFINE t == Put(s, act, Marks(e, second))
<1>0. /\ DOMAIN s \subseteq Objects /\ DOMAIN b \subseteq Events
      /\ \A a \in DOMAIN s : s[a] = Marks(s[a].event, s[a].second) /\ s[a].event \in Events
      /\ \A x \in DOMAIN b : b[x] \in DOMAIN s /\ MarkedBy(s[b[x]], x)
      /\ \A a \in DOMAIN s : \A x \in Events : MarkedBy(s[a], x) => x \in DOMAIN b /\ b[x] = a
      /\ Nil \notin Events
  BY NilAssumption DEF ReactionTables
<1>1. (\A x : x \in DOMAIN t <=> x \in DOMAIN s \/ x = act) /\ t[act] = Marks(e, second) /\ (\A x \in DOMAIN s : x # act => t[x] = s[x])
  BY PutFacts
<1> HIDE DEF t
<1>2. \A a \in DOMAIN t : t[a] = Marks(t[a].event, t[a].second) /\ t[a].event \in Events
  BY <1>0, <1>1, MarksFields
<1>3. ASSUME NEW x \in DOMAIN c PROVE c[x] \in DOMAIN t /\ MarkedBy(t[c[x]], x)
  <2>1. CASE x = e \/ x = second
    <3>1. c[x] = act
      BY <1>0, <2>1
    <3> QED
      BY <1>1, <2>1, <3>1, MarksFields
  <2>2. CASE x # e /\ x # second
    <3>1. x \in DOMAIN b /\ c[x] = b[x] /\ x \in Events
      BY <1>0, <2>2
    <3>2. b[x] \in DOMAIN s /\ MarkedBy(s[b[x]], x)
      BY <1>0, <3>1
    <3>3. b[x] # act
      <4> SUFFICES ASSUME b[x] = act PROVE FALSE
        OBVIOUS
      <4>1. s[act].event = x \/ s[act].second = x
        BY <3>2 DEF MarkedBy
      <4> QED
        BY <1>0, <2>2, <3>1, <3>2, <4>1
    <3> QED
      BY <1>1, <3>1, <3>2, <3>3
  <2> QED
    BY <2>1, <2>2
<1>4. ASSUME NEW a \in DOMAIN t, NEW x \in Events, MarkedBy(t[a], x) PROVE x \in DOMAIN c /\ c[x] = a
  <2>1. CASE a = act
    <3>1. x = e \/ x = second
      BY <1>1, <1>4, <2>1, MarksFields
    <3> QED
      BY <1>0, <2>1, <3>1
  <2>2. CASE a # act
    <3>1. a \in DOMAIN s /\ t[a] = s[a]
      BY <1>1, <2>2
    <3>2. x \in DOMAIN b /\ b[x] = a
      BY <1>0, <1>4, <3>1
    <3> QED
      BY <3>2
  <2> QED
    BY <2>1, <2>2
<1>5. DOMAIN t \subseteq Objects /\ DOMAIN c \subseteq Events
  BY <1>0, <1>1
<1> QED
  BY <1>2, <1>3, <1>4, <1>5 DEF ReactionTables, t

\* record_reaction keeps the stores at one content.
LEMMA ReactionRecorded ==
  ASSUME NEW m, NEW s, NEW g, NEW act \in Objects, NEW e \in Events, NEW second \in Events \cup {Nil},
         ReactionsSound(m, s, g),
         SqlReactionByEvent(s, e) \in {act, Nil},
         act \in DOMAIN s => s[act].event = e /\ s[act].second \in {second, Nil},
         second # Nil => SqlReactionByEvent(s, second) \in {act, Nil}
  PROVE  ReactionsSound(MemRecordReaction(m, act, e, second), SqlRecordReaction(s, act, e, second),
                        PgRecordReaction(g, act, e, second))
<1> DEFINE n == MemRecordReaction(m, act, e, second)
           b == m.byEvent
           at == Put(b, e, act)
           c == IF second = Nil THEN at ELSE Put(at, second, act)
           t == Put(s, act, Marks(e, second))
<1>1. ReactionTables(b, s) /\ m.byActivity = s /\ g = Values(ReactionRows(s))
  BY DEF ReactionsSound
<1>2. DOMAIN n = {"byActivity", "byEvent"} /\ n.byActivity = t /\ n.byEvent = c
  BY <1>1 DEF MemRecordReaction, Marks
<1>3. PgRecordReaction(g, act, e, second) = Values(ReactionRows(t))
  BY <1>1, ReactionRowsPut DEF PgRecordReaction
<1>4. SqlRecordReaction(s, act, e, second) = t
  BY DEF SqlRecordReaction, Marks
<1>5. Nil \notin DOMAIN b /\ \A x \in DOMAIN b : b[x] # Nil
  BY <1>1, NilAssumption DEF ReactionTables
<1>6. (\A x : x \in DOMAIN at <=> x \in DOMAIN b \/ x = e) /\ at[e] = act /\ (\A x \in DOMAIN b : x # e => at[x] = b[x])
  BY PutFacts
<1>7. /\ e \in DOMAIN b => b[e] = act
      /\ second \in DOMAIN b => b[second] = act
  <2> HIDE DEF b
  <2>1. SqlReactionByEvent(s, e) = Get(b, e)
    BY <1>1, ReactionByEvent
  <2>2. second # Nil => SqlReactionByEvent(s, second) = Get(b, second)
    BY <1>1, ReactionByEvent
  <2> QED
    BY <1>5, <2>1, <2>2, GetFacts
<1> HIDE DEF at, b
<1>8. /\ second # Nil => \A x : x \in DOMAIN c <=> x \in DOMAIN at \/ x = second
      /\ second # Nil => c[second] = act
      /\ second # Nil => \A x \in DOMAIN at : x # second => c[x] = at[x]
      /\ second = Nil => c = at
  BY PutFacts
<1> HIDE DEF c, n
<1>9. /\ \A x : x \in DOMAIN c <=> x \in DOMAIN b \/ x = e \/ (x = second /\ second # Nil)
      /\ \A x \in DOMAIN b : c[x] = b[x]
      /\ c[e] = act
      /\ second # Nil => c[second] = act
  BY <1>5, <1>6, <1>7, <1>8
<1>10. ReactionTables(c, t)
  BY <1>1, <1>7, <1>9, ReactionPut
<1>11. Dictionary(t)
  BY PutIsDictionary
<1> QED
  BY <1>2, <1>3, <1>4, <1>10, <1>11 DEF ReactionsSound, n

\* claim_reaction keeps them so: an event that has a reaction refuses another.
LEMMA ReactionClaimed ==
  ASSUME NEW m, NEW s, NEW g, NEW act \in Objects, NEW e \in Events,
         ReactionsSound(m, s, g), act \notin DOMAIN s, KeyOf(s, "second", e) = Nil
  PROVE  ReactionsSound(MemClaimReaction(m, act, e), SqlClaimReaction(s, act, e), PgClaimReaction(g, act, e))
<1>0. ReactionTables(m.byEvent, s) /\ m.byActivity = s /\ g = Values(ReactionRows(s)) /\ Nil \notin DOMAIN s
  BY NilAssumption DEF ReactionsSound, ReactionTables
<1>1. /\ SqlReactionByEvent(s, e) = Get(m.byEvent, e)
      /\ KeyOf(s, "event", e) # Nil => e \in DOMAIN m.byEvent /\ s[m.byEvent[e]].event = e
      /\ KeyOf(s, "event", e) = Nil => \A x \in DOMAIN s : s[x].event # e
      /\ \A x \in DOMAIN s : s[x].second # e
  <2> DEFINE b == m.byEvent
  <2>1. ReactionTables(b, s)
    BY <1>0
  <2> HIDE DEF b
  <2>2. SqlReactionByEvent(s, e) = Get(b, e)
    BY <2>1, ReactionByEvent
  <2>3. KeyOf(s, "event", e) # Nil => e \in DOMAIN b /\ s[b[e]].event = e
    BY <2>1, ReactionKeys
  <2>4. KeyOf(s, "event", e) = Nil => \A x \in DOMAIN s : s[x].event # e
    BY <2>1, NoEventKey
  <2>5. \A x \in DOMAIN s : s[x].second # e
    BY <2>1, ReactionKeys
  <2> QED
    BY <2>2, <2>3, <2>4, <2>5 DEF b
<1>2. e \in DOMAIN m.byEvent <=> KeyOf(s, "event", e) # Nil
  BY <1>0, <1>1 DEF ReactionTables, MarkedBy
<1> DEFINE d == ReactionRows(s)
           row == PgReaction(act, e, Nil)
           none == {}
           K == {"event"}
<1>3. /\ \A x : x \in DOMAIN d <=> x \in DOMAIN s
      /\ \A x \in DOMAIN s : d[x]["event"] = s[x].event
      /\ \A x \in DOMAIN s : d[x] = ReactionRow(x, s[x])
  BY ReactionRowsFacts
<1>4. row["event"] = e /\ \A f : f \in K <=> f = "event"
  BY DEF PgReaction
<1>5. CASE KeyOf(s, "event", e) # Nil
  <2> DEFINE k == m.byEvent[e]
  <2>1. k \in DOMAIN s /\ s[k].event = e /\ \A x \in DOMAIN s : s[x].event = e => x = k
    BY <1>0, <1>1, <1>5 DEF ReactionTables, MarkedBy
  <2>2. d[k] = [f \in DOMAIN d[k] |-> d[k][f]]
    BY <2>1 DEF ReactionRows, ReactionRow, PgReaction
  <2> HIDE DEF k, d, row, K
  <2>3. d[k] = Merged(d, row, k, none)
    BY <1>3, <2>1, <2>2 DEF Merged
  <2>4. \A x \in DOMAIN d : (\A f \in K : d[x][f] = row[f]) <=> x = k
    BY <1>3, <1>4, <2>1
  <2> HIDE DEF none
  <2>5. PgUpsert(Values(d), row, K, none) = Values(d)
    BY <1>3, <2>1, <2>3, <2>4, UpsertedRow
  <2>6. PgClaimReaction(g, act, e) = g
    BY <1>0, <2>5 DEF PgClaimReaction, PgInsertOnce, d, row, K, none
  <2>7. MemClaimReaction(m, act, e) = m /\ SqlClaimReaction(s, act, e) = s
    BY <1>2, <1>5 DEF MemClaimReaction, SqlClaimReaction
  <2> QED
    BY <2>6, <2>7
<1>6. CASE KeyOf(s, "event", e) = Nil
  <2> DEFINE t == Put(s, act, Marks(e, Nil))
             f == ReactionRows(t)
  <2>1. (\A x : x \in DOMAIN t <=> x \in DOMAIN s \/ x = act) /\ t[act] = Marks(e, Nil) /\ (\A x \in DOMAIN s : x # act => t[x] = s[x])
    BY PutFacts
  <2>2. /\ \A x : x \in DOMAIN f <=> x \in DOMAIN t
        /\ \A x \in DOMAIN t : f[x] = ReactionRow(x, t[x])
    BY ReactionRowsFacts
  <2>3. ReactionRow(act, Marks(e, Nil)) = row
    BY DEF ReactionRow, PgReaction, Marks
  <2> HIDE DEF t, f, d, row, K, none
  <2>4. row = Merged(d, row, act, none)
    BY <1>3 DEF Merged
  <2>5. \A x \in DOMAIN d : (\A q \in K : d[x][q] = row[q]) <=> x = act
    BY <1>1, <1>3, <1>4, <1>6
  <2>6. PgUpsert(Values(d), row, K, none) = Values(f)
    BY <1>3, <2>1, <2>2, <2>3, <2>4, <2>5, UpsertedRow
  <2>7. PgClaimReaction(g, act, e) = Values(ReactionRows(t))
    BY <1>0, <2>6 DEF PgClaimReaction, PgInsertOnce, d, row, K, none, f
  <2>8. SqlClaimReaction(s, act, e) = SqlRecordReaction(s, act, e, Nil) /\ MemClaimReaction(m, act, e) = MemRecordReaction(m, act, e, Nil)
    BY <1>2, <1>6 DEF MemClaimReaction, SqlClaimReaction
  <2>9. SqlRecordReaction(s, act, e, Nil) = t
    BY DEF SqlRecordReaction, Marks, t
  <2>10. ReactionsSound(MemRecordReaction(m, act, e, Nil), SqlRecordReaction(s, act, e, Nil), PgRecordReaction(g, act, e, Nil))
    <3>1. SqlReactionByEvent(s, e) \in {act, Nil}
      BY <1>1, <1>2, <1>6, GetFacts
    <3>2. Nil \in Events \cup {Nil} /\ act \notin DOMAIN s
      OBVIOUS
    <3> QED
      BY <3>1, <3>2, ReactionRecorded
  <2>11. PgRecordReaction(g, act, e, Nil) = PgClaimReaction(g, act, e)
    BY <2>7, <2>9, <2>10 DEF ReactionsSound
  <2> QED
    BY <2>8, <2>10, <2>11
<1> QED
  BY <1>5, <1>6

\* A reaction removed, with the events that name it, keeps them so.
LEMMA ReactionRemoved ==
  ASSUME NEW m, NEW s, NEW g, NEW act,
         ReactionsSound(m, s, g)
  PROVE  ReactionsSound(MemRemoveReaction(m, act), SqlRemoveReaction(s, act), PgRemoveReaction(g, act))
<1> DEFINE b == m.byEvent
           A == {act}
           t == Pop(s, A)
           E == {s[act].event, s[act].second}
           c == Pop(b, E)
           d == ReactionRows(s)
           f == ReactionRows(t)
<1>0. /\ m.byActivity = s /\ g = Values(d) /\ ReactionTables(b, s)
      /\ DOMAIN s \subseteq Objects /\ DOMAIN b \subseteq Events
      /\ \A a \in DOMAIN s : s[a] = Marks(s[a].event, s[a].second) /\ s[a].event \in Events
      /\ \A x \in DOMAIN b : b[x] \in DOMAIN s /\ MarkedBy(s[b[x]], x)
      /\ \A a \in DOMAIN s : \A x \in Events : MarkedBy(s[a], x) => x \in DOMAIN b /\ b[x] = a
  BY DEF ReactionsSound, ReactionTables
<1>1. (\A x : x \in A <=> x = act) /\ (\A x : x \in E <=> x = s[act].event \/ x = s[act].second)
  OBVIOUS
<1> HIDE DEF A, E, b
<1>2. (\A x : x \in DOMAIN t <=> x \in DOMAIN s /\ x # act) /\ (\A x \in DOMAIN s : x # act => t[x] = s[x])
  BY <1>1, PopFacts
<1>3. (\A x : x \in DOMAIN c <=> x \in DOMAIN b /\ x \notin E) /\ (\A x \in DOMAIN b : x \notin E => c[x] = b[x])
  BY PopFacts
<1>4. PgDelete(Values(d), "activity", act) = Values(f)
  <2>1. /\ \A x : x \in DOMAIN d <=> x \in DOMAIN s
        /\ \A x \in DOMAIN s : d[x] = ReactionRow(x, s[x])
        /\ Keyed(d, "activity")
        /\ \A x : x \in DOMAIN f <=> x \in DOMAIN t
        /\ \A x \in DOMAIN t : f[x] = ReactionRow(x, t[x])
    BY ReactionRowsFacts
  <2> HIDE DEF t, d, f
  <2> QED
    BY <1>2, <2>1, Deleted
<1>5. CASE act \in DOMAIN s
  <2> HIDE DEF t, c, d, f
  <2>1. \A a \in DOMAIN t : t[a] = Marks(t[a].event, t[a].second) /\ t[a].event \in Events
    BY <1>0, <1>2
  <2>2. ASSUME NEW x \in DOMAIN c PROVE c[x] \in DOMAIN t /\ MarkedBy(t[c[x]], x)
    <3>1. x \in DOMAIN b /\ c[x] = b[x] /\ ~ MarkedBy(s[act], x)
      BY <1>1, <1>3 DEF MarkedBy
    <3> QED
      BY <1>0, <1>2, <3>1
  <2>3. ASSUME NEW a \in DOMAIN t, NEW x \in Events, MarkedBy(t[a], x) PROVE x \in DOMAIN c /\ c[x] = a
    <3>1. x \in DOMAIN b /\ b[x] = a /\ a # act
      BY <1>0, <1>2, <2>3
    <3>2. ~ MarkedBy(s[act], x)
      BY <1>0, <1>5, <3>1
    <3> QED
      BY <1>1, <1>3, <3>1, <3>2 DEF MarkedBy
  <2>4. ReactionTables(c, t)
    BY <1>0, <1>2, <1>3, <2>1, <2>2, <2>3 DEF ReactionTables
  <2>7. Dictionary(t)
    BY PopIsDictionary DEF t
  <2>5. MemRemoveReaction(m, act) = [byActivity |-> t, byEvent |-> c]
    BY <1>0, <1>5 DEF MemRemoveReaction, t, c, A, E, b
  <2>6. SqlRemoveReaction(s, act) = t /\ PgRemoveReaction(g, act) = Values(f)
    BY <1>0, <1>4 DEF SqlRemoveReaction, PgRemoveReaction, t, A
  <2> QED
    BY <2>4, <2>5, <2>6, <2>7 DEF ReactionsSound, f
<1>6. CASE act \notin DOMAIN s
  <2>1. t = s
    <3>1. Dictionary(s) /\ Dictionary(t)
      BY PopIsDictionary DEF ReactionsSound
    <3> HIDE DEF t, c, d, f
    <3>2. (\A x : x \in DOMAIN t <=> x \in DOMAIN s) /\ \A x \in DOMAIN t : t[x] = s[x]
      BY <1>2, <1>6
    <3> QED
      BY <3>1, <3>2, SameDictionary
  <2>2. MemRemoveReaction(m, act) = m
    BY <1>0, <1>6 DEF MemRemoveReaction
  <2>3. SqlRemoveReaction(s, act) = s
    BY <2>1 DEF SqlRemoveReaction, A
  <2> HIDE DEF t, c, d
  <2>4. PgRemoveReaction(g, act) = g
    BY <1>0, <1>4, <2>1 DEF PgRemoveReaction, d
  <2> QED
    BY <2>2, <2>3, <2>4
<1> QED
  BY <1>5, <1>6

\* What is asked of reactions follows from it, by activity and by event.
LEMMA ReactionsAlike ==
  ASSUME NEW m, NEW s, NEW g,
         ReactionsSound(m, s, g)
  PROVE  Alike(MemReactionAnswers(m), SqlReactionAnswers(s), PgReactionAnswers(g))
<1> DEFINE d == ReactionRows(s)
           b == m.byEvent
<1>0. /\ m.byActivity = s /\ g = Values(d) /\ ReactionTables(b, s)
      /\ \A a \in DOMAIN s : s[a] = Marks(s[a].event, s[a].second)
      /\ \A x \in DOMAIN b : b[x] \in DOMAIN s /\ MarkedBy(s[b[x]], x)
      /\ \A a \in DOMAIN s : \A x \in Events : MarkedBy(s[a], x) => x \in DOMAIN b /\ b[x] = a
  BY DEF ReactionsSound, ReactionTables
<1>1. /\ \A x : x \in DOMAIN d <=> x \in DOMAIN s
      /\ Keyed(d, "activity")
      /\ \A x \in DOMAIN s : d[x]["event"] = s[x].event /\ d[x]["second"] = s[x].second /\ d[x]["activity"] = x
  BY ReactionRowsFacts
<1> HIDE DEF d, b
<1>2. ASSUME NEW act
      PROVE  (IF PgWhere(g, "activity", act) = {} THEN Nil
              ELSE Marks(PgOne(PgWhere(g, "activity", act), "event"), PgOne(PgWhere(g, "activity", act), "second"))) = Get(s, act)
  <2>1. /\ act \in DOMAIN d <=> PgWhere(Values(d), "activity", act) # {}
        /\ act \in DOMAIN d => \A c : PgOne(PgWhere(Values(d), "activity", act), c) = d[act][c]
    BY <1>1, FindByKey
  <2>2. CASE act \in DOMAIN s
    <3>1. PgOne(PgWhere(g, "activity", act), "event") = s[act].event /\ PgOne(PgWhere(g, "activity", act), "second") = s[act].second
      BY <1>0, <1>1, <2>1, <2>2
    <3> QED
      BY <1>0, <1>1, <2>1, <2>2, <3>1, GetFacts
  <2>3. CASE act \notin DOMAIN s
    BY <1>0, <1>1, <2>1, <2>3, GetFacts
  <2> QED
    BY <2>2, <2>3
<1>3. ASSUME NEW e \in Events
      PROVE  PgOne(PgWhere(g, "event", e) \cup PgWhere(g, "second", e), "activity") = Get(b, e)
  <2> DEFINE rows == PgWhere(g, "event", e) \cup PgWhere(g, "second", e)
  <2>1. rows = {x \in Values(d) : x["event"] = e \/ x["second"] = e}
    BY <1>0 DEF PgWhere
  <2>2. CASE e \in DOMAIN b
    <3>1. \A x \in DOMAIN s : MarkedBy(s[x], e) <=> x = b[e]
      BY <1>0, <2>2
    <3>2. rows = {d[b[e]]}
      BY <1>0, <1>1, <2>1, <2>2, <3>1 DEF Values, MarkedBy
    <3>3. PgOne({d[b[e]]}, "activity") = d[b[e]]["activity"]
      BY DEF PgOne
    <3>4. b[e] \in DOMAIN s
      BY <1>0, <2>2
    <3>5. d[b[e]]["activity"] = b[e]
      BY <1>1, <3>4
    <3>6. Get(b, e) = b[e]
      BY <2>2, GetFacts
    <3> QED
      BY <3>2, <3>3, <3>5, <3>6
  <2>3. CASE e \notin DOMAIN b
    <3>1. \A x \in DOMAIN s : ~ MarkedBy(s[x], e)
      BY <1>0, <2>3
    <3>2. rows = {}
      BY <1>1, <2>1, <3>1 DEF Values, MarkedBy
    <3>3. PgOne({}, "activity") = Nil
      BY DEF PgOne
    <3> QED
      BY <2>3, <3>2, <3>3, GetFacts
  <2> QED
    BY <2>2, <2>3
<1>4. ASSUME NEW e \in Events PROVE SqlReactionByEvent(s, e) = Get(b, e)
  BY <1>0, ReactionByEvent
<1>5. [act \in Objects |-> IF PgWhere(g, "activity", act) = {} THEN Nil
         ELSE Marks(PgOne(PgWhere(g, "activity", act), "event"), PgOne(PgWhere(g, "activity", act), "second"))]
        = [act \in Objects |-> Get(s, act)]
  BY <1>2
<1>6. [e \in Events |-> PgOne(PgWhere(g, "event", e) \cup PgWhere(g, "second", e), "activity")] = [e \in Events |-> Get(b, e)]
  BY <1>3
<1>7. [e \in Events |-> SqlReactionByEvent(s, e)] = [e \in Events |-> Get(b, e)]
  BY <1>4
<1>8. MemReactionAnswers(m) = SqlReactionAnswers(s)
  BY Zenon, <1>0, <1>7 DEF MemReactionAnswers, SqlReactionAnswers, b
<1>9. MemReactionAnswers(m) = PgReactionAnswers(g)
  BY Zenon, <1>0, <1>5, <1>6 DEF MemReactionAnswers, PgReactionAnswers, Marks, b
<1> QED
  BY <1>8, <1>9 DEF Alike

-----------------------------------------------------------------------------
(* Identities. *)

Identity(u, r, at) == [user |-> u, room |-> r, at |-> at]
ActorRow(n, e) == [name |-> n, user |-> e.user, room |-> e.room, at |-> e.at]
ActorRows(a) == [n \in DOMAIN a |-> ActorRow(n, a[n])]
RoomRow(r, e, u) == [room |-> r, name |-> e.key, user |-> u, current |-> e.current]
RoomRows(h, o) == [r \in DOMAIN h |-> RoomRow(r, h[r], o[r])]

\* No two identities were made at one time, and none later than now.
Identities(a, now) ==
  /\ Dictionary(a) /\ DOMAIN a \subseteq Names
  /\ \A n \in DOMAIN a : a[n] = Identity(a[n].user, a[n].room, a[n].at)
  /\ \A n \in DOMAIN a : a[n].user \in Users
  /\ \A n \in DOMAIN a : a[n].at \in Nat /\ a[n].at <= now
  /\ \A j, k \in DOMAIN a : a[j].at = a[k].at => j = k

\* By room, the dictionary names the identity whose room it is.
AtRooms(b, a) ==
  /\ DOMAIN b \subseteq Rooms
  /\ \A r \in DOMAIN b : b[r] \in DOMAIN a /\ a[b[r]].room = r
  /\ \A n \in DOMAIN a : a[n].room # Nil => a[n].room \in DOMAIN b /\ b[a[n].room] = n

\* Who has an identity has chosen one of theirs.
Chosen(v, a) ==
  /\ DOMAIN v \subseteq Users
  /\ \A u \in DOMAIN v : v[u] \in DOMAIN a /\ a[v[u]].user = u
  /\ \A n \in DOMAIN a : a[n].user \in DOMAIN v

\* Who owns a room is recorded where its history is.
Owners(h, o) == History(h, Names) /\ \A r : r \in DOMAIN h <=> r \in DOMAIN o

IdentitySound(m, s, g, now) ==
  /\ DOMAIN m = {"actors", "byRoom", "owner", "active"}
  /\ DOMAIN s = {"actors", "active", "owner", "history"}
  /\ DOMAIN g = {"actors", "active", "history"}
  /\ m.actors = s.actors /\ m.active = s.active /\ m.owner = s.owner
  /\ now \in Nat /\ Identities(s.actors, now)
  /\ AtRooms(m.byRoom, s.actors)
  /\ Chosen(s.active, s.actors)
  /\ Owners(s.history, s.owner)
  /\ g.actors = Values(ActorRows(s.actors))
  /\ g.active = Values(TwoRows("user", "name", s.active))
  /\ g.history = Values(RoomRows(s.history, s.owner))

LEMMA IdentityFields ==
  ASSUME NEW u, NEW r, NEW at
  PROVE  Identity(u, r, at).user = u /\ Identity(u, r, at).room = r /\ Identity(u, r, at).at = at
  BY DEF Identity

LEMMA ActorRowsFacts ==
  ASSUME NEW a
  PROVE  /\ \A x : x \in DOMAIN ActorRows(a) <=> x \in DOMAIN a
         /\ Keyed(ActorRows(a), "name")
         /\ \A n \in DOMAIN a : ActorRows(a)[n] = ActorRow(n, a[n])
  BY DEF ActorRows, ActorRow, Keyed

LEMMA ActorRowFields ==
  ASSUME NEW n, NEW e
  PROVE  /\ ActorRow(n, e)["name"] = n /\ ActorRow(n, e)["user"] = e.user
         /\ ActorRow(n, e)["room"] = e.room /\ ActorRow(n, e)["at"] = e.at
  BY DEF ActorRow

\* A set of numbers has a least one.
LEMMA LeastOf ==
  ASSUME NEW R, NEW T, T \subseteq Nat, T # {}, IsWellFoundedOn(R, Nat),
         \A x, y \in Nat : y < x => <<y, x>> \in R
  PROVE  \E x \in T : \A y \in T : x <= y
<1>1. PICK x \in T : \A y \in T : ~ (<<y, x>> \in R)
  BY WFMin
<1>2. ASSUME NEW y \in T PROVE x <= y
  <2>1. ~ (y < x)
    BY <1>1
  <2>2. x \in Nat /\ y \in Nat
    OBVIOUS
  <2> QED
    BY <2>1, <2>2
<1> QED
  BY <1>2

\* Some of any times is the least.
LEMMA LeastNat ==
  ASSUME NEW T, T \subseteq Nat, T # {}
  PROVE  \E x \in T : \A y \in T : x <= y
<1>1. \A x, y \in Nat : y < x => <<y, x>> \in OpToRel(<, Nat)
  BY DEF OpToRel
<1> QED
  BY Zenon, <1>1, NatLessThanWellFounded, LeastOf

\* The oldest of some identities is one of them, the one the rows name.
LEMMA OldestIsOne ==
  ASSUME NEW a, NEW now, NEW S,
         Identities(a, now), S \subseteq DOMAIN a, S # {}
  PROVE  Oldest(a, S) \in S /\ \A n \in S : a[Oldest(a, S)].at <= a[n].at
<1> DEFINE T == {a[n].at : n \in S}
<1>1. T \subseteq Nat /\ T # {}
  BY DEF Identities
<1>2. PICK x \in T : \A y \in T : x <= y
  BY <1>1, LeastNat
<1>3. PICK n \in S : x = a[n].at
  BY <1>2
<1>4. \A k \in S : a[n].at <= a[k].at
  BY <1>2, <1>3
<1> QED
  BY <1>4 DEF Oldest

\* ORDER BY created_at finds the identity the dictionaries find.
LEMMA OldestOfRows ==
  ASSUME NEW a, NEW now, NEW S, NEW rows,
         Identities(a, now), S \subseteq DOMAIN a,
         \A x : x \in rows <=> \E n \in S : x = ActorRow(n, a[n])
  PROVE  PgOldest(rows) = Oldest(a, S)
<1>1. CASE S = {}
  <2>1. rows = {}
    BY <1>1
  <2> QED
    BY <1>1, <2>1 DEF PgOldest, Oldest
<1>2. CASE S # {}
  <2> DEFINE o == Oldest(a, S)
             first == ActorRow(o, a[o])
  <2>1. o \in S /\ \A n \in S : a[o].at <= a[n].at
    BY <1>2, OldestIsOne
  <2> HIDE DEF o
  <2>2. \A n \in S : ActorRow(n, a[n]).at = a[n].at
    BY DEF ActorRow
  <2>3. first \in rows /\ \A y \in rows : first.at <= y.at
    BY <2>1, <2>2
  <2>4. ASSUME NEW y \in rows, \A z \in rows : y.at <= z.at PROVE y = first
    <3>1. PICK n \in S : y = ActorRow(n, a[n])
      OBVIOUS
    <3>2. a[n].at <= a[o].at /\ a[o].at <= a[n].at
      BY <2>1, <2>2, <2>3, <2>4, <3>1
    <3>3. a[n].at \in Nat /\ a[o].at \in Nat
      BY <2>1 DEF Identities
    <3>4. n = o
      BY <2>1, <3>2, <3>3 DEF Identities
    <3> QED
      BY <3>1, <3>4
  <2> HIDE DEF first
  <2>5. (CHOOSE x \in rows : \A y \in rows : x.at <= y.at) = first
    BY <2>3, <2>4
  <2>6. first.name = o
    BY DEF first, ActorRow
  <2> QED
    BY <2>3, <2>5, <2>6 DEF PgOldest, o
<1> QED
  BY <1>1, <1>2

LEMMA OldestOwned ==
  ASSUME NEW a, NEW now, NEW u,
         Identities(a, now)
  PROVE  PgOldest(PgWhere(Values(ActorRows(a)), "user", u)) = Oldest(a, OwnedBy(a, u))
<1> DEFINE rows == PgWhere(Values(ActorRows(a)), "user", u)
           S == OwnedBy(a, u)
<1>1. S \subseteq DOMAIN a
  BY DEF OwnedBy
<1>2. \A x : x \in rows <=> \E n \in S : x = ActorRow(n, a[n])
  BY DEF PgWhere, Values, ActorRows, ActorRow, OwnedBy
<1> HIDE DEF rows, S
<1>3. PgOldest(rows) = Oldest(a, S)
  BY <1>1, <1>2, OldestOfRows
<1> QED
  BY <1>3 DEF rows, S

\* The identities after one is made, or re-linked.
LEMMA IdentitiesPut ==
  ASSUME NEW a, NEW c \in Nat, NEW n \in Names, NEW u \in Users, NEW r, NEW at, NEW now,
         Identities(a, c),
         now = IF n \in DOMAIN a THEN c ELSE c + 1,
         at = IF n \in DOMAIN a THEN a[n].at ELSE now
  PROVE  now \in Nat /\ Identities(Put(a, n, Identity(u, r, at)), now)
<1> DEFINE p == Put(a, n, Identity(u, r, at))
<1>1. /\ \A x : x \in DOMAIN p <=> x \in DOMAIN a \/ x = n
      /\ p[n] = Identity(u, r, at)
      /\ \A x \in DOMAIN a : x # n => p[x] = a[x]
  BY PutFacts
<1>2. Dictionary(p)
  BY PutIsDictionary
<1> HIDE DEF p
<1>3. p[n].user = u /\ p[n].room = r /\ p[n].at = at
  BY <1>1, IdentityFields
<1>4. now \in Nat /\ c <= now /\ at \in Nat /\ at <= now
  BY DEF Identities
<1>5. \A x \in DOMAIN a : x # n => a[x].at # at
  <2> SUFFICES ASSUME NEW x \in DOMAIN a, x # n PROVE a[x].at # at
    OBVIOUS
  <2>1. CASE n \in DOMAIN a
    BY <2>1 DEF Identities
  <2>2. CASE n \notin DOMAIN a
    <3>1. a[x].at \in Nat /\ a[x].at <= c /\ at = c + 1
      BY <2>2 DEF Identities
    <3> QED
      BY <3>1
  <2> QED
    BY <2>1, <2>2
<1>6. \A x \in DOMAIN p : p[x] = Identity(p[x].user, p[x].room, p[x].at) /\ p[x].user \in Users
  BY <1>1, <1>3 DEF Identities
<1>7. \A x \in DOMAIN p : p[x].at \in Nat /\ p[x].at <= now
  <2> SUFFICES ASSUME NEW x \in DOMAIN p PROVE p[x].at \in Nat /\ p[x].at <= now
    OBVIOUS
  <2>1. CASE x = n
    BY <1>3, <1>4, <2>1
  <2>2. CASE x # n
    <3>1. p[x].at \in Nat /\ p[x].at <= c
      BY <1>1, <2>2 DEF Identities
    <3> QED
      BY <1>4, <3>1
  <2> QED
    BY <2>1, <2>2
<1>8. \A j, k \in DOMAIN p : p[j].at = p[k].at => j = k
  BY <1>1, <1>3, <1>5 DEF Identities
<1>9. DOMAIN p \subseteq Names
  BY <1>1 DEF Identities
<1> QED
  BY <1>2, <1>4, <1>6, <1>7, <1>8, <1>9 DEF Identities, p

LEMMA IdentitiesPop ==
  ASSUME NEW a, NEW now, NEW K,
         Identities(a, now)
  PROVE  Identities(Pop(a, K), now)
<1> DEFINE p == Pop(a, K)
<1>1. (\A x : x \in DOMAIN p <=> x \in DOMAIN a /\ x \notin K) /\ (\A x \in DOMAIN a : x \notin K => p[x] = a[x])
  BY PopFacts
<1>2. Dictionary(p)
  BY PopIsDictionary
<1> HIDE DEF p
<1> QED
  BY <1>1, <1>2 DEF Identities, p

\* The dictionary by room, when an identity gets a room, or none.
LEMMA AtRoomsPut ==
  ASSUME NEW b, NEW a, NEW n, NEW e, NEW left, NEW q,
         AtRooms(b, a), e.room \in Rooms \cup {Nil},
         \A x \in DOMAIN a : x # n /\ e.room # Nil => a[x].room # e.room,
         \A x : x \in left <=> n \in DOMAIN a /\ x = a[n].room /\ x # e.room,
         \A x : x \in DOMAIN q <=> (x \in DOMAIN b /\ x \notin left) \/ (x = e.room /\ x # Nil),
         \A x \in DOMAIN b : x \notin left /\ x # e.room => q[x] = b[x],
         e.room # Nil => q[e.room] = n
  PROVE  AtRooms(q, Put(a, n, e))
<1> DEFINE p == Put(a, n, e)
<1>1. /\ \A x : x \in DOMAIN p <=> x \in DOMAIN a \/ x = n
      /\ p[n] = e
      /\ \A x \in DOMAIN a : x # n => p[x] = a[x]
  BY PutFacts
<1>0. /\ DOMAIN b \subseteq Rooms /\ Nil \notin Rooms
      /\ \A x \in DOMAIN b : b[x] \in DOMAIN a /\ a[b[x]].room = x
      /\ \A k \in DOMAIN a : a[k].room # Nil => a[k].room \in DOMAIN b /\ b[a[k].room] = k
  BY NilAssumption DEF AtRooms
<1> HIDE DEF p
<1>2. ASSUME NEW x \in DOMAIN q PROVE q[x] \in DOMAIN p /\ p[q[x]].room = x
  <2>1. CASE x = e.room
    <3>1. x # Nil
      BY <1>0, <2>1
    <3> QED
      BY <1>1, <2>1, <3>1
  <2>2. CASE x # e.room
    <3>1. x \in DOMAIN b /\ x \notin left /\ q[x] = b[x]
      BY <2>2
    <3>2. b[x] \in DOMAIN a /\ a[b[x]].room = x
      BY <1>0, <3>1
    <3>3. b[x] # n
      BY <2>2, <3>1, <3>2
    <3> QED
      BY <1>1, <3>1, <3>2, <3>3
  <2> QED
    BY <2>1, <2>2
<1>3. ASSUME NEW k \in DOMAIN p, p[k].room # Nil PROVE p[k].room \in DOMAIN q /\ q[p[k].room] = k
  <2>1. CASE k = n
    BY <1>1, <1>3, <2>1
  <2>2. CASE k # n
    <3>1. k \in DOMAIN a /\ p[k] = a[k]
      BY <1>1, <2>2
    <3>2. a[k].room \in DOMAIN b /\ b[a[k].room] = k
      BY <1>0, <1>3, <3>1
    <3>3. a[k].room # e.room
      BY <1>3, <2>2, <3>1
    <3>4. a[k].room \notin left
      BY <1>0, <2>2, <3>2
    <3> QED
      BY <3>1, <3>2, <3>3, <3>4
  <2> QED
    BY <2>1, <2>2
<1>4. DOMAIN q \subseteq Rooms
  BY <1>0
<1> QED
  BY <1>2, <1>3, <1>4 DEF AtRooms, p

LEMMA AtRoomsPop ==
  ASSUME NEW b, NEW a, NEW n \in DOMAIN a, NEW q,
         AtRooms(b, a),
         \A x : x \in DOMAIN q <=> x \in DOMAIN b /\ x # a[n].room,
         \A x \in DOMAIN q : q[x] = b[x]
  PROVE  AtRooms(q, Pop(a, {n}))
<1> DEFINE K == {n}
           p == Pop(a, K)
<1>0. \A x : x \in K <=> x = n
  OBVIOUS
<1> HIDE DEF K
<1>1. (\A x : x \in DOMAIN p <=> x \in DOMAIN a /\ x # n) /\ (\A x \in DOMAIN a : x # n => p[x] = a[x])
  BY <1>0, PopFacts
<1>2. /\ DOMAIN b \subseteq Rooms
      /\ \A x \in DOMAIN b : b[x] \in DOMAIN a /\ a[b[x]].room = x
      /\ \A k \in DOMAIN a : a[k].room # Nil => a[k].room \in DOMAIN b /\ b[a[k].room] = k
  BY DEF AtRooms
<1> HIDE DEF p
<1>3. \A x \in DOMAIN q : q[x] \in DOMAIN p /\ p[q[x]].room = x
  BY <1>1, <1>2
<1>4. ASSUME NEW k \in DOMAIN p, p[k].room # Nil PROVE p[k].room \in DOMAIN q /\ q[p[k].room] = k
  <2>1. k \in DOMAIN a /\ k # n /\ p[k] = a[k]
    BY <1>1
  <2>2. a[k].room \in DOMAIN b /\ b[a[k].room] = k
    BY <1>2, <1>4, <2>1
  <2>3. a[k].room # a[n].room
    BY <1>2, <1>4, <2>1, <2>2
  <2> QED
    BY <2>1, <2>2, <2>3
<1>5. DOMAIN q \subseteq Rooms
  BY <1>2
<1> QED
  BY <1>3, <1>4, <1>5 DEF AtRooms, p, K

\* Where a first identity becomes the chosen one, and where one that is not of
\* a first comer leaves the choice as it was.
LEMMA ChosenPut ==
  ASSUME NEW v, NEW a, NEW n, NEW u \in Users, NEW r, NEW at, NEW w,
         Chosen(v, a), n \in DOMAIN a => a[n].user = u,
         w = IF u \in DOMAIN v THEN v ELSE Put(v, u, n)
  PROVE  Chosen(w, Put(a, n, Identity(u, r, at)))
<1> DEFINE p == Put(a, n, Identity(u, r, at))
           y == Put(v, u, n)
<1>1. /\ \A x : x \in DOMAIN p <=> x \in DOMAIN a \/ x = n
      /\ p[n].user = u
      /\ \A x \in DOMAIN a : x # n => p[x] = a[x]
  BY PutFacts, IdentityFields
<1>2. /\ \A x : x \in DOMAIN y <=> x \in DOMAIN v \/ x = u
      /\ y[u] = n
      /\ \A x \in DOMAIN v : x # u => y[x] = v[x]
  BY PutFacts
<1> HIDE DEF p, y
<1>3. /\ DOMAIN v \subseteq Users
      /\ \A x \in DOMAIN v : v[x] \in DOMAIN a /\ a[v[x]].user = x
      /\ \A k \in DOMAIN a : a[k].user \in DOMAIN v
  BY DEF Chosen
<1>4. \A x \in DOMAIN v : v[x] \in DOMAIN p /\ p[v[x]].user = x
  <2> SUFFICES ASSUME NEW x \in DOMAIN v PROVE v[x] \in DOMAIN p /\ p[v[x]].user = x
    OBVIOUS
  <2>1. v[x] \in DOMAIN a /\ a[v[x]].user = x
    BY <1>3
  <2> QED
    BY <1>1, <2>1
<1>5. CASE u \in DOMAIN v
  <2>1. w = v
    BY <1>5
  <2>2. \A k \in DOMAIN p : p[k].user \in DOMAIN v
    BY <1>1, <1>3, <1>5
  <2> QED
    BY <1>3, <1>4, <2>1, <2>2 DEF Chosen, p
<1>6. CASE u \notin DOMAIN v
  <2>1. w = y
    BY <1>6 DEF y
  <2>2. \A k \in DOMAIN p : p[k].user \in DOMAIN y
    BY <1>1, <1>2, <1>3
  <2>3. \A x \in DOMAIN y : y[x] \in DOMAIN p /\ p[y[x]].user = x
    <3> SUFFICES ASSUME NEW x \in DOMAIN y PROVE y[x] \in DOMAIN p /\ p[y[x]].user = x
      OBVIOUS
    <3>1. CASE x = u
      BY <1>1, <1>2, <3>1
    <3>2. CASE x # u
      BY <1>2, <1>4, <3>2
    <3> QED
      BY <3>1, <3>2
  <2>4. DOMAIN y \subseteq Users
    BY <1>2, <1>3
  <2> QED
    BY <2>1, <2>2, <2>3, <2>4 DEF Chosen, p
<1> QED
  BY <1>5, <1>6

\* An identity is gone: its owner's choice falls on another, or on none.
LEMMA ChosenPop ==
  ASSUME NEW v, NEW a, NEW n \in DOMAIN a, NEW w, NEW other,
         Chosen(v, a),
         other \in OwnedBy(a, a[n].user) \ {n} \/ OwnedBy(a, a[n].user) \ {n} = {},
         w = IF v[a[n].user] # n THEN v
             ELSE IF OwnedBy(a, a[n].user) \ {n} = {} THEN Pop(v, {a[n].user}) ELSE Put(v, a[n].user, other)
  PROVE  Chosen(w, Pop(a, {n}))
<1> DEFINE K == {n}
           p == Pop(a, K)
           u == a[n].user
           rest == OwnedBy(a, u) \ K
           U == {u}
           y == Pop(v, U)
           z == Put(v, u, other)
<1>0. (\A x : x \in K <=> x = n) /\ (\A x : x \in U <=> x = u) /\ (\A x : x \in rest <=> x \in DOMAIN a /\ a[x].user = u /\ x # n)
  BY DEF OwnedBy
<1>1. /\ other \in rest \/ rest = {}
      /\ v[u] # n => w = v
      /\ v[u] = n /\ rest = {} => w = y
      /\ v[u] = n /\ rest # {} => w = z
  OBVIOUS
<1>2. u \in DOMAIN v
  BY DEF Chosen
<1> HIDE DEF K, U, rest, u
<1>3. (\A x : x \in DOMAIN p <=> x \in DOMAIN a /\ x # n) /\ (\A x \in DOMAIN a : x # n => p[x] = a[x])
  BY <1>0, PopFacts
<1>4. (\A x : x \in DOMAIN y <=> x \in DOMAIN v /\ x # u) /\ (\A x \in DOMAIN v : x # u => y[x] = v[x])
  BY <1>0, PopFacts
<1>5. (\A x : x \in DOMAIN z <=> x \in DOMAIN v \/ x = u) /\ z[u] = other /\ (\A x \in DOMAIN v : x # u => z[x] = v[x])
  BY PutFacts
<1> HIDE DEF p, y, z
<1>6. /\ DOMAIN v \subseteq Users
      /\ \A x \in DOMAIN v : v[x] \in DOMAIN a /\ a[v[x]].user = x
      /\ \A k \in DOMAIN a : a[k].user \in DOMAIN v
  BY DEF Chosen
<1>7. a[n].user = u
  BY DEF u
<1>8. \A x \in DOMAIN v : x # u => v[x] \in DOMAIN p /\ p[v[x]].user = x
  <2> SUFFICES ASSUME NEW x \in DOMAIN v, x # u PROVE v[x] \in DOMAIN p /\ p[v[x]].user = x
    OBVIOUS
  <2>1. v[x] \in DOMAIN a /\ a[v[x]].user = x /\ v[x] # n
    BY <1>6, <1>7
  <2> QED
    BY <1>3, <2>1
<1>9. CASE v[u] # n
  <2>1. v[u] \in DOMAIN p /\ p[v[u]].user = u
    BY <1>2, <1>3, <1>6, <1>9
  <2>2. \A k \in DOMAIN p : p[k].user \in DOMAIN v
    BY <1>3, <1>6
  <2> QED
    BY <1>1, <1>6, <1>8, <1>9, <2>1, <2>2 DEF Chosen, p, K
<1>10. CASE v[u] = n /\ rest = {}
  <2>1. \A k \in DOMAIN p : p[k].user \in DOMAIN y
    BY <1>0, <1>3, <1>4, <1>6, <1>10
  <2>2. \A x \in DOMAIN y : y[x] \in DOMAIN p /\ p[y[x]].user = x
    BY <1>4, <1>8
  <2>3. w = y /\ DOMAIN y \subseteq Users
    BY <1>1, <1>4, <1>6, <1>10
  <2> QED
    BY <2>1, <2>2, <2>3 DEF Chosen, p, K
<1>11. CASE v[u] = n /\ rest # {}
  <2>0. other \in DOMAIN p /\ p[other].user = u
    BY <1>0, <1>1, <1>3, <1>11
  <2>1. \A k \in DOMAIN p : p[k].user \in DOMAIN z
    BY <1>3, <1>5, <1>6
  <2>2. \A x \in DOMAIN z : z[x] \in DOMAIN p /\ p[z[x]].user = x
    <3> SUFFICES ASSUME NEW x \in DOMAIN z PROVE z[x] \in DOMAIN p /\ p[z[x]].user = x
      OBVIOUS
    <3>1. CASE x = u
      BY <1>5, <2>0, <3>1
    <3>2. CASE x # u
      BY <1>5, <1>8, <3>2
    <3> QED
      BY <3>1, <3>2
  <2>3. w = z /\ DOMAIN z \subseteq Users
    BY <1>1, <1>2, <1>5, <1>6, <1>11
  <2> QED
    BY <2>1, <2>2, <2>3 DEF Chosen, p, K
<1> QED
  BY <1>9, <1>10, <1>11

\* One row of a key: an insert that finds it leaves it, an update writes its value.
LEMMA TwoInsertOnce ==
  ASSUME NEW key, NEW column, NEW d, NEW k, NEW v,
         key # column
  PROVE  /\ k \in DOMAIN d => PgInsertOnce(Values(TwoRows(key, column, d)), TwoRow(key, column, k, v), {key})
                                = Values(TwoRows(key, column, d))
         /\ k \notin DOMAIN d => PgInsertOnce(Values(TwoRows(key, column, d)), TwoRow(key, column, k, v), {key})
                                   = Values(TwoRows(key, column, Put(d, k, v)))
<1> DEFINE row == TwoRow(key, column, k, v)
           t == TwoRows(key, column, d)
           e == TwoRows(key, column, Put(d, k, v))
           none == {}
<1>1. row[key] = k /\ Keyed(t, key)
  BY TwoRowsKeyed DEF TwoRow
<1>2. k \in DOMAIN d => t[k] = Merged(t, row, k, none)
  BY DEF Merged, TwoRows, TwoRow
<1>3. (\A x : x \in DOMAIN t <=> x \in DOMAIN d) /\ (\A x : x \in DOMAIN e <=> x \in DOMAIN t \/ x = k)
      /\ e[k] = row /\ (\A x \in DOMAIN t : x # k => e[x] = t[x])
  BY TwoRowsFacts, PutFacts
<1> HIDE DEF row, t, e
<1>4. k \notin DOMAIN d => row = Merged(t, row, k, none)
  BY <1>3 DEF Merged
<1> HIDE DEF none
<1>5. k \in DOMAIN d => PgUpsert(Values(t), row, {key}, none) = Values(t)
  <2> SUFFICES ASSUME k \in DOMAIN d PROVE PgUpsert(Values(t), row, {key}, none) = Values(t)
    OBVIOUS
  <2>1. \A x : x \in DOMAIN t <=> x \in DOMAIN t \/ x = k
    BY <1>3
  <2> QED
    BY <1>1, <1>2, <2>1, Upserted
<1>6. k \notin DOMAIN d => PgUpsert(Values(t), row, {key}, none) = Values(e)
  <2> SUFFICES ASSUME k \notin DOMAIN d PROVE PgUpsert(Values(t), row, {key}, none) = Values(e)
    OBVIOUS
  <2>1. e[k] = Merged(t, row, k, none)
    BY <1>3, <1>4
  <2> QED
    BY <1>1, <1>3, <2>1, Upserted
<1> QED
  BY <1>5, <1>6 DEF PgInsertOnce, row, t, e, none

LEMMA TwoUpdated ==
  ASSUME NEW key, NEW column, NEW d, NEW k \in DOMAIN d, NEW v,
         key # column
  PROVE  PgUpdate(Values(TwoRows(key, column, d)), key, k, column, v) = Values(TwoRows(key, column, Put(d, k, v)))
<1> DEFINE t == TwoRows(key, column, d)
           e == TwoRows(key, column, Put(d, k, v))
<1>1. /\ \A x : x \in DOMAIN t <=> x \in DOMAIN d
      /\ \A x : x \in DOMAIN e <=> x \in DOMAIN d
      /\ e[k] = TwoRow(key, column, k, v) /\ (\A x \in DOMAIN d : x # k => e[x] = t[x])
      /\ \A x \in DOMAIN d : t[x] = TwoRow(key, column, x, d[x]) /\ t[x][key] = x
  BY TwoRowsFacts, PutFacts
<1>2. TwoRow(key, column, k, v) = With(TwoRow(key, column, k, d[k]), column, v)
  <2> DEFINE S == {key, column}
             f == [x \in S |-> IF x = key THEN k ELSE d[k]]
  <2>1. [f EXCEPT ![column] = v] = [x \in S |-> IF x = column THEN v ELSE f[x]]
    OBVIOUS
  <2>2. [x \in S |-> IF x = column THEN v ELSE f[x]] = [x \in S |-> IF x = key THEN k ELSE v]
    OBVIOUS
  <2> QED
    BY <2>1, <2>2 DEF TwoRow, With
<1> HIDE DEF t, e
<1>3. (\A x \in DOMAIN t : t[x][key] = k => e[x] = With(t[x], column, v)) /\ (\A x \in DOMAIN t : t[x][key] # k => e[x] = t[x])
  BY <1>1, <1>2
<1>4. PgUpdate(Values(t), key, k, column, v) = Values(e)
  BY <1>1, <1>3, Updated
<1> QED
  BY <1>4 DEF t, e

\* A room's row of the history, whoever had the room first.
LEMMA RecordedAny ==
  ASSUME NEW K, NEW h, NEW k \in K, NEW r, NEW first,
         History(h, K), first = IF r \in DOMAIN h THEN h[r].key ELSE k
  PROVE  /\ \A x : x \in DOMAIN Recorded(h, k, r) <=> x \in DOMAIN h \/ x = r
         /\ History(Recorded(h, k, r), K)
         /\ Recorded(h, k, r)[r] = Now(first)
         /\ \A x \in DOMAIN h : x # r => Recorded(h, k, r)[x] = Past(h[x], k)
<1> DEFINE c == [x \in DOMAIN h |-> IF h[x].key = k THEN [h[x] EXCEPT !.current = No] ELSE h[x]]
           e == [key |-> IF r \in DOMAIN h THEN h[r].key ELSE k, current |-> Yes]
<1>1. Recorded(h, k, r) = Put(c, r, e)
  BY Zenon DEF Recorded, No, Yes
<1>2. \A x \in DOMAIN h : c[x] = Past(h[x], k) /\ c[x] \in [key : K, current : BOOLEAN]
  BY FlagFacts DEF Past, History
<1>3. DOMAIN c = DOMAIN h
  OBVIOUS
<1>4. e = Now(first) /\ e \in [key : K, current : BOOLEAN]
  BY FlagFacts DEF Now, History
<1> HIDE DEF c, e
<1>5. Recorded(h, k, r) = [x \in DOMAIN h \cup {r} |-> IF x = r THEN e ELSE c[x]]
  BY <1>1, <1>3 DEF Put, PutAll
<1> QED
  BY <1>2, <1>4, <1>5 DEF History

LEMMA RoomRowsFacts ==
  ASSUME NEW h, NEW o
  PROVE  /\ \A x : x \in DOMAIN RoomRows(h, o) <=> x \in DOMAIN h
         /\ Keyed(RoomRows(h, o), "room")
         /\ \A r \in DOMAIN h : RoomRows(h, o)[r] = RoomRow(r, h[r], o[r])
  BY DEF RoomRows, RoomRow, Keyed

LEMMA RoomRowFields ==
  ASSUME NEW r, NEW e, NEW u
  PROVE  /\ RoomRow(r, e, u)["room"] = r /\ RoomRow(r, e, u)["name"] = e.key
         /\ RoomRow(r, e, u)["user"] = u /\ RoomRow(r, e, u)["current"] = e.current
  BY DEF RoomRow

LEMMA RoomRowPast ==
  ASSUME NEW r, NEW e, NEW u, NEW k
  PROVE  /\ e.key = k => RoomRow(r, Past(e, k), u) = With(RoomRow(r, e, u), "current", No)
         /\ e.key # k => RoomRow(r, Past(e, k), u) = RoomRow(r, e, u)
  BY DEF RoomRow, Past, With

LEMMA RoomRowsRecorded ==
  ASSUME NEW h, NEW o, NEW n \in Names, NEW u, NEW r, NEW p,
         Owners(h, o), p = IF r \in DOMAIN o THEN o ELSE Put(o, r, u)
  PROVE  /\ Owners(Recorded(h, n, r), p)
         /\ PgUpsert(PgUpdate(Values(RoomRows(h, o)), "name", n, "current", No),
                     [room |-> r, name |-> n, user |-> u, current |-> Yes], {"room"}, {"current"})
              = Values(RoomRows(Recorded(h, n, r), p))
<1> DEFINE d == RoomRows(h, o)
           c == [x \in DOMAIN h |-> RoomRow(x, Past(h[x], n), o[x])]
           t == Recorded(h, n, r)
           e == RoomRows(t, p)
           q == Put(o, r, u)
           first == IF r \in DOMAIN h THEN h[r].key ELSE n
           row == [room |-> r, name |-> n, user |-> u, current |-> Yes]
           K == {"current"}
<1>0. History(h, Names) /\ \A x : x \in DOMAIN h <=> x \in DOMAIN o
  BY DEF Owners
<1>1. /\ \A x : x \in DOMAIN t <=> x \in DOMAIN h \/ x = r
      /\ History(t, Names)
      /\ t[r] = Now(first)
      /\ \A x \in DOMAIN h : x # r => t[x] = Past(h[x], n)
  BY <1>0, RecordedAny
<1>2. /\ \A x : x \in DOMAIN q <=> x \in DOMAIN o \/ x = r
      /\ q[r] = u
      /\ \A x \in DOMAIN o : x # r => q[x] = o[x]
  BY PutFacts
<1> HIDE DEF q
<1>3. /\ \A x : x \in DOMAIN p <=> x \in DOMAIN o \/ x = r
      /\ p[r] = IF r \in DOMAIN o THEN o[r] ELSE u
      /\ \A x \in DOMAIN o : x # r => p[x] = o[x]
  BY <1>2 DEF q
<1>4. Owners(t, p)
  BY <1>0, <1>1, <1>3 DEF Owners
<1>5. /\ \A x : x \in DOMAIN c <=> x \in DOMAIN h
      /\ \A x \in DOMAIN h : c[x] = RoomRow(x, Past(h[x], n), o[x])
  OBVIOUS
<1>6. row["room"] = r /\ Keyed(c, "room")
  BY DEF Keyed, RoomRow
<1>7. Merged(c, row, r, K) = RoomRow(r, Now(first), p[r])
  <2>1. CASE r \in DOMAIN h
    <3>1. Past(h[r], n).key = h[r].key
      BY PastFacts
    <3>2. c[r] = [room |-> r, name |-> h[r].key, user |-> o[r], current |-> Past(h[r], n).current]
      BY <2>1, <3>1 DEF RoomRow
    <3>3. Merged(c, row, r, K) = [room |-> r, name |-> h[r].key, user |-> o[r], current |-> Yes]
      BY <2>1, <3>2 DEF Merged
    <3>4. p[r] = o[r] /\ first = h[r].key
      BY <1>0, <1>3, <2>1
    <3> HIDE DEF first
    <3> QED
      BY <3>3, <3>4 DEF RoomRow, Now
  <2>2. CASE r \notin DOMAIN h
    <3>1. p[r] = u /\ first = n
      BY <1>0, <1>3, <2>2
    <3>2. Merged(c, row, r, K) = row
      BY <2>2 DEF Merged
    <3> HIDE DEF first
    <3> QED
      BY <3>1, <3>2 DEF RoomRow, Now
  <2> QED
    BY <2>1, <2>2
<1> HIDE DEF d, c, e, row, t, first, K
<1>8. PgUpdate(Values(d), "name", n, "current", No) = Values(c)
  <2>1. /\ \A x : x \in DOMAIN d <=> x \in DOMAIN h
        /\ \A x \in DOMAIN h : d[x] = RoomRow(x, h[x], o[x])
    BY RoomRowsFacts DEF d
  <2>2. \A x \in DOMAIN h : d[x]["name"] = h[x].key
    BY <2>1, RoomRowFields
  <2>3. \A x \in DOMAIN d : d[x]["name"] = n => c[x] = With(d[x], "current", No)
    BY <1>5, <2>1, <2>2, RoomRowPast
  <2>4. \A x \in DOMAIN d : d[x]["name"] # n => c[x] = d[x]
    BY <1>5, <2>1, <2>2, RoomRowPast
  <2>5. \A x : x \in DOMAIN c <=> x \in DOMAIN d
    BY <1>5, <2>1
  <2> QED
    BY <2>3, <2>4, <2>5, Updated
<1>9. /\ \A x : x \in DOMAIN e <=> x \in DOMAIN c \/ x = r
      /\ e[r] = RoomRow(r, Now(first), p[r])
      /\ \A x \in DOMAIN c : x # r => e[x] = c[x]
  <2>1. /\ \A x : x \in DOMAIN e <=> x \in DOMAIN t
        /\ \A x \in DOMAIN t : e[x] = RoomRow(x, t[x], p[x])
    BY RoomRowsFacts DEF e
  <2> QED
    BY <1>0, <1>1, <1>3, <1>5, <2>1
<1>10. e[r] = Merged(c, row, r, K)
  BY <1>7, <1>9
<1>11. PgUpsert(Values(c), row, {"room"}, K) = Values(e)
  BY <1>6, <1>9, <1>10, Upserted
<1> QED
  BY <1>4, <1>8, <1>11 DEF d, e, row, t, K

LEMMA ActorRowsPut ==
  ASSUME NEW a, NEW n, NEW u, NEW r, NEW at, NEW now,
         at = IF n \in DOMAIN a THEN a[n].at ELSE now
  PROVE  PgUpsert(Values(ActorRows(a)), [name |-> n, user |-> u, room |-> r, at |-> now], {"name"}, {"user", "room"})
           = Values(ActorRows(Put(a, n, Identity(u, r, at))))
<1> DEFINE d == ActorRows(a)
           p == Put(a, n, Identity(u, r, at))
           e == ActorRows(p)
           row == [name |-> n, user |-> u, room |-> r, at |-> now]
           C == {"user", "room"}
<1>1. (\A x : x \in DOMAIN p <=> x \in DOMAIN a \/ x = n) /\ p[n] = Identity(u, r, at) /\ (\A x \in DOMAIN a : x # n => p[x] = a[x])
  BY PutFacts
<1>2. row["name"] = n
  OBVIOUS
<1>3. Merged(d, row, n, C) = ActorRow(n, Identity(u, r, at))
  <2>1. CASE n \in DOMAIN a
    <3>1. d[n] = [name |-> n, user |-> a[n].user, room |-> a[n].room, at |-> a[n].at]
      BY <2>1 DEF ActorRows, ActorRow
    <3>2. n \in DOMAIN d
      BY <2>1 DEF ActorRows
    <3>3. Merged(d, row, n, C) = [name |-> n, user |-> u, room |-> r, at |-> a[n].at]
      <4> HIDE DEF d
      <4> QED
        BY <3>1, <3>2 DEF Merged
    <3> QED
      BY <2>1, <3>3 DEF ActorRow, Identity
  <2>2. CASE n \notin DOMAIN a
    <3>1. n \notin DOMAIN d
      BY <2>2 DEF ActorRows
    <3>2. Merged(d, row, n, C) = row
      BY <3>1 DEF Merged
    <3> QED
      BY <2>2, <3>2 DEF ActorRow, Identity
  <2> QED
    BY <2>1, <2>2
<1>4. /\ \A x : x \in DOMAIN d <=> x \in DOMAIN a
      /\ Keyed(d, "name")
      /\ \A x \in DOMAIN a : d[x] = ActorRow(x, a[x])
      /\ \A x : x \in DOMAIN e <=> x \in DOMAIN p
      /\ \A x \in DOMAIN p : e[x] = ActorRow(x, p[x])
  BY ActorRowsFacts
<1> HIDE DEF d, p, e, row, C
<1>5. e[n] = Merged(d, row, n, C) /\ (\A x : x \in DOMAIN e <=> x \in DOMAIN d \/ x = n) /\ (\A x \in DOMAIN d : x # n => e[x] = d[x])
  BY <1>1, <1>3, <1>4
<1>6. PgUpsert(Values(d), row, {"name"}, C) = Values(e)
  BY <1>2, <1>4, <1>5, Upserted
<1> QED
  BY <1>6 DEF d, e, p, row, C

LEMMA ActorRowsPop ==
  ASSUME NEW a, NEW n
  PROVE  PgDelete(Values(ActorRows(a)), "name", n) = Values(ActorRows(Pop(a, {n})))
<1> DEFINE K == {n}
           p == Pop(a, K)
           d == ActorRows(a)
           e == ActorRows(p)
<1>0. \A x : x \in K <=> x = n
  OBVIOUS
<1> HIDE DEF K
<1>1. (\A x : x \in DOMAIN p <=> x \in DOMAIN a /\ x # n) /\ (\A x \in DOMAIN a : x # n => p[x] = a[x])
  BY <1>0, PopFacts
<1>2. /\ \A x : x \in DOMAIN d <=> x \in DOMAIN a
      /\ Keyed(d, "name")
      /\ \A x \in DOMAIN a : d[x] = ActorRow(x, a[x])
      /\ \A x : x \in DOMAIN e <=> x \in DOMAIN p
      /\ \A x \in DOMAIN p : e[x] = ActorRow(x, p[x])
  BY ActorRowsFacts
<1> HIDE DEF p, d, e
<1>3. PgDelete(Values(d), "name", n) = Values(e)
  BY <1>1, <1>2, Deleted
<1> QED
  BY <1>3 DEF d, e, p, K

\* register_local_actor keeps the stores at one content: its room, who chose it
\* and the history.
LEMMA ActorRegistered ==
  ASSUME NEW m, NEW s, NEW g, NEW c, NEW n \in Names, NEW u \in Users, NEW r \in Rooms \cup {Nil}, NEW now,
         IdentitySound(m, s, g, c), now = IF n \in DOMAIN s.actors THEN c ELSE c + 1,
         n \in DOMAIN s.actors => s.actors[n].user = u,
         r # Nil => \A x \in DOMAIN s.actors : x # n => s.actors[x].room # r
  PROVE  IdentitySound(MemRegisterActor(m, n, u, r, now), SqlRegisterActor(s, n, u, r, now),
                       PgRegisterActor(g, n, u, r, now), now)
<1> DEFINE a == s.actors
           v == s.active
           o == s.owner
           h == s.history
           at == IF n \in DOMAIN a THEN a[n].at ELSE now
           e == Identity(u, r, at)
           p == Put(a, n, e)
           w == IF u \in DOMAIN v THEN v ELSE Put(v, u, n)
           q == IF r = Nil \/ r \in DOMAIN o THEN o ELSE Put(o, r, u)
           k == IF r = Nil THEN h ELSE Recorded(h, n, r)
           old == Field(a, n, "room")
           left == IF old # r THEN {old} ELSE {}
           kept == Pop(m.byRoom, left)
           b == IF r = Nil THEN kept ELSE Put(kept, r, n)
           M == MemRegisterActor(m, n, u, r, now)
           S == SqlRegisterActor(s, n, u, r, now)
           G == PgRegisterActor(g, n, u, r, now)
           others == OwnedBy(a, u) \ {n}
<1>1. /\ m.actors = a /\ m.active = v /\ m.owner = o
      /\ c \in Nat /\ Identities(a, c) /\ AtRooms(m.byRoom, a) /\ Chosen(v, a) /\ Owners(h, o)
      /\ g.actors = Values(ActorRows(a))
      /\ g.active = Values(TwoRows("user", "name", v))
      /\ g.history = Values(RoomRows(h, o))
  BY DEF IdentitySound
<1>2. /\ n \in DOMAIN a => u \in DOMAIN v
      /\ u \notin DOMAIN v => others = {}
  BY <1>1 DEF Chosen, OwnedBy
<1>3. /\ DOMAIN M = {"actors", "byRoom", "owner", "active"}
      /\ M.actors = p /\ M.byRoom = b /\ M.owner = q
  BY <1>1 DEF MemRegisterActor, Identity
<1>4. M.active = w
  <2>1. M.active = IF u \in DOMAIN v \/ (n \in DOMAIN a /\ others = {}) THEN v
                   ELSE Put(v, u, IF others = {} THEN n ELSE Oldest(a, others))
    BY <1>1 DEF MemRegisterActor
  <2> HIDE DEF M, v, a, others
  <2> QED
    BY <1>2, <2>1
<1>5. DOMAIN S = {"actors", "active", "owner", "history"} /\ S.actors = p /\ S.owner = q /\ S.history = k
  BY DEF SqlRegisterActor, Identity
<1>6. S.active = w
  <2>1. S.active = IF n \in DOMAIN a \/ u \in DOMAIN v THEN v
                   ELSE Put(v, u, IF others = {} THEN n ELSE Oldest(a, others))
    BY DEF SqlRegisterActor
  <2> HIDE DEF S, v, a, others
  <2> QED
    BY <1>2, <2>1
<1>7. DOMAIN G = {"actors", "active", "history"}
  BY DEF PgRegisterActor
<1>8. G.actors = Values(ActorRows(p))
  <2>1. G.actors = PgUpsert(Values(ActorRows(a)), [name |-> n, user |-> u, room |-> r, at |-> now], {"name"}, {"user", "room"})
    BY <1>1 DEF PgRegisterActor
  <2>2. at = IF n \in DOMAIN a THEN a[n].at ELSE now
    OBVIOUS
  <2> HIDE DEF a, at, G
  <2> QED
    BY <2>1, <2>2, ActorRowsPut
<1>9. G.active = Values(TwoRows("user", "name", w))
  <2> DEFINE row(x) == [user |-> u, name |-> x]
             gone == PgDelete(PgWhere(g.actors, "user", u), "name", n)
  <2>1. G.active = IF PgWhere(g.actors, "name", n) # {} THEN g.active
                   ELSE PgInsertOnce(g.active, row(IF gone = {} THEN n ELSE PgOldest(gone)), {"user"})
    BY DEF PgRegisterActor
  <2>2. n \in DOMAIN a <=> PgWhere(g.actors, "name", n) # {}
    <3>1. /\ Keyed(ActorRows(a), "name")
          /\ \A x : x \in DOMAIN ActorRows(a) <=> x \in DOMAIN a
      BY ActorRowsFacts
    <3> HIDE DEF a
    <3> QED
      BY <1>1, <3>1, FindByKey
  <2>3. \A x : row(x) = TwoRow("user", "name", u, x)
    BY RowForms
  <2>4. ASSUME NEW x
        PROVE  /\ u \in DOMAIN v => PgInsertOnce(g.active, TwoRow("user", "name", u, x), {"user"}) = g.active
               /\ u \notin DOMAIN v => PgInsertOnce(g.active, TwoRow("user", "name", u, x), {"user"})
                                         = Values(TwoRows("user", "name", Put(v, u, x)))
    <3> HIDE DEF v
    <3>1. "user" # "name"
      OBVIOUS
    <3> QED
      BY <1>1, <3>1, TwoInsertOnce
  <2>5. u \notin DOMAIN v => gone = {}
    <3> SUFFICES ASSUME u \notin DOMAIN v, NEW x \in gone PROVE FALSE
      OBVIOUS
    <3>1. x \in Values(ActorRows(a)) /\ x["user"] = u
      BY <1>1 DEF PgDelete, PgWhere
    <3>2. PICK y \in DOMAIN a : x = ActorRow(y, a[y])
      BY <3>1 DEF Values, ActorRows
    <3>3. a[y].user = u
      BY <3>1, <3>2, ActorRowFields
    <3> QED
      BY <1>1, <3>3 DEF Chosen
  <2> HIDE DEF G, a, v, gone, row
  <2>6. CASE u \in DOMAIN v
    BY <1>1, <2>1, <2>3, <2>4, <2>6
  <2>7. CASE u \notin DOMAIN v
    <3>1. G.active = PgInsertOnce(g.active, TwoRow("user", "name", u, n), {"user"})
      BY <1>2, <2>1, <2>2, <2>3, <2>5, <2>7
    <3> QED
      BY <2>4, <2>7, <3>1
  <2> QED
    BY <2>6, <2>7
<1>10. G.history = Values(RoomRows(k, q)) /\ Owners(k, q)
  <2>1. G.history = IF r = Nil THEN g.history
                    ELSE PgUpsert(PgUpdate(g.history, "name", n, "current", No),
                                  [room |-> r, name |-> n, user |-> u, current |-> Yes], {"room"}, {"current"})
    BY Zenon DEF PgRegisterActor, No, Yes
  <2>2. CASE r = Nil
    BY <1>1, <2>1, <2>2
  <2>3. CASE r # Nil
    <3>1. k = Recorded(h, n, r) /\ q = IF r \in DOMAIN o THEN o ELSE Put(o, r, u)
      BY <2>3
    <3> HIDE DEF h, o, k, q, G
    <3>2. Owners(Recorded(h, n, r), q)
      BY <1>1, <3>1, RoomRowsRecorded
    <3>3. PgUpsert(PgUpdate(Values(RoomRows(h, o)), "name", n, "current", No),
                   [room |-> r, name |-> n, user |-> u, current |-> Yes], {"room"}, {"current"})
            = Values(RoomRows(Recorded(h, n, r), q))
      BY <1>1, <3>1, RoomRowsRecorded
    <3> QED
      BY <1>1, <2>1, <2>3, <3>1, <3>2, <3>3
  <2> QED
    BY <2>2, <2>3
<1>11. now \in Nat /\ Identities(p, now)
  <2>1. at = (IF n \in DOMAIN a THEN a[n].at ELSE now) /\ now = (IF n \in DOMAIN a THEN c ELSE c + 1)
    OBVIOUS
  <2> HIDE DEF a, at, p, e
  <2>2. now \in Nat /\ Identities(Put(a, n, Identity(u, r, at)), now)
    BY <1>1, <2>1, IdentitiesPut
  <2> QED
    BY <2>2 DEF p, e
<1>12. AtRooms(b, p)
  <2>1. e.room = r
    BY IdentityFields
  <2>2. \A x : x \in left <=> x = old /\ old # r
    OBVIOUS
  <2>3. (n \in DOMAIN a => old = a[n].room) /\ (n \notin DOMAIN a => old = Nil)
    BY FieldFacts
  <2>4. (\A x : x \in DOMAIN kept <=> x \in DOMAIN m.byRoom /\ x \notin left) /\ (\A x \in DOMAIN m.byRoom : x \notin left => kept[x] = m.byRoom[x])
    BY PopFacts
  <2>5. Nil \notin DOMAIN m.byRoom
    BY <1>1, NilAssumption DEF AtRooms
  <2> DEFINE gone == {x \in left : n \in DOMAIN a}
  <2>6. \A x : x \in gone <=> n \in DOMAIN a /\ x = a[n].room /\ x # e.room
    BY <2>1, <2>2, <2>3
  <2>7. \A x \in DOMAIN m.byRoom : x \in left <=> x \in gone
    BY <2>2, <2>3, <2>5
  <2> HIDE DEF left, kept, gone, e, a
  <2>8. r # Nil => (\A x : x \in DOMAIN b <=> x \in DOMAIN kept \/ x = r) /\ b[r] = n /\ (\A x \in DOMAIN kept : x # r => b[x] = kept[x])
    BY PutFacts
  <2>9. /\ \A x : x \in DOMAIN b <=> (x \in DOMAIN m.byRoom /\ x \notin gone) \/ (x = e.room /\ x # Nil)
        /\ \A x \in DOMAIN m.byRoom : x \notin gone /\ x # e.room => b[x] = m.byRoom[x]
        /\ e.room # Nil => b[e.room] = n
    <3>1. CASE r = Nil
      BY <2>1, <2>4, <2>7, <3>1
    <3>2. CASE r # Nil
      BY <2>1, <2>4, <2>7, <2>8, <3>2
    <3> QED
      BY <3>1, <3>2
  <2>10. e.room \in Rooms \cup {Nil} /\ \A x \in DOMAIN a : x # n /\ e.room # Nil => a[x].room # e.room
    BY <2>1 DEF a
  <2> HIDE DEF b, p
  <2>11. AtRooms(m.byRoom, a)
    BY <1>1
  <2>12. AtRooms(b, Put(a, n, e))
    BY <2>6, <2>9, <2>10, <2>11, AtRoomsPut
  <2> QED
    BY <2>12 DEF p
<1>13. Chosen(w, p)
  <2>1. w = IF u \in DOMAIN v THEN v ELSE Put(v, u, n)
    OBVIOUS
  <2>2. n \in DOMAIN a => a[n].user = u
    OBVIOUS
  <2> HIDE DEF a, v, w, at
  <2> QED
    BY <1>1, <2>1, <2>2, ChosenPut DEF e, p
<1> HIDE DEF M, S, G, a, v, o, h, at, e, p, w, q, k, b
<1>14. IdentitySound(M, S, G, now)
  BY <1>3, <1>4, <1>5, <1>6, <1>7, <1>8, <1>9, <1>10, <1>11, <1>12, <1>13 DEF IdentitySound
<1> QED
  BY <1>14 DEF M, S, G

\* unregister_local_actor keeps them so: who had chosen it chooses their oldest,
\* or nobody.
LEMMA ActorUnregistered ==
  ASSUME NEW m, NEW s, NEW g, NEW c, NEW n,
         IdentitySound(m, s, g, c)
  PROVE  IdentitySound(MemUnregisterActor(m, n), SqlUnregisterActor(s, n), PgUnregisterActor(g, n), c)
<1> DEFINE a == s.actors
           v == s.active
           M == MemUnregisterActor(m, n)
           S == SqlUnregisterActor(s, n)
           G == PgUnregisterActor(g, n)
           p == Pop(a, {n})
<1>1. /\ DOMAIN m = {"actors", "byRoom", "owner", "active"}
      /\ DOMAIN s = {"actors", "active", "owner", "history"}
      /\ DOMAIN g = {"actors", "active", "history"}
      /\ m.actors = a /\ m.active = v /\ m.owner = s.owner
      /\ c \in Nat /\ Identities(a, c) /\ AtRooms(m.byRoom, a) /\ Chosen(v, a) /\ Owners(s.history, s.owner)
      /\ g.actors = Values(ActorRows(a))
      /\ g.active = Values(TwoRows("user", "name", v))
      /\ g.history = Values(RoomRows(s.history, s.owner))
  BY DEF IdentitySound
<1>2. /\ Keyed(ActorRows(a), "name")
      /\ \A x : x \in DOMAIN ActorRows(a) <=> x \in DOMAIN a
      /\ \A x \in DOMAIN a : ActorRows(a)[x] = ActorRow(x, a[x])
  BY ActorRowsFacts
<1>3. PgDelete(g.actors, "name", n) = Values(ActorRows(p))
  BY <1>1, ActorRowsPop
<1> DEFINE u == PgOne(PgWhere(g.actors, "name", n), "user")
           remaining == PgOldest(PgWhere(Values(ActorRows(p)), "user", u))
           chosen == PgOne(PgWhere(g.active, "user", u), "name")
           active == IF u = Nil \/ chosen # n THEN g.active
                     ELSE IF remaining = Nil THEN PgDelete(g.active, "user", u)
                     ELSE PgUpdate(g.active, "user", u, "name", remaining)
<1>4. G = [g EXCEPT !.actors = Values(ActorRows(p)), !.active = active]
  BY Zenon, <1>3 DEF PgUnregisterActor
<1>5. CASE n \notin DOMAIN a
  <2>1. u = Nil
    <3> HIDE DEF a
    <3> QED
      BY <1>1, <1>2, <1>5, FindByKey
  <2>2. p = a
    <3>1. Dictionary(a) /\ Dictionary(p)
      BY <1>1, PopIsDictionary DEF Identities
    <3>2. (\A x : x \in DOMAIN p <=> x \in DOMAIN a /\ x \notin {n}) /\ (\A x \in DOMAIN a : x \notin {n} => p[x] = a[x])
      BY PopFacts
    <3> HIDE DEF a, p
    <3>3. (\A x : x \in DOMAIN p <=> x \in DOMAIN a) /\ \A x \in DOMAIN p : p[x] = a[x]
      BY <1>5, <3>2
    <3> QED
      BY <3>1, <3>3, SameDictionary
  <2>3. M = m /\ S = s
    BY <1>1, <1>5 DEF MemUnregisterActor, SqlUnregisterActor
  <2>4. active = g.active
    <3> HIDE DEF u
    <3> QED
      BY <2>1
  <2> HIDE DEF M, S, G, p, active, a, v
  <2>5. DOMAIN G = DOMAIN g /\ G.actors = g.actors /\ G.active = g.active /\ G.history = g.history
    BY <1>1, <1>4, <2>2, <2>4
  <2>6. IdentitySound(m, s, G, c)
    BY <2>5 DEF IdentitySound
  <2> QED
    BY <2>3, <2>6 DEF M, S, G
<1>6. CASE n \in DOMAIN a
  <2> DEFINE owner == a[n].user
             rest == OwnedBy(a, owner) \ {n}
             other == Oldest(a, rest)
             w == IF v[owner] # n THEN v ELSE IF rest = {} THEN Pop(v, {owner}) ELSE Put(v, owner, other)
             room == a[n].room
             b == IF Get(m.byRoom, room) = n THEN Pop(m.byRoom, {room}) ELSE m.byRoom
  <2>1. owner \in DOMAIN v /\ owner \in Users /\ owner # Nil
    BY <1>1, <1>6, NilAssumption DEF Chosen, Identities
  <2>2. Get(v, owner) = v[owner]
    <3> HIDE DEF v, owner
    <3> QED
      BY <2>1, GetFacts
  <2>3. u = owner
    <3>1. PgOne(PgWhere(Values(ActorRows(a)), "name", n), "user") = ActorRows(a)[n]["user"]
      <4> HIDE DEF a
      <4> QED
        BY <1>2, <1>6, FindByKey
    <3> QED
      BY <1>1, <1>2, <1>6, <3>1, ActorRowFields
  <2>4. other \in rest \/ rest = {}
    <3>1. rest \subseteq DOMAIN a
      BY DEF OwnedBy
    <3> HIDE DEF a, rest
    <3> QED
      BY <1>1, <3>1, OldestIsOne
  <2>5. remaining = IF rest = {} THEN Nil ELSE other
    <3> DEFINE rows == PgWhere(Values(ActorRows(p)), "user", u)
    <3>1. rest \subseteq DOMAIN a
      BY DEF OwnedBy
    <3>2. \A x : x \in rows <=> \E y \in rest : x = ActorRow(y, a[y])
      <4>1. \A x : x \in rows <=> \E y \in DOMAIN p : x = ActorRow(y, p[y]) /\ ActorRow(y, p[y])["user"] = owner
        BY <2>3 DEF PgWhere, Values, ActorRows
      <4>2. (\A x : x \in DOMAIN p <=> x \in DOMAIN a /\ x # n) /\ (\A x \in DOMAIN a : x # n => p[x] = a[x])
        BY PopFacts
      <4>3. \A y : y \in rest <=> y \in DOMAIN a /\ a[y].user = owner /\ y # n
        BY DEF OwnedBy
      <4> HIDE DEF rows, p, rest, a, owner
      <4> QED
        BY <4>1, <4>2, <4>3, ActorRowFields
    <3>3. remaining = PgOldest(rows)
      OBVIOUS
    <3> HIDE DEF rows, rest, a, p, remaining
    <3>4. PgOldest(rows) = Oldest(a, rest)
      BY <1>1, <3>1, <3>2, OldestOfRows
    <3> QED
      BY <3>3, <3>4 DEF Oldest
  <2>6. other # Nil \/ rest = {}
    <3>1. Nil \notin DOMAIN a
      BY <1>1, NilAssumption DEF Identities
    <3>2. rest \subseteq DOMAIN a
      BY DEF OwnedBy
    <3> HIDE DEF other, rest
    <3> QED
      BY <2>4, <3>1, <3>2
  <2>7. active = Values(TwoRows("user", "name", w))
    <3>1. chosen = v[owner]
      <4>1. "user" # "name"
        OBVIOUS
      <4>2. PgOne(PgWhere(Values(TwoRows("user", "name", v)), "user", owner), "name") = Get(v, owner)
        <5> HIDE DEF v, owner
        <5> QED
          BY <4>1, TwoFind
      <4> HIDE DEF u, v, owner
      <4> QED
        BY <1>1, <2>2, <2>3, <4>2
    <3>2. active = IF v[owner] # n THEN g.active
                   ELSE IF rest = {} THEN PgDelete(g.active, "user", owner)
                   ELSE PgUpdate(g.active, "user", owner, "name", other)
      <4> HIDE DEF u, chosen, remaining, owner, v, rest, other
      <4> QED
        BY <2>1, <2>3, <2>5, <2>6, <3>1
    <3>3. PgDelete(g.active, "user", owner) = Values(TwoRows("user", "name", Pop(v, {owner})))
      <4> HIDE DEF v, owner
      <4> QED
        BY <1>1, TwoPop
    <3>4. PgUpdate(g.active, "user", owner, "name", other) = Values(TwoRows("user", "name", Put(v, owner, other)))
      <4> HIDE DEF v, owner, other
      <4> QED
        BY <1>1, <2>1, TwoUpdated
    <3> HIDE DEF active, v, owner, rest, other
    <3> QED
      BY <1>1, <3>2, <3>3, <3>4
  <2>8. Chosen(w, p)
    <3> HIDE DEF a, v, other
    <3> QED
      BY <1>1, <1>6, <2>4, ChosenPop
  <2>9. AtRooms(b, p)
    <3> DEFINE K == {room}
               z == Pop(m.byRoom, K)
    <3>0. \A x : x \in K <=> x = room
      OBVIOUS
    <3> HIDE DEF K
    <3>1. (\A x : x \in DOMAIN z <=> x \in DOMAIN m.byRoom /\ x # room) /\ (\A x \in DOMAIN m.byRoom : x # room => z[x] = m.byRoom[x])
      BY <3>0, PopFacts
    <3>2. room \in DOMAIN m.byRoom => Get(m.byRoom, room) = n
      <4>1. room \in DOMAIN m.byRoom => room # Nil
        BY <1>1, NilAssumption DEF AtRooms
      <4>2. room # Nil => room \in DOMAIN m.byRoom /\ m.byRoom[room] = n
        BY <1>1, <1>6 DEF AtRooms
      <4> HIDE DEF room
      <4> QED
        BY <4>1, <4>2, GetFacts
    <3>3. b = IF Get(m.byRoom, room) = n THEN z ELSE m.byRoom
      BY DEF K
    <3> HIDE DEF z, b
    <3>4. (\A x : x \in DOMAIN b <=> x \in DOMAIN m.byRoom /\ x # room) /\ (\A x \in DOMAIN b : b[x] = m.byRoom[x])
      <4> HIDE DEF room
      <4>1. CASE Get(m.byRoom, room) = n
        BY <3>1, <3>3, <4>1
      <4>2. CASE Get(m.byRoom, room) # n
        BY <3>2, <3>3, <4>2
      <4> QED
        BY <4>1, <4>2
    <3> HIDE DEF a
    <3> QED
      BY <1>1, <1>6, <3>4, AtRoomsPop DEF room
  <2>10. Identities(p, c)
    BY <1>1, IdentitiesPop
  <2>11. M = [m EXCEPT !.actors = p, !.byRoom = b, !.active = w]
    <3>1. M = [m EXCEPT !.actors = p, !.byRoom = b,
                        !.active = IF Get(v, owner) # n THEN v
                                   ELSE IF rest = {} THEN Pop(v, {owner}) ELSE Put(v, owner, other)]
      <4>1. M = [m EXCEPT !.actors = Pop(m.actors, {n}),
                          !.byRoom = IF Get(m.byRoom, m.actors[n].room) = n THEN Pop(m.byRoom, {m.actors[n].room}) ELSE m.byRoom,
                          !.active = IF Get(m.active, m.actors[n].user) # n THEN m.active
                                     ELSE IF OwnedBy(m.actors, m.actors[n].user) \ {n} = {} THEN Pop(m.active, {m.actors[n].user})
                                     ELSE Put(m.active, m.actors[n].user, Oldest(m.actors, OwnedBy(m.actors, m.actors[n].user) \ {n}))]
        BY Zenon, <1>1, <1>6 DEF MemUnregisterActor
      <4> QED
        BY Zenon, <1>1, <4>1
    <3> QED
      BY Zenon, <2>2, <3>1
  <2>12. S = [s EXCEPT !.actors = p, !.active = w]
    <3>1. S = [s EXCEPT !.actors = p,
                        !.active = IF Get(v, owner) # n THEN v
                                   ELSE IF rest = {} THEN Pop(v, {owner}) ELSE Put(v, owner, other)]
      BY Zenon, <1>6 DEF SqlUnregisterActor
    <3> QED
      BY Zenon, <2>2, <3>1
  <2> HIDE DEF M, S, G, p, active, w, b, a, v
  <2>13. /\ DOMAIN M = DOMAIN m /\ M.actors = p /\ M.byRoom = b /\ M.active = w /\ M.owner = m.owner
         /\ DOMAIN S = DOMAIN s /\ S.actors = p /\ S.active = w /\ S.owner = s.owner /\ S.history = s.history
         /\ DOMAIN G = DOMAIN g /\ G.actors = Values(ActorRows(p)) /\ G.active = active /\ G.history = g.history
    BY <1>1, <1>4, <2>11, <2>12
  <2>14. IdentitySound(M, S, G, c)
    BY <1>1, <2>7, <2>8, <2>9, <2>10, <2>13 DEF IdentitySound
  <2> QED
    BY <2>14 DEF M, S, G
<1> QED
  BY <1>5, <1>6

\* set_active_identity keeps them so.
LEMMA ActiveSet ==
  ASSUME NEW m, NEW s, NEW g, NEW c, NEW n, NEW u,
         IdentitySound(m, s, g, c), n \in DOMAIN s.actors, u = s.actors[n].user
  PROVE  IdentitySound(MemSetActive(m, u, n), SqlSetActive(s, u, n), PgSetActive(g, u, n), c)
<1> DEFINE v == s.active
           w == Put(v, u, n)
           M == MemSetActive(m, u, n)
           S == SqlSetActive(s, u, n)
           G == PgSetActive(g, u, n)
<1>1. /\ m.active = v /\ g.active = Values(TwoRows("user", "name", v)) /\ Chosen(v, s.actors)
  BY DEF IdentitySound
<1>2. Chosen(w, s.actors)
  <2>1. /\ \A x : x \in DOMAIN w <=> x \in DOMAIN v \/ x = u
        /\ w[u] = n
        /\ \A x \in DOMAIN v : x # u => w[x] = v[x]
    BY PutFacts
  <2>2. u \in DOMAIN v
    BY <1>1 DEF Chosen
  <2> HIDE DEF w, v
  <2> QED
    BY <1>1, <2>1, <2>2 DEF Chosen
<1>3. PgUpsert(g.active, [user |-> u, name |-> n], {"user"}, {"name"}) = Values(TwoRows("user", "name", w))
  <2>1. PgUpsert(Values(TwoRows("user", "name", v)), TwoRow("user", "name", u, n), {"user"}, {"name"}) = Values(TwoRows("user", "name", w))
    <3> HIDE DEF v
    <3> QED
      BY TwoPut DEF w
  <2>2. TwoRow("user", "name", u, n) = [user |-> u, name |-> n]
    BY RowForms
  <2> QED
    BY <1>1, <2>1, <2>2
<1>4. M = [m EXCEPT !.active = w]
  BY Zenon, <1>1 DEF MemSetActive
<1>5. S = [s EXCEPT !.active = w]
  BY Zenon DEF SqlSetActive
<1>6. G = [g EXCEPT !.active = Values(TwoRows("user", "name", w))]
  BY Zenon, <1>3 DEF PgSetActive
<1> HIDE DEF M, S, G, w, v
<1>7. IdentitySound(M, S, G, c)
  BY <1>2, <1>4, <1>5, <1>6 DEF IdentitySound
<1> QED
  BY <1>7 DEF M, S, G

\* What is asked of identities follows from it.
LEMMA IdentityAlike ==
  ASSUME NEW m, NEW s, NEW g, NEW c,
         IdentitySound(m, s, g, c)
  PROVE  Alike(MemIdentityAnswers(m), SqlIdentityAnswers(s), PgIdentityAnswers(g))
<1> DEFINE a == s.actors
           v == s.active
           d == ActorRows(a)
           h == RoomRows(s.history, s.owner)
<1>1. /\ m.actors = a /\ m.active = v /\ m.owner = s.owner
      /\ Identities(a, c) /\ AtRooms(m.byRoom, a) /\ Chosen(v, a) /\ Owners(s.history, s.owner)
      /\ g.actors = Values(d)
      /\ g.active = Values(TwoRows("user", "name", v))
      /\ g.history = Values(h)
  BY DEF IdentitySound
<1>2. /\ \A x : x \in DOMAIN d <=> x \in DOMAIN a
      /\ Keyed(d, "name")
      /\ \A x \in DOMAIN a : /\ d[x]["name"] = x /\ d[x]["user"] = a[x].user
                             /\ d[x]["room"] = a[x].room /\ d[x]["at"] = a[x].at
  BY ActorRowsFacts, ActorRowFields
<1>3. /\ \A x : x \in DOMAIN h <=> x \in DOMAIN s.history
      /\ Keyed(h, "room")
      /\ \A x \in DOMAIN s.history : h[x]["user"] = s.owner[x]
  BY RoomRowsFacts, RoomRowFields
<1> HIDE DEF d, h, a, v
\* The rows as a dictionary.
<1>4. [n \in PgColumn(g.actors, "name") |->
         LET x == CHOOSE y \in g.actors : y.name = n
         IN [user |-> x.user, room |-> x.room, at |-> x.at]] = a
  <2>1. \A n : n \in PgColumn(g.actors, "name") <=> n \in DOMAIN a
    BY <1>1, <1>2, ColumnOf
  <2>2. ASSUME NEW n \in DOMAIN a PROVE (CHOOSE y \in g.actors : y.name = n) = d[n]
    <3>1. d[n] \in Values(d) /\ d[n].name = n
      BY <1>2 DEF Values
    <3>2. \A y \in Values(d) : y.name = n => y = d[n]
      BY <1>2 DEF Values
    <3> QED
      BY <1>1, <3>1, <3>2
  <2>3. \A n \in DOMAIN a : a[n] = [user |-> a[n].user, room |-> a[n].room, at |-> a[n].at]
    BY <1>1 DEF Identities, Identity
  <2>4. \A n \in DOMAIN a : a[n] = LET x == CHOOSE y \in g.actors : y.name = n
                                   IN [user |-> x.user, room |-> x.room, at |-> x.at]
    <3> SUFFICES ASSUME NEW n \in DOMAIN a
                 PROVE  a[n] = LET x == CHOOSE y \in g.actors : y.name = n
                               IN [user |-> x.user, room |-> x.room, at |-> x.at]
      OBVIOUS
    <3> DEFINE z == CHOOSE y \in g.actors : y.name = n
    <3>1. z = d[n]
      BY <2>2
    <3> HIDE DEF z
    <3>2. z.user = a[n].user /\ z.room = a[n].room /\ z.at = a[n].at
      BY <1>2, <3>1
    <3>3. a[n] = [user |-> z.user, room |-> z.room, at |-> z.at]
      BY <2>3, <3>2
    <3> QED
      BY <3>3 DEF z
  <2>5. a = [n \in DOMAIN a |-> a[n]]
    BY <1>1 DEF Identities, Dictionary
  <2>6. PgColumn(g.actors, "name") = DOMAIN a
    BY <2>1
  <2> QED
    BY <2>4, <2>5, <2>6
<1>5. ASSUME NEW u PROVE PgGetActive(g, u) = Active(a, v, u)
  <2>1. PgOne(PgWhere(g.active, "user", u), "name") = Get(v, u)
    <3>1. "user" # "name"
      OBVIOUS
    <3> QED
      BY <1>1, <3>1, TwoFind
  <2>2. CASE u \in DOMAIN v
    <3>1. v[u] \in DOMAIN a /\ v[u] # Nil
      BY <1>1, <2>2, NilAssumption DEF Chosen, Identities
    <3>2. Get(v, u) = v[u]
      BY <2>2, GetFacts
    <3>3. PgWhere(g.actors, "name", v[u]) # {}
      BY <1>1, <1>2, <3>1, FindByKey
    <3> QED
      BY <2>1, <2>2, <3>1, <3>2, <3>3 DEF PgGetActive, Active
  <2>3. CASE u \notin DOMAIN v
    <3>1. Get(v, u) = Nil
      BY <2>3, GetFacts
    <3>2. OwnedBy(a, u) = {}
      BY <1>1, <2>3 DEF Chosen, OwnedBy
    <3>3. PgWhere(g.actors, "user", u) = {}
      BY <1>1, <1>2, <2>3, FindNone DEF Chosen
    <3>4. Cardinality({}) # 1
      BY FS_EmptySet
    <3> QED
      BY <2>1, <2>3, <3>1, <3>2, <3>3, <3>4 DEF PgGetActive, Active
  <2> QED
    BY <2>2, <2>3
<1>6. ASSUME NEW u PROVE PgOldest(PgWhere(g.actors, "user", u)) = Oldest(a, OwnedBy(a, u))
  BY <1>1, OldestOwned DEF d
<1>7. ASSUME NEW r \in Rooms
      PROVE  /\ Get(m.byRoom, r) = KeyOf(a, "room", r)
             /\ PgOne(PgWhere(g.actors, "room", r), "name") = KeyOf(a, "room", r)
  <2>0. /\ r # Nil
        /\ \A x \in DOMAIN m.byRoom : m.byRoom[x] \in DOMAIN a /\ a[m.byRoom[x]].room = x
        /\ \A k \in DOMAIN a : a[k].room # Nil => a[k].room \in DOMAIN m.byRoom /\ m.byRoom[a[k].room] = k
    BY <1>1, NilAssumption DEF AtRooms
  <2>1. CASE r \in DOMAIN m.byRoom
    <3> DEFINE k == m.byRoom[r]
    <3>1. k \in DOMAIN a /\ a[k]["room"] = r /\ \A x \in DOMAIN a : a[x]["room"] = r => x = k
      BY <2>0, <2>1
    <3>2. Get(m.byRoom, r) = k
      BY <2>1, GetFacts
    <3> HIDE DEF k
    <3>3. KeyOf(a, "room", r) = k
      BY <3>1, KeyOfOne
    <3>4. \A x \in DOMAIN d : d[x]["room"] = r => x = k
      BY <1>2, <3>1
    <3>5. k \in DOMAIN d /\ d[k]["room"] = r /\ d[k]["name"] = k
      BY <1>2, <3>1
    <3>6. \A x : PgOne(PgWhere(Values(d), "room", r), x) = d[k][x]
      BY <3>4, <3>5, FindOne
    <3> QED
      BY <1>1, <3>2, <3>3, <3>5, <3>6
  <2>2. CASE r \notin DOMAIN m.byRoom
    <3>1. \A x \in DOMAIN a : a[x]["room"] # r
      BY <2>0, <2>2
    <3>2. KeyOf(a, "room", r) = Nil
      BY <3>1, KeyOfNone
    <3>3. \A x \in DOMAIN d : d[x]["room"] # r
      BY <1>2, <3>1
    <3>4. \A x : PgOne(PgWhere(Values(d), "room", r), x) = Nil
      BY <3>3, FindNone
    <3> QED
      BY <1>1, <2>2, <3>2, <3>4, GetFacts
  <2> QED
    BY <2>1, <2>2
<1>8. ASSUME NEW r PROVE PgOne(PgWhere(g.history, "room", r), "user") = Get(s.owner, r)
  <2>1. \A x : x \in DOMAIN s.history <=> x \in DOMAIN s.owner
    BY <1>1 DEF Owners
  <2>2. CASE r \in DOMAIN s.owner
    BY <1>1, <1>3, <2>1, <2>2, FindByKey, GetFacts
  <2>3. CASE r \notin DOMAIN s.owner
    BY <1>1, <1>3, <2>1, <2>3, FindByKey, GetFacts
  <2> QED
    BY <2>2, <2>3
<1>9. [u \in Users |-> PgGetActive(g, u)] = [u \in Users |-> Active(a, v, u)]
  BY <1>5
<1>10. [u \in Users |-> PgOldest(PgWhere(g.actors, "user", u))] = [u \in Users |-> Oldest(a, OwnedBy(a, u))]
  BY <1>6
<1>11. [r \in Rooms |-> Get(m.byRoom, r)] = [r \in Rooms |-> KeyOf(a, "room", r)]
  BY <1>7
<1>12. [r \in Rooms |-> PgOne(PgWhere(g.actors, "room", r), "name")] = [r \in Rooms |-> KeyOf(a, "room", r)]
  BY <1>7
<1>13. [r \in Rooms |-> PgOne(PgWhere(g.history, "room", r), "user")] = [r \in Rooms |-> Get(s.owner, r)]
  BY <1>8
<1>14. MemIdentityAnswers(m) = SqlIdentityAnswers(s)
  BY Zenon, <1>1, <1>11 DEF MemIdentityAnswers, SqlIdentityAnswers, a, v
<1>15. PgIdentityAnswers(g) = SqlIdentityAnswers(s)
  BY Zenon, <1>4, <1>9, <1>10, <1>12, <1>13 DEF PgIdentityAnswers, SqlIdentityAnswers, a, v
<1> QED
  BY <1>14, <1>15 DEF Alike
-----------------------------------------------------------------------------
(* The stores before the first call. *)

LEMMA NoRows ==
  ASSUME NEW d, DOMAIN d = {}
  PROVE  Values(d) = {}
  BY DEF Values

\* The stores before the first call hold the same nothing.
LEMMA EmptyTables ==
  /\ Values(RemoteRows(Empty)) = {} /\ Values(RemotePasts(Empty)) = {}
  /\ Values(PairRows(Empty)) = {} /\ Values(PairPasts(Empty)) = {}
  /\ \A key, column : Values(TwoRows(key, column, Empty)) = {}
  /\ Values(EmojiRows(Empty)) = {} /\ Values(PostRows(Empty)) = {}
  /\ Values(VoteRows(Empty)) = {} /\ Values(ReactionRows(Empty)) = {}
  /\ Values(ActorRows(Empty)) = {} /\ Values(RoomRows(Empty, Empty)) = {}
  BY EmptyFacts, NoRows DEF RemoteRows, RemotePasts, PairRows, PairPasts, TwoRows, EmojiRows, PostRows,
     VoteRows, ReactionRows, ActorRows, RoomRows

LEMMA EmptyHistory ==
  /\ RoomTable(Empty) /\ \A K : History(Empty, K)
  /\ Distinct(Empty) /\ Dictionary(Empty)
<1>1. Empty = [k \in {} |-> k]
  BY DEF Empty
<1> QED
  BY <1>1 DEF RoomTable, History, Distinct, Dictionary

LEMMA StartOfIdentity == IdentitySound(EmptyMem["identity"], EmptySql["identity"], EmptyPg["identity"], 0)
<1> DEFINE m == EmptyMem["identity"]
           s == EmptySql["identity"]
           g == EmptyPg["identity"]
<1>1. m = [actors |-> Empty, byRoom |-> Empty, owner |-> Empty, active |-> Empty]
  BY DEF EmptyMem
<1>2. s = [actors |-> Empty, active |-> Empty, owner |-> Empty, history |-> Empty]
  BY DEF EmptySql
<1>3. g = [actors |-> {}, active |-> {}, history |-> {}]
  BY DEF EmptyPg
<1>4. Identities(Empty, 0) /\ AtRooms(Empty, Empty) /\ Chosen(Empty, Empty) /\ Owners(Empty, Empty)
  BY EmptyFacts, EmptyHistory DEF Identities, AtRooms, Chosen, Owners
<1> HIDE DEF m, s, g
<1>5. IdentitySound(m, s, g, 0)
  BY <1>1, <1>2, <1>3, <1>4, EmptyTables DEF IdentitySound
<1> QED
  BY <1>5 DEF m, s, g

LEMMA StartOfRemote == RemoteSound(EmptyMem["remote"], EmptySql["remote"], EmptyPg["remote"])
<1> DEFINE m == EmptyMem["remote"]
           s == EmptySql["remote"]
           g == EmptyPg["remote"]
<1>1. m = [rooms |-> Empty, byRoom |-> Empty, history |-> Empty]
  BY DEF EmptyMem
<1>2. s = [rooms |-> Empty, history |-> Empty]
  BY DEF EmptySql
<1>3. g = [rooms |-> {}, history |-> {}]
  BY DEF EmptyPg
<1> HIDE DEF m, s, g
<1>4. HistorySound(s, Actors)
  BY <1>2, EmptyFacts, EmptyHistory DEF HistorySound
<1>5. BackEntries(Empty, Empty)
  BY EmptyFacts DEF BackEntries
<1>6. RemoteSound(m, s, g)
  BY <1>1, <1>2, <1>3, <1>4, <1>5, EmptyFacts, EmptyHistory, EmptyTables DEF RemoteSound
<1> QED
  BY <1>6 DEF m, s, g

LEMMA StartOfPairs ==
  ASSUME NEW f \in {"dm", "chat"}
  PROVE  DmSound(EmptyMem[f], EmptySql[f], EmptyPg[f])
<1> DEFINE m == EmptyMem[f]
           s == EmptySql[f]
           g == EmptyPg[f]
<1>1. m.rooms = Empty /\ m.history = Empty
  BY DEF EmptyMem
<1>2. s.rooms = Empty /\ s.history = Empty
  BY DEF EmptySql
<1>3. g.rooms = {} /\ g.history = {}
  BY DEF EmptyPg
<1> HIDE DEF m, s, g
<1>4. HistorySound(s, Pairs)
  BY <1>2, EmptyFacts, EmptyHistory DEF HistorySound
<1>5. DmSound(m, s, g)
  BY <1>1, <1>2, <1>3, <1>4, EmptyFacts, EmptyTables DEF DmSound
<1> QED
  BY <1>5 DEF m, s, g

LEMMA StartOfMirrored == MirroredSound(EmptyMem["mirrored"], EmptySql["mirrored"], EmptyPg["mirrored"])
<1> DEFINE m == EmptyMem["mirrored"]
           s == EmptySql["mirrored"]
           g == EmptyPg["mirrored"]
<1>1. m = [channel |-> Empty, channelAt |-> Empty, mirror |-> Empty, mirrorAt |-> Empty]
  BY DEF EmptyMem
<1>2. s = [channel |-> Empty, mirror |-> Empty]
  BY DEF EmptySql
<1>3. g = [channel |-> {}, mirror |-> {}]
  BY DEF EmptyPg
<1>4. ChannelRooms(Empty, Empty) /\ BackEntries(Empty, Empty) /\ Box(Empty) = Empty
  BY EmptyFacts, EmptyHistory, EmptyIsDictionary DEF ChannelRooms, BackEntries
<1> HIDE DEF m, s, g
<1>5. MirroredSound(m, s, g)
  BY <1>1, <1>2, <1>3, <1>4, EmptyFacts, EmptyHistory, EmptyTables DEF MirroredSound
<1> QED
  BY <1>5 DEF m, s, g

LEMMA StartOfHosted == HostedSound(EmptyMem["hosted"], EmptySql["hosted"], EmptyPg["hosted"])
<1> DEFINE m == EmptyMem["hosted"]
           s == EmptySql["hosted"]
           g == EmptyPg["hosted"]
<1>1. m = [rec |-> [k \in Kinds |-> Empty], at |-> [k \in Kinds |-> Empty], followers |-> {}]
  BY DEF EmptyMem
<1>2. s = [rec |-> [k \in Kinds |-> Empty], followers |-> {}]
  BY DEF EmptySql
<1>3. g = [rec |-> [k \in Kinds |-> {}], followers |-> {}]
  BY DEF EmptyPg
<1>4. HostedKind(Empty, Empty, Empty, {})
  BY EmptyFacts, EmptyIsDictionary, EmptyTables DEF HostedKind
<1>5. AllPairs({}) /\ Links("name", "actor", {}) = {}
  BY NoLinks DEF AllPairs
<1> HIDE DEF m, s, g
<1>6. HostedSound(m, s, g)
  BY <1>1, <1>2, <1>3, <1>4, <1>5 DEF HostedSound
<1> QED
  BY <1>6 DEF m, s, g

LEMMA StartOfEvents ==
  /\ EventsSound(EmptyMem["events"], EmptySql["events"], EmptyPg["events"])
  /\ ReactionsSound(EmptyMem["reactions"], EmptySql["reactions"], EmptyPg["reactions"])
  /\ VotesSound(EmptyMem["votes"], EmptySql["votes"], EmptyPg["votes"])
<1>1. /\ EmptyMem["events"] = [byEvent |-> Empty, byObject |-> Empty]
      /\ EmptyMem["reactions"] = [byActivity |-> Empty, byEvent |-> Empty]
      /\ EmptyMem["votes"] = Empty
  BY DEF EmptyMem
<1>2. EmptySql["events"] = Empty /\ EmptySql["reactions"] = Empty /\ EmptySql["votes"] = Empty
  BY DEF EmptySql
<1>3. EmptyPg["events"] = {} /\ EmptyPg["reactions"] = {} /\ EmptyPg["votes"] = {}
  BY DEF EmptyPg
<1>4. EventsSound([byEvent |-> Empty, byObject |-> Empty], Empty, {})
  BY EmptyFacts, EmptyTables DEF EventsSound
<1>5. ReactionTables(Empty, Empty)
  BY EmptyFacts DEF ReactionTables
<1>6. ReactionsSound([byActivity |-> Empty, byEvent |-> Empty], Empty, {})
  BY <1>5, EmptyHistory, EmptyTables DEF ReactionsSound
<1>7. VotesSound(Empty, Empty, {})
  BY EmptyFacts, EmptyTables DEF VotesSound
<1> QED
  BY <1>1, <1>2, <1>3, <1>4, <1>6, <1>7

LEMMA StartOfRelations ==
  /\ RelationsSound(EmptyMem["relations"], EmptySql["relations"], EmptyPg["relations"])
  /\ AllowSound(EmptyMem["allow"], EmptySql["allow"], EmptyPg["allow"])
<1>1. EmptyMem["relations"] = [rel \in Relations |-> Empty] /\ EmptyMem["allow"] = Empty
  BY DEF EmptyMem
<1>2. EmptySql["relations"] = [rel \in Relations |-> {}] /\ EmptySql["allow"] = Empty
  BY DEF EmptySql
<1>3. EmptyPg["relations"] = [rel \in Relations |-> {}] /\ EmptyPg["allow"] = {}
  BY DEF EmptyPg
<1>4. RelationOf(Empty, {}, {})
  BY EmptyFacts, NoLinks DEF RelationOf
<1>5. RelationsSound([rel \in Relations |-> Empty], [rel \in Relations |-> {}], [rel \in Relations |-> {}])
  BY <1>4 DEF RelationsSound
<1>6. AllowSound(Empty, Empty, {})
  BY EmptyFacts, EmptyTables DEF AllowSound
<1> QED
  BY <1>1, <1>2, <1>3, <1>5, <1>6

LEMMA StartOfWindows == WindowsSound(EmptyMem["windows"], EmptySql["windows"], EmptyPg["windows"], 0)
<1>1. EmptyMem["windows"] = [ids |-> {}, order |-> <<>>] /\ EmptySql["windows"] = Empty /\ EmptyPg["windows"] = {}
  BY DEF EmptyMem, EmptySql, EmptyPg
<1>2. WindowsSound([ids |-> {}, order |-> <<>>], Empty, {}, 0)
  <2>1. <<>> \in Seq(Events) /\ 0 \in Nat
    OBVIOUS
  <2> QED
    BY <2>1, EmptyFacts, EmptyHistory, EmptyTables DEF WindowsSound
<1> QED
  BY <1>1, <1>2

LEMMA StartOfGuild == GuildSound(EmptyMem["guild"], EmptySql["guild"], EmptyPg["guild"])
<1> DEFINE m == EmptyMem["guild"]
           s == EmptySql["guild"]
           g == EmptyPg["guild"]
<1>1. m = [pending |-> Empty, members |-> Empty, space |-> Empty, channels |-> Empty]
  BY DEF EmptyMem
<1>2. s = [pending |-> Empty, members |-> {}, space |-> Empty, channels |-> Empty]
  BY DEF EmptySql
<1>3. g = [pending |-> {}, members |-> {}, space |-> {}, channels |-> {}]
  BY DEF EmptyPg
<1>4. Boxed("guild", Empty, Empty, {})
  BY EmptyHistory, EmptyIsDictionary, EmptyTables DEF Boxed
<1>5. AllPairs({}) /\ Links("user", "guild", {}) = {}
  BY NoLinks DEF AllPairs
<1> HIDE DEF m, s, g
<1>6. GuildSound(m, s, g)
  BY <1>1, <1>2, <1>3, <1>4, <1>5, EmptyFacts, EmptyTables DEF GuildSound
<1> QED
  BY <1>6 DEF m, s, g

LEMMA StartOfKeyed == KeyedSound(EmptyMem["keyed"], EmptySql["keyed"], EmptyPg["keyed"])
<1> DEFINE m == EmptyMem["keyed"]
           s == EmptySql["keyed"]
           g == EmptyPg["keyed"]
<1>1. m = [settings |-> Empty, logins |-> Empty, bot |-> Empty, ghosts |-> Empty, images |-> Empty, sources |-> Empty]
  BY DEF EmptyMem
<1>2. s = [settings |-> Empty, logins |-> Empty, bot |-> Empty, ghosts |-> Empty, emoji |-> Empty]
  BY DEF EmptySql
<1>3. g = [settings |-> {}, logins |-> {}, bot |-> {}, ghosts |-> {}, emoji |-> {}]
  BY DEF EmptyPg
<1>4. Boxed("user", Empty, Empty, {}) /\ KeyValue(Empty, Empty, {})
  BY EmptyHistory, EmptyIsDictionary, EmptyTables DEF Boxed, KeyValue
<1>5. EmojiSound(Empty, Empty, Empty, {})
  BY EmptyFacts, EmptyTables DEF EmojiSound
<1> HIDE DEF m, s, g
<1>6. KeyedSound(m, s, g)
  BY <1>1, <1>2, <1>3, <1>4, <1>5 DEF KeyedSound
<1> QED
  BY <1>6 DEF m, s, g
-----------------------------------------------------------------------------
(* Every family, from the first call on. *)

\* The three stores hold one content, in the tables of the family in use: every
\* answer follows from it, and every call keeps it.
OneContent ==
  /\ family = "identity" => IdentitySound(mem, sql, pg, clock)
  /\ family = "remote" => RemoteSound(mem, sql, pg)
  /\ family \in {"dm", "chat"} => DmSound(mem, sql, pg)
  /\ family = "mirrored" => MirroredSound(mem, sql, pg)
  /\ family = "hosted" => HostedSound(mem, sql, pg)
  /\ family = "events" => EventsSound(mem, sql, pg)
  /\ family = "reactions" => ReactionsSound(mem, sql, pg)
  /\ family = "votes" => VotesSound(mem, sql, pg)
  /\ family = "relations" => RelationsSound(mem, sql, pg)
  /\ family = "windows" => WindowsSound(mem, sql, pg, clock)
  /\ family = "allow" => AllowSound(mem, sql, pg)
  /\ family \in {"guild", "shape"} => GuildSound(mem, sql, pg)
  /\ family \in {"keyed", "ghosts", "emoji"} => KeyedSound(mem, sql, pg)

\* The stores begin with one content.
LEMMA OneContentInit == Init => OneContent
<1> SUFFICES ASSUME Init PROVE OneContent
  OBVIOUS
<1>1. /\ mem = EmptyMem[TablesOf(family)] /\ sql = EmptySql[TablesOf(family)] /\ pg = EmptyPg[TablesOf(family)]
      /\ clock = 0
  BY DEF Init
<1>2. /\ family \notin {"shape", "ghosts", "emoji"} => TablesOf(family) = family
      /\ family = "shape" => TablesOf(family) = "guild"
      /\ family \in {"ghosts", "emoji"} => TablesOf(family) = "keyed"
  BY DEF TablesOf
<1>3. family = "identity" => IdentitySound(mem, sql, pg, clock)
  BY <1>1, <1>2, StartOfIdentity
<1>4. family = "remote" => RemoteSound(mem, sql, pg)
  BY <1>1, <1>2, StartOfRemote
<1>5. family \in {"dm", "chat"} => DmSound(mem, sql, pg)
  BY <1>1, <1>2, StartOfPairs
<1>6. family = "mirrored" => MirroredSound(mem, sql, pg)
  BY <1>1, <1>2, StartOfMirrored
<1>7. family = "hosted" => HostedSound(mem, sql, pg)
  BY <1>1, <1>2, StartOfHosted
<1>8. /\ family = "events" => EventsSound(mem, sql, pg)
      /\ family = "reactions" => ReactionsSound(mem, sql, pg)
      /\ family = "votes" => VotesSound(mem, sql, pg)
  BY <1>1, <1>2, StartOfEvents
<1>9. /\ family = "relations" => RelationsSound(mem, sql, pg)
      /\ family = "allow" => AllowSound(mem, sql, pg)
  BY <1>1, <1>2, StartOfRelations
<1>10. family = "windows" => WindowsSound(mem, sql, pg, clock)
  BY <1>1, <1>2, StartOfWindows
<1>11. family \in {"guild", "shape"} => GuildSound(mem, sql, pg)
  BY <1>1, <1>2, StartOfGuild
<1>12. family \in {"keyed", "ghosts", "emoji"} => KeyedSound(mem, sql, pg)
  BY <1>1, <1>2, StartOfKeyed
<1> QED
  BY <1>3, <1>4, <1>5, <1>6, <1>7, <1>8, <1>9, <1>10, <1>11, <1>12 DEF OneContent

\* A step of one family of calls keeps the one content.
LEMMA IdentityStep == OneContent /\ (RegisterActor \/ UnregisterActor \/ SetActive) => OneContent'
<1> SUFFICES ASSUME OneContent, RegisterActor \/ UnregisterActor \/ SetActive PROVE OneContent'
  OBVIOUS
<1>1. family = "identity" /\ family' = family /\ IdentitySound(mem, sql, pg, clock)
  BY DEF OneContent, RegisterActor, UnregisterActor, SetActive
<1>2. IdentitySound(mem', sql', pg', clock')
  <2>1. CASE RegisterActor
    <3>1. PICK n \in Names, u \in Users, r \in Rooms \cup {Nil} :
            /\ clock' = IF n \in DOMAIN sql.actors THEN clock ELSE clock + 1
            /\ n \in DOMAIN sql.actors => sql.actors[n].user = u
            /\ r # Nil => ~ Taken(sql.actors, n, "room", r)
            /\ mem' = MemRegisterActor(mem, n, u, r, clock')
            /\ sql' = SqlRegisterActor(sql, n, u, r, clock')
            /\ pg' = PgRegisterActor(pg, n, u, r, clock')
      BY <2>1 DEF RegisterActor
    <3>2. r # Nil => \A x \in DOMAIN sql.actors : x # n => sql.actors[x].room # r
      BY <3>1 DEF Taken
    <3>3. IdentitySound(MemRegisterActor(mem, n, u, r, clock'), SqlRegisterActor(sql, n, u, r, clock'),
                        PgRegisterActor(pg, n, u, r, clock'), clock')
      BY <1>1, <3>1, <3>2, ActorRegistered
    <3> QED
      BY <3>1, <3>3
  <2>2. CASE UnregisterActor
    BY <1>1, <2>2, ActorUnregistered DEF UnregisterActor
  <2>3. CASE SetActive
    BY <1>1, <2>3, ActiveSet DEF SetActive
  <2> QED
    BY <2>1, <2>2, <2>3
<1> QED
  BY <1>1, <1>2 DEF OneContent

LEMMA RoomStep == OneContent /\ (RegisterRemoteRoom \/ BackfillDone \/ RegisterPairRoom) => OneContent'
<1>1. ASSUME OneContent, RegisterRemoteRoom \/ BackfillDone PROVE OneContent'
  <2>1. family = "remote" /\ family' = family /\ RemoteSound(mem, sql, pg)
    BY <1>1 DEF OneContent, RegisterRemoteRoom, BackfillDone
  <2>2. CASE RegisterRemoteRoom
    <3>1. PICK a \in Actors, r \in Rooms, pending \in BOOLEAN :
            /\ r \in DOMAIN sql.history => sql.history[r].key = a
            /\ mem' = MemRegisterRemote(mem, a, r, pending)
            /\ sql' = SqlRegisterRemote(sql, a, r, pending)
            /\ pg' = PgRegisterRemote(pg, a, r, pending)
      BY <2>2 DEF RegisterRemoteRoom
    <3>2. RemoteSound(mem', sql', pg')
      BY <2>1, <3>1, RemoteRegistered
    <3> QED
      BY <2>1, <3>2 DEF OneContent
  <2>3. CASE BackfillDone
    <3>1. RemoteSound(mem', sql', pg')
      BY <2>1, <2>3, RemoteBackfilled DEF BackfillDone
    <3> QED
      BY <2>1, <3>1 DEF OneContent
  <2> QED
    BY <1>1, <2>2, <2>3
<1>2. ASSUME OneContent, RegisterPairRoom PROVE OneContent'
  <2>1. family \in {"dm", "chat"} /\ family' = family /\ DmSound(mem, sql, pg)
    BY <1>2 DEF OneContent, RegisterPairRoom
  <2>2. PICK p \in Pairs, r \in Rooms, name \in Names :
          /\ r \in DOMAIN sql.history => sql.history[r].key = p
          /\ mem' = MemRegisterDm(mem, p, r, name)
          /\ sql' = SqlRegisterDm(sql, p, r, name)
          /\ pg' = PgRegisterDm(pg, p, r, name)
    BY <1>2 DEF RegisterPairRoom, MemRegisterChat, SqlRegisterChat, PgRegisterChat
  <2>3. DmSound(mem', sql', pg')
    BY <2>1, <2>2, DmRegistered
  <2> QED
    BY <2>1, <2>3 DEF OneContent
<1> QED
  BY <1>1, <1>2

LEMMA MirroredStep == OneContent /\ (RegisterMirroredRoom \/ MirrorBackfillDone) => OneContent'
<1> SUFFICES ASSUME OneContent, RegisterMirroredRoom \/ MirrorBackfillDone PROVE OneContent'
  OBVIOUS
<1>1. family = "mirrored" /\ family' = family /\ MirroredSound(mem, sql, pg)
  BY DEF OneContent, RegisterMirroredRoom, MirrorBackfillDone
<1>2. MirroredSound(mem', sql', pg')
  <2>1. CASE RegisterMirroredRoom
    <3>1. PICK c \in Actors, r \in Rooms, pending \in BOOLEAN :
            \/ /\ r \notin DOMAIN mem.channelAt
               /\ mem' = MemRegisterChannelRoom(mem, c, r)
               /\ sql' = SqlRegisterChannelRoom(sql, c, r)
               /\ pg' = PgRegisterChannelRoom(pg, c, r)
            \/ /\ c \in DOMAIN sql.mirror => r = sql.mirror[c].room
               /\ c \notin DOMAIN sql.mirror => KeyOf(sql.mirror, "room", r) = Nil
               /\ mem' = MemRegisterCommunityRoom(mem, c, r, pending)
               /\ sql' = SqlRegisterCommunityRoom(sql, c, r, pending)
               /\ pg' = PgRegisterCommunityRoom(pg, c, r, pending)
      BY <2>1 DEF RegisterMirroredRoom, Unused, MemRegisterGroupRoom, SqlRegisterGroupRoom, PgRegisterGroupRoom
    <3>2. CASE /\ r \notin DOMAIN mem.channelAt
               /\ mem' = MemRegisterChannelRoom(mem, c, r)
               /\ sql' = SqlRegisterChannelRoom(sql, c, r)
               /\ pg' = PgRegisterChannelRoom(pg, c, r)
      <4>1. MirroredSound(MemRegisterChannelRoom(mem, c, r), SqlRegisterChannelRoom(sql, c, r), PgRegisterChannelRoom(pg, c, r))
        BY <1>1, <3>2, ChannelRegistered
      <4> QED
        BY <3>2, <4>1
    <3>3. CASE /\ c \in DOMAIN sql.mirror => r = sql.mirror[c].room
               /\ c \notin DOMAIN sql.mirror => KeyOf(sql.mirror, "room", r) = Nil
               /\ mem' = MemRegisterCommunityRoom(mem, c, r, pending)
               /\ sql' = SqlRegisterCommunityRoom(sql, c, r, pending)
               /\ pg' = PgRegisterCommunityRoom(pg, c, r, pending)
      <4>1. MirroredSound(MemRegisterCommunityRoom(mem, c, r, pending), SqlRegisterCommunityRoom(sql, c, r, pending),
                          PgRegisterCommunityRoom(pg, c, r, pending))
        BY <1>1, <3>3, CommunityMirrored
      <4> QED
        BY <3>3, <4>1
    <3> QED
      BY <3>1, <3>2, <3>3
  <2>2. CASE MirrorBackfillDone
    BY <1>1, <2>2, MirrorBackfilled DEF MirrorBackfillDone
  <2> QED
    BY <2>1, <2>2
<1> QED
  BY <1>1, <1>2 DEF OneContent

LEMMA HostedStep == OneContent /\ (RegisterHosted \/ UnregisterHosted \/ FollowHosted) => OneContent'
<1> SUFFICES ASSUME OneContent, RegisterHosted \/ UnregisterHosted \/ FollowHosted PROVE OneContent'
  OBVIOUS
<1>1. family = "hosted" /\ family' = family /\ HostedSound(mem, sql, pg)
  BY DEF OneContent, RegisterHosted, UnregisterHosted, FollowHosted
<1>2. HostedSound(mem', sql', pg')
  <2>1. CASE RegisterHosted
    <3>1. PICK n \in Names, r \in Rooms, kind \in Kinds :
            /\ ~ Taken(sql.rec[kind], n, "room", r)
            /\ CASE kind = "channel" -> /\ mem' = MemRegisterHosted(mem, kind, n, r)
                                        /\ sql' = SqlRegisterHosted(sql, kind, n, r)
                                        /\ pg' = PgRegisterHosted(pg, kind, n, r)
                 [] kind = "community" -> /\ mem' = MemRegisterCommunity(mem, n, r)
                                          /\ sql' = SqlRegisterCommunity(sql, n, r)
                                          /\ pg' = PgRegisterCommunity(pg, n, r)
                 [] kind = "group" -> /\ mem' = MemRegisterGroup(mem, n, r)
                                      /\ sql' = SqlRegisterGroup(sql, n, r)
                                      /\ pg' = PgRegisterGroup(pg, n, r)
      BY <2>1 DEF RegisterHosted
    <3>2. /\ mem' = MemRegisterHosted(mem, kind, n, r)
          /\ sql' = SqlRegisterHosted(sql, kind, n, r)
          /\ pg' = PgRegisterHosted(pg, kind, n, r)
      BY <3>1 DEF Kinds, MemRegisterCommunity, SqlRegisterCommunity, PgRegisterCommunity,
         MemRegisterGroup, SqlRegisterGroup, PgRegisterGroup
    <3>3. HostedSound(MemRegisterHosted(mem, kind, n, r), SqlRegisterHosted(sql, kind, n, r), PgRegisterHosted(pg, kind, n, r))
      BY <1>1, <3>1, HostedRegistered
    <3> QED
      BY <3>2, <3>3
  <2>2. CASE UnregisterHosted
    <3>1. PICK n \in Names, kind \in Kinds :
            CASE kind = "channel" -> /\ mem' = MemUnregisterHosted(mem, kind, n)
                                     /\ sql' = SqlUnregisterHosted(sql, kind, n)
                                     /\ pg' = PgUnregisterHosted(pg, kind, n)
              [] kind = "community" -> /\ mem' = MemUnregisterCommunity(mem, n)
                                       /\ sql' = SqlUnregisterCommunity(sql, n)
                                       /\ pg' = PgUnregisterCommunity(pg, n)
              [] kind = "group" -> /\ mem' = MemUnregisterGroup(mem, n)
                                   /\ sql' = SqlUnregisterGroup(sql, n)
                                   /\ pg' = PgUnregisterGroup(pg, n)
      BY <2>2 DEF UnregisterHosted
    <3>2. /\ mem' = MemUnregisterHosted(mem, kind, n)
          /\ sql' = SqlUnregisterHosted(sql, kind, n)
          /\ pg' = PgUnregisterHosted(pg, kind, n)
      BY <3>1 DEF Kinds, MemUnregisterCommunity, SqlUnregisterCommunity, PgUnregisterCommunity,
         MemUnregisterGroup, SqlUnregisterGroup, PgUnregisterGroup
    <3>3. HostedSound(MemUnregisterHosted(mem, kind, n), SqlUnregisterHosted(sql, kind, n), PgUnregisterHosted(pg, kind, n))
      BY <1>1, HostedUnregistered
    <3> QED
      BY <3>2, <3>3
  <2>3. CASE FollowHosted
    <3>1. PICK n \in Names, a \in Actors :
            /\ mem' = [mem EXCEPT !.followers = @ \cup {<<n, a>>}]
            /\ sql' = [sql EXCEPT !.followers = @ \cup {<<n, a>>}]
            /\ pg' = PgFollowHosted(pg, n, a)
      BY <2>3 DEF FollowHosted
    <3>2. HostedSound([mem EXCEPT !.followers = @ \cup {<<n, a>>}], [sql EXCEPT !.followers = @ \cup {<<n, a>>}],
                      PgFollowHosted(pg, n, a))
      BY <1>1, HostedFollowed
    <3> QED
      BY <3>1, <3>2
  <2> QED
    BY <2>1, <2>2, <2>3
<1> QED
  BY <1>1, <1>2 DEF OneContent

LEMMA EventStep == OneContent /\ (RecordEvent \/ DeleteEvent) => OneContent'
<1> SUFFICES ASSUME OneContent, RecordEvent \/ DeleteEvent PROVE OneContent'
  OBVIOUS
<1>1. family = "events" /\ family' = family /\ EventsSound(mem, sql, pg)
  BY DEF OneContent, RecordEvent, DeleteEvent
<1>2. EventsSound(mem', sql', pg')
  <2>1. CASE RecordEvent
    <3>1. PICK e \in Events \ DOMAIN sql, o \in Objects, primary \in BOOLEAN :
            /\ primary => SqlEventByObject(sql, o) = Nil
            /\ mem' = MemRecordEvent(mem, e, o, primary)
            /\ sql' = SqlRecordEvent(sql, e, o, primary)
            /\ pg' = PgRecordEvent(pg, e, o, primary)
      BY Zenon, <2>1 DEF RecordEvent
    <3>2. primary = Yes => SqlEventByObject(sql, o) = Nil
      BY Zenon, <3>1 DEF Yes
    <3>3. EventsSound(MemRecordEvent(mem, e, o, primary), SqlRecordEvent(sql, e, o, primary), PgRecordEvent(pg, e, o, primary))
      BY <1>1, <3>2, EventRecorded
    <3> QED
      BY Zenon, <3>1, <3>3
  <2>2. CASE DeleteEvent
    BY <1>1, <2>2, EventDeleted DEF DeleteEvent
  <2> QED
    BY <2>1, <2>2
<1> QED
  BY <1>1, <1>2 DEF OneContent

LEMMA ReactionStep == OneContent /\ (RecordReaction \/ ClaimReaction \/ RemoveReaction) => OneContent'
<1> SUFFICES ASSUME OneContent, RecordReaction \/ ClaimReaction \/ RemoveReaction PROVE OneContent'
  OBVIOUS
<1>1. family = "reactions" /\ family' = family /\ ReactionsSound(mem, sql, pg)
  BY DEF OneContent, RecordReaction, ClaimReaction, RemoveReaction
<1>2. ReactionsSound(mem', sql', pg')
  <2>1. CASE RecordReaction
    <3>1. PICK act \in Objects, e \in Events, second \in Events \cup {Nil} :
            /\ SqlReactionByEvent(sql, e) \in {act, Nil}
            /\ act \in DOMAIN sql => sql[act].event = e /\ sql[act].second \in {second, Nil}
            /\ second # Nil => SqlReactionByEvent(sql, second) \in {act, Nil}
            /\ mem' = MemRecordReaction(mem, act, e, second)
            /\ sql' = SqlRecordReaction(sql, act, e, second)
            /\ pg' = PgRecordReaction(pg, act, e, second)
      BY <2>1 DEF RecordReaction
    <3>2. ReactionsSound(MemRecordReaction(mem, act, e, second), SqlRecordReaction(sql, act, e, second),
                         PgRecordReaction(pg, act, e, second))
      BY <1>1, <3>1, ReactionRecorded
    <3> QED
      BY <3>1, <3>2
  <2>2. CASE ClaimReaction
    <3>1. PICK act \in Objects \ DOMAIN sql, e \in Events :
            /\ KeyOf(sql, "second", e) = Nil
            /\ mem' = MemClaimReaction(mem, act, e)
            /\ sql' = SqlClaimReaction(sql, act, e)
            /\ pg' = PgClaimReaction(pg, act, e)
      BY <2>2 DEF ClaimReaction
    <3>2. ReactionsSound(MemClaimReaction(mem, act, e), SqlClaimReaction(sql, act, e), PgClaimReaction(pg, act, e))
      BY <1>1, <3>1, ReactionClaimed
    <3> QED
      BY <3>1, <3>2
  <2>3. CASE RemoveReaction
    BY <1>1, <2>3, ReactionRemoved DEF RemoveReaction
  <2> QED
    BY <2>1, <2>2, <2>3
<1> QED
  BY <1>1, <1>2 DEF OneContent

LEMMA VoteStep == OneContent /\ RecordVote => OneContent'
<1> SUFFICES ASSUME OneContent, RecordVote PROVE OneContent'
  OBVIOUS
<1>1. family = "votes" /\ family' = family /\ VotesSound(mem, sql, pg)
  BY DEF OneContent, RecordVote
<1>2. VotesSound(mem', sql', pg')
  BY <1>1, VoteRecorded DEF RecordVote
<1> QED
  BY <1>1, <1>2 DEF OneContent

LEMMA RelationStep == OneContent /\ Relate => OneContent'
<1> SUFFICES ASSUME OneContent, Relate PROVE OneContent'
  OBVIOUS
<1>1. family = "relations" /\ family' = family /\ RelationsSound(mem, sql, pg)
  BY DEF OneContent, Relate
<1>2. RelationsSound(mem', sql', pg')
  BY <1>1, RelationsAdded, RelationsRemoved DEF Relate
<1> QED
  BY <1>1, <1>2 DEF OneContent

LEMMA WindowStep == OneContent /\ (MarkProcessed \/ Tick) => OneContent'
<1> SUFFICES ASSUME OneContent, MarkProcessed \/ Tick PROVE OneContent'
  OBVIOUS
<1>1. family = "windows" /\ family' = family /\ WindowsSound(mem, sql, pg, clock)
  BY DEF OneContent, MarkProcessed, Tick
<1>2. WindowsSound(mem', sql', pg', clock')
  <2>1. CASE MarkProcessed
    BY <1>1, <2>1, Marked DEF MarkProcessed
  <2>2. CASE Tick
    BY <1>1, <2>2, Ticked DEF Tick
  <2> QED
    BY <2>1, <2>2
<1> QED
  BY <1>1, <1>2 DEF OneContent

LEMMA AllowStep == OneContent /\ SetAllow => OneContent'
<1> SUFFICES ASSUME OneContent, SetAllow PROVE OneContent'
  OBVIOUS
<1>1. family = "allow" /\ family' = family /\ AllowSound(mem, sql, pg)
  BY DEF OneContent, SetAllow
<1>2. AllowSound(mem', sql', pg')
  <2>1. PICK rule \in {"mxid", "homeserver", "room"}, tier \in {"full", "shadow"} :
          \/ mem' = MemSetAllow(mem, rule, tier) /\ sql' = SqlSetAllow(sql, rule, tier) /\ pg' = PgSetAllow(pg, rule, tier)
          \/ mem' = MemBan(mem) /\ sql' = SqlBan(sql) /\ pg' = PgBan(pg)
          \/ mem' = MemRemoveAllow(mem, rule) /\ sql' = SqlRemoveAllow(sql, rule) /\ pg' = PgRemoveAllow(pg, rule)
    BY DEF SetAllow
  <2>2. /\ AllowSound(MemSetAllow(mem, rule, tier), SqlSetAllow(sql, rule, tier), PgSetAllow(pg, rule, tier))
        /\ AllowSound(MemBan(mem), SqlBan(sql), PgBan(pg))
        /\ AllowSound(MemRemoveAllow(mem, rule), SqlRemoveAllow(sql, rule), PgRemoveAllow(pg, rule))
    BY <1>1, AllowSet
  <2> QED
    BY <2>1, <2>2
<1> QED
  BY <1>1, <1>2 DEF OneContent

LEMMA GuildStep == OneContent /\ (GuildJoin \/ GuildShape) => OneContent'
<1> SUFFICES ASSUME OneContent, GuildJoin \/ GuildShape PROVE OneContent'
  OBVIOUS
<1>1. family \in {"guild", "shape"} /\ family' = family /\ GuildSound(mem, sql, pg)
  BY DEF OneContent, GuildJoin, GuildShape
<1>2. GuildSound(mem', sql', pg')
  <2>1. CASE GuildJoin
    BY <1>1, <2>1, PendingSet, MemberSet DEF GuildJoin
  <2>2. CASE GuildShape
    BY <1>1, <2>2, SpaceSet, ChannelsSet DEF GuildShape
  <2> QED
    BY <2>1, <2>2
<1> QED
  BY <1>1, <1>2 DEF OneContent

LEMMA KeyedStep == OneContent /\ (SetValue \/ SetGhostValue \/ SetEmoji) => OneContent'
<1> SUFFICES ASSUME OneContent, SetValue \/ SetGhostValue \/ SetEmoji PROVE OneContent'
  OBVIOUS
<1>1. family \in {"keyed", "ghosts", "emoji"} /\ family' = family /\ KeyedSound(mem, sql, pg)
  BY DEF OneContent, SetValue, SetGhostValue, SetEmoji
<1>2. KeyedSound(mem', sql', pg')
  <2>1. CASE SetValue
    BY <1>1, <2>1, SettingSet, LoginSaved DEF SetValue
  <2>2. CASE SetGhostValue
    BY <1>1, <2>2, BotRoomSet, GhostSet DEF SetGhostValue
  <2>3. CASE SetEmoji
    BY <1>1, <2>3, EmojiSet DEF SetEmoji
  <2> QED
    BY <2>1, <2>2, <2>3
<1> QED
  BY <1>1, <1>2 DEF OneContent

\* So does every step.
LEMMA OneContentNext == OneContent /\ [Next]_vars => OneContent'
<1>1. ASSUME OneContent, UNCHANGED vars PROVE OneContent'
  BY <1>1 DEF OneContent, vars
<1> QED
  BY <1>1, IdentityStep, RoomStep, MirroredStep, HostedStep, EventStep, ReactionStep, VoteStep, RelationStep,
     WindowStep, AllowStep, GuildStep, KeyedStep DEF Next

\* Three stores that hold one content answer alike, and its history follows.
LEMMA OneContentAnswers == OneContent => SameAnswers
<1> SUFFICES ASSUME OneContent PROVE SameAnswers
  OBVIOUS
<1>1. family = "identity" => Alike(MemIdentityAnswers(mem), SqlIdentityAnswers(sql), PgIdentityAnswers(pg))
  BY IdentityAlike DEF OneContent
<1>2. family = "remote" => Alike(MemRemoteAnswers(mem), SqlRemoteAnswers(sql), PgRemoteAnswers(pg))
  BY RemoteAlike DEF OneContent
<1>3. /\ family = "dm" => Alike(MemDmAnswers(mem), SqlDmAnswers(sql), PgDmAnswers(pg))
      /\ family = "chat" => Alike(MemChatAnswers(mem), SqlChatAnswers(sql), PgChatAnswers(pg))
  BY DmAlike DEF OneContent, MemChatAnswers, SqlChatAnswers, PgChatAnswers
<1>4. family = "mirrored" =>
        Alike(MemMirroredAnswers(mem), SqlMirroredAnswers(sql), PgMirroredAnswers(pg)) /\ ChannelsAtRooms
  BY MirroredAlike DEF OneContent, ChannelsAtRooms
<1>5. family = "hosted" => Alike(MemHostedAnswers(mem), SqlHostedAnswers(sql), PgHostedAnswers(pg))
  BY HostedAlike DEF OneContent
<1>6. /\ family = "events" => Alike(MemEventAnswers(mem), SqlEventAnswers(sql), PgEventAnswers(pg))
      /\ family = "reactions" => Alike(MemReactionAnswers(mem), SqlReactionAnswers(sql), PgReactionAnswers(pg))
      /\ family = "votes" => Alike(MemVoteAnswers(mem), SqlVoteAnswers(sql), PgVoteAnswers(pg))
  BY EventsAlike, ReactionsAlike, VotesAlike DEF OneContent
<1>7. family = "relations" => Alike(MemRelationAnswers(mem), SqlRelationAnswers(sql), PgRelationAnswers(pg))
  BY RelationsAlike DEF OneContent
<1>8. family = "windows" => WindowsAgree
  BY WindowsAlike DEF OneContent, WindowsAgree
<1>9. family = "allow" => Alike(MemAllowAnswers(mem), SqlAllowAnswers(sql), PgAllowAnswers(pg))
  BY AllowAlike DEF OneContent
<1>10. /\ family \in {"guild", "shape"} => Alike(MemGuildAnswers(mem), SqlGuildAnswers(sql), PgGuildAnswers(pg))
       /\ family \in {"keyed", "ghosts", "emoji"} => Alike(MemKeyedAnswers(mem), SqlKeyedAnswers(sql), PgKeyedAnswers(pg))
  BY GuildAlike, KeyedAlike DEF OneContent
<1> QED
  BY <1>1, <1>2, <1>3, <1>4, <1>5, <1>6, <1>7, <1>8, <1>9, <1>10 DEF SameAnswers

\* The one content has the history follow the rooms.
LEMMA OneContentHistory == OneContent => HistoryFollows
<1> SUFFICES ASSUME OneContent, family \in {"remote", "dm", "chat"}, NEW k \in DOMAIN sql.rooms
             PROVE  {r \in DOMAIN sql.history : sql.history[r].key = k /\ sql.history[r].current} = {sql.rooms[k].room}
  BY DEF HistoryFollows
<1>1. HistorySound(sql, Actors) \/ HistorySound(sql, Pairs)
  BY DEF OneContent, RemoteSound, DmSound
<1> QED
  BY <1>1, HistoryOfRooms

\* Dictionaries, sqlite tables and Postgres tables that were given the same calls
\* hold one content, family by family (repository.py, sqlite_repository.py and
\* postgres_repository.py implement one protocol).
THEOREM StoresHoldOneContent == Spec => []OneContent
  BY OneContentInit, OneContentNext, PTL DEF Spec

\* After every sequence of calls of any length, on any number of users, rooms,
\* names, events and objects, the in-memory store, the sqlite store and the
\* Postgres store answer every modelled question alike.
THEOREM StoresAnswerAlike == Spec => []SameAnswers
  BY OneContentInit, OneContentNext, OneContentAnswers, PTL DEF Spec

\* The history row that is flagged current is, for every key that has a room, the
\* row of that room and no other: what the partial unique index of the history
\* tables refuses never comes up.
THEOREM HistoryFollowsRooms == Spec => []HistoryFollows
  BY OneContentInit, OneContentNext, OneContentHistory, PTL DEF Spec
================================================================================
