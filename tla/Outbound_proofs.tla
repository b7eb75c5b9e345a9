----------------------------- MODULE Outbound_proofs -----------------------------
(***************************************************************************)
(* Theorems about what local users say on its way out, for any users,      *)
(* identities, rooms, followers, requests, give-ups and restarts: who may  *)
(* be sent what, why an event may become two objects, that a file leaves   *)
(* an encrypted room only when it may, and, once all is handled, that a    *)
(* redacted post is gone and whoever it is for has heard.                  *)
(***************************************************************************)
EXTENDS Outbound, TLAPS, FiniteSetTheorems

Making == {"post", "poll", "reply", "dm", "chat", "vote"}
Early == {"post", "poll"}
Late == {"reply", "dm", "chat"}
Kind(i) == stream[i].kind

-------------------------------------------------------------------------------
(* The inductive invariant. *)

\* Where the requests are.
ProcsSound ==
  /\ \A r \in Requests : proc[r].pc # "idle" =>
       /\ proc[r].at >= 1 /\ proc[r].end <= Len(stream)
       /\ proc[r].at <= proc[r].end + 1
       /\ proc[r].pc # "look" => proc[r].at <= proc[r].end
  /\ waiting # NoRequest => proc[waiting].pc # "idle" /\ proc[waiting].end = batch

\* Events are marked in order.
MarkedInTurn == \A i \in marked : 1..i \subseteq marked

IntakeSound == IntakeTypeOK(Event) /\ InOrder /\ MarkedInTurn /\ ProcsSound

\* What an event is about came before it, and is what it has to be.
StreamSound ==
  \A k \in 1..Len(stream) :
    /\ stream[k].of < k
    /\ Kind(k) = "confirm" => stream[k].of \in warned
    /\ Kind(k) = "close" => Kind(stream[k].of) = "poll"
    /\ Kind(k) = "announce" => stream[stream[k].of].enc

\* The sender's answer, or a sibling's announcement.
Permitted(i) ==
  \E k \in 1..Len(stream) :
    /\ stream[k].of = i
    /\ Kind(k) = "announce" \/ (Kind(k) = "confirm" /\ stream[k].user = stream[i].user)

FilesSound ==
  /\ copied \cup warned \subseteq {i \in 1..Len(stream) : stream[i].enc}
  /\ \A i \in copied : Permitted(i)

\* Objects are made for events, and the row of an event is one of its objects;
\* a post has its row as soon as it has an object.
NotesSound ==
  /\ rows \in [Positions -> Note \cup {NoNote}]
  /\ notes \subseteq Note /\ IsFiniteSet(notes)
  /\ \A n \in notes : /\ n.pos \in 1..Len(stream) /\ Kind(n.pos) \in Making
                      /\ n.actor \in Acting(stream[n.pos])
                      /\ Kind(n.pos) \in Early => Tracked(n.pos)
  /\ \A i \in Positions : Tracked(i) => rows[i] \in Made(i)

\* Who may get what is in n by an act.
MayGet(n, act) ==
  IF Kind(n.pos) \in Private /\ act # "Delete" THEN DmAudience(n.pos) ELSE Inboxes

SentSound ==
  /\ sent \subseteq Activity
  /\ \A d \in sent : /\ d.ev \in 1..Len(stream) /\ d.note \in notes /\ d.by = d.note.actor
                     /\ d.to \in MayGet(d.note, d.act)
                     /\ d.act # "Delete" /\ stream[d.ev].enc => d.ev \in copied
  /\ shown \subseteq {<<d.to, d.note>> : d \in sent}

Work == [pc : {"none", "check", "record", "send", "tally"}, ev : 0..MaxEvents,
         by : Actors \cup {Nobody}, act : {"", "Create", "Update", "Delete"},
         note : Note \cup {NoNote}, todo : SUBSET Inboxes, saw : BOOLEAN]

\* The event a handler took up from another one, the answer to a question or
\* an announcement: it may go out, and was not redacted before.
TakenUp(i, p) ==
  /\ i = stream[p.at].of /\ Kind(p.at) \in {"confirm", "announce"} /\ i \in copied
  /\ \A k \in 1..(p.at - 1) : ~ (Kind(k) = "redact" /\ stream[k].of = i)

\* What a handler that delivers relies on.
Sending(w) ==
  /\ w.note \in notes /\ w.by = w.note.actor /\ w.todo \subseteq MayGet(w.note, w.act)
  /\ w.act = CASE Kind(w.ev) \in Making -> "Create"
               [] Kind(w.ev) = "redact" -> "Delete"
               [] OTHER -> "Update"
  /\ w.note.pos = IF w.act = "Create" THEN w.ev ELSE stream[w.ev].of
  /\ w.act = "Delete" /\ w.note.pos \notin twice =>
       /\ w.note = rows[w.note.pos]
       /\ \A f \in FollowersOf[w.note.actor] : f \in w.todo \/ <<f, w.note>> \notin shown

\* What a handler at w relies on, its request being at p.
Holds(w, p) ==
  /\ w.pc # "none" <=> p.pc = "run"
  /\ w.pc # "none" => w.ev \in 1..Len(stream) /\ (w.ev = p.at \/ TakenUp(w.ev, p))
  /\ w.pc = "check" /\ w.ev # p.at /\ Kind(p.at) = "confirm" =>
       w.ev \in twice \/ ~ Tracked(w.ev)
  /\ w.pc \notin {"none", "check"} =>
       /\ Kind(w.ev) \notin {"confirm", "announce"}
       /\ stream[w.ev].enc => w.ev \in copied
  /\ w.pc = "record" => /\ Kind(w.ev) \in Early /\ w.by \in Acting(stream[w.ev])
                        /\ w.ev \in twice \/ ~ Tracked(w.ev)
  /\ w.pc = "send" => Sending(w)
  /\ w.pc = "tally" => Kind(w.ev) = "vote"

\* Two requests at one event, and one at an event that is marked, are known.
TwiceSound ==
  /\ \A r, q \in Requests :
       r # q /\ Handling(r) /\ Handling(q) /\ Topic(proc[r].at) = Topic(proc[q].at)
         => Topic(proc[r].at) \in twice
  /\ \A r \in Requests : Handling(r) /\ proc[r].at \in marked => Topic(proc[r].at) \in twice

Explained(i) ==
  \/ i \in twice
  \/ Kind(i) \notin Early /\ (i \in cut \/ HasAnnouncement(i))

OnceEach == \A n, m \in notes : n.pos = m.pos /\ n # m => Explained(n.pos)

\* An object was made by a request at its event, or after it.
MadeInTurn ==
  \A n \in notes :
    \/ n.pos \in marked \cup cut
    \/ \E q \in Requests : /\ Handling(q) /\ proc[q].at = n.pos
                           /\ work[q].pc \notin {"check", "record"}

At(q, n) == work[q].pc = "send" /\ work[q].note = n /\ work[q].act = "Create"

\* A reply or message that has an object gets its row.
GetsRow ==
  \A n \in notes : Kind(n.pos) \in Late /\ n.pos \notin cut =>
    Tracked(n.pos) \/ \E q \in Requests : At(q, n)

\* What is said, not answered, and whom it is for.
Statement(i) == Kind(i) \in {"post", "reply", "dm", "chat"} /\ stream[i].of = 0
Hearers(n) == IF Kind(n.pos) = "post" THEN FollowersOf[n.actor] ELSE {"peer"}
Reached(to, n) == \E d \in sent : d.note = n /\ d.to = to /\ d.act = "Create"

GetsSent ==
  \A n \in notes : Statement(n.pos) /\ n.pos \notin cut =>
    \A to \in Hearers(n) :
      Reached(to, n) \/ \E q \in Requests : At(q, n) /\ to \in work[q].todo

\* Whatever may be said and was taken up has an object, or a handler that will
\* make one.
Due(i) == /\ Statement(i) /\ i \notin cut /\ stream[i].user \notin barred
          /\ stream[i].enc => i \in copied
Over(i) == i \in marked \/ \E r \in Requests : proc[r].pc = "mark" /\ proc[r].at = i
GetsMade ==
  \A i \in 1..Len(stream) : Due(i) /\ (Over(i) \/ i \in copied) =>
    \/ Made(i) # {}
    \/ \E r \in Requests : work[r].pc \in {"check", "record"} /\ work[r].ev = i

\* A redaction that was handled has taken its post back.
Back(k) ==
  LET i == stream[k].of
  IN \A n \in Made(i) : n = rows[i] \/ (i \notin cut /\ ~ HasAnnouncement(i)) =>
       \A f \in FollowersOf[n.actor] : <<f, n>> \notin shown
Retracts(k) == /\ Kind(k) = "redact" /\ Kind(stream[k].of) # "vote"
               /\ stream[k].of \notin twice
TakenBack == \A k \in 1..Len(stream) : Retracts(k) /\ Over(k) => Back(k)

AllHold == /\ work \in [Requests -> Work]
           /\ \A r \in Requests : Holds(work[r], proc[r])

IInv ==
  /\ IntakeSound /\ StreamSound /\ FilesSound /\ NotesSound /\ SentSound
  /\ AllHold /\ TwiceSound /\ OnceEach /\ MadeInTurn /\ GetsRow /\ GetsSent /\ GetsMade /\ TakenBack

-------------------------------------------------------------------------------
\* The intake, whatever the handlers do.
Proc == [pc : {"idle", "look", "run", "mark"}, at : 0..MaxEvents + 1, end : 0..MaxEvents]

LEMMA IntakeFacts ==
  ASSUME IntakeSound
  PROVE  /\ MaxRequests \in Nat /\ MaxEvents \in Nat /\ MaxTimeouts \in Nat /\ MaxCrashes \in Nat
         /\ stream \in Seq(Event) /\ Len(stream) \in Nat /\ Len(stream) <= MaxEvents
         /\ acked \in 0..Len(stream) /\ batch \in acked..Len(stream)
         /\ proc \in [Requests -> Proc] /\ marked \subseteq 1..Len(stream)
         /\ NoRequest \notin Requests /\ IdleProc \in Proc
         /\ waiting \in Requests \cup {NoRequest}
         /\ timeouts \in Nat /\ crashes \in Nat
BY IntakeAssumption
   DEF IntakeSound, IntakeTypeOK, Proc, IdleProc, NoRequest, Requests

\* The stream only grows, and what was in it stays.
Grows == /\ stream' \in Seq(Event) /\ Len(stream) <= Len(stream')
         /\ \A i \in 1..Len(stream) : stream'[i] = stream[i]

LEMMA ArriveInv ==
  ASSUME IntakeSound, NEW e \in Event, Arrive(e)
  PROVE  IntakeSound' /\ Grows /\ proc' = proc
<1> USE IntakeFacts
<1>1. /\ stream' = Append(stream, e) /\ Len(stream') = Len(stream) + 1 /\ stream' \in Seq(Event)
      /\ Len(stream) < MaxEvents
      /\ UNCHANGED <<acked, batch, waiting, proc, marked, timeouts, crashes>>
  BY DEF Arrive
<1>2. \A i \in 1..Len(stream) : stream'[i] = stream[i] BY <1>1
<1>3. Grows BY <1>1, <1>2 DEF Grows
<1>4. IntakeTypeOK(Event)' BY <1>1 DEF IntakeSound, IntakeTypeOK, Requests
<1>5. InOrder' /\ MarkedInTurn' BY <1>1 DEF IntakeSound, InOrder, MarkedInTurn, Requests
<1>6. ProcsSound' BY <1>1 DEF IntakeSound, ProcsSound, Proc, Requests
<1> QED BY <1>1, <1>3, <1>4, <1>5, <1>6 DEF IntakeSound

\* A request comes, or goes on: its own entry of proc changes.
LEMMA ProcStep ==
  ASSUME IntakeSound, NEW r \in Requests, NEW p \in Proc,
         proc' = [proc EXCEPT ![r] = p], marked \subseteq marked', marked' \subseteq 1..Len(stream),
         p.pc # "idle" =>
           /\ p.at >= 1 /\ p.end <= Len(stream) /\ p.at <= p.end + 1
           /\ p.pc # "look" => p.at <= p.end
           /\ 1..(p.at - 1) \subseteq marked',
         waiting' # NoRequest => waiting' \in Requests /\ batch' = (IF waiting' = r THEN p.end ELSE batch),
         waiting' = r => p.pc # "idle",
         waiting' \in {waiting, r, NoRequest},
         acked' \in {acked, batch}, 1..acked' \subseteq marked', batch' \in acked'..Len(stream),
         \A i \in marked' : 1..i \subseteq marked',
         UNCHANGED <<stream, timeouts, crashes>>
  PROVE  IntakeSound' /\ Grows /\ \A q \in Requests \ {r} : proc'[q] = proc[q]
<1> USE IntakeFacts
<1>1. proc' \in [Requests -> Proc] BY DEF Proc
<1>2. \A q \in Requests : proc'[q] = IF q = r THEN p ELSE proc[q] BY DEF Proc
<1>3. Grows BY DEF Grows
<1>4. IntakeTypeOK(Event)'
  <2>1. acked' \in 0..Len(stream) /\ waiting' \in Requests' \cup {NoRequest}
    BY DEF Requests
  <2>2. stream' \in Seq(Event) /\ Len(stream') <= MaxEvents /\ Len(stream') = Len(stream) OBVIOUS
  <2>3. timeouts' \in 0..MaxTimeouts /\ crashes' \in 0..MaxCrashes
    BY DEF IntakeSound, IntakeTypeOK
  <2> QED BY <1>1, <2>1, <2>2, <2>3 DEF IntakeTypeOK, Proc, Requests
<1>5. InOrder' /\ MarkedInTurn'
  BY <1>1, <1>2 DEF IntakeSound, InOrder, MarkedInTurn, Requests
<1>6. ProcsSound' BY <1>1, <1>2 DEF IntakeSound, ProcsSound, Proc, Requests
<1> QED BY <1>2, <1>3, <1>4, <1>5, <1>6 DEF IntakeSound

LEMMA RequestsInv ==
  ASSUME IntakeSound, NEW r \in Requests, Send(r) \/ Skip(r) \/ Begin(r) \/ Mark(r) \/ Reply(r)
                                          \/ (End(r) /\ proc[r].pc = "run")
  PROVE  /\ IntakeSound' /\ Grows /\ stream' = stream
         /\ \A q \in Requests \ {r} : proc'[q] = proc[q]
         /\ proc[r].pc = "run" => End(r)
         /\ Begin(r) => proc'[r] = [proc[r] EXCEPT !.pc = "run"]
         /\ ~ Begin(r) => proc'[r].pc # "run"
<1> USE IntakeFacts
<1> DEFINE p == proc[r]
<1>0. p \in Proc /\ r # NoRequest /\ r \in Nat BY DEF Requests
<1>1. p.pc # "idle" =>
        /\ p.at >= 1 /\ p.end <= Len(stream) /\ p.at <= p.end + 1
        /\ p.pc # "look" => p.at <= p.end
        /\ 1..(p.at - 1) \subseteq marked
  BY DEF IntakeSound, ProcsSound, InOrder
<1>2. waiting = r => p.pc # "idle" /\ p.end = batch BY <1>0 DEF IntakeSound, ProcsSound
<1>3. 1..acked \subseteq marked /\ \A i \in marked : 1..i \subseteq marked
  BY DEF IntakeSound, InOrder, MarkedInTurn
<1>4. CASE Send(r)
  <2>1. batch' \in (acked + 1)..Len(stream) /\ proc' = [proc EXCEPT ![r] = [pc |-> "look", at |-> acked + 1, end |-> batch']]
    <3>1. batch' \in IF batch > acked THEN {batch} ELSE (acked + 1)..Len(stream) BY <1>4 DEF Send
    <3>2. batch \in Nat /\ acked \in Nat /\ batch <= Len(stream) OBVIOUS
    <3>3. batch' \in (acked + 1)..Len(stream) BY <3>1, <3>2
    <3> QED BY <1>4, <3>3 DEF Send
  <2>2. /\ waiting = NoRequest /\ waiting' = r /\ p.pc = "idle"
        /\ UNCHANGED <<stream, acked, marked, timeouts, crashes>>
    BY <1>0, <1>4 DEF Send, Requests
  <2>3. PICK q \in Proc : q = [pc |-> "look", at |-> acked + 1, end |-> batch']
    <3>1. batch' \in 0..MaxEvents /\ acked + 1 \in 0..MaxEvents + 1 BY <2>1
    <3> QED BY <3>1 DEF Proc
  <2>4. /\ q.pc = "look" /\ q.at = acked + 1 /\ q.end = batch'
        /\ proc' = [proc EXCEPT ![r] = q]
    BY <2>1, <2>3
  <2>5. /\ q.at >= 1 /\ q.end <= Len(stream) /\ q.at <= q.end + 1
        /\ 1..(q.at - 1) \subseteq marked'
    BY <1>3, <2>1, <2>2, <2>4
  <2>6. proc'[r] = q BY <2>4
  <2>7. acked' = acked /\ batch' \in acked'..Len(stream) /\ 1..acked' \subseteq marked'
    BY <1>3, <2>1, <2>2
  <2>8. /\ IntakeSound' /\ Grows /\ \A x \in Requests \ {r} : proc'[x] = proc[x]
    BY <1>0, <1>3, <2>1, <2>2, <2>4, <2>5, <2>7, ProcStep
  <2> QED BY <2>2, <2>4, <2>6, <2>8 DEF Begin, Looking
<1>5. ASSUME Skip(r) \/ Begin(r) \/ Mark(r) \/ (End(r) /\ p.pc = "run"),
             NEW q \in Proc, proc' = [proc EXCEPT ![r] = q],
             q.pc # "idle" /\ q.end = p.end /\ q.at \in {p.at, p.at + 1},
             q.at = p.at + 1 => p.at \in marked' /\ p.at <= p.end,
             q.pc # "look" => q.at <= q.end,
             marked' = marked \/ (p.pc = "mark" /\ marked' = marked \cup {p.at}),
             marked \subseteq marked', marked' \subseteq 1..Len(stream), p.pc # "idle"
      PROVE  IntakeSound' /\ Grows /\ \A x \in Requests \ {r} : proc'[x] = proc[x]
  <2>1. UNCHANGED <<stream, acked, batch, waiting, timeouts, crashes>>
    BY <1>5 DEF Skip, Begin, Mark, End
  <2>2. 1..(q.at - 1) \subseteq marked'
    <3>1. p.at \in Nat /\ 1..(p.at - 1) \subseteq marked' BY <1>0, <1>1, <1>5 DEF Proc
    <3>2. CASE q.at = p.at BY <3>1, <3>2
    <3>3. CASE q.at = p.at + 1
      <4>1. \A i \in 1..(q.at - 1) : i \in 1..(p.at - 1) \/ i = p.at BY <3>1, <3>3
      <4> QED BY <1>5, <3>1, <3>3, <4>1
    <3> QED BY <1>5, <3>2, <3>3
  <2>3. q.at >= 1 /\ q.end <= Len(stream) /\ q.at <= q.end + 1
    BY <1>0, <1>1, <1>5 DEF Proc
  <2>4. 1..acked' \subseteq marked' /\ batch' \in acked'..Len(stream) BY <1>3, <1>5, <2>1
  <2>5. \A i \in marked' : 1..i \subseteq marked'
    <3>1. 1..(p.at - 1) \subseteq marked /\ p.at \in Nat BY <1>0, <1>1, <1>5 DEF Proc
    <3>2. 1..p.at \subseteq marked \cup {p.at} BY <3>1
    <3> QED BY <1>3, <1>5, <3>2
  <2> QED BY <1>0, <1>2, <1>5, <2>1, <2>2, <2>3, <2>4, <2>5, ProcStep
<1>6. CASE Skip(r)
  <2>1. p.pc = "look" /\ p.at <= p.end /\ p.at \in marked /\ UNCHANGED <<stream, marked>>
    BY <1>6 DEF Skip, Looking, IsProcessed
  <2>0. p.at + 1 \in 0..MaxEvents + 1 BY <1>0, <2>1 DEF Proc
  <2>2. PICK q \in Proc : q = [p EXCEPT !.at = p.at + 1] BY <1>0, <2>0 DEF Proc
  <2>3. q.pc = p.pc /\ q.end = p.end /\ q.at = p.at + 1 /\ proc' = [proc EXCEPT ![r] = q]
    BY <1>0, <1>6, <2>2 DEF Skip, Proc
  <2>4. proc'[r] = q BY <2>3
  <2> QED BY <1>5, <1>6, <2>1, <2>3, <2>4 DEF Begin, IsProcessed
<1>7. CASE Begin(r)
  <2>1. p.pc = "look" /\ p.at <= p.end /\ UNCHANGED <<stream, marked>>
    BY <1>7 DEF Begin, Looking
  <2>2. PICK q \in Proc : q = [p EXCEPT !.pc = "run"] BY <1>0 DEF Proc
  <2>3. q.pc = "run" /\ q.end = p.end /\ q.at = p.at /\ proc' = [proc EXCEPT ![r] = q]
    BY <1>0, <1>7, <2>2 DEF Begin, Proc
  <2>4. proc'[r] = q BY <2>3
  <2>5. p.at + 1 # p.at BY <1>0 DEF Proc
  <2> QED BY <1>5, <1>7, <2>1, <2>2, <2>3, <2>4, <2>5
<1>8. CASE End(r) /\ p.pc = "run"
  <2>1. p.at <= p.end /\ UNCHANGED <<stream, marked>> BY <1>1, <1>8 DEF End
  <2>2. PICK q \in Proc : q = [p EXCEPT !.pc = "mark"] BY <1>0 DEF Proc
  <2>3. q.pc = "mark" /\ q.end = p.end /\ q.at = p.at /\ proc' = [proc EXCEPT ![r] = q]
    BY <1>0, <1>8, <2>2 DEF End, Proc
  <2>4. proc'[r] = q BY <2>3
  <2>5. p.at + 1 # p.at BY <1>0 DEF Proc
  <2> QED BY <1>5, <1>8, <2>1, <2>3, <2>4, <2>5 DEF Begin, Looking
<1>9. CASE Mark(r)
  <2>1. /\ p.pc = "mark" /\ p.at >= 1 /\ p.at <= p.end /\ p.end <= Len(stream)
        /\ stream' = stream /\ marked' = marked \cup {p.at}
    BY <1>1, <1>9 DEF Mark
  <2>0. p.at + 1 \in 0..MaxEvents + 1 BY <1>0, <2>1 DEF Proc
  <2>2. PICK q \in Proc : q = [p EXCEPT !.pc = "look", !.at = p.at + 1] BY <1>0, <2>0 DEF Proc
  <2>3. q.pc = "look" /\ q.end = p.end /\ q.at = p.at + 1 /\ proc' = [proc EXCEPT ![r] = q]
    BY <1>0, <1>9, <2>2 DEF Mark, Proc
  <2>4. proc'[r] = q BY <2>3
  <2>5. marked' \subseteq 1..Len(stream) BY <1>0, <2>1 DEF Proc
  <2> QED BY <1>5, <1>9, <2>1, <2>3, <2>4, <2>5 DEF Begin, Looking
<1>10. CASE Reply(r)
  <2>1. /\ p.pc = "look" /\ p.at > p.end /\ proc' = [proc EXCEPT ![r] = IdleProc]
        /\ UNCHANGED <<stream, batch, marked, timeouts, crashes>>
        /\ IF waiting = r THEN acked' = batch /\ waiting' = NoRequest ELSE UNCHANGED <<acked, waiting>>
    BY <1>10 DEF Reply
  <2>2. waiting = r => 1..batch \subseteq marked BY <1>0, <1>1, <1>2, <2>1 DEF Proc
  <2>3. IdleProc.pc = "idle" BY DEF IdleProc
  <2>4. acked' \in {acked, batch} /\ 1..acked' \subseteq marked' /\ batch' \in acked'..Len(stream)
    BY <1>3, <2>1, <2>2
  <2>5. waiting' # r /\ waiting' \in {waiting, NoRequest}
    BY <1>0, <2>1
  <2>6. /\ IntakeSound' /\ Grows /\ \A x \in Requests \ {r} : proc'[x] = proc[x]
    BY <1>3, <2>1, <2>3, <2>4, <2>5, ProcStep
  <2>7. proc'[r] = IdleProc BY <2>1
  <2> QED BY <2>1, <2>3, <2>6, <2>7 DEF Begin, Looking
<1> QED BY <1>4, <1>6, <1>7, <1>8, <1>9, <1>10

LEMMA GiveUpInv ==
  ASSUME IntakeSound, GiveUp
  PROVE  IntakeSound' /\ Grows /\ proc' = proc /\ stream' = stream
<1> USE IntakeFacts
<1>1. /\ waiting' = NoRequest /\ timeouts' = timeouts + 1 /\ timeouts < MaxTimeouts
      /\ UNCHANGED <<stream, acked, batch, proc, marked, crashes>>
  BY DEF GiveUp
<1>2. timeouts' \in 0..MaxTimeouts BY <1>1
<1>3. IntakeTypeOK(Event)' BY <1>1, <1>2 DEF IntakeSound, IntakeTypeOK, Requests
<1>4. InOrder' /\ MarkedInTurn' /\ ProcsSound'
  BY <1>1 DEF IntakeSound, InOrder, MarkedInTurn, ProcsSound, Requests
<1> QED BY <1>1, <1>3, <1>4 DEF IntakeSound, Grows

LEMMA CrashInv ==
  ASSUME IntakeSound, Crash
  PROVE  IntakeSound' /\ Grows /\ stream' = stream /\ proc' = [r \in Requests |-> IdleProc]
<1> USE IntakeFacts
<1>1. /\ waiting' = NoRequest /\ crashes' = crashes + 1 /\ crashes < MaxCrashes
      /\ proc' = [r \in Requests |-> IdleProc]
      /\ UNCHANGED <<stream, acked, batch, marked, timeouts>>
  BY DEF Crash
<1>2. crashes' \in 0..MaxCrashes BY <1>1
<1>3. proc' \in [Requests' -> Proc] BY <1>1 DEF Requests
<1>4. IntakeTypeOK(Event)' BY <1>1, <1>2, <1>3 DEF IntakeSound, IntakeTypeOK, Requests, Proc
<1>5. \A r \in Requests : proc'[r].pc = "idle" BY <1>1 DEF IdleProc
<1>6. InOrder' /\ MarkedInTurn' /\ ProcsSound'
  BY <1>1, <1>5 DEF IntakeSound, InOrder, MarkedInTurn, ProcsSound, Requests
<1> QED BY <1>1, <1>4, <1>6 DEF IntakeSound, Grows

-------------------------------------------------------------------------------
(* What the invariant says of one request, one event, one object. *)

LEMMA Facts ==
  ASSUME IInv
  PROVE  /\ IntakeSound /\ StreamSound /\ FilesSound /\ NotesSound /\ SentSound
         /\ AllHold /\ work \in [Requests -> Work] /\ TwiceSound /\ OnceEach /\ MadeInTurn
         /\ GetsRow /\ GetsSent /\ GetsMade /\ TakenBack
         /\ \A r \in Requests : Holds(work[r], proc[r]) /\ work[r] \in Work /\ proc[r] \in Proc
BY IntakeFacts DEF IInv, AllHold

\* An event of the stream is one, and is about an earlier one.
LEMMA EventFacts ==
  ASSUME IntakeSound, StreamSound, NEW i \in 1..Len(stream)
  PROVE  /\ i \in Positions /\ i \in Nat /\ stream[i] \in Event
         /\ stream[i].of \in 0..(i - 1) /\ Kind(i) \in Kinds /\ stream[i].user \in Users
         /\ Kind(i) \in Referring => stream[i].of \in 1..Len(stream)
         /\ stream[i].enc => Kind(i) \in Filed
<1>1. /\ stream \in Seq(Event) /\ Len(stream) \in Nat /\ Len(stream) <= MaxEvents /\ MaxEvents \in Nat
  BY IntakeFacts
<1>2. i \in Positions /\ i \in Nat /\ stream[i] \in Event BY <1>1 DEF Positions
<1>3. /\ stream[i].of \in 0..MaxEvents /\ Kind(i) \in Kinds /\ stream[i].user \in Users
      /\ Kind(i) \in Referring => stream[i].of # 0
      /\ stream[i].enc => Kind(i) \in Filed
  BY <1>2 DEF Event, Kind
<1>4. stream[i].of < i BY DEF StreamSound
<1>5. stream[i].of \in 0..(i - 1) BY <1>1, <1>2, <1>3, <1>4
<1>6. Kind(i) \in Referring => stream[i].of \in 1..Len(stream) BY <1>1, <1>2, <1>3, <1>5
<1> QED BY <1>2, <1>3, <1>5, <1>6

\* A request that handles an event is at one of the stream, and those before
\* it are marked.
LEMMA AtFacts ==
  ASSUME IInv, NEW r \in Requests, Handling(r)
  PROVE  /\ proc[r].at \in 1..Len(stream) /\ proc[r].at \in Nat
         /\ 1..(proc[r].at - 1) \subseteq marked
         /\ \A i \in 1..Len(stream) : i < proc[r].at => i \in marked
<1>1. proc[r] \in Proc /\ Len(stream) \in Nat BY Facts, IntakeFacts
<1>2. /\ proc[r].at >= 1 /\ proc[r].end <= Len(stream) /\ proc[r].at <= proc[r].end
      /\ 1..(proc[r].at - 1) \subseteq marked
  BY <1>1, Facts DEF IntakeSound, ProcsSound, InOrder, Handling, Proc
<1>3. proc[r].at \in Nat /\ proc[r].at \in 1..Len(stream) BY <1>1, <1>2 DEF Proc
<1> QED BY <1>2, <1>3

\* What a running handler is at, and what that is about.
LEMMA EvFacts ==
  ASSUME IInv, NEW r \in Requests, work[r].pc # "none"
  PROVE  /\ proc[r].pc = "run" /\ Handling(r) /\ work[r].ev \in 1..Len(stream)
         /\ work[r].ev = proc[r].at \/ TakenUp(work[r].ev, proc[r])
         /\ work[r].ev # proc[r].at =>
              /\ Topic(proc[r].at) = work[r].ev /\ Kind(work[r].ev) \in Filed
              /\ work[r].ev < proc[r].at /\ work[r].ev \in copied
         /\ Kind(work[r].ev) \notin {"confirm", "announce"} => Topic(proc[r].at) = work[r].ev
         /\ Kind(proc[r].at) \notin {"confirm", "announce"} => work[r].ev = proc[r].at
<1>1. Holds(work[r], proc[r]) BY Facts
<1>2. /\ proc[r].pc = "run" /\ Handling(r) /\ work[r].ev \in 1..Len(stream)
      /\ work[r].ev = proc[r].at \/ TakenUp(work[r].ev, proc[r])
  BY <1>1 DEF Holds, Handling
<1>3. proc[r].at \in 1..Len(stream) /\ stream[proc[r].at].of \in 0..(proc[r].at - 1) /\ proc[r].at \in Nat
  BY <1>2, AtFacts, EventFacts, Facts
<1>4. ASSUME work[r].ev # proc[r].at
      PROVE  /\ Topic(proc[r].at) = work[r].ev /\ Kind(work[r].ev) \in Filed
             /\ work[r].ev < proc[r].at /\ work[r].ev \in copied
             /\ Kind(proc[r].at) \in {"confirm", "announce"}
  <2>1. TakenUp(work[r].ev, proc[r]) BY <1>2, <1>4
  <2>2. /\ work[r].ev = stream[proc[r].at].of /\ Kind(proc[r].at) \in {"confirm", "announce"}
        /\ work[r].ev \in copied
    BY <2>1 DEF TakenUp
  <2>3. stream[work[r].ev].enc BY <2>2, Facts DEF FilesSound
  <2> QED BY <1>2, <1>3, <2>2, <2>3, EventFacts, Facts DEF Topic, Kind
<1>5. Kind(work[r].ev) \notin {"confirm", "announce"} => Topic(proc[r].at) = work[r].ev
  BY <1>4 DEF Topic, Kind
<1> QED BY <1>2, <1>4, <1>5

\* Two handlers of one event are known.
LEMMA BothKnown ==
  ASSUME IInv, NEW r \in Requests, NEW q \in Requests, r # q, work[r].pc # "none",
         work[q].pc # "none", work[r].ev = work[q].ev,
         Kind(work[r].ev) \notin {"confirm", "announce"}
  PROVE  work[r].ev \in twice
BY EvFacts, Facts DEF TwiceSound

\* Objects are made for events that are there, for those who speak there.
LEMMA NoteFacts ==
  ASSUME IInv, NEW n \in notes
  PROVE  /\ n \in Note /\ n # NoNote /\ n.pos \in 1..Len(stream) /\ n.pos \in Positions
         /\ Kind(n.pos) \in Making /\ Kind(n.pos) \notin {"confirm", "announce", "redact"}
         /\ n.actor \in Actors /\ n.actor \in Acting(stream[n.pos])
<1>1. /\ n \in Note /\ n.pos \in 1..Len(stream) /\ Kind(n.pos) \in Making
      /\ n.actor \in Acting(stream[n.pos])
  BY Facts DEF NotesSound
<1>2. n.pos \in Positions /\ n.actor \in Actors BY <1>1 DEF Note
<1>3. n # NoNote
  <2>1. n.pos # 0 BY <1>2, IntakeAssumption DEF Positions
  <2> QED BY <2>1 DEF NoNote
<1> QED BY <1>1, <1>2, <1>3 DEF Making

\* The row of an event names one of its objects.
LEMMA RowFacts ==
  ASSUME IInv, NEW i \in Positions, Tracked(i)
  PROVE  rows[i] \in notes /\ rows[i].pos = i /\ i \in 1..Len(stream) /\ Kind(i) \in Making
<1>1. rows[i] \in notes /\ rows[i].pos = i BY Facts DEF NotesSound, Made
<1> QED BY <1>1, NoteFacts

\* Once a redaction is being handled nobody is at its post any more, unless
\* two were at it before.
LEMMA Settled ==
  ASSUME IInv, NEW k \in 1..Len(stream), Kind(k) = "redact",
         k \in marked \/ \E r \in Requests : Handling(r) /\ proc[r].at = k,
         Kind(stream[k].of) \notin {"confirm", "announce"}, stream[k].of \notin twice,
         NEW q \in Requests, work[q].pc # "none"
  PROVE  work[q].ev # stream[k].of
<1> DEFINE i == stream[k].of
<1>1. i \in 1..Len(stream) /\ i < k /\ k \in Nat
  BY EventFacts, Facts DEF Referring
<1>2. 1..(k - 1) \subseteq marked
  <2>1. CASE k \in marked
    <3>1. 1..k \subseteq marked BY <2>1, Facts DEF IntakeSound, MarkedInTurn
    <3> QED BY <1>1, <3>1
  <2>2. CASE \E r \in Requests : Handling(r) /\ proc[r].at = k BY <2>2, AtFacts
  <2> QED BY <2>1, <2>2
<1> SUFFICES ASSUME work[q].ev = i PROVE FALSE OBVIOUS
<1>3. /\ Handling(q) /\ Topic(proc[q].at) = i /\ proc[q].at \in Nat
      /\ work[q].ev = proc[q].at \/ TakenUp(work[q].ev, proc[q])
  BY EvFacts, AtFacts
<1>4. proc[q].at \notin marked BY <1>3, Facts DEF TwiceSound
<1>5. ~ (proc[q].at < k) BY <1>1, <1>2, <1>3, <1>4, AtFacts
<1>6. proc[q].at # i BY <1>1, <1>5
<1>7. TakenUp(i, proc[q]) BY <1>3, <1>6
<1>8. proc[q].at # k BY <1>7 DEF TakenUp
<1>9. k \in 1..(proc[q].at - 1) BY <1>1, <1>3, <1>5, <1>8
<1> QED BY <1>7, <1>9 DEF TakenUp

-------------------------------------------------------------------------------
(* What a step leaves as it is. *)

LEMMA StreamStays ==
  ASSUME IInv, Grows, NEW i \in 1..Len(stream)
  PROVE  /\ i \in 1..Len(stream') /\ stream'[i] = stream[i] /\ Kind(i)' = Kind(i)
         /\ Topic(i)' = Topic(i)
         /\ HasAnnouncement(i) => HasAnnouncement(i)'
         /\ Permitted(i) => Permitted(i)'
<1>1. Len(stream) \in Nat /\ Len(stream') \in Nat BY Facts, IntakeFacts DEF Grows
<1>2. \A k \in 1..Len(stream) : k \in 1..Len(stream') /\ stream'[k] = stream[k]
  BY <1>1 DEF Grows
<1> QED BY <1>2 DEF Kind, Topic, HasAnnouncement, Permitted

LEMMA ExplainedStays ==
  ASSUME IInv, Grows, twice \subseteq twice', cut \subseteq cut',
         NEW i \in 1..Len(stream), Explained(i)
  PROVE  Explained(i)'
BY StreamStays DEF Explained

LEMMA SentStays ==
  ASSUME IInv, Grows, copied \subseteq copied', notes \subseteq notes', UNCHANGED <<sent, shown>>
  PROVE  SentSound'
<1>1. NotesSound /\ SentSound BY Facts
<1>2. \A n \in notes : n.pos \in 1..Len(stream) BY <1>1 DEF NotesSound
<1> SUFFICES ASSUME NEW d \in sent
             PROVE  /\ d.ev \in 1..Len(stream') /\ d.note \in notes' /\ d.by = d.note.actor
                    /\ MayGet(d.note, d.act)' = MayGet(d.note, d.act)
                    /\ d.act # "Delete" /\ stream'[d.ev].enc => d.ev \in copied'
  BY <1>1 DEF SentSound, Activity, Positions
<1>3. /\ d.ev \in 1..Len(stream) /\ d.note \in notes /\ d.by = d.note.actor
      /\ d.act # "Delete" /\ stream[d.ev].enc => d.ev \in copied
  BY <1>1 DEF SentSound
<1>4. MayGet(d.note, d.act)' = MayGet(d.note, d.act)
  BY <1>2, <1>3, StreamStays DEF MayGet, DmAudience, Mentioned
<1> QED BY <1>3, <1>4, StreamStays

LEMMA DataStays ==
  ASSUME IInv, Grows, copied \subseteq copied', UNCHANGED <<rows, notes, sent, shown>>
  PROVE  NotesSound' /\ SentSound'
<1>1. NotesSound /\ SentSound BY Facts
<1>2. \A n \in notes : n.pos \in 1..Len(stream) BY <1>1 DEF NotesSound
<1>3. NotesSound'
  <2>1. \A n \in notes : /\ n.pos \in 1..Len(stream') /\ Kind(n.pos)' = Kind(n.pos)
                         /\ stream'[n.pos] = stream[n.pos]
    BY <1>2, StreamStays
  <2>2. \A a, e : Acting(e)' = Acting(e) BY DEF Acting
  <2> QED BY <1>1, <2>1, <2>2 DEF NotesSound, Tracked, Made, Positions, Acting
<1>4. SentSound' BY SentStays
<1> QED BY <1>3, <1>4

\* What a handler relies on is not taken back by another one.
LEMMA HoldsStays ==
  ASSUME IInv, Grows, copied \subseteq copied', twice \subseteq twice', notes \subseteq notes',
         NEW q \in Requests, NEW w, NEW p, w = work[q], p = proc[q],
         \A i \in Positions : rows'[i] # rows[i] /\ w.pc # "none" =>
           i \in twice' \/ (w.ev # i /\ (w.pc = "send" /\ w.act = "Delete" => w.note.pos # i)),
         \A x \in shown' \ shown : w.pc = "send" /\ w.act = "Delete" /\ w.note = x[2] =>
           w.note.pos \in twice'
  PROVE  Holds(w, p)'
<1>1. Holds(w, p) /\ IntakeSound /\ StreamSound BY Facts
<1>2. w.pc # "none" =>
        /\ w.ev \in 1..Len(stream) /\ p.at \in 1..Len(stream) /\ w.ev \in Positions
        /\ p.at \in Nat /\ Len(stream) \in Nat
  BY <1>1, EvFacts, AtFacts, EventFacts, IntakeFacts
<1>3. w.pc # "none" /\ TakenUp(w.ev, p) => TakenUp(w.ev, p)'
  <2> HAVE w.pc # "none" /\ TakenUp(w.ev, p)
  <2>1. \A k \in 1..(p.at - 1) : k \in 1..Len(stream) BY <1>2
  <2> QED BY <1>2, <2>1, StreamStays DEF TakenUp
<1>4. w.pc # "none" /\ (w.ev \in twice \/ ~ Tracked(w.ev)) => (w.ev \in twice' \/ ~ Tracked(w.ev)')
  BY <1>2 DEF Tracked
<1>5. w.pc = "send" => Sending(w)'
  <2> HAVE w.pc = "send"
  <2>1. /\ Sending(w) /\ w.note \in notes /\ w.note.pos \in 1..Len(stream)
        /\ w.note.pos \in Positions
    BY <1>1, NoteFacts DEF Holds, Sending
  <2>2. MayGet(w.note, w.act)' = MayGet(w.note, w.act)
    BY <2>1, StreamStays DEF MayGet, DmAudience, Mentioned
  <2>3. /\ Kind(w.ev)' = Kind(w.ev) /\ stream'[w.ev] = stream[w.ev] BY <1>2, StreamStays
  <2>4. ASSUME w.act = "Delete", w.note.pos \notin twice'
        PROVE  /\ w.note = rows'[w.note.pos]
               /\ \A f \in FollowersOf[w.note.actor] : f \in w.todo \/ <<f, w.note>> \notin shown'
    <3>1. /\ w.note = rows[w.note.pos]
          /\ \A f \in FollowersOf[w.note.actor] : f \in w.todo \/ <<f, w.note>> \notin shown
      BY <2>1, <2>4 DEF Sending
    <3>2. rows'[w.note.pos] = rows[w.note.pos] BY <2>1, <2>4
    <3>3. \A f : <<f, w.note>> \notin shown' \ shown BY <2>4
    <3> QED BY <3>1, <3>2, <3>3
  <2> QED BY <2>1, <2>2, <2>3, <2>4 DEF Sending
<1>6. w.pc # "none" => Kind(w.ev)' = Kind(w.ev) /\ stream'[w.ev] = stream[w.ev] /\ Kind(p.at)' = Kind(p.at)
  BY <1>2, StreamStays
<1>7. w.pc # "none" => w.ev \in 1..Len(stream') /\ (w.ev = p.at \/ TakenUp(w.ev, p)')
  BY <1>1, <1>2, <1>3, StreamStays DEF Holds
<1>8. w.pc \notin {"none", "check"} =>
        /\ Kind(w.ev)' \notin {"confirm", "announce"}
        /\ stream'[w.ev].enc => w.ev \in copied'
  BY <1>1, <1>6 DEF Holds
<1>9. w.pc = "record" => /\ Kind(w.ev)' \in Early /\ w.by \in Acting(stream'[w.ev])
                         /\ w.ev \in twice' \/ ~ Tracked(w.ev)'
  BY <1>1, <1>4, <1>6 DEF Holds
<1>10. w.pc = "check" /\ w.ev # p.at /\ Kind(p.at)' = "confirm" => w.ev \in twice' \/ ~ Tracked(w.ev)'
  BY <1>1, <1>4, <1>6 DEF Holds
<1>11. w.pc = "tally" => Kind(w.ev)' = "vote" BY <1>1, <1>6 DEF Holds
<1>12. w.pc # "none" <=> p.pc = "run" BY <1>1 DEF Holds
<1> QED BY <1>5, <1>7, <1>8, <1>9, <1>10, <1>11, <1>12 DEF Holds, Acting

LEMMA TwiceStays ==
  ASSUME IInv, Grows, twice \subseteq twice', marked' = marked,
         \A q \in Requests : Handling(q)' => Handling(q) /\ proc'[q].at = proc[q].at
  PROVE  TwiceSound'
<1>1. TwiceSound BY Facts
<1>2. \A q \in Requests : Handling(q)' =>
        /\ Handling(q) /\ proc'[q].at = proc[q].at /\ Topic(proc[q].at)' = Topic(proc[q].at)
  BY AtFacts, StreamStays
<1>3. \A i \in 1..Len(stream) : Topic(i)' = Topic(i) BY StreamStays
<1> QED BY <1>1, <1>2, <1>3, AtFacts DEF TwiceSound, Requests, Topic

\* A step that neither makes, sends nor records anything.
LEMMA SaidStays ==
  ASSUME IInv, Grows, UNCHANGED <<rows, notes, sent, shown>>,
         twice \subseteq twice', cut \subseteq cut', marked \subseteq marked',
         \A q \in Requests : work[q].pc = "send" =>
           \/ work'[q] = work[q]
           \/ work[q].ev \in cut'
           \/ work[q].todo = {} /\ Kind(work[q].ev) \notin Late,
         \A q \in Requests : Handling(q) /\ work[q].pc \notin {"check", "record"} =>
           \/ proc[q].at \in marked'
           \/ Topic(proc[q].at) \in cut'
           \/ Handling(q)' /\ proc'[q].at = proc[q].at /\ work'[q].pc \notin {"check", "record"}
  PROVE  OnceEach' /\ MadeInTurn' /\ GetsRow' /\ GetsSent'
<1>1. OnceEach /\ MadeInTurn /\ GetsRow /\ GetsSent BY Facts
<1>2. \A n \in notes : /\ n.pos \in 1..Len(stream) /\ Kind(n.pos)' = Kind(n.pos)
                       /\ stream'[n.pos] = stream[n.pos] /\ n.pos \in Positions
                       /\ Kind(n.pos) \in Making
  BY NoteFacts, StreamStays
<1>3. OnceEach' BY <1>1, <1>2, ExplainedStays DEF OnceEach
<1>4. MadeInTurn'
  <2> SUFFICES ASSUME NEW n \in notes
               PROVE  \/ n.pos \in marked' \cup cut'
                      \/ \E q \in Requests : /\ Handling(q)' /\ proc'[q].at = n.pos
                                             /\ work'[q].pc \notin {"check", "record"}
    BY DEF MadeInTurn, Requests, Handling
  <2>1. CASE n.pos \in marked \cup cut BY <2>1
  <2>2. CASE \E q \in Requests : /\ Handling(q) /\ proc[q].at = n.pos
                                 /\ work[q].pc \notin {"check", "record"}
    <3>1. Topic(n.pos) = n.pos BY NoteFacts DEF Topic, Kind
    <3> QED BY <2>2, <3>1
  <2> QED BY <1>1, <2>1, <2>2 DEF MadeInTurn
<1>5. ASSUME NEW q \in Requests, NEW n \in notes, At(q, n), n.pos \notin cut'
      PROVE  \/ At(q, n)' /\ work'[q] = work[q]
             \/ work[q].todo = {} /\ Kind(n.pos) \notin Late
  <2>1. work[q].ev = n.pos /\ work[q].pc = "send"
    <3>1. Holds(work[q], proc[q]) BY Facts
    <3> QED BY <1>5, <3>1 DEF At, Holds, Sending
  <2> QED BY <1>5, <2>1 DEF At
<1>6. GetsRow'
  <2> SUFFICES ASSUME NEW n \in notes, Kind(n.pos) \in Late, n.pos \notin cut'
               PROVE  Tracked(n.pos)' \/ \E q \in Requests : At(q, n)'
    BY <1>2 DEF GetsRow, Requests
  <2>1. Tracked(n.pos) \/ \E q \in Requests : At(q, n) BY <1>1 DEF GetsRow
  <2>2. Tracked(n.pos) => Tracked(n.pos)' BY DEF Tracked
  <2> QED BY <1>5, <2>1, <2>2
<1>7. GetsSent'
  <2> SUFFICES ASSUME NEW n \in notes, Statement(n.pos), n.pos \notin cut', NEW to \in Hearers(n)
               PROVE  Reached(to, n) \/ \E q \in Requests : At(q, n)' /\ to \in work'[q].todo
    BY <1>2 DEF GetsSent, Requests, Statement, Hearers, Reached
  <2>1. Reached(to, n) \/ \E q \in Requests : At(q, n) /\ to \in work[q].todo
    BY <1>1 DEF GetsSent
  <2> QED BY <1>5, <2>1
<1> QED BY <1>3, <1>4, <1>6, <1>7

LEMMA DueStays ==
  ASSUME IInv, Grows, cut \subseteq cut', barred \subseteq barred', copied' = copied,
         NEW i \in 1..Len(stream), Due(i)'
  PROVE  Due(i)
BY StreamStays DEF Due, Statement, Kind

\* A step that takes nothing up and finishes nothing.
LEMMA MadeStays ==
  ASSUME IInv, Grows, notes' = notes, cut \subseteq cut', barred \subseteq barred', copied' = copied,
         \A i \in 1..Len(stream') : Over(i)' =>
           i \in 1..Len(stream) /\ (Over(i) \/ i \in cut' \/ (Due(i) => Made(i) # {})),
         \A q \in Requests : work[q].pc \in {"check", "record"} =>
           \/ work'[q].pc \in {"check", "record"} /\ work'[q].ev = work[q].ev
           \/ work[q].ev \in cut'
           \/ Due(work[q].ev) => Made(work[q].ev) # {}
  PROVE  GetsMade'
<1> SUFFICES ASSUME NEW i \in 1..Len(stream'), Due(i)', Over(i)' \/ i \in copied'
             PROVE  \/ Made(i) # {}
                    \/ \E r \in Requests : work'[r].pc \in {"check", "record"} /\ work'[r].ev = i
  BY DEF GetsMade, Made, Requests
<1>1. i \in 1..Len(stream) BY Facts DEF FilesSound
<1>2. Due(i) /\ i \notin cut' BY <1>1, DueStays DEF Due
<1>3. CASE Over(i) \/ i \in copied
  <2>1. \/ Made(i) # {}
        \/ \E r \in Requests : work[r].pc \in {"check", "record"} /\ work[r].ev = i
    BY <1>1, <1>2, <1>3, Facts DEF GetsMade
  <2> QED BY <1>2, <2>1
<1>4. CASE ~ (Over(i) \/ i \in copied) BY <1>2, <1>4
<1> QED BY <1>3, <1>4

LEMMA BackStays ==
  ASSUME IInv, Grows, twice \subseteq twice', cut \subseteq cut', UNCHANGED <<rows, notes, shown>>,
         \A k \in 1..Len(stream') : Over(k)' =>
           k \in 1..Len(stream) /\ (Over(k) \/ (Retracts(k) => Back(k)))
  PROVE  TakenBack'
<1> SUFFICES ASSUME NEW k \in 1..Len(stream'), Retracts(k)', Over(k)' PROVE Back(k)'
  BY DEF TakenBack
<1>1. k \in 1..Len(stream) /\ stream'[k] = stream[k] /\ Kind(k)' = Kind(k) BY StreamStays
<1>2. stream[k].of \in 1..Len(stream)
  BY <1>1, EventFacts, Facts DEF Retracts, Referring
<1>3. /\ Kind(stream[k].of)' = Kind(stream[k].of)
      /\ HasAnnouncement(stream[k].of) => HasAnnouncement(stream[k].of)'
  BY <1>2, StreamStays
<1>4. Retracts(k) BY <1>1, <1>3 DEF Retracts, Kind
<1>5. Back(k) BY <1>1, <1>4, Facts DEF TakenBack
<1>6. \A n \in Made(stream[k].of) :
        n = rows'[stream[k].of] \/ (stream[k].of \notin cut' /\ ~ HasAnnouncement(stream[k].of)') =>
          \A f \in FollowersOf[n.actor] : <<f, n>> \notin shown'
  BY <1>3, <1>5 DEF Back
<1> QED BY <1>1, <1>6 DEF Back, Made, HasAnnouncement

-------------------------------------------------------------------------------
(* A handler goes on, or ends, without leaving anything behind. *)

LEMMA IntakeStays ==
  ASSUME IInv, UNCHANGED intakeVars
  PROVE  /\ IntakeSound' /\ Grows /\ stream' = stream /\ proc' = proc /\ marked' = marked
         /\ \A i : Over(i)' <=> Over(i)
         /\ \A q \in Requests : Handling(q)' <=> Handling(q)
<1>1. stream \in Seq(Event) /\ Len(stream) \in Nat /\ IntakeSound BY Facts, IntakeFacts
<1> QED BY <1>1 DEF IntakeSound, IntakeTypeOK, InOrder, MarkedInTurn, ProcsSound, intakeVars, Grows,
                    Requests, Over, Handling

\* The handlers of the other requests go on relying on what they did.
LEMMA HandlersStep ==
  ASSUME IInv, Grows, copied \subseteq copied', twice \subseteq twice', notes \subseteq notes',
         NEW r \in Requests, NEW w \in Work, \A q \in Requests \ {r} : proc'[q] = proc[q],
         work' = [work EXCEPT ![r] = w], Holds(w, proc[r])',
         \A i \in Positions, q \in Requests \ {r} : rows'[i] # rows[i] /\ work[q].pc # "none" =>
           \/ i \in twice'
           \/ /\ work[q].ev # i
              /\ work[q].pc = "send" /\ work[q].act = "Delete" => work[q].note.pos # i,
         \A x \in shown' \ shown, q \in Requests \ {r} :
           work[q].pc = "send" /\ work[q].act = "Delete" /\ work[q].note = x[2] =>
             work[q].note.pos \in twice'
  PROVE  AllHold'
<1>1. work \in [Requests -> Work] /\ work' \in [Requests' -> Work] BY Facts DEF Requests
<1>2. ASSUME NEW q \in Requests' PROVE Holds(work[q], proc[q])'
  <2>0. q \in Requests BY DEF Requests
  <2>1. CASE q = r BY <1>1, <2>0, <2>1
  <2>2. CASE q # r
    <3>1. work'[q] = work[q] /\ proc'[q] = proc[q] BY <1>1, <2>0, <2>2
    <3>2. PICK v \in {work[q]}, p \in {proc[q]} : TRUE OBVIOUS
    <3>3. \A i \in Positions : rows'[i] # rows[i] /\ v.pc # "none" =>
            i \in twice' \/ (v.ev # i /\ (v.pc = "send" /\ v.act = "Delete" => v.note.pos # i))
      BY <2>0, <2>2, <3>2
    <3>4. \A x \in shown' \ shown : v.pc = "send" /\ v.act = "Delete" /\ v.note = x[2] =>
            v.note.pos \in twice'
      BY <2>0, <2>2, <3>2
    <3>5. Holds(v, p)' BY <2>0, <3>2, <3>3, <3>4, HoldsStays
    <3> QED BY <3>1, <3>2, <3>5
  <2> QED BY <2>1, <2>2
<1> QED BY <1>1, <1>2 DEF AllHold

tables == <<rows, notes, sent, shown, warned, copied, barred, twice, cut>>

LEMMA WorkOnly ==
  ASSUME IInv, NEW r \in Requests, NEW w \in Work, UNCHANGED <<intakeVars, tables>>,
         work[r].pc # "none", work' = [work EXCEPT ![r] = w], Holds(w, proc[r])',
         w.pc \in {"check", "record"} => work[r].pc \in {"check", "record"} /\ w.ev = work[r].ev,
         work[r].pc \in {"check", "record"} /\ w.pc \notin {"check", "record"} =>
           ~ Statement(work[r].ev),
         work[r].pc = "send" => work[r].todo = {} /\ Kind(work[r].ev) \notin Late
  PROVE  IInv'
<1> USE DEF tables
<1>1. /\ IntakeSound' /\ Grows /\ stream' = stream /\ proc' = proc /\ marked' = marked
      /\ \A i : Over(i)' <=> Over(i)
      /\ \A q \in Requests : Handling(q)' <=> Handling(q)
  BY IntakeStays
<1>2. StreamSound' /\ FilesSound' /\ NotesSound' /\ SentSound'
  <2>1. StreamSound' BY <1>1, Facts DEF StreamSound, Kind
  <2>2. FilesSound' BY <1>1, Facts DEF FilesSound, Permitted, Kind
  <2> QED BY <1>1, <2>1, <2>2, DataStays
<1>3. AllHold' BY <1>1, HandlersStep
<1>4. TwiceSound' BY <1>1, TwiceStays
<1>5. work \in [Requests -> Work] BY Facts
<1>6. \A q \in Requests : work'[q] = work[q] \/ (q = r /\ work'[q] = w) BY <1>5
<1>7. OnceEach' /\ MadeInTurn' /\ GetsRow' /\ GetsSent'
  <2>1. \A q \in Requests : work[q].pc = "send" =>
          \/ work'[q] = work[q]
          \/ work[q].ev \in cut'
          \/ work[q].todo = {} /\ Kind(work[q].ev) \notin Late
    BY <1>6
  <2>2. \A q \in Requests : Handling(q) /\ work[q].pc \notin {"check", "record"} =>
           \/ proc[q].at \in marked'
           \/ Topic(proc[q].at) \in cut'
           \/ Handling(q)' /\ proc'[q].at = proc[q].at /\ work'[q].pc \notin {"check", "record"}
    BY <1>1, <1>6
  <2> QED BY <1>1, <2>1, <2>2, SaidStays
<1>8. GetsMade'
  <2>1. \A q \in Requests : work[q].pc \in {"check", "record"} =>
           \/ work'[q].pc \in {"check", "record"} /\ work'[q].ev = work[q].ev
           \/ work[q].ev \in cut'
           \/ Due(work[q].ev) => Made(work[q].ev) # {}
    BY <1>6 DEF Due
  <2>2. \A i \in 1..Len(stream') : Over(i)' =>
          i \in 1..Len(stream) /\ (Over(i) \/ i \in cut' \/ (Due(i) => Made(i) # {}))
    BY <1>1
  <2> QED BY <1>1, <2>1, <2>2, MadeStays
<1>9. TakenBack' BY <1>1, BackStays
<1> QED BY <1>1, <1>2, <1>3, <1>4, <1>7, <1>8, <1>9 DEF IInv

LEMMA EndFacts ==
  ASSUME IInv, NEW r \in Requests, End(r), work[r].pc # "none"
  PROVE  /\ IntakeSound' /\ Grows /\ stream' = stream /\ marked' = marked
         /\ \A q \in Requests \ {r} : proc'[q] = proc[q]
         /\ proc'[r].pc = "mark" /\ proc'[r].at = proc[r].at
         /\ \A q \in Requests : /\ Handling(q)' <=> Handling(q)
                                /\ Handling(q) => proc'[q].at = proc[q].at
         /\ \A i : Over(i)' => Over(i) \/ i = proc[r].at
<1>1. proc[r].pc = "run" /\ Handling(r) BY EvFacts
<1>2. proc \in [Requests -> Proc] BY IntakeFacts, Facts
<1>3. proc' = [proc EXCEPT ![r].pc = "mark"] /\ marked' = marked BY DEF End
<1>4. proc'[r].pc = "mark" /\ proc'[r].at = proc[r].at BY <1>2, <1>3 DEF Proc
<1>5. /\ IntakeSound' /\ Grows /\ stream' = stream
      /\ \A q \in Requests \ {r} : proc'[q] = proc[q]
  BY <1>1, RequestsInv, Facts
<1>6. \A i : Over(i)' => Over(i) \/ i = proc[r].at
  BY <1>3, <1>4, <1>5 DEF Over, Requests
<1> QED BY <1>1, <1>3, <1>4, <1>5, <1>6 DEF Handling

LEMMA IdleHolds ==
  /\ IdleWork \in Work /\ IdleWork.pc = "none" /\ IdleWork.todo = {}
  /\ \A p : p.pc # "run" => Holds(IdleWork, p)'
<1>1. IdleWork.pc = "none" /\ IdleWork.todo = {} BY DEF IdleWork
<1>2. IdleWork \in Work
  <2>1. 0 \in 0..MaxEvents BY IntakeAssumption
  <2>2. FALSE \in BOOLEAN OBVIOUS
  <2> QED BY <2>1, <2>2 DEF IdleWork, Work
<1> QED BY <1>1, <1>2 DEF Holds

\* A redaction whose Deletes have all gone out has taken its post back.
LEMMA DeletedBack ==
  ASSUME IInv, NEW r \in Requests, work[r].pc = "send", work[r].todo = {},
         Retracts(proc[r].at)
  PROVE  Back(proc[r].at)
<1> DEFINE k == proc[r].at i == stream[k].of w == work[r]
<1>1. /\ w.ev = k /\ k \in 1..Len(stream) /\ Kind(k) = "redact" /\ i \notin twice
  BY EvFacts, AtFacts DEF Retracts
<1>2. Sending(w) BY Facts DEF Holds
<1>3. w.act = "Delete" BY <1>1, <1>2 DEF Sending, Making
<1>4. /\ w.note \in notes /\ w.note.pos = i /\ w.note = rows[i]
      /\ \A f \in FollowersOf[w.note.actor] : <<f, w.note>> \notin shown
  BY <1>1, <1>2, <1>3 DEF Sending
<1> SUFFICES ASSUME NEW n \in Made(i), n = rows[i] \/ (i \notin cut /\ ~ HasAnnouncement(i)),
                    NEW f \in FollowersOf[n.actor]
             PROVE  <<f, n>> \notin shown
  BY DEF Back
<1>5. n = w.note
  <2> SUFFICES ASSUME n # w.note PROVE FALSE OBVIOUS
  <2>1. Explained(i) BY <1>4, Facts DEF OnceEach, Made
  <2> QED BY <1>1, <1>4, <2>1 DEF Explained
<1> QED BY <1>4, <1>5

\* A handler ends: what it was to do is done, or nobody expects it.
LEMMA Ending ==
  ASSUME IInv, NEW r \in Requests, Done(r), work[r].pc # "none",
         UNCHANGED <<rows, notes, sent, shown, copied, barred, twice, cut>>,
         warned \subseteq warned', FilesSound',
         work[r].pc = "send" => work[r].todo = {} /\ Kind(work[r].ev) \notin Late,
         work[r].pc \in {"check", "record"} => (Due(work[r].ev) => Made(work[r].ev) # {}),
         work[r].pc = "check" /\ Retracts(proc[r].at) => Back(proc[r].at)
  PROVE  IInv'
<1> DEFINE i == work[r].ev p == proc[r].at
<1>1. End(r) /\ work' = [work EXCEPT ![r] = IdleWork] BY DEF Done
<1>2. /\ IntakeSound' /\ Grows /\ stream' = stream /\ marked' = marked
      /\ \A q \in Requests \ {r} : proc'[q] = proc[q]
      /\ proc'[r].pc = "mark" /\ proc'[r].at = p
      /\ \A q \in Requests : /\ Handling(q)' <=> Handling(q)
                             /\ Handling(q) => proc'[q].at = proc[q].at
      /\ \A x : Over(x)' => Over(x) \/ x = p
  BY <1>1, EndFacts
<1>3. work \in [Requests -> Work] /\ IdleWork \in Work /\ IdleWork.pc = "none" BY Facts, IdleHolds
<1>4. \A q \in Requests : work'[q] = IF q = r THEN IdleWork ELSE work[q] BY <1>1, <1>3
<1>5. /\ Handling(r) /\ i \in 1..Len(stream) /\ p \in 1..Len(stream)
      /\ Kind(p) \notin {"confirm", "announce"} => i = p
      /\ Holds(work[r], proc[r])
  BY EvFacts, AtFacts, Facts
<1>6. StreamSound' BY <1>2, Facts DEF StreamSound, Kind
<1>7. NotesSound' /\ SentSound' BY <1>2, DataStays
<1>8. AllHold'
  <2>1. Holds(IdleWork, proc[r])'
    <3>1. PICK v \in {proc'[r]} : TRUE OBVIOUS
    <3>2. v.pc # "run" BY <1>2, <3>1
    <3>3. Holds(IdleWork, v)' BY <3>2, IdleHolds
    <3> QED BY <3>1, <3>3
  <2> QED BY <1>1, <1>2, <1>3, <2>1, HandlersStep
<1>9. TwiceSound' BY <1>2, TwiceStays
<1>10. OnceEach' /\ MadeInTurn' /\ GetsRow' /\ GetsSent'
  <2>1. \A q \in Requests : work[q].pc = "send" =>
          \/ work'[q] = work[q]
          \/ work[q].ev \in cut'
          \/ work[q].todo = {} /\ Kind(work[q].ev) \notin Late
    BY <1>4
  <2>2. \A q \in Requests : Handling(q) /\ work[q].pc \notin {"check", "record"} =>
           \/ proc[q].at \in marked'
           \/ Topic(proc[q].at) \in cut'
           \/ Handling(q)' /\ proc'[q].at = proc[q].at /\ work'[q].pc \notin {"check", "record"}
    BY <1>2, <1>3, <1>4
  <2> QED BY <1>2, <2>1, <2>2, SaidStays
<1>11. Due(p) => Made(p) # {}
  <2> HAVE Due(p)
  <2>1. Kind(p) \in {"post", "reply", "dm", "chat"} BY DEF Due, Statement
  <2>2. i = p BY <1>5, <2>1
  <2>3. CASE work[r].pc \in {"check", "record"} BY <2>2, <2>3
  <2>4. CASE work[r].pc = "send"
    <3>1. Sending(work[r]) BY <1>5, <2>4 DEF Holds
    <3>2. work[r].act = "Create" BY <2>1, <2>2, <3>1 DEF Sending, Making
    <3> QED BY <2>2, <3>1, <3>2 DEF Sending, Made
  <2>5. CASE work[r].pc = "tally" BY <1>5, <2>1, <2>2, <2>5 DEF Holds
  <2> QED BY <1>3, <2>3, <2>4, <2>5 DEF Work
<1>12. GetsMade'
  <2>1. \A q \in Requests : work[q].pc \in {"check", "record"} =>
           \/ work'[q].pc \in {"check", "record"} /\ work'[q].ev = work[q].ev
           \/ work[q].ev \in cut'
           \/ Due(work[q].ev) => Made(work[q].ev) # {}
    BY <1>4
  <2>2. \A x \in 1..Len(stream') : Over(x)' =>
          x \in 1..Len(stream) /\ (Over(x) \/ x \in cut' \/ (Due(x) => Made(x) # {}))
    BY <1>2, <1>11
  <2> QED BY <1>2, <2>1, <2>2, MadeStays
<1>13. Retracts(p) => Back(p)
  <2> HAVE Retracts(p)
  <2>1. Kind(p) = "redact" /\ i = p BY <1>5 DEF Retracts
  <2>2. CASE work[r].pc = "check" BY <2>2
  <2>3. CASE work[r].pc = "send" BY <2>3, DeletedBack
  <2>4. work[r].pc # "record" /\ work[r].pc # "tally" BY <1>5, <2>1 DEF Holds, Early
  <2> QED BY <1>3, <2>2, <2>3, <2>4 DEF Work
<1>14. TakenBack' BY <1>2, <1>13, BackStays
<1> QED BY <1>2, <1>6, <1>7, <1>8, <1>9, <1>10, <1>12, <1>14 DEF IInv

\* Nobody is left of a post without a row, once a redaction of it is handled.
LEMMA NothingLeft ==
  ASSUME IInv, NEW r \in Requests, Handling(r), Retracts(proc[r].at),
         ~ Tracked(stream[proc[r].at].of)
  PROVE  Back(proc[r].at)
<1> DEFINE k == proc[r].at i == stream[k].of
<1>1. /\ k \in 1..Len(stream) /\ Kind(k) = "redact" /\ i \notin twice /\ Kind(i) # "vote"
  BY AtFacts DEF Retracts
<1> SUFFICES ASSUME NEW n \in Made(i), n = rows[i] \/ (i \notin cut /\ ~ HasAnnouncement(i))
             PROVE  FALSE
  BY DEF Back
<1>2. /\ n \in notes /\ n.pos = i /\ n # NoNote /\ Kind(i) \in Making
      /\ Kind(i) \notin {"confirm", "announce"}
  BY NoteFacts DEF Made
<1>3. i \notin cut BY <1>2 DEF Tracked
<1>4. Kind(i) \notin Early BY <1>2, Facts DEF NotesSound
<1>5. Kind(i) \in Late BY <1>1, <1>2, <1>4 DEF Making, Early, Late
<1>6. PICK q \in Requests : At(q, n) BY <1>2, <1>3, <1>5, Facts DEF GetsRow
<1>7. work[q].ev = i /\ work[q].pc # "none"
  <2>1. Holds(work[q], proc[q]) BY Facts
  <2> QED BY <1>2, <1>6, <2>1 DEF At, Holds, Sending
<1> QED BY <1>1, <1>2, <1>7, Settled

LEMMA IgnoreInv ==
  ASSUME IInv, NEW r \in Requests, Ignore(r)
  PROVE  IInv'
<1> DEFINE i == work[r].ev
<1>1. /\ proc[r].pc = "run" /\ work[r].pc = "check" /\ Kind(i) \notin {"confirm", "announce"}
      /\ ~ Expected(i) /\ Done(r)
      /\ UNCHANGED <<rows, notes, sent, shown, warned, copied, barred, twice, cut>>
  BY DEF Ignore, Doing, Ev, Kind, record, outside, files, ghost
<1>3. i \in 1..Len(stream) /\ i \in Positions /\ Handling(r)
  BY <1>1, EvFacts, EventFacts, Facts
<1>4. Due(i) => Made(i) # {}
  <2> HAVE Due(i)
  <2>1. /\ Kind(i) \in {"post", "reply", "dm", "chat"} /\ stream[i].of = 0 /\ Allowed(stream[i].user)
    BY DEF Due, Statement, Allowed
  <2>2. Kind(i) = "post" /\ Tracked(i)
    BY <1>1, <2>1 DEF Expected, Unpublished, Answerable, Sayable, Kind
  <2> QED BY <1>3, <2>2, RowFacts DEF Made
<1>5. Retracts(proc[r].at) => Back(proc[r].at)
  <2> HAVE Retracts(proc[r].at)
  <2>1. Kind(proc[r].at) = "redact" /\ i = proc[r].at BY <1>1, EvFacts DEF Retracts
  <2>2. ~ Tracked(stream[proc[r].at].of)
    BY <1>1, <2>1 DEF Expected, Deletable, Kind
  <2> QED BY <1>3, <2>2, NothingLeft
<1>6. FilesSound'
  <2>1. End(r) BY <1>1 DEF Done
  <2>2. stream' = stream BY <2>1 DEF End
  <2> QED BY <1>1, <2>2, Facts DEF FilesSound, Permitted, Kind
<1> QED BY <1>1, <1>4, <1>5, <1>6, Ending

LEMMA AskInv ==
  ASSUME IInv, NEW r \in Requests, Ask(r)
  PROVE  IInv'
<1> DEFINE i == work[r].ev
<1>1. /\ proc[r].pc = "run" /\ work[r].pc = "check" /\ ~ Readable(i) /\ Expected(i) /\ Done(r)
      /\ warned' \in {warned, warned \cup {i}}
      /\ UNCHANGED <<rows, notes, sent, shown, copied, barred, twice, cut>>
  BY DEF Ask, Doing, Ev, record, outside, ghost
<1>2. i \in 1..Len(stream) BY <1>1, EvFacts
<1>3. stream[i].enc /\ i \notin copied BY <1>1 DEF Readable
<1>4. ~ Due(i) BY <1>3 DEF Due
<1>5. ~ Retracts(proc[r].at)
  <2>1. Kind(i) \in Filed BY <1>2, <1>3, EventFacts, Facts
  <2> QED BY <1>1, <2>1, EvFacts DEF Retracts, Filed
<1>6. FilesSound' /\ warned \subseteq warned'
  <2>1. End(r) BY <1>1 DEF Done
  <2>2. stream' = stream BY <2>1 DEF End
  <2> QED BY <1>1, <1>2, <1>3, <2>2, Facts DEF FilesSound, Permitted, Kind
<1> QED BY <1>1, <1>4, <1>5, <1>6, Ending

\* The ends that record nothing.
LEMMA EndsInv ==
  ASSUME IInv, NEW r \in Requests,
         \/ Finish(r) \/ Tally(r) \/ Refuse(r)
         \/ Announced(r) /\ Redacted(stream[Ev(r)].of)
  PROVE  IInv'
<1> DEFINE i == work[r].ev
<1>1. /\ proc[r].pc = "run" /\ Done(r)
      /\ UNCHANGED <<rows, notes, sent, shown, warned, copied, barred, twice, cut>>
  BY DEF Finish, Tally, Refuse, Announced, Delivered, Doing, Ev, record, outside, files, ghost
<1>2. \/ /\ work[r].pc = "send" /\ work[r].todo = {}
         /\ Kind(i) \in {"post", "poll", "edit", "close", "redact"}
      \/ work[r].pc = "tally"
      \/ work[r].pc = "check" /\ Kind(i) \in {"confirm", "announce"}
  BY DEF Finish, Tally, Refuse, Announced, Delivered, Doing, Ev, Kind
<1>3. work[r].pc # "none" BY <1>2
<1>4. Kind(i) \in {"confirm", "announce"} => ~ Due(i) /\ ~ Retracts(proc[r].at)
  BY <1>3, EvFacts DEF Due, Statement, Retracts
<1>5. FilesSound'
  <2>1. End(r) BY <1>1 DEF Done
  <2>2. stream' = stream BY <2>1 DEF End
  <2> QED BY <1>1, <2>2, Facts DEF FilesSound, Permitted, Kind
<1>6. work[r].pc = "send" => work[r].todo = {} /\ Kind(work[r].ev) \notin Late
  BY <1>2 DEF Late
<1>7. work[r].pc \in {"check", "record"} => (Due(i) => Made(i) # {}) BY <1>2, <1>4
<1>8. work[r].pc = "check" /\ Retracts(proc[r].at) => Back(proc[r].at) BY <1>2, <1>4
<1> QED BY <1>1, <1>3, <1>5, <1>6, <1>7, <1>8, Ending

-------------------------------------------------------------------------------
(* A handler goes on to deliver. *)

LEMMA ActorFacts ==
  ASSUME IInv, NEW i \in 1..Len(stream)
  PROVE  /\ Acting(stream[i]) \subseteq Actors /\ Oldest[stream[i].user] \in Actors
         /\ Mentioned(i) \subseteq Inboxes /\ Host(stream[i]) \subseteq Inboxes
         /\ \A a \in Actors : FollowersOf[a] \subseteq Inboxes
<1>1. stream[i] \in Event BY EventFacts, Facts
<1>2. stream[i].user \in Users /\ stream[i].room \in Rooms \cup {NoRoom} BY <1>1 DEF Event
<1>3. /\ Own[stream[i].user] \subseteq Actors /\ Oldest[stream[i].user] \in Actors
      /\ stream[i].room # NoRoom => RoomActor[stream[i].room] \in Actors
      /\ \A a \in Actors : FollowersOf[a] \subseteq Inboxes
  BY <1>2, OutboundAssumption
<1>4. Acting(stream[i]) \subseteq Actors BY <1>3 DEF Acting
<1>5. Host(stream[i]) \subseteq Inboxes BY <1>3 DEF Host
<1>6. Mentioned(i) \subseteq Inboxes BY DEF Mentioned, Inboxes
<1> QED BY <1>3, <1>4, <1>5, <1>6

\* The one a row is by.
LEMMA RowActor ==
  ASSUME IInv, NEW i \in Positions, Tracked(i)
  PROVE  rows[i].actor \in Actors /\ FollowersOf[rows[i].actor] \subseteq Inboxes
BY RowFacts, NoteFacts, OutboundAssumption

LEMMA ParticipantsFacts ==
  ASSUME IInv, NEW of \in 0..Len(stream), NEW a \in Actors, NEW fetched \in BOOLEAN
  PROVE  Participants(of, a, fetched) \subseteq Inboxes
<1>1. CASE ~ fetched BY <1>1 DEF Participants
<1>2. CASE fetched /\ of = 0 BY <1>2 DEF Participants, Inboxes
<1>3. CASE fetched /\ of # 0
  <2>1. of \in 1..Len(stream) BY <1>3, Facts, IntakeFacts
  <2>2. of \in Positions BY <2>1, EventFacts, Facts
  <2>3. Mentioned(of) \subseteq Inboxes BY <2>1, ActorFacts
  <2>4. rows[of] # NoNote => FollowersOf[rows[of].actor] \subseteq Inboxes
    BY <2>2, RowActor DEF Tracked
  <2>5. Participants(of, a, fetched) =
          Mentioned(of) \cup IF rows[of] # NoNote /\ rows[of].actor # a
                             THEN FollowersOf[rows[of].actor] ELSE {}
    BY <1>3 DEF Participants
  <2> QED BY <2>3, <2>4, <2>5
<1> QED BY <1>1, <1>2, <1>3

LEMMA RecipientFacts ==
  ASSUME IInv, NEW of \in 0..Len(stream), NEW a \in Actors, of # 0 => Tracked(of)
  PROVE  /\ Recipient(of, a) \subseteq Inboxes
         /\ of = 0 => Recipient(of, a) = {"peer"}
<1> DEFINE Reach(j) == IF j = 0 THEN {"peer"} ELSE FollowersOf[rows[j].actor]
           Mine(j) == j # 0 /\ rows[j].actor = a
<1>0. FollowersOf[a] \subseteq Inboxes BY OutboundAssumption
<1>1. PICK root \in {ThreadRoot[of]} : TRUE OBVIOUS
<1>2. Recipient(of, a) = CASE ~ Mine(of) -> Reach(of)
         [] Mine(of) /\ root # of /\ (root = 0 \/ (root \in Positions /\ rows[root] # NoNote)) /\ ~ Mine(root) -> Reach(root)
         [] OTHER -> FollowersOf[a]
  BY <1>1 DEF Recipient
<1>3. ASSUME NEW j \in Positions \cup {0}, j = 0 \/ Tracked(j) PROVE Reach(j) \subseteq Inboxes
  <2>1. CASE j = 0 BY <2>1 DEF Inboxes
  <2>2. CASE j # 0
    <3>1. j \in Positions /\ Tracked(j) BY <1>3, <2>2
    <3>2. FollowersOf[rows[j].actor] \subseteq Inboxes BY <3>1, RowActor
    <3> QED BY <2>2, <3>2
  <2> QED BY <2>1, <2>2
<1>4. of \in Positions \cup {0} BY Facts, IntakeFacts DEF Positions
<1>5. CASE ~ Mine(of) BY <1>2, <1>3, <1>4, <1>5
<1>6. CASE Mine(of) /\ root # of /\ (root = 0 \/ (root \in Positions /\ rows[root] # NoNote)) /\ ~ Mine(root)
  <2>1. Recipient(of, a) = Reach(root) BY <1>2, <1>6
  <2>2. root \in Positions \cup {0} /\ (root = 0 \/ Tracked(root)) BY <1>6 DEF Tracked
  <2>3. Reach(root) \subseteq Inboxes BY <1>3, <2>2
  <2> QED BY <1>6, <2>1, <2>3
<1>7. CASE ~ (~ Mine(of)) /\ ~ (Mine(of) /\ root # of /\ (root = 0 \/ (root \in Positions /\ rows[root] # NoNote)) /\ ~ Mine(root))
  <2>1. Recipient(of, a) = FollowersOf[a] BY <1>2, <1>7
  <2> QED BY <1>0, <1>7, <2>1
<1> QED BY <1>5, <1>6, <1>7

\* Whom the fan-outs reach: servers, and everyone a statement is for.
LEMMA AudienceFacts ==
  ASSUME IInv, NEW i \in 1..Len(stream), NEW a \in Actors, NEW fetched \in BOOLEAN,
         Kind(i) \in Making, Kind(i) = "reply" => Answerable(i)
  PROVE  /\ Audience(i, a, fetched) \subseteq Inboxes
         /\ Kind(i) \in Private => Audience(i, a, fetched) \subseteq DmAudience(i)
         /\ Statement(i) => (IF Kind(i) = "post" THEN FollowersOf[a] ELSE {"peer"})
                              \subseteq Audience(i, a, fetched)
<1>1. /\ Mentioned(i) \subseteq Inboxes /\ Host(stream[i]) \subseteq Inboxes
      /\ FollowersOf[a] \subseteq Inboxes
  BY ActorFacts
<1>2. "peer" \in Inboxes BY DEF Inboxes
<1>3. CASE Kind(i) = "post"
  <2>1. Audience(i, a, fetched) = PostAudience(i, a) BY <1>3 DEF Audience, Kind
  <2> QED BY <1>1, <1>3, <2>1 DEF PostAudience, Private
<1>4. CASE Kind(i) = "poll"
  <2>1. Audience(i, a, fetched) = PollAudience(a) BY <1>4 DEF Audience, Kind
  <2> QED BY <1>1, <1>4, <2>1 DEF PollAudience, Private, Statement
<1>5. CASE Kind(i) = "reply"
  <2>1. Audience(i, a, fetched) = ReplyAudience(i, a, fetched) BY <1>5 DEF Audience, Kind
  <2>2. PICK of \in 0..Len(stream) : of = stream[i].of
    BY EventFacts, Facts, IntakeFacts
  <2>3. of # 0 => Tracked(of) BY <1>5, <2>2 DEF Answerable
  <2>4. /\ Recipient(of, a) \subseteq Inboxes /\ Participants(of, a, fetched) \subseteq Inboxes
        /\ of = 0 => Recipient(of, a) = {"peer"}
    BY <2>3, RecipientFacts, ParticipantsFacts
  <2>5. Audience(i, a, fetched) = Recipient(of, a) \cup Mentioned(i) \cup Participants(of, a, fetched)
    BY <2>1, <2>2 DEF ReplyAudience
  <2> QED BY <1>1, <1>5, <2>2, <2>4, <2>5 DEF Private, Statement
<1>6. CASE Kind(i) = "dm"
  <2>1. Audience(i, a, fetched) = DmAudience(i) BY <1>6 DEF Audience, Kind
  <2> QED BY <1>1, <1>2, <1>6, <2>1 DEF DmAudience
<1>7. CASE Kind(i) = "chat"
  <2>1. Audience(i, a, fetched) = ChatAudience BY <1>7 DEF Audience, Kind
  <2> QED BY <1>1, <1>2, <1>7, <2>1 DEF DmAudience, ChatAudience
<1>8. CASE Kind(i) = "vote"
  <2>1. Audience(i, a, fetched) = VoteAudience BY <1>8 DEF Audience, Kind
  <2> QED BY <1>2, <1>8, <2>1 DEF VoteAudience, Private, Statement
<1> QED BY <1>3, <1>4, <1>5, <1>6, <1>7, <1>8 DEF Making

\* A handler goes on to what it may rely on.
LEMMA Onward ==
  ASSUME IInv, NEW r \in Requests, NEW w \in Work, UNCHANGED <<intakeVars, tables>>,
         work[r].pc # "none", work' = [work EXCEPT ![r] = w], Holds(w, proc[r]),
         w.pc \in {"check", "record"} => work[r].pc \in {"check", "record"} /\ w.ev = work[r].ev,
         work[r].pc \in {"check", "record"} /\ w.pc \notin {"check", "record"} =>
           ~ Statement(work[r].ev),
         work[r].pc = "send" => work[r].todo = {} /\ Kind(work[r].ev) \notin Late
  PROVE  IInv'
<1>1. PICK p \in {proc[r]} : TRUE OBVIOUS
<1>2. proc'[r] = p /\ Holds(w, p) BY <1>1 DEF intakeVars
<1>3. UNCHANGED <<stream, rows, notes, shown, copied, twice>> BY DEF intakeVars, tables
<1>4. \A i : TakenUp(i, p)' <=> TakenUp(i, p) BY <1>3 DEF TakenUp, Kind
<1>5. Sending(w)' <=> Sending(w)
  BY <1>3 DEF Sending, MayGet, DmAudience, Mentioned, Kind
<1>6. Holds(w, p)' BY <1>2, <1>3, <1>4, <1>5 DEF Holds, Tracked, Kind, Acting
<1>7. Holds(w, proc[r])' BY <1>2, <1>6
<1> QED BY <1>7, WorkOnly

\* A step of one handler that changes nothing the invariant speaks of.
LEMMA ReadyFacts ==
  ASSUME IInv, NEW r \in Requests, NEW kinds, Ready(r, kinds)
  PROVE  /\ proc[r].pc = "run" /\ work[r].pc = "check" /\ Handling(r)
         /\ work[r].ev \in 1..Len(stream) /\ work[r].ev \in Positions
         /\ Kind(work[r].ev) \in kinds
         /\ Expected(work[r].ev) /\ Readable(work[r].ev)
         /\ stream[work[r].ev].enc => work[r].ev \in copied
         /\ work[r] \in Work /\ Holds(work[r], proc[r])
         /\ work[r].ev = proc[r].at \/ TakenUp(work[r].ev, proc[r])
<1>1. /\ proc[r].pc = "run" /\ work[r].pc = "check" /\ Kind(work[r].ev) \in kinds
      /\ Expected(work[r].ev) /\ Readable(work[r].ev)
  BY DEF Ready, Doing, Ev, Kind
<1> QED BY <1>1, EvFacts, EventFacts, Facts DEF Readable

LEMMA ComposeInv ==
  ASSUME IInv, NEW r \in Requests, Compose(r)
  PROVE  IInv'
<1> DEFINE i == work[r].ev
<1>1. Ready(r, {"post", "poll"}) BY DEF Compose
<1>2. PICK a \in Acting(stream[i]) : work' = [work EXCEPT ![r] = [work[r] EXCEPT !.pc = "record", !.by = a]]
  BY DEF Compose, Go, Ev
<1>3. UNCHANGED <<intakeVars, tables>>
  BY DEF Compose, tables, record, outside, files, ghost
<1>4. /\ proc[r].pc = "run" /\ i \in 1..Len(stream) /\ Kind(i) \in Early /\ work[r] \in Work
      /\ work[r].pc = "check" /\ Expected(i)
      /\ stream[i].enc => i \in copied
  BY <1>1, ReadyFacts DEF Early
<1>5. i = proc[r].at \/ TakenUp(i, proc[r]) BY <1>1, ReadyFacts
<1>6. a \in Actors BY <1>2, <1>4, ActorFacts
<1>7. PICK w \in Work : w = [work[r] EXCEPT !.pc = "record", !.by = a]
  BY <1>4, <1>6 DEF Work
<1>8. w.pc = "record" /\ w.by = a /\ w.ev = i BY <1>4, <1>7 DEF Work
<1>9. ~ Tracked(i)
  BY <1>4 DEF Expected, Unpublished, Pollable, Early, Kind
<1>10. Holds(w, proc[r])
  BY <1>2, <1>4, <1>5, <1>8, <1>9 DEF Holds, Early
<1>11. work' = [work EXCEPT ![r] = w] BY <1>2, <1>7
<1> QED BY <1>3, <1>4, <1>8, <1>10, <1>11, Onward

LEMMA KeepVoteInv ==
  ASSUME IInv, NEW r \in Requests, KeepVote(r)
  PROVE  IInv'
<1> DEFINE i == work[r].ev
<1>1. /\ proc[r].pc = "run" /\ work[r].pc = "send" /\ work[r].todo = {} /\ Kind(i) = "vote"
      /\ work' = [work EXCEPT ![r] = [work[r] EXCEPT !.pc = "tally", !.saw = tallies.replies > 0]]
      /\ UNCHANGED <<intakeVars, tables>>
  BY DEF KeepVote, Delivered, Doing, Ev, Go, Kind, tables, record, outside, files, ghost
<1>2. (tallies.replies > 0) \in BOOLEAN OBVIOUS
<1>3. PICK saw \in BOOLEAN : saw = (tallies.replies > 0) BY <1>2
<1>4. work[r] \in Work /\ Holds(work[r], proc[r]) BY Facts
<1>5. PICK w \in Work : w = [work[r] EXCEPT !.pc = "tally", !.saw = saw]
  BY <1>4 DEF Work
<1>6. w.pc = "tally" /\ w.ev = i BY <1>4, <1>5 DEF Work
<1>7. Holds(w, proc[r]) BY <1>1, <1>4, <1>6 DEF Holds
<1>8. work' = [work EXCEPT ![r] = w] BY <1>1, <1>3, <1>5
<1> QED BY <1>1, <1>6, <1>7, <1>8, Onward DEF Late

\* An edit, the end of a poll, a redaction: the object of the row travels.
LEMMA TravelsInv ==
  ASSUME IInv, NEW r \in Requests, NEW kinds, Ready(r, kinds), kinds \subseteq {"edit", "close", "redact"},
         NEW act \in {"Update", "Delete"}, NEW todo \in SUBSET Inboxes, NEW a \in Actors,
         UNCHANGED <<intakeVars, tables>>,
         LET n == rows[stream[work[r].ev].of]
         IN /\ n # NoNote /\ a = n.actor /\ todo \subseteq MayGet(n, act)
            /\ act = "Delete" <=> Kind(work[r].ev) = "redact"
            /\ act = "Delete" => todo = FollowersOf[a]
            /\ work' = [work EXCEPT ![r] = [work[r] EXCEPT !.pc = "send", !.by = a, !.act = act,
                                                           !.note = n, !.todo = todo]]
  PROVE  IInv'
<1> DEFINE i == work[r].ev of == stream[i].of n == rows[of]
<1>1. /\ proc[r].pc = "run" /\ i \in 1..Len(stream) /\ Kind(i) \in {"edit", "close", "redact"}
      /\ work[r] \in Work /\ work[r].pc = "check"
      /\ stream[i].enc => i \in copied
  BY ReadyFacts
<1>2. i = proc[r].at \/ TakenUp(i, proc[r]) BY ReadyFacts
<1>3. of \in 1..Len(stream) BY <1>1, EventFacts, Facts DEF Referring
<1>4. of \in Positions BY <1>3, EventFacts, Facts
<1>5. n \in notes /\ n.pos = of BY <1>4, RowFacts DEF Tracked
<1>6. n \in Note BY <1>5, NoteFacts
<1>7. PICK w \in Work : w = [work[r] EXCEPT !.pc = "send", !.by = a, !.act = act, !.note = n, !.todo = todo]
  BY <1>1, <1>6 DEF Work
<1>8. w.pc = "send" /\ w.by = a /\ w.act = act /\ w.note = n /\ w.todo = todo /\ w.ev = i
  BY <1>1, <1>7 DEF Work
<1>9. Sending(w)
  <2>1. w.act = CASE Kind(w.ev) \in Making -> "Create"
               [] Kind(w.ev) = "redact" -> "Delete"
               [] OTHER -> "Update"
    BY <1>1, <1>8 DEF Making
  <2>2. w.note.pos = IF w.act = "Create" THEN w.ev ELSE stream[w.ev].of BY <1>5, <1>8
  <2>3. w.act = "Delete" => /\ w.note = rows[w.note.pos]
                            /\ \A f \in FollowersOf[w.note.actor] : f \in w.todo
    BY <1>5, <1>8
  <2> QED BY <1>5, <1>8, <2>1, <2>2, <2>3 DEF Sending
<1>10. Holds(w, proc[r])
  BY <1>1, <1>2, <1>8, <1>9 DEF Holds
<1>11. work' = [work EXCEPT ![r] = w] BY <1>7
<1>12. ~ Statement(i) BY <1>1 DEF Statement
<1> QED BY <1>1, <1>8, <1>10, <1>11, <1>12, Onward

LEMMA EditInv ==
  ASSUME IInv, NEW r \in Requests, Edit(r) \/ Close(r)
  PROVE  IInv'
<1> DEFINE i == work[r].ev e == stream[i] a == Oldest[e.user] of == e.of
<1>1. PICK kinds \in {{"edit"}, {"close"}} : Ready(r, kinds)
  BY DEF Edit, Close
<1>2. PICK todo : /\ work' = [work EXCEPT ![r] = [work[r] EXCEPT !.pc = "send", !.by = a, !.act = "Update",
                                                      !.note = rows[of], !.todo = todo]]
                  /\ \/ Ready(r, {"edit"}) /\ \E fetched \in BOOLEAN : todo = EditAudience(i, a, fetched)
                     \/ Ready(r, {"close"}) /\ todo = FollowersOf[a]
  BY DEF Edit, Close, Go, Ev
<1>3. UNCHANGED <<intakeVars, tables>>
  BY DEF Edit, Close, tables, record, outside, files, ghost
<1>4. i \in 1..Len(stream) /\ Kind(i) \in {"edit", "close"} /\ Expected(i) BY <1>1, ReadyFacts
<1>5. a \in Actors /\ of \in 1..Len(stream) BY <1>4, ActorFacts, EventFacts, Facts DEF Referring
<1>6. of \in Positions BY <1>5, EventFacts, Facts
<1>7. Owned(of, e.user) BY <1>4 DEF Expected, Editable, Closable, Kind
<1>8. rows[of] # NoNote /\ rows[of].actor = a BY <1>7 DEF Owned, Tracked
<1>9. rows[of] \in notes /\ rows[of].pos = of BY <1>6, <1>8, RowFacts DEF Tracked
<1>10. Kind(of) \notin Private
  <2>1. CASE Kind(i) = "edit" BY <1>4, <2>1 DEF Expected, Editable, Kind
  <2>2. CASE Kind(i) = "close"
    <3>1. Kind(of) = "poll" BY <1>4, <2>2, Facts DEF StreamSound
    <3> QED BY <3>1 DEF Private
  <2> QED BY <1>4, <2>1, <2>2
<1>11. MayGet(rows[of], "Update") = Inboxes BY <1>9, <1>10 DEF MayGet
<1>12. todo \subseteq Inboxes
  <2>1. FollowersOf[a] \subseteq Inboxes BY <1>4, <1>5, ActorFacts
  <2>2. ASSUME NEW fetched \in BOOLEAN PROVE EditAudience(i, a, fetched) \subseteq Inboxes
    <3>1. Mentioned(i) \subseteq Inboxes /\ Host(stream[of]) \subseteq Inboxes BY <1>4, <1>5, ActorFacts
    <3>2. stream[of].of \in 0..Len(stream)
      <4>1. stream[of].of \in 0..(of - 1) BY <1>5, EventFacts, Facts
      <4>2. Len(stream) \in Nat /\ of <= Len(stream) /\ of \in Nat BY <1>5, Facts, IntakeFacts
      <4> QED BY <4>1, <4>2
    <3>3. Participants(stream[of].of, a, fetched) \subseteq Inboxes BY <1>5, <3>2, ParticipantsFacts
    <3> QED BY <2>1, <3>1, <3>3 DEF EditAudience
  <2> QED BY <1>2, <2>1, <2>2
<1> DEFINE x == "Update"
<1>13. x \in {"Update", "Delete"} /\ x # "Delete" OBVIOUS
<1>14. Kind(i) # "redact" BY <1>4
<1>15. kinds \subseteq {"edit", "close", "redact"} BY <1>1
<1> QED BY <1>1, <1>2, <1>3, <1>5, <1>8, <1>11, <1>12, <1>13, <1>14, <1>15, TravelsInv

LEMMA DeleteInv ==
  ASSUME IInv, NEW r \in Requests, Delete(r)
  PROVE  IInv'
<1> DEFINE i == work[r].ev of == stream[i].of n == rows[of]
<1>1. /\ Ready(r, {"redact"})
      /\ work' = [work EXCEPT ![r] = [work[r] EXCEPT !.pc = "send", !.by = n.actor, !.act = "Delete",
                                                     !.note = n, !.todo = FollowersOf[n.actor]]]
      /\ UNCHANGED <<intakeVars, tables>>
  BY DEF Delete, Go, Ev, DeleteAudience, tables, record, outside, files, ghost
<1>2. i \in 1..Len(stream) /\ Kind(i) = "redact" /\ Expected(i) BY <1>1, ReadyFacts
<1>3. of \in 1..Len(stream) BY <1>2, EventFacts, Facts DEF Referring
<1>4. Tracked(of) BY <1>2 DEF Expected, Deletable, Kind
<1>5. n # NoNote /\ n.actor \in Actors /\ FollowersOf[n.actor] \subseteq Inboxes
  BY <1>3, <1>4, EventFacts, Facts, RowActor DEF Tracked
<1>6. MayGet(n, "Delete") = Inboxes BY DEF MayGet
<1> QED BY <1>1, <1>2, <1>5, <1>6, TravelsInv

LEMMA DeliverInv ==
  ASSUME IInv, NEW r \in Requests, Deliver(r)
  PROVE  IInv'
<1> DEFINE i == work[r].ev n == work[r].note act == work[r].act
<1>1. PICK to \in work[r].todo :
        /\ sent' = sent \cup {[to |-> to, act |-> act, note |-> n, by |-> work[r].by, ev |-> i]}
        /\ shown' = Shown(to, act, n)
        /\ work' = [work EXCEPT ![r] = [work[r] EXCEPT !.todo = @ \ {to}]]
  BY DEF Deliver, Go, Ev
<1>2. /\ proc[r].pc = "run" /\ work[r].pc = "send"
      /\ UNCHANGED <<intakeVars, rows, notes, warned, copied, barred, twice, cut>>
  BY DEF Deliver, Doing, record, files, ghost
<1>3. /\ IntakeSound' /\ Grows /\ stream' = stream /\ proc' = proc /\ marked' = marked
      /\ \A x : Over(x)' <=> Over(x)
      /\ \A q \in Requests : Handling(q)' <=> Handling(q)
  BY <1>2, IntakeStays
<1>4. /\ work \in [Requests -> Work] /\ work[r] \in Work /\ Holds(work[r], proc[r]) /\ Sending(work[r])
      /\ i \in 1..Len(stream) /\ i \in Positions
      /\ stream[i].enc => i \in copied
  BY <1>2, Facts, EvFacts, EventFacts DEF Holds
<1>5. /\ n \in notes /\ n \in Note /\ work[r].by = n.actor /\ to \in MayGet(n, act)
      /\ act \in {"Create", "Update", "Delete"} /\ n.actor \in Actors
      /\ act = "Create" => n.pos = i /\ Kind(i) \in Making
      /\ act = "Delete" => Kind(i) = "redact"
  <2>1. n \in notes /\ work[r].by = n.actor /\ to \in MayGet(n, act)
    BY <1>1, <1>4 DEF Sending
  <2>2. n \in Note /\ n.actor \in Actors BY <2>1, NoteFacts
  <2>3. work[r].act = CASE Kind(i) \in Making -> "Create"
               [] Kind(i) = "redact" -> "Delete"
               [] OTHER -> "Update"
    BY <1>4 DEF Sending
  <2>4. CASE Kind(i) \in Making BY <1>4, <2>1, <2>2, <2>3, <2>4 DEF Sending
  <2>5. CASE Kind(i) \notin Making BY <1>4, <2>1, <2>2, <2>3, <2>5 DEF Sending
  <2> QED BY <2>4, <2>5
<1>6. to \in Inboxes BY <1>1, <1>4 DEF Work
<1>7. PICK d : d = [to |-> to, act |-> act, note |-> n, by |-> work[r].by, ev |-> i] OBVIOUS
<1>8. /\ d.to = to /\ d.act = act /\ d.note = n /\ d.by = work[r].by /\ d.ev = i
      /\ sent' = sent \cup {d}
  BY <1>1, <1>7
<1>9. /\ act = "Create" => shown' = shown \cup {<<to, n>>}
      /\ act = "Delete" => shown' = shown \ {<<to, n>>}
      /\ act = "Update" => shown' = shown
  BY <1>1 DEF Shown
<1>10. PICK w \in Work : w = [work[r] EXCEPT !.todo = @ \ {to}]
  <2>1. work[r].todo \ {to} \in SUBSET Inboxes BY <1>4 DEF Work
  <2> QED BY <1>4, <2>1 DEF Work
<1>11. /\ w.pc = "send" /\ w.ev = i /\ w.act = act /\ w.note = n /\ w.by = work[r].by
       /\ w.todo = work[r].todo \ {to} /\ work' = [work EXCEPT ![r] = w]
  BY <1>1, <1>2, <1>4, <1>10 DEF Work
<1>12. \A q \in Requests : work'[q] = IF q = r THEN w ELSE work[q] BY <1>4, <1>11
<1>13. StreamSound' /\ FilesSound'
  BY <1>2, <1>3, Facts DEF StreamSound, FilesSound, Permitted, Kind
<1>14. NotesSound'
  BY <1>2, <1>3, Facts DEF NotesSound, Tracked, Made, Kind, Positions, Acting
<1>15. SentSound'
  <2>1. d \in Activity BY <1>4, <1>5, <1>6, <1>7 DEF Activity
  <2>2. \A x, y : MayGet(x, y)' = MayGet(x, y) BY <1>3 DEF MayGet, DmAudience, Mentioned, Kind
  <2>3. \A x \in sent' : /\ x.ev \in 1..Len(stream) /\ x.note \in notes /\ x.by = x.note.actor
                         /\ x.to \in MayGet(x.note, x.act)
                         /\ x.act # "Delete" /\ stream[x.ev].enc => x.ev \in copied
    BY <1>4, <1>5, <1>8, Facts DEF SentSound
  <2>4. shown' \subseteq {<<x.to, x.note>> : x \in sent'}
    <3>1. shown \subseteq {<<x.to, x.note>> : x \in sent'} BY <1>8, Facts DEF SentSound
    <3>2. <<to, n>> \in {<<x.to, x.note>> : x \in sent'} BY <1>8
    <3> QED BY <1>5, <1>9, <3>1, <3>2
  <2>5. sent' \subseteq Activity BY <1>8, <2>1, Facts DEF SentSound
  <2> QED BY <1>2, <1>3, <2>2, <2>3, <2>4, <2>5 DEF SentSound, Activity, Positions
\* What is being sent is not being taken back, nor has it been.
<1>16. \A k \in 1..Len(stream), x \in shown' \ shown :
         /\ Kind(k) = "redact" /\ stream[k].of = x[2].pos
         /\ k \in marked \/ \E q \in Requests : Handling(q) /\ proc[q].at = k
         => x[2].pos \in twice
  <2> SUFFICES ASSUME NEW k \in 1..Len(stream), NEW x \in shown' \ shown,
                      Kind(k) = "redact", stream[k].of = x[2].pos,
                      k \in marked \/ \E q \in Requests : Handling(q) /\ proc[q].at = k,
                      x[2].pos \notin twice
               PROVE  FALSE
    OBVIOUS
  <2>1. act = "Create" /\ x = <<to, n>> BY <1>5, <1>9
  <2>2. x[2] = n BY <2>1
  <2>3. stream[k].of = i /\ i \notin twice /\ Kind(i) \in Making BY <1>5, <2>1, <2>2
  <2> QED BY <1>2, <2>3, Settled DEF Making
<1>17. AllHold'
  <2>1. Holds(w, proc[r])'
    <3>1. PICK p \in {proc[r]} : TRUE OBVIOUS
    <3>2. \A x : TakenUp(x, p)' <=> TakenUp(x, p) BY <1>2, <1>3 DEF TakenUp, Kind
    <3>3. Sending(w)'
      <4>1. \A f \in FollowersOf[n.actor] :
              act = "Delete" /\ (f \in work[r].todo \/ <<f, n>> \notin shown)
                => f \in w.todo \/ <<f, n>> \notin shown'
        BY <1>9, <1>11
      <4>2. \A x, y : MayGet(x, y)' = MayGet(x, y) BY <1>3 DEF MayGet, DmAudience, Mentioned, Kind
      <4> QED BY <1>2, <1>3, <1>4, <1>11, <4>1, <4>2 DEF Sending, Kind
    <3>4. Holds(w, p)' BY <1>2, <1>3, <1>4, <1>11, <3>1, <3>2, <3>3 DEF Holds, Kind
    <3> QED BY <1>3, <3>1, <3>4
  <2>2. \A x \in shown' \ shown, q \in Requests \ {r} :
           work[q].pc = "send" /\ work[q].act = "Delete" /\ work[q].note = x[2] =>
             work[q].note.pos \in twice'
    <3> SUFFICES ASSUME NEW x \in shown' \ shown, NEW q \in Requests \ {r},
                        work[q].pc = "send", work[q].act = "Delete", work[q].note = x[2]
                 PROVE  x[2].pos \in twice
      BY <1>2
    <3>1. Sending(work[q]) BY Facts DEF Holds
    <3>2. work[q].ev \in 1..Len(stream) BY EvFacts
    <3>3. Kind(work[q].ev) = "redact" /\ stream[work[q].ev].of = x[2].pos
      BY <3>1 DEF Sending
    <3>4. Handling(q) /\ proc[q].at = work[q].ev BY <3>3, EvFacts DEF Filed
    <3> QED BY <1>16, <3>2, <3>3, <3>4
  <2> QED BY <1>2, <1>3, <1>11, <2>1, <2>2, HandlersStep
<1>18. TwiceSound' BY <1>2, <1>3, TwiceStays
<1>19. OnceEach' /\ MadeInTurn' /\ GetsRow'
  <2>1. OnceEach' BY <1>2, <1>3, ExplainedStays, NoteFacts, Facts DEF OnceEach
  <2>2. MadeInTurn'
    <3>1. \A q \in Requests : work'[q].pc = work[q].pc BY <1>2, <1>11, <1>12
    <3> QED BY <1>2, <1>3, <3>1, Facts DEF MadeInTurn, Handling, Requests
  <2>3. \A q \in Requests : \A x : At(q, x) => At(q, x)' BY <1>2, <1>11, <1>12 DEF At
  <2>4. GetsRow' BY <1>2, <1>3, <2>3, Facts DEF GetsRow, Tracked, Kind, Requests
  <2> QED BY <2>1, <2>2, <2>4
<1>20. GetsSent'
  <2> SUFFICES ASSUME NEW x \in notes, Statement(x.pos), x.pos \notin cut, NEW y \in Hearers(x)
               PROVE  Reached(y, x)' \/ \E q \in Requests : At(q, x)' /\ y \in work'[q].todo
    BY <1>2, <1>3 DEF GetsSent, Statement, Hearers, Kind, Requests
  <2>1. Reached(y, x) \/ \E q \in Requests : At(q, x) /\ y \in work[q].todo BY Facts DEF GetsSent
  <2>2. CASE Reached(y, x) BY <1>8, <2>2 DEF Reached
  <2>3. CASE \E q \in Requests : At(q, x) /\ y \in work[q].todo
    <3>1. PICK q \in Requests : At(q, x) /\ y \in work[q].todo BY <2>3
    <3>2. CASE q = r /\ y = to BY <1>8, <3>1, <3>2 DEF At, Reached
    <3>3. CASE ~ (q = r /\ y = to) BY <1>2, <1>11, <1>12, <3>1, <3>3 DEF At
    <3> QED BY <3>2, <3>3
  <2> QED BY <2>1, <2>2, <2>3
<1>21. GetsMade'
  <2>1. \A q \in Requests : work'[q].pc = work[q].pc /\ work'[q].ev = work[q].ev
    BY <1>2, <1>11, <1>12
  <2> QED BY <1>2, <1>3, <2>1, MadeStays
<1>22. TakenBack'
  <2> SUFFICES ASSUME NEW k \in 1..Len(stream), Retracts(k), Over(k) PROVE Back(k)'
    BY <1>2, <1>3 DEF TakenBack, Retracts, Kind
  <2>1. Back(k) /\ Kind(k) = "redact" /\ stream[k].of \notin twice BY Facts DEF TakenBack, Retracts
  <2>2. k \in marked \/ \E q \in Requests : Handling(q) /\ proc[q].at = k BY DEF Over, Handling
  <2>3. \A x \in Made(stream[k].of) : \A f : <<f, x>> \notin shown' \ shown
    BY <1>16, <2>1, <2>2 DEF Made
  <2> QED BY <1>2, <1>3, <2>1, <2>3 DEF Back, Made, HasAnnouncement
<1> QED BY <1>3, <1>13, <1>14, <1>15, <1>17, <1>18, <1>19, <1>20, <1>21, <1>22 DEF IInv

-------------------------------------------------------------------------------
(* Objects are made, and rows written. *)

\* Whoever else relies on the row of an event one handler is at is known.
LEMMA RowsSafe ==
  ASSUME IInv, NEW r \in Requests, work[r].pc # "none",
         Kind(work[r].ev) \notin {"confirm", "announce"},
         NEW q \in Requests, q # r, work[q].pc # "none", work[r].ev \notin twice
  PROVE  /\ work[q].ev # work[r].ev
         /\ work[q].pc = "send" /\ work[q].act = "Delete" => work[q].note.pos # work[r].ev
<1>1. work[q].ev # work[r].ev BY BothKnown
<1>2. ASSUME work[q].pc = "send", work[q].act = "Delete", work[q].note.pos = work[r].ev PROVE FALSE
  <2>1. Sending(work[q]) BY <1>2, Facts DEF Holds
  <2>2. work[q].ev \in 1..Len(stream) BY EvFacts
  <2>3. Kind(work[q].ev) = "redact" /\ stream[work[q].ev].of = work[r].ev
    BY <1>2, <2>1 DEF Sending
  <2>4. Handling(q) /\ proc[q].at = work[q].ev BY <2>3, EvFacts DEF Filed
  <2> QED BY <2>2, <2>3, <2>4, Settled
<1> QED BY <1>1, <1>2

\* Nothing is made for an event that was taken back.
LEMMA NotRetracted ==
  ASSUME IInv, NEW r \in Requests, work[r].pc # "none",
         Kind(work[r].ev) \notin {"confirm", "announce"},
         NEW k \in 1..Len(stream), Retracts(k), Over(k)
  PROVE  stream[k].of # work[r].ev
<1>1. k \in marked \/ \E q \in Requests : Handling(q) /\ proc[q].at = k BY DEF Over, Handling
<1>2. Kind(k) = "redact" /\ stream[k].of \notin twice BY DEF Retracts
<1> QED BY <1>1, <1>2, Settled

LEMMA KeepInv ==
  ASSUME IInv, NEW r \in Requests, Keep(r)
  PROVE  IInv'
<1> DEFINE i == work[r].ev n == work[r].note p == proc[r].at
<1>1. /\ proc[r].pc = "run" /\ work[r].pc = "send" /\ work[r].todo = {} /\ Kind(i) \in Late
      /\ rows' = [rows EXCEPT ![i] = n]
      /\ End(r) /\ work' = [work EXCEPT ![r] = IdleWork]
      /\ UNCHANGED <<notes, sent, shown, warned, copied, barred, twice, cut>>
  BY DEF Keep, Delivered, Doing, Done, Ev, Kind, Late, outside, files, ghost
<1>2. /\ IntakeSound' /\ Grows /\ stream' = stream /\ marked' = marked
      /\ \A q \in Requests \ {r} : proc'[q] = proc[q]
      /\ proc'[r].pc = "mark" /\ proc'[r].at = p
      /\ \A q \in Requests : /\ Handling(q)' <=> Handling(q)
                             /\ Handling(q) => proc'[q].at = proc[q].at
      /\ \A x : Over(x)' => Over(x) \/ x = p
  BY <1>1, EndFacts
<1>3. work \in [Requests -> Work] /\ IdleWork \in Work /\ IdleWork.pc = "none" BY Facts, IdleHolds
<1>4. \A q \in Requests : work'[q] = IF q = r THEN IdleWork ELSE work[q] BY <1>1, <1>3
<1>5. /\ i \in 1..Len(stream) /\ i \in Positions /\ p \in 1..Len(stream)
      /\ Kind(p) \notin {"confirm", "announce"} => i = p
      /\ Sending(work[r]) /\ Kind(i) \in Making
  BY <1>1, EvFacts, EventFacts, AtFacts, Facts DEF Holds, Late, Making
<1>6. n \in notes /\ n.pos = i /\ n \in Note /\ n # NoNote /\ work[r].act = "Create"
  <2>0. work[r].act = CASE Kind(i) \in Making -> "Create"
               [] Kind(i) = "redact" -> "Delete"
               [] OTHER -> "Update"
    BY <1>5 DEF Sending
  <2>1. work[r].act = "Create" BY <1>1, <1>5, <2>0 DEF Late
  <2>2. n \in notes /\ n.pos = i BY <1>5, <2>1 DEF Sending
  <2> QED BY <2>1, <2>2, NoteFacts
<1>7. /\ rows \in [Positions -> Note \cup {NoNote}]
      /\ \A x \in Positions : rows'[x] = IF x = i THEN n ELSE rows[x]
  BY <1>1, Facts DEF NotesSound
<1>8. \A x \in Positions : Tracked(x) => Tracked(x)' BY <1>6, <1>7 DEF Tracked
<1>9. StreamSound' /\ FilesSound' /\ SentSound'
  <2>1. StreamSound' /\ FilesSound' BY <1>1, <1>2, Facts DEF StreamSound, FilesSound, Permitted, Kind
  <2> QED BY <1>1, <1>2, <2>1, SentStays
<1>10. NotesSound'
  <2>1. rows' \in [Positions -> Note \cup {NoNote}] BY <1>1, <1>6, <1>7
  <2>2. \A x \in notes : Kind(x.pos) \in Early => Tracked(x.pos)'
    BY <1>8, NoteFacts, Facts DEF NotesSound
  <2>3. \A x \in Positions : Tracked(x)' => rows'[x] \in Made(x)
    BY <1>6, <1>7, Facts DEF NotesSound, Tracked, Made
  <2> QED BY <1>1, <1>2, <2>1, <2>2, <2>3, Facts DEF NotesSound, Made, Kind, Positions, Acting
<1>11. AllHold'
  <2>1. Holds(IdleWork, proc[r])'
    <3>1. PICK v \in {proc'[r]} : TRUE OBVIOUS
    <3>2. v.pc # "run" BY <1>2, <3>1
    <3>3. Holds(IdleWork, v)' BY <3>2, IdleHolds
    <3> QED BY <3>1, <3>3
  <2>2. \A x \in Positions, q \in Requests \ {r} : rows'[x] # rows[x] /\ work[q].pc # "none" =>
           \/ x \in twice'
           \/ /\ work[q].ev # x
              /\ work[q].pc = "send" /\ work[q].act = "Delete" => work[q].note.pos # x
    BY <1>1, <1>7, RowsSafe DEF Late
  <2> QED BY <1>1, <1>2, <1>3, <2>1, <2>2, HandlersStep
<1>12. TwiceSound' BY <1>1, <1>2, TwiceStays
<1>13. OnceEach' BY <1>1, <1>2, ExplainedStays, NoteFacts, Facts DEF OnceEach
<1>14. MadeInTurn'
  <2>1. \A q \in Requests : Handling(q) /\ work[q].pc \notin {"check", "record"} =>
          Handling(q)' /\ proc'[q].at = proc[q].at /\ work'[q].pc \notin {"check", "record"}
    BY <1>2, <1>3, <1>4
  <2> QED BY <1>1, <1>2, <2>1, Facts DEF MadeInTurn, Requests
<1>15. \A q \in Requests : \A x \in notes : At(q, x) => At(q, x)' \/ (q = r /\ x = n)
  BY <1>1, <1>4 DEF At
<1>16. GetsRow'
  <2> SUFFICES ASSUME NEW x \in notes, Kind(x.pos) \in Late, x.pos \notin cut
               PROVE  Tracked(x.pos)' \/ \E q \in Requests : At(q, x)'
    BY <1>1, <1>2 DEF GetsRow, Kind, Requests
  <2>1. x.pos \in Positions BY NoteFacts
  <2>2. Tracked(x.pos) \/ \E q \in Requests : At(q, x) BY Facts DEF GetsRow
  <2>3. x.pos = i => Tracked(x.pos)' BY <1>6, <1>7, <2>1 DEF Tracked
  <2> QED BY <1>6, <1>8, <1>15, <2>1, <2>2, <2>3
<1>17. GetsSent'
  <2> SUFFICES ASSUME NEW x \in notes, Statement(x.pos), x.pos \notin cut, NEW to \in Hearers(x)
               PROVE  Reached(to, x) \/ \E q \in Requests : At(q, x)' /\ to \in work'[q].todo
    BY <1>1, <1>2 DEF GetsSent, Requests, Statement, Hearers, Reached, Kind
  <2>1. Reached(to, x) \/ \E q \in Requests : At(q, x) /\ to \in work[q].todo
    BY Facts DEF GetsSent
  <2>2. \A q \in Requests : At(q, x) /\ to \in work[q].todo => At(q, x)' /\ to \in work'[q].todo
    BY <1>1, <1>4 DEF At
  <2> QED BY <2>1, <2>2
<1>18. GetsMade'
  <2>1. Due(p) => Made(p) # {}
    BY <1>5, <1>6 DEF Due, Statement, Made
  <2>2. \A q \in Requests : work[q].pc \in {"check", "record"} =>
          work'[q].pc \in {"check", "record"} /\ work'[q].ev = work[q].ev
    BY <1>1, <1>4
  <2>3. \A x \in 1..Len(stream') : Over(x)' =>
          x \in 1..Len(stream) /\ (Over(x) \/ x \in cut' \/ (Due(x) => Made(x) # {}))
    BY <1>2, <2>1
  <2> QED BY <1>1, <1>2, <2>2, <2>3, MadeStays
<1>19. TakenBack'
  <2> SUFFICES ASSUME NEW k \in 1..Len(stream), Retracts(k), Over(k)' PROVE Back(k)'
    BY <1>1, <1>2 DEF TakenBack, Retracts, Kind
  <2>1. Kind(k) = "redact" BY DEF Retracts
  <2>2. k # p BY <1>1, <1>5, <2>1 DEF Late
  <2>3. Over(k) BY <1>2, <2>2
  <2>4. Back(k) BY <2>3, Facts DEF TakenBack
  <2>5. stream[k].of # i BY <1>1, <2>3, NotRetracted DEF Late
  <2>6. stream[k].of \in Positions BY <2>1, EventFacts, Facts DEF Referring
  <2>7. rows'[stream[k].of] = rows[stream[k].of] BY <1>7, <2>5, <2>6
  <2> QED BY <1>1, <1>2, <2>4, <2>7 DEF Back, Made, HasAnnouncement
<1> QED BY <1>2, <1>9, <1>10, <1>11, <1>12, <1>13, <1>14, <1>16, <1>17, <1>18, <1>19 DEF IInv

\* The object a handler makes is a new one of its event.
LEMMA FreshFacts ==
  ASSUME IInv, NEW i \in 1..Len(stream), NEW a \in Actors
  PROVE  /\ Fresh(i, a) \in Note /\ Fresh(i, a) # NoNote
         /\ Fresh(i, a).pos = i /\ Fresh(i, a).actor = a
         /\ IsFiniteSet(notes \cup {Fresh(i, a)})
<1>1. Made(i) \subseteq notes /\ IsFiniteSet(notes) BY Facts DEF Made, NotesSound
<1>2. IsFiniteSet(Made(i)) BY <1>1, FS_Subset
<1>3. Cardinality(Made(i)) \in Nat BY <1>2, FS_CardinalityType
<1>4. Cardinality(Made(i)) + 1 \in Nat BY <1>3
<1>5. i \in Positions BY EventFacts, Facts
<1>6. Fresh(i, a) \in Note BY <1>4, <1>5 DEF Fresh, Note
<1>7. Fresh(i, a).pos = i /\ Fresh(i, a).actor = a BY DEF Fresh
<1>8. Fresh(i, a) # NoNote
  <2>1. i # 0 BY <1>5, IntakeAssumption DEF Positions
  <2>2. NoNote.pos = 0 BY DEF NoNote
  <2> QED BY <1>7, <2>1, <2>2
<1> QED BY <1>1, <1>6, <1>7, <1>8, FS_AddElement

\* A second object of an event is one of those that are explained.
LEMMA SecondExplained ==
  ASSUME IInv, NEW r \in Requests, work[r].pc \in {"check", "record"}, NEW n \in notes,
         n.pos = work[r].ev, Kind(work[r].ev) \in Early => work[r].ev \in twice \/ ~ Tracked(work[r].ev)
  PROVE  Explained(n.pos)
<1> DEFINE i == work[r].ev
<1>1. /\ Kind(i) \in Making /\ Kind(i) \notin {"confirm", "announce"} /\ i \in 1..Len(stream)
  BY NoteFacts
<1>2. /\ Handling(r) /\ Topic(proc[r].at) = i /\ Holds(work[r], proc[r])
      /\ i = proc[r].at \/ TakenUp(i, proc[r])
  BY <1>1, EvFacts, Facts
<1>3. CASE Kind(i) \in Early
  <2>1. Tracked(i) BY <1>3, Facts DEF NotesSound
  <2> QED BY <1>3, <2>1 DEF Explained
<1>4. CASE Kind(i) \notin Early
  <2> SUFFICES ASSUME i \notin cut PROVE i \in twice \/ HasAnnouncement(i)
    BY <1>4 DEF Explained
  <2>1. \/ i \in marked
        \/ \E q \in Requests : /\ Handling(q) /\ proc[q].at = i
                               /\ work[q].pc \notin {"check", "record"}
    BY Facts DEF MadeInTurn
  <2>2. CASE \E q \in Requests : /\ Handling(q) /\ proc[q].at = i
                                 /\ work[q].pc \notin {"check", "record"}
    <3>1. PICK q \in Requests : /\ Handling(q) /\ proc[q].at = i
                                /\ work[q].pc \notin {"check", "record"}
      BY <2>2
    <3>2. Topic(proc[q].at) = i BY <1>1, <3>1 DEF Topic, Kind
    <3>3. q # r BY <3>1
    <3> QED BY <1>2, <3>1, <3>2, <3>3, Facts DEF TwiceSound
  <2>3. CASE i \in marked /\ i = proc[r].at BY <1>2, <2>3, Facts DEF TwiceSound
  <2>4. CASE i # proc[r].at
    <3>1. TakenUp(i, proc[r]) BY <1>2, <2>4
    <3>2. i = stream[proc[r].at].of /\ Kind(proc[r].at) \in {"confirm", "announce"}
      BY <3>1 DEF TakenUp
    <3>3. proc[r].at \in 1..Len(stream) BY <1>2, AtFacts
    <3>4. CASE Kind(proc[r].at) = "announce" BY <3>2, <3>3, <3>4 DEF HasAnnouncement, Kind
    <3>5. CASE Kind(proc[r].at) = "confirm"
      <4>1. work[r].pc = "check" BY <1>2, <1>4 DEF Holds
      <4>2. i \in twice \/ ~ Tracked(i) BY <1>2, <2>4, <3>5, <4>1 DEF Holds
      <4>3. CASE ~ Tracked(i)
        <5>1. Kind(i) \in Filed BY <2>4, <4>1, EvFacts
        <5>2. Kind(i) \in Late BY <1>1, <1>4, <5>1 DEF Filed, Making, Early, Late
        <5>3. PICK q \in Requests : At(q, n) BY <4>3, <5>2, Facts DEF GetsRow
        <5>4. work[q].pc = "send" /\ work[q].ev = i
          <6>1. Holds(work[q], proc[q]) BY Facts
          <6> QED BY <5>3, <6>1 DEF At, Holds, Sending
        <5>5. q # r BY <4>1, <5>4
        <5> QED BY <1>1, <4>1, <5>4, <5>5, BothKnown
      <4> QED BY <4>2, <4>3
    <3> QED BY <3>2, <3>4, <3>5
  <2> QED BY <2>1, <2>2, <2>3, <2>4
<1> QED BY <1>3, <1>4

LEMMA MakesInv ==
  ASSUME IInv, NEW r \in Requests, work[r].pc \in {"check", "record"},
         NEW i \in 1..Len(stream), i = work[r].ev, Kind(i) \in Making,
         NEW a \in Acting(stream[i]), NEW fetched \in BOOLEAN,
         stream[i].enc => i \in copied, Kind(i) = "reply" => Answerable(i),
         UNCHANGED <<intakeVars, sent, shown, warned, copied, barred, twice, cut>>,
         NEW n, n = Fresh(i, a), notes' = notes \cup {n},
         work' = [work EXCEPT ![r] = [work[r] EXCEPT !.pc = "send", !.by = a, !.act = "Create", !.note = n,
                                                     !.todo = Audience(i, a, fetched)]],
         Kind(i) \in Early => rows' = [rows EXCEPT ![i] = n] /\ (i \in twice \/ ~ Tracked(i)),
         Kind(i) \notin Early => rows' = rows
  PROVE  IInv'
<1>1. /\ IntakeSound' /\ Grows /\ stream' = stream /\ proc' = proc /\ marked' = marked
      /\ \A x : Over(x)' <=> Over(x)
      /\ \A q \in Requests : Handling(q)' <=> Handling(q)
  BY IntakeStays
<1>2. a \in Actors BY ActorFacts
<1>3. /\ n \in Note /\ n # NoNote /\ n.pos = i /\ n.actor = a /\ IsFiniteSet(notes')
      /\ n \in notes'
  BY <1>2, FreshFacts
<1>4. /\ work \in [Requests -> Work] /\ work[r] \in Work /\ Holds(work[r], proc[r])
      /\ proc[r].pc = "run" /\ Handling(r)
      /\ i \in Positions /\ i \in Nat /\ proc[r].at \in 1..Len(stream) /\ proc[r].at \in Nat
      /\ i = proc[r].at \/ TakenUp(i, proc[r])
      /\ i # proc[r].at => i < proc[r].at
  BY Facts, EvFacts, EventFacts, AtFacts
<1>5. /\ Audience(i, a, fetched) \subseteq Inboxes
      /\ Kind(i) \in Private => Audience(i, a, fetched) \subseteq DmAudience(i)
      /\ Statement(i) => (IF Kind(i) = "post" THEN FollowersOf[a] ELSE {"peer"})
                           \subseteq Audience(i, a, fetched)
  BY <1>2, AudienceFacts
<1>6. PICK w \in Work : w = [work[r] EXCEPT !.pc = "send", !.by = a, !.act = "Create", !.note = n,
                                            !.todo = Audience(i, a, fetched)]
  BY <1>2, <1>3, <1>4, <1>5 DEF Work
<1>7. /\ w.pc = "send" /\ w.ev = i /\ w.act = "Create" /\ w.note = n /\ w.by = a
      /\ w.todo = Audience(i, a, fetched) /\ work' = [work EXCEPT ![r] = w]
  BY <1>4, <1>6 DEF Work
<1>8. \A q \in Requests : work'[q] = IF q = r THEN w ELSE work[q] BY <1>4, <1>7
<1>9. /\ rows \in [Positions -> Note \cup {NoNote}]
      /\ \A x \in Positions : rows'[x] = IF x = i /\ Kind(i) \in Early THEN n ELSE rows[x]
      /\ rows' \in [Positions -> Note \cup {NoNote}]
  BY <1>3, <1>4, Facts DEF NotesSound
<1>10. \A x \in Positions : Tracked(x) => Tracked(x)' BY <1>3, <1>9 DEF Tracked
<1>11. StreamSound' /\ FilesSound' /\ SentSound'
  <2>1. StreamSound' /\ FilesSound' BY <1>1, Facts DEF StreamSound, FilesSound, Permitted, Kind
  <2> QED BY <1>1, <2>1, SentStays
<1>12. NotesSound'
  <2>1. \A x \in notes' : Kind(x.pos) \in Early => Tracked(x.pos)'
    <3> SUFFICES ASSUME NEW x \in notes', Kind(x.pos) \in Early PROVE Tracked(x.pos)' OBVIOUS
    <3>1. CASE x \in notes BY <1>10, <3>1, NoteFacts, Facts DEF NotesSound
    <3>2. CASE x = n BY <1>3, <1>4, <1>9, <3>2 DEF Tracked
    <3> QED BY <3>1, <3>2
  <2>2. \A x \in Positions : Tracked(x)' => rows'[x] \in Made(x)'
    BY <1>3, <1>9, Facts DEF NotesSound, Tracked, Made
  <2>3. \A x \in notes' : /\ x \in Note /\ x.pos \in 1..Len(stream) /\ Kind(x.pos) \in Making
                          /\ x.actor \in Acting(stream[x.pos])
    BY <1>3, NoteFacts
  <2>4. \A x \in notes' : Kind(x.pos)' = Kind(x.pos) BY <1>1 DEF Kind
  <2>5. \A x \in notes' : /\ x.pos \in 1..Len(stream') /\ Kind(x.pos)' \in Making
                          /\ x.actor \in Acting(stream[x.pos])'
    <3> SUFFICES ASSUME NEW x \in notes'
                 PROVE  /\ x.pos \in 1..Len(stream') /\ Kind(x.pos)' \in Making
                        /\ x.actor \in Acting(stream[x.pos])'
      OBVIOUS
    <3>1. Acting(stream[x.pos])' = Acting(stream[x.pos]) BY <1>1 DEF Acting
    <3>2. x.pos \in 1..Len(stream') BY <1>1, <2>3
    <3>3. Kind(x.pos)' \in Making BY <2>3, <2>4
    <3> QED BY <2>3, <3>1, <3>2, <3>3
  <2>6. notes' \subseteq Note BY <2>3
  <2>7. \A x \in notes' : Kind(x.pos)' \in Early => Tracked(x.pos)' BY <2>1, <2>4
  <2> QED BY <1>3, <1>9, <2>2, <2>5, <2>6, <2>7 DEF NotesSound, Positions
<1>13. Kind(i) \notin {"confirm", "announce"} BY DEF Making
<1>14. AllHold'
  <2>1. Holds(w, proc[r])'
    <3>1. PICK p \in {proc[r]} : TRUE OBVIOUS
    <3>2. \A x : TakenUp(x, p)' <=> TakenUp(x, p) BY <1>1 DEF TakenUp, Kind
    <3>3. Sending(w)'
      <4>1. w.todo \subseteq MayGet(w.note, w.act)'
        BY <1>1, <1>3, <1>5, <1>7 DEF MayGet, DmAudience, Mentioned, Kind
      <4>2. w.act = CASE Kind(w.ev)' \in Making -> "Create"
               [] Kind(w.ev)' = "redact" -> "Delete"
               [] OTHER -> "Update"
        <5>1. Kind(w.ev)' = Kind(i) BY <1>1, <1>7 DEF Kind
        <5>2. Kind(i) # "redact" BY DEF Making
        <5> QED BY <1>7, <5>1, <5>2
      <4> QED BY <1>3, <1>7, <4>1, <4>2 DEF Sending
    <3>4. Kind(w.ev)' \notin {"confirm", "announce"} BY <1>1, <1>7, <1>13 DEF Kind
    <3>5. Holds(w, p)' BY <1>1, <1>4, <1>7, <3>1, <3>2, <3>3, <3>4 DEF Holds
    <3> QED BY <1>1, <3>1, <3>5
  <2>2. \A x \in Positions, q \in Requests \ {r} : rows'[x] # rows[x] /\ work[q].pc # "none" =>
           \/ x \in twice'
           \/ /\ work[q].ev # x
              /\ work[q].pc = "send" /\ work[q].act = "Delete" => work[q].note.pos # x
    BY <1>9, <1>13, RowsSafe
  <2> QED BY <1>1, <1>7, <2>1, <2>2, HandlersStep
<1>15. TwiceSound' BY <1>1, TwiceStays
<1>16. OnceEach'
  <2>1. \A x \in notes : x.pos = i => Explained(i)
    BY SecondExplained
  <2>2. \A x, y \in notes' : x.pos = y.pos /\ x # y => Explained(x.pos) /\ x.pos \in 1..Len(stream)
    BY <1>3, <2>1, NoteFacts, Facts DEF OnceEach
  <2>3. \A x \in 1..Len(stream) : Explained(x) => Explained(x)' BY <1>1, ExplainedStays
  <2> QED BY <2>2, <2>3 DEF OnceEach
<1>17. MadeInTurn'
  <2>1. \A q \in Requests : work[q].pc \notin {"check", "record"} =>
          work'[q].pc \notin {"check", "record"}
    BY <1>7, <1>8
  <2>2. n.pos \in marked \/ (proc[r].at = n.pos /\ work'[r].pc \notin {"check", "record"})
    BY <1>3, <1>4, <1>7, <1>8, AtFacts
  <2>3. \A x \in notes : \/ x.pos \in marked \cup cut
                         \/ \E q \in Requests : /\ Handling(q) /\ proc[q].at = x.pos
                                                /\ work'[q].pc \notin {"check", "record"}
    BY <2>1, Facts DEF MadeInTurn
  <2>4. \A x \in notes' : \/ x.pos \in marked \cup cut
                          \/ \E q \in Requests : /\ Handling(q) /\ proc[q].at = x.pos
                                                 /\ work'[q].pc \notin {"check", "record"}
    BY <1>4, <2>2, <2>3
  <2>5. \A q \in Requests : Handling(q) => Handling(q)' BY <1>1
  <2> QED BY <1>1, <2>4, <2>5 DEF MadeInTurn, Requests
<1>18. \A q \in Requests : \A x \in notes : At(q, x) => At(q, x)' /\ work'[q] = work[q]
  BY <1>8 DEF At
<1>19. At(r, n)' /\ work'[r] = w BY <1>7, <1>8 DEF At
<1>20. GetsRow'
  <2> SUFFICES ASSUME NEW x \in notes', Kind(x.pos) \in Late, x.pos \notin cut
               PROVE  Tracked(x.pos)' \/ \E q \in Requests : At(q, x)'
    BY <1>1 DEF GetsRow, Kind, Requests
  <2>1. CASE x = n BY <1>19, <2>1
  <2>2. CASE x \in notes
    <3>1. x.pos \in Positions BY <2>2, NoteFacts
    <3>2. Tracked(x.pos) \/ \E q \in Requests : At(q, x) BY <2>2, Facts DEF GetsRow
    <3> QED BY <1>10, <1>18, <2>2, <3>1, <3>2
  <2> QED BY <2>1, <2>2
<1>21. GetsSent'
  <2> SUFFICES ASSUME NEW x \in notes', Statement(x.pos), x.pos \notin cut, NEW to \in Hearers(x)
               PROVE  Reached(to, x) \/ \E q \in Requests : At(q, x)' /\ to \in work'[q].todo
    BY <1>1 DEF GetsSent, Requests, Statement, Hearers, Reached, Kind
  <2>1. CASE x = n
    <3>1. to \in w.todo BY <1>3, <1>5, <1>7, <2>1 DEF Hearers
    <3> QED BY <1>19, <2>1, <3>1
  <2>2. CASE x \in notes
    <3>1. Reached(to, x) \/ \E q \in Requests : At(q, x) /\ to \in work[q].todo
      BY <2>2, Facts DEF GetsSent
    <3> QED BY <1>18, <2>2, <3>1
  <2> QED BY <2>1, <2>2
<1>22. GetsMade'
  <2> SUFFICES ASSUME NEW x \in 1..Len(stream), Due(x), Over(x) \/ x \in copied
               PROVE  \/ Made(x)' # {}
                      \/ \E q \in Requests : work'[q].pc \in {"check", "record"} /\ work'[q].ev = x
    BY <1>1 DEF GetsMade, Due, Statement, Kind, Requests
  <2>1. CASE x = i BY <1>3, <2>1 DEF Made
  <2>2. CASE x # i
    <3>1. \/ Made(x) # {}
          \/ \E q \in Requests : work[q].pc \in {"check", "record"} /\ work[q].ev = x
      BY Facts DEF GetsMade
    <3>2. Made(x) \subseteq Made(x)' BY DEF Made
    <3> QED BY <1>8, <2>2, <3>1, <3>2
  <2> QED BY <2>1, <2>2
<1>23. TakenBack'
  <2> SUFFICES ASSUME NEW k \in 1..Len(stream), Retracts(k), Over(k) PROVE Back(k)'
    BY <1>1 DEF TakenBack, Retracts, Kind
  <2>1. Back(k) /\ Kind(k) = "redact" BY Facts DEF TakenBack, Retracts
  <2>2. stream[k].of # i BY <1>13, NotRetracted
  <2>3. stream[k].of \in Positions
    <3>1. stream[k].of \in 1..Len(stream) BY <2>1, EventFacts, Facts DEF Referring
    <3> QED BY <3>1, EventFacts, Facts
  <2>4. rows'[stream[k].of] = rows[stream[k].of] BY <1>9, <2>2, <2>3
  <2>5. \A x \in notes' : x.pos = stream[k].of => x \in notes BY <1>3, <2>2
  <2> QED BY <1>1, <2>1, <2>4, <2>5 DEF Back, Made, HasAnnouncement
<1> QED BY <1>1, <1>11, <1>12, <1>14, <1>15, <1>16, <1>17, <1>20, <1>21, <1>22, <1>23 DEF IInv

LEMMA RecordInv ==
  ASSUME IInv, NEW r \in Requests, Record(r)
  PROVE  IInv'
<1>1. PICK i \in {work[r].ev}, a \in {work[r].by} : TRUE OBVIOUS
<1>2. PICK n : n = Fresh(i, a) OBVIOUS
<1>3. /\ proc[r].pc = "run" /\ work[r].pc = "record" /\ notes' = notes \cup {n}
      /\ rows' = [rows EXCEPT ![i] = n]
      /\ work' = [work EXCEPT ![r] = [work[r] EXCEPT !.pc = "send", !.act = "Create", !.note = n,
                                                     !.todo = Audience(i, work[r].by, FALSE)]]
      /\ UNCHANGED <<intakeVars, sent, shown, warned, copied, barred, twice, cut>>
  BY <1>1, <1>2 DEF Record, Doing, Ev, Go, outside, files, ghost
<1>4. /\ i \in 1..Len(stream) /\ Kind(i) \in Early /\ a \in Acting(stream[i])
      /\ i \in twice \/ ~ Tracked(i)
      /\ stream[i].enc => i \in copied
      /\ work[r] \in Work
  <2>1. Holds(work[r], proc[r]) /\ work[r] \in Work BY Facts
  <2> QED BY <1>1, <1>3, <2>1 DEF Holds
<1>5. [work[r] EXCEPT !.pc = "send", !.act = "Create", !.note = n, !.todo = Audience(i, work[r].by, FALSE)] =
      [work[r] EXCEPT !.pc = "send", !.by = a, !.act = "Create", !.note = n, !.todo = Audience(i, a, FALSE)]
  BY <1>1, <1>4 DEF Work
<1>6. Kind(i) \in Making /\ Kind(i) # "reply" BY <1>4 DEF Early, Making
<1> QED BY <1>1, <1>2, <1>3, <1>4, <1>5, <1>6, MakesInv

LEMMA AddressInv ==
  ASSUME IInv, NEW r \in Requests, Address(r)
  PROVE  IInv'
<1>1. PICK i \in {work[r].ev} : TRUE OBVIOUS
<1>2. PICK a \in Acting(stream[i]), fetched \in BOOLEAN :
        /\ notes' = notes \cup {Fresh(i, a)}
        /\ work' = [work EXCEPT ![r] = [work[r] EXCEPT !.pc = "send", !.by = a, !.act = "Create",
                                            !.note = Fresh(i, a), !.todo = Audience(i, a, fetched)]]
  BY <1>1 DEF Address, Go, Ev
<1>3. PICK n : n = Fresh(i, a) OBVIOUS
<1>4. /\ Ready(r, {"reply", "dm", "chat", "vote"}) /\ rows' = rows
      /\ UNCHANGED <<intakeVars, sent, shown, warned, copied, barred, twice, cut>>
  BY DEF Address, outside, files, ghost
<1>5. /\ i \in 1..Len(stream) /\ Kind(i) \in Making /\ Kind(i) \notin Early /\ work[r].pc = "check"
      /\ stream[i].enc => i \in copied
      /\ Expected(i)
  BY <1>1, <1>4, ReadyFacts DEF Making, Early
<1>6. Kind(i) = "reply" => Answerable(i) BY <1>5 DEF Expected, Kind
<1> QED BY <1>1, <1>2, <1>3, <1>4, <1>5, <1>6, MakesInv

-------------------------------------------------------------------------------
(* Events are taken up, and the world moves. *)

\* An answer or an announcement: the handler goes on with the post it is about.
LEMMA TakesUpInv ==
  ASSUME IInv, NEW r \in Requests, proc[r].pc = "run", work[r].pc = "check",
         NEW j \in 1..Len(stream), j = work[r].ev, NEW i, i = stream[j].of,
         Kind(j) \in {"confirm", "announce"}, ~ Redacted(i),
         Kind(j) = "confirm" => stream[i].user = stream[j].user /\ ~ Tracked(i),
         copied' = copied \cup {i}, work' = [work EXCEPT ![r] = [work[r] EXCEPT !.ev = i]],
         UNCHANGED <<intakeVars, rows, notes, sent, shown, warned, barred, twice, cut>>
  PROVE  IInv'
<1>1. /\ IntakeSound' /\ Grows /\ stream' = stream /\ proc' = proc /\ marked' = marked
      /\ \A x : Over(x)' <=> Over(x)
      /\ \A q \in Requests : Handling(q)' <=> Handling(q)
  BY IntakeStays
<1>2. /\ work \in [Requests -> Work] /\ work[r] \in Work /\ Holds(work[r], proc[r])
      /\ j = proc[r].at
  BY Facts, EvFacts DEF Filed
<1>3. i \in 1..Len(stream) /\ i < j BY EventFacts, Facts, IntakeFacts DEF Referring
<1>4. i \in 0..MaxEvents BY <1>3, Facts, IntakeFacts
<1>5. PICK w \in Work : w = [work[r] EXCEPT !.ev = i] BY <1>2, <1>4 DEF Work
<1>6. w.pc = "check" /\ w.ev = i /\ work' = [work EXCEPT ![r] = w] BY <1>2, <1>5 DEF Work
<1>7. \A q \in Requests : work'[q] = IF q = r THEN w ELSE work[q] BY <1>2, <1>6
<1>8. StreamSound' BY <1>1, Facts DEF StreamSound, Kind
<1>9. FilesSound'
  <2>1. stream[i].enc
    <3>1. CASE Kind(j) = "confirm" BY <3>1, Facts DEF StreamSound, FilesSound
    <3>2. CASE Kind(j) = "announce" BY <3>2, Facts DEF StreamSound
    <3> QED BY <3>1, <3>2
  <2>2. Permitted(i)
    <3>1. stream[j].of = i /\ (Kind(j) = "announce" \/ (Kind(j) = "confirm" /\ stream[j].user = stream[i].user))
      OBVIOUS
    <3> QED BY <3>1 DEF Permitted
  <2>3. \A x : Permitted(x)' <=> Permitted(x) BY <1>1 DEF Permitted, Kind
  <2> QED BY <1>1, <1>3, <2>1, <2>2, <2>3, Facts DEF FilesSound
<1>10. NotesSound' /\ SentSound' BY <1>1, DataStays
<1>11. AllHold'
  <2>1. Holds(w, proc[r])'
    <3>1. PICK p \in {proc[r]} : TRUE OBVIOUS
    <3>2. p.at \in Nat /\ p.at \in 1..Len(stream) /\ p.at = j /\ p.pc = "run"
      BY <1>2, <3>1, AtFacts DEF Handling
    <3>3. TakenUp(i, p)'
      <4>1. \A k \in 1..(p.at - 1) : k \in 1..Len(stream) BY <3>2, Facts, IntakeFacts
      <4>2. \A k \in 1..(p.at - 1) : ~ (Kind(k) = "redact" /\ stream[k].of = i)
        BY <4>1 DEF Redacted, Kind
      <4> QED BY <1>1, <3>2, <4>2 DEF TakenUp, Kind
    <3>4. Kind(j) = "confirm" => ~ Tracked(i)' BY DEF Tracked
    <3>5. Holds(w, p)'
      BY <1>1, <1>3, <1>6, <3>2, <3>3, <3>4 DEF Holds, Kind
    <3> QED BY <1>1, <3>1, <3>5
  <2> QED BY <1>1, <1>6, <2>1, HandlersStep
<1>12. TwiceSound' BY <1>1, TwiceStays
<1>13. OnceEach' /\ MadeInTurn' /\ GetsRow' /\ GetsSent'
  <2>1. \A q \in Requests : work[q].pc = "send" => work'[q] = work[q] BY <1>7
  <2>2. \A q \in Requests : Handling(q) /\ work[q].pc \notin {"check", "record"} =>
           Handling(q)' /\ proc'[q].at = proc[q].at /\ work'[q].pc \notin {"check", "record"}
    BY <1>1, <1>7
  <2> QED BY <1>1, <2>1, <2>2, SaidStays
<1>14. GetsMade'
  <2> SUFFICES ASSUME NEW x \in 1..Len(stream), Due(x)', Over(x) \/ x \in copied'
               PROVE  \/ Made(x) # {}
                      \/ \E q \in Requests : work'[q].pc \in {"check", "record"} /\ work'[q].ev = x
    BY <1>1 DEF GetsMade, Made, Requests
  <2>1. CASE x = i BY <1>6, <1>7, <2>1
  <2>2. CASE x # i
    <3>1. Due(x) /\ (Over(x) \/ x \in copied) /\ Statement(x)
      BY <1>1, <2>2 DEF Due, Statement, Kind
    <3>2. \/ Made(x) # {}
          \/ \E q \in Requests : work[q].pc \in {"check", "record"} /\ work[q].ev = x
      BY <3>1, Facts DEF GetsMade
    <3>3. x # j BY <3>1 DEF Statement
    <3> QED BY <1>7, <3>2, <3>3
  <2> QED BY <2>1, <2>2
<1>15. TakenBack' BY <1>1, BackStays
<1> QED BY <1>1, <1>8, <1>9, <1>10, <1>11, <1>12, <1>13, <1>14, <1>15 DEF IInv

LEMMA ResumeInv ==
  ASSUME IInv, NEW r \in Requests, Resume(r) \/ (Announced(r) /\ ~ Redacted(stream[Ev(r)].of))
  PROVE  IInv'
<1>1. PICK j \in {work[r].ev} : TRUE OBVIOUS
<1>2. PICK i \in {stream[j].of} : TRUE OBVIOUS
<1>3. /\ proc[r].pc = "run" /\ work[r].pc = "check" /\ Kind(j) \in {"confirm", "announce"}
      /\ ~ Redacted(i)
      /\ Kind(j) = "confirm" => stream[i].user = stream[j].user /\ ~ Tracked(i)
      /\ copied' = copied \cup {i} /\ work' = [work EXCEPT ![r] = [work[r] EXCEPT !.ev = i]]
      /\ UNCHANGED <<intakeVars, rows, notes, sent, shown, warned, barred, twice, cut>>
  <2>1. CASE Resume(r)
    BY <1>1, <1>2, <2>1 DEF Resume, Doing, Ev, Confirms, Copy, Go, record, outside, ghost, Kind
  <2>2. CASE Announced(r) /\ ~ Redacted(stream[Ev(r)].of)
    BY <1>1, <1>2, <2>2 DEF Announced, Doing, Ev, Copy, Go, record, outside, ghost, Kind
  <2> QED BY <2>1, <2>2
<1>4. j \in 1..Len(stream) BY <1>1, <1>3, EvFacts
<1> QED BY <1>1, <1>2, <1>3, <1>4, TakesUpInv

\* A step that makes, sends and takes up nothing.
LEMMA MovesInv ==
  ASSUME IInv, IntakeSound', Grows, UNCHANGED <<rows, notes, sent, shown, warned, copied>>,
         barred \subseteq barred', twice \subseteq twice', cut \subseteq cut', marked \subseteq marked',
         StreamSound', AllHold', TwiceSound',
         \A i \in 1..Len(stream') : Over(i)' => i \in 1..Len(stream) /\ Over(i),
         \A q \in Requests : work[q].pc # "none" =>
           \/ work'[q] = work[q] /\ Handling(q)' /\ proc'[q].at = proc[q].at
           \/ Topic(proc[q].at) \in cut',
         \A q \in Requests : Handling(q) /\ work[q].pc = "none" =>
           \/ proc[q].at \in marked'
           \/ Topic(proc[q].at) \in cut'
           \/ Handling(q)' /\ proc'[q].at = proc[q].at /\ work'[q].pc = "none"
  PROVE  IInv'
<1>1. FilesSound'
  <2>1. \A i \in copied \cup warned : i \in 1..Len(stream) /\ stream[i].enc BY Facts DEF FilesSound
  <2>2. \A i \in copied : Permitted(i) BY Facts DEF FilesSound
  <2>3. \A i \in copied : Permitted(i)' BY <2>1, <2>2, StreamStays
  <2>4. \A i \in copied \cup warned : i \in 1..Len(stream') /\ stream'[i].enc BY <2>1, StreamStays
  <2> QED BY <2>3, <2>4 DEF FilesSound
<1>2. NotesSound' /\ SentSound' BY DataStays
<1>3. \A q \in Requests : work[q].pc # "none" /\ Kind(work[q].ev) \notin {"confirm", "announce"} =>
        \/ work'[q] = work[q] /\ Handling(q)' /\ proc'[q].at = proc[q].at
        \/ work[q].ev \in cut'
  BY EvFacts
<1>4. OnceEach' /\ MadeInTurn' /\ GetsRow' /\ GetsSent'
  <2>1. \A q \in Requests : work[q].pc = "send" =>
          \/ work'[q] = work[q]
          \/ work[q].ev \in cut'
          \/ work[q].todo = {} /\ Kind(work[q].ev) \notin Late
    <3>1. \A q \in Requests : work[q].pc = "send" => Kind(work[q].ev) \notin {"confirm", "announce"}
      BY Facts DEF Holds
    <3> QED BY <1>3, <3>1
  <2>2. \A q \in Requests : Handling(q) /\ work[q].pc \notin {"check", "record"} =>
           \/ proc[q].at \in marked'
           \/ Topic(proc[q].at) \in cut'
           \/ Handling(q)' /\ proc'[q].at = proc[q].at /\ work'[q].pc \notin {"check", "record"}
    <3> SUFFICES ASSUME NEW q \in Requests, Handling(q), work[q].pc \notin {"check", "record"}
                 PROVE  \/ proc[q].at \in marked'
                        \/ Topic(proc[q].at) \in cut'
                        \/ Handling(q)' /\ proc'[q].at = proc[q].at /\ work'[q].pc \notin {"check", "record"}
      OBVIOUS
    <3>1. CASE work[q].pc = "none" BY <3>1
    <3>2. CASE work[q].pc # "none" BY <3>2
    <3> QED BY <3>1, <3>2
  <2> QED BY <2>1, <2>2, SaidStays
<1>5. GetsMade'
  <2>1. \A q \in Requests : work[q].pc \in {"check", "record"} =>
           \/ work'[q].pc \in {"check", "record"} /\ work'[q].ev = work[q].ev
           \/ work[q].ev \in cut'
           \/ Due(work[q].ev) => Made(work[q].ev) # {}
    <3>1. \A i : Kind(i) \in {"confirm", "announce"} => ~ Due(i) BY DEF Due, Statement
    <3> QED BY <1>3, <3>1
  <2> QED BY <2>1, MadeStays
<1>6. TakenBack' BY BackStays
<1> QED BY <1>1, <1>2, <1>4, <1>5, <1>6 DEF IInv

\* No handler goes on.
LEMMA HoldsMoves ==
  ASSUME IInv, Grows, UNCHANGED <<rows, notes, shown, copied, work>>, twice \subseteq twice',
         \A q \in Requests : proc'[q] = proc[q] \/ (work[q].pc = "none" /\ proc'[q].pc # "run")
  PROVE  AllHold'
<1>1. work' \in [Requests' -> Work] BY Facts DEF Requests
<1>2. ASSUME NEW q \in Requests PROVE Holds(work[q], proc[q])'
  <2>1. PICK v \in {work[q]}, p \in {proc[q]}, p1 \in {proc'[q]} : TRUE OBVIOUS
  <2>2. work'[q] = v /\ proc'[q] = p1 BY <2>1
  <2>3. CASE p1 = p
    <3>1. Holds(v, p)' BY <2>1, HoldsStays
    <3> QED BY <2>2, <2>3, <3>1
  <2>4. CASE v.pc = "none" /\ p1.pc # "run"
    <3>1. Holds(v, p1)' BY <2>4 DEF Holds
    <3> QED BY <2>2, <3>1
  <2> QED BY <2>1, <2>3, <2>4
<1> QED BY <1>1, <1>2 DEF AllHold, Requests

\* The events stay what they have to be.
LEMMA StreamMoves ==
  ASSUME IInv, stream' = stream, warned' = warned
  PROVE  StreamSound'
BY Facts DEF StreamSound, Kind

LEMMA DispatchInv ==
  ASSUME IInv, NEW r \in Requests, Dispatch(r)
  PROVE  IInv'
<1> DEFINE j == proc[r].at
<1>1. /\ Begin(r) /\ work' = [work EXCEPT ![r] = [IdleWork EXCEPT !.pc = "check", !.ev = j]]
      /\ UNCHANGED <<rows, notes, sent, shown, warned, copied, barred, cut>>
  BY DEF Dispatch, Go, record, outside, files
<1>2. twice' = twice \cup {Topic(j) :
           q \in {q \in Requests \ {r} : /\ Handling(q) /\ Topic(proc[q].at) = Topic(j)}}
  BY DEF Dispatch
<1>3. /\ proc[r].pc = "look" /\ j \notin marked /\ marked' = marked
      /\ proc[r] \in Proc /\ work \in [Requests -> Work]
  BY <1>1, Facts DEF Begin, Looking, IsProcessed
<1>4. /\ IntakeSound' /\ Grows /\ stream' = stream
      /\ \A q \in Requests \ {r} : proc'[q] = proc[q]
      /\ proc'[r] = [proc[r] EXCEPT !.pc = "run"]
  BY <1>1, Facts, RequestsInv
<1>5. proc'[r].pc = "run" /\ proc'[r].at = j BY <1>3, <1>4 DEF Proc
<1>6. j \in 1..Len(stream)
  <2>1. proc[r].at <= proc[r].end BY <1>1 DEF Begin, Looking
  <2>2. proc[r].at >= 1 /\ proc[r].end <= Len(stream) BY <1>3, Facts DEF IntakeSound, ProcsSound
  <2> QED BY <1>3, <2>1, <2>2, Facts, IntakeFacts DEF Proc
<1>7. j \in 0..MaxEvents BY <1>6, Facts, IntakeFacts
<1>8. PICK w \in Work : w = [IdleWork EXCEPT !.pc = "check", !.ev = j]
  BY <1>7, IdleHolds DEF Work
<1>9. w.pc = "check" /\ w.ev = j /\ work' = [work EXCEPT ![r] = w]
  BY <1>1, <1>8 DEF IdleWork
<1>10. \A q \in Requests : work'[q] = IF q = r THEN w ELSE work[q] BY <1>3, <1>9
<1>11. work[r].pc = "none" BY <1>3, Facts DEF Holds
<1>12. twice \subseteq twice' BY <1>2
<1>13. AllHold'
  <2>1. Holds(w, proc[r])'
    <3>1. PICK p \in {proc'[r]} : TRUE OBVIOUS
    <3>2. Holds(w, p)' BY <1>4, <1>5, <1>6, <1>9, <3>1 DEF Holds
    <3> QED BY <3>1, <3>2
  <2> QED BY <1>1, <1>4, <1>9, <1>12, <2>1, HandlersStep
<1>14. TwiceSound'
  <2>1. \A q \in Requests : Handling(q)' => proc'[q].at = proc[q].at /\ (q = r \/ Handling(q))
    BY <1>4, <1>5 DEF Handling
  <2>2. \A x : Topic(x)' = Topic(x) BY <1>4 DEF Topic
  <2>3. \A q \in Requests \ {r} : Handling(q) /\ Topic(proc[q].at) = Topic(j) => Topic(j) \in twice'
    BY <1>2
  <2>4. ASSUME NEW q1 \in Requests, NEW q2 \in Requests, q1 # q2, Handling(q1)', Handling(q2)',
               Topic(proc[q1].at) = Topic(proc[q2].at)
        PROVE  Topic(proc[q1].at) \in twice'
    <3>1. CASE q1 = r BY <2>1, <2>3, <2>4, <3>1
    <3>2. CASE q2 = r BY <2>1, <2>3, <2>4, <3>2
    <3>3. CASE q1 # r /\ q2 # r BY <1>12, <2>1, <2>4, <3>3, Facts DEF TwiceSound
    <3> QED BY <3>1, <3>2, <3>3
  <2>5. ASSUME NEW q \in Requests, Handling(q)', proc[q].at \in marked
        PROVE  Topic(proc[q].at) \in twice'
    BY <1>3, <1>12, <2>1, <2>5, Facts DEF TwiceSound
  <2>6. \A q1, q2 \in Requests :
       q1 # q2 /\ Handling(q1)' /\ Handling(q2)' /\ Topic(proc[q1].at)' = Topic(proc[q2].at)'
         => Topic(proc[q1].at)' \in twice'
    <3> SUFFICES ASSUME NEW q1 \in Requests, NEW q2 \in Requests, q1 # q2, Handling(q1)', Handling(q2)',
                        Topic(proc[q1].at)' = Topic(proc[q2].at)'
                 PROVE  Topic(proc[q1].at)' \in twice'
      OBVIOUS
    <3>1. Topic(proc[q1].at)' = Topic(proc[q1].at) /\ Topic(proc[q2].at)' = Topic(proc[q2].at)
      BY <1>4, <2>1 DEF Topic
    <3> QED BY <2>4, <3>1
  <2>7. \A q \in Requests : Handling(q)' /\ proc'[q].at \in marked' => Topic(proc[q].at)' \in twice'
    <3> SUFFICES ASSUME NEW q \in Requests, Handling(q)', proc'[q].at \in marked'
                 PROVE  Topic(proc[q].at)' \in twice'
      OBVIOUS
    <3>1. Topic(proc[q].at)' = Topic(proc[q].at) BY <1>4, <2>1 DEF Topic
    <3> QED BY <1>3, <2>1, <2>5, <3>1
  <2> QED BY <2>6, <2>7 DEF TwiceSound, Requests
<1>15. \A i \in 1..Len(stream') : Over(i)' => i \in 1..Len(stream) /\ Over(i)
  BY <1>3, <1>4, <1>5 DEF Over, Requests
<1>16. \A q \in Requests : Handling(q) => q # r BY <1>3 DEF Handling
<1>17. \A q \in Requests : Handling(q) => work'[q] = work[q] /\ Handling(q)' /\ proc'[q].at = proc[q].at
  BY <1>4, <1>10, <1>16 DEF Handling
<1>18. \A q \in Requests : work[q].pc # "none" => Handling(q) BY EvFacts
<1>19. StreamSound' BY <1>1, <1>4, StreamMoves
<1>20. \A q \in Requests : Handling(q) /\ work[q].pc = "none" => work'[q].pc = "none"
  BY <1>17
<1> QED BY <1>1, <1>3, <1>4, <1>12, <1>13, <1>14, <1>15, <1>17, <1>18, <1>19, <1>20, MovesInv

\* A request that is between two events, or ends one.
LEMMA RequestMoves ==
  ASSUME IInv, NEW r \in Requests, Intake(Send(r)) \/ Intake(Skip(r)) \/ Intake(Mark(r)) \/ Intake(Reply(r))
  PROVE  IInv'
<1> DEFINE j == proc[r].at
<1>1. /\ Send(r) \/ Skip(r) \/ Mark(r) \/ Reply(r)
      /\ UNCHANGED <<work, rows, notes, sent, shown, warned, copied, barred, twice, cut>>
  BY DEF Intake, record, outside, files, ghost
<1>2. /\ proc[r].pc # "run" /\ proc[r] \in Proc /\ proc \in [Requests -> Proc] /\ r \in Nat
      /\ Holds(work[r], proc[r])
  <2>1. proc[r] \in Proc /\ proc \in [Requests -> Proc] /\ r \in Nat /\ Holds(work[r], proc[r])
    BY Facts, IntakeFacts DEF Requests
  <2>2. Send(r) => proc[r].pc = "idle" BY <2>1, IntakeFacts, Facts DEF Send, Requests
  <2>3. Skip(r) \/ Mark(r) \/ Reply(r) => proc[r].pc \in {"look", "mark"}
    BY DEF Skip, Looking, Mark, Reply
  <2> QED BY <1>1, <2>1, <2>2, <2>3
<1>3. /\ IntakeSound' /\ Grows /\ stream' = stream
      /\ \A q \in Requests \ {r} : proc'[q] = proc[q]
  BY <1>1, Facts, RequestsInv
<1>4. proc'[r].pc \in {"idle", "look"}
  <2>1. CASE Send(r) BY <1>2, <2>1 DEF Send
  <2>2. CASE Skip(r) BY <1>2, <2>2 DEF Skip, Looking, Proc
  <2>3. CASE Mark(r) BY <1>2, <2>3 DEF Mark, Proc
  <2>4. CASE Reply(r) BY <1>2, <2>4 DEF Reply, IdleProc
  <2> QED BY <1>1, <2>1, <2>2, <2>3, <2>4
<1>5. work[r].pc = "none" BY <1>2 DEF Holds
<1>6. \/ marked' = marked /\ proc[r].pc \in {"idle", "look"}
      \/ marked' = marked \cup {j} /\ proc[r].pc = "mark"
  <2>1. CASE Send(r) BY <1>2, <2>1, IntakeFacts, Facts DEF Send, Requests
  <2>2. CASE Skip(r) \/ Reply(r) BY <2>2 DEF Skip, Looking, Reply
  <2>3. CASE Mark(r) BY <2>3 DEF Mark
  <2> QED BY <1>1, <2>1, <2>2, <2>3
<1>7. \A q \in Requests : proc'[q] = proc[q] \/ (work[q].pc = "none" /\ proc'[q].pc # "run")
  BY <1>3, <1>4, <1>5
<1>8. AllHold' BY <1>1, <1>3, <1>7, HoldsMoves
<1>9. \A q \in Requests : Handling(q)' => q # r /\ Handling(q) /\ proc'[q] = proc[q]
  BY <1>3, <1>4 DEF Handling
<1>10. TwiceSound'
  <2>1. \A q1, q2 \in Requests :
       q1 # q2 /\ Handling(q1)' /\ Handling(q2)' /\ Topic(proc[q1].at)' = Topic(proc[q2].at)'
         => Topic(proc[q1].at)' \in twice'
    <3> SUFFICES ASSUME NEW q1 \in Requests, NEW q2 \in Requests, q1 # q2, Handling(q1)', Handling(q2)',
                        Topic(proc[q1].at)' = Topic(proc[q2].at)'
                 PROVE  Topic(proc[q1].at)' \in twice'
      OBVIOUS
    <3>1. Topic(proc[q1].at)' = Topic(proc[q1].at) /\ Topic(proc[q2].at)' = Topic(proc[q2].at)
      BY <1>3, <1>9 DEF Topic
    <3> QED BY <1>1, <1>9, <3>1, Facts DEF TwiceSound
  <2>2. \A q \in Requests : Handling(q)' /\ proc'[q].at \in marked' => Topic(proc[q].at)' \in twice'
    <3> SUFFICES ASSUME NEW q \in Requests, Handling(q)', proc'[q].at \in marked'
                 PROVE  Topic(proc[q].at)' \in twice'
      OBVIOUS
    <3>1. Topic(proc[q].at)' = Topic(proc[q].at) BY <1>3, <1>9 DEF Topic
    <3>2. q # r /\ Handling(q) /\ proc'[q].at = proc[q].at BY <1>9
    <3>3. CASE proc[q].at \in marked BY <1>1, <3>1, <3>2, <3>3, Facts DEF TwiceSound
    <3>4. CASE proc[q].at \notin marked
      <4>1. proc[q].at = j /\ Handling(r) BY <1>6, <3>2, <3>4 DEF Handling
      <4> QED BY <1>1, <3>1, <3>2, <4>1, Facts DEF TwiceSound
    <3> QED BY <3>3, <3>4
  <2> QED BY <2>1, <2>2 DEF TwiceSound, Requests
<1>11. \A i \in 1..Len(stream') : Over(i)' => i \in 1..Len(stream) /\ Over(i)
  <2> SUFFICES ASSUME NEW i \in 1..Len(stream), Over(i)' PROVE Over(i) BY <1>3
  <2>1. CASE i \in marked' BY <1>6, <2>1 DEF Over
  <2>2. CASE \E q \in Requests : proc'[q].pc = "mark" /\ proc'[q].at = i BY <1>3, <1>4, <2>2 DEF Over
  <2> QED BY <2>1, <2>2 DEF Over, Requests
<1>12. \A q \in Requests : q # r /\ Handling(q) => Handling(q)' /\ proc'[q].at = proc[q].at
  BY <1>3 DEF Handling
<1>13. \A q \in Requests : work[q].pc # "none" => Handling(q) /\ q # r BY <1>5, EvFacts
<1>14. Handling(r) => j \in marked' BY <1>6 DEF Handling
<1>15. StreamSound' BY <1>1, <1>3, StreamMoves
<1>16. marked \subseteq marked' BY <1>6
<1> QED BY <1>1, <1>3, <1>8, <1>10, <1>11, <1>12, <1>13, <1>14, <1>15, <1>16, MovesInv

\* A step that leaves the intake's requests and the handlers alone.
LEMMA WorldMoves ==
  ASSUME IInv, IntakeSound', Grows, StreamSound', barred \subseteq barred',
         UNCHANGED <<work, rows, notes, sent, shown, warned, copied, twice, cut, proc, marked>>
  PROVE  IInv'
<1>1. AllHold' BY HoldsMoves
<1>2. \A q \in Requests : Handling(q)' <=> Handling(q) BY DEF Handling
<1>3. TwiceSound' BY <1>2, TwiceStays
<1>4. \A i : Over(i)' <=> Over(i) BY DEF Over, Requests
<1>5. \A i : Over(i) => i \in 1..Len(stream)
  <2>1. marked \subseteq 1..Len(stream) BY Facts, IntakeFacts
  <2> QED BY <2>1, AtFacts DEF Over, Handling
<1>6. \A q \in Requests : work[q].pc # "none" => Handling(q) BY EvFacts
<1> QED BY <1>1, <1>2, <1>3, <1>4, <1>5, <1>6, MovesInv

LEMMA WorldInv ==
  ASSUME IInv, \/ Intake(GiveUp) \/ (\E u \in Barrable : Bar(u)) \/ PollCloses \/ UNCHANGED vars
  PROVE  IInv'
<1>1. CASE Intake(GiveUp)
  <2>1. /\ GiveUp /\ UNCHANGED <<work, rows, notes, sent, shown, warned, copied, barred, twice, cut>>
    BY <1>1 DEF Intake, record, outside, files, ghost
  <2>2. IntakeSound' /\ Grows /\ proc' = proc /\ stream' = stream BY <2>1, Facts, GiveUpInv
  <2>3. marked' = marked BY <2>1 DEF GiveUp
  <2>4. StreamSound' BY <2>1, <2>2, StreamMoves
  <2> QED BY <2>1, <2>2, <2>3, <2>4, WorldMoves
<1>2. CASE (\E u \in Barrable : Bar(u)) \/ PollCloses \/ UNCHANGED vars
  <2>1. /\ UNCHANGED intakeVars /\ barred \subseteq barred'
        /\ UNCHANGED <<work, rows, notes, sent, shown, warned, copied, twice, cut>>
    BY <1>2 DEF Bar, PollCloses, vars, record, outside, files, ghost
  <2>2. /\ IntakeSound' /\ Grows /\ stream' = stream /\ proc' = proc /\ marked' = marked
    BY <2>1, IntakeStays
  <2>3. StreamSound' BY <2>1, <2>2, StreamMoves
  <2> QED BY <2>1, <2>2, <2>3, WorldMoves
<1> QED BY <1>1, <1>2

LEMMA WriteInv ==
  ASSUME IInv, Write
  PROVE  IInv'
<1>1. PICK menu \in Menus : \E e \in IF Len(stream) < MaxEvents THEN menu[Len(stream) + 1] ELSE {} :
         /\ e.of <= Len(stream)
         /\ e.kind = "confirm" => e.of \in warned
         /\ e.kind = "close" => stream[e.of].kind = "poll"
         /\ e.kind = "announce" => stream[e.of].enc
         /\ Arrive(e)
  BY DEF Write
<1>2. Len(stream) < MaxEvents BY <1>1
<1>3. PICK e \in menu[Len(stream) + 1] :
         /\ e.of <= Len(stream)
         /\ e.kind = "confirm" => e.of \in warned
         /\ e.kind = "close" => stream[e.of].kind = "poll"
         /\ e.kind = "announce" => stream[e.of].enc
         /\ Arrive(e)
  BY <1>1, <1>2
<1>4. /\ Len(stream) \in Nat /\ MaxEvents \in Nat /\ stream \in Seq(Event)
      /\ Len(stream) + 1 \in Positions
  BY <1>2, Facts, IntakeFacts DEF Positions
<1>5. e \in Event BY <1>3, <1>4, OutboundAssumption
<1>6. UNCHANGED <<work, rows, notes, sent, shown, warned, copied, barred, twice, cut>>
  BY DEF Write, record, outside, files, ghost
<1>7. IntakeSound' /\ Grows /\ proc' = proc BY <1>3, <1>5, Facts, ArriveInv
<1>8. /\ marked' = marked /\ stream' = Append(stream, e) /\ Len(stream') = Len(stream) + 1
      /\ stream'[Len(stream) + 1] = e
  BY <1>3, <1>4, <1>5 DEF Arrive
<1>9. StreamSound'
  <2> SUFFICES ASSUME NEW k \in 1..Len(stream')
               PROVE  /\ stream'[k].of < k
                      /\ Kind(k)' = "confirm" => stream'[k].of \in warned
                      /\ Kind(k)' = "close" => Kind(stream[k].of)' = "poll"
                      /\ Kind(k)' = "announce" => stream'[stream'[k].of].enc
    BY <1>6 DEF StreamSound
  <2>1. CASE k \in 1..Len(stream)
    <3>1. stream'[k] = stream[k] /\ Kind(k)' = Kind(k) /\ Kind(k) = stream[k].kind
      BY <1>7, <2>1, StreamStays DEF Kind
    <3>2. /\ stream[k].of < k
          /\ Kind(k) = "confirm" => stream[k].of \in warned
          /\ Kind(k) = "close" => Kind(stream[k].of) = "poll"
          /\ Kind(k) = "announce" => stream[stream[k].of].enc
      BY <2>1, Facts DEF StreamSound
    <3>3. Kind(k) \in Referring => stream[k].of \in 1..Len(stream) BY <2>1, EventFacts, Facts
    <3>4. Kind(k) \in Referring => stream'[stream[k].of] = stream[stream[k].of]
      BY <1>7, <3>3, StreamStays
    <3> QED BY <3>1, <3>2, <3>4 DEF Kind, Referring
  <2>2. CASE k = Len(stream) + 1
    <3>1. stream'[k] = e /\ Kind(k)' = e.kind BY <1>8, <2>2 DEF Kind
    <3>2. e.of \in 0..MaxEvents /\ (e.kind \in Referring => e.of # 0) BY <1>5 DEF Event
    <3>3. e.of < k BY <1>3, <1>4, <2>2, <3>2
    <3>4. e.kind \in Referring => e.of \in 1..Len(stream) BY <1>3, <1>4, <3>2
    <3>5. e.kind \in Referring => stream'[e.of] = stream[e.of] BY <1>7, <3>4, StreamStays
    <3>7. e.kind = "close" => stream'[e.of].kind = "poll" BY <1>3, <3>5 DEF Referring
    <3>8. e.kind = "announce" => stream'[e.of].enc BY <1>3, <3>5 DEF Referring
    <3>9. stream'[k] = e /\ (e.kind = "confirm" => e.of \in warned) BY <1>3, <3>1
    <3> QED BY <3>3, <3>7, <3>8, <3>9 DEF Kind
  <2>3. k \in 1..Len(stream) \/ k = Len(stream) + 1 BY <1>4, <1>8
  <2> QED BY <2>1, <2>2, <2>3
<1> QED BY <1>6, <1>7, <1>8, <1>9, WorldMoves

LEMMA RestartInv ==
  ASSUME IInv, Restart
  PROVE  IInv'
<1>1. /\ Crash /\ work' = [r \in Requests |-> IdleWork]
      /\ cut' = cut \cup {Topic(proc[r].at) : r \in {q \in Requests : Handling(q)}}
      /\ UNCHANGED <<rows, notes, sent, shown, warned, copied, barred, twice>>
  BY DEF Restart, record, outside, files
<1>2. /\ IntakeSound' /\ Grows /\ stream' = stream /\ proc' = [r \in Requests |-> IdleProc]
  BY <1>1, Facts, CrashInv
<1>3. marked' = marked BY <1>1 DEF Crash
<1>4. \A q \in Requests : /\ proc'[q] = IdleProc /\ IdleProc.pc = "idle"
                          /\ work'[q] = IdleWork /\ ~ Handling(q)'
  BY <1>1, <1>2 DEF IdleProc, Handling
<1>5. AllHold'
  <2>1. work' \in [Requests' -> Work] BY <1>1, IdleHolds DEF Requests
  <2>2. ASSUME NEW q \in Requests PROVE Holds(work[q], proc[q])'
    <3>1. PICK v \in {work'[q]}, p \in {proc'[q]} : TRUE OBVIOUS
    <3>2. v = IdleWork /\ p.pc # "run" BY <1>4, <3>1
    <3>3. Holds(v, p)'
      <4>1. v.pc = "none" BY <3>2, IdleHolds
      <4> QED BY <3>2, <4>1 DEF Holds
    <3> QED BY <3>1, <3>3
  <2> QED BY <2>1, <2>2 DEF AllHold, Requests
<1>6. TwiceSound' BY <1>4 DEF TwiceSound, Requests
<1>7. \A i \in 1..Len(stream') : Over(i)' => i \in 1..Len(stream) /\ Over(i)
  BY <1>2, <1>3, <1>4 DEF Over, Requests
<1>8. \A q \in Requests : Handling(q) => Topic(proc[q].at) \in cut' BY <1>1
<1>9. \A q \in Requests : work[q].pc # "none" => Handling(q) BY EvFacts
<1>10. StreamSound' BY <1>1, <1>2, StreamMoves
<1>11. cut \subseteq cut' BY <1>1
<1> QED BY <1>1, <1>2, <1>3, <1>5, <1>6, <1>7, <1>8, <1>9, <1>10, <1>11, MovesInv

-------------------------------------------------------------------------------
(* The theorems. *)

LEMMA InitInv == Init => IInv
<1> SUFFICES ASSUME Init PROVE IInv OBVIOUS
<1>1. /\ stream = <<>> /\ acked = 0 /\ batch = 0 /\ waiting = NoRequest
      /\ proc = [r \in Requests |-> IdleProc] /\ marked = {} /\ timeouts = 0 /\ crashes = 0
      /\ work = [r \in Requests |-> IdleWork] /\ rows = [i \in Positions |-> NoNote]
      /\ notes = {} /\ sent = {} /\ shown = {} /\ warned = {} /\ copied = {} /\ twice = {}
  BY DEF Init, IntakeInit
<1>2. Len(stream) = 0 /\ stream \in Seq(Event) BY <1>1
<1>3. \A r \in Requests : proc[r].pc = "idle" /\ work[r] = IdleWork /\ work[r].pc = "none"
  BY <1>1, IdleHolds DEF IdleProc
<1>4. IntakeSound
  <2>1. IdleProc \in Proc BY IntakeAssumption DEF IdleProc, Proc
  <2>2. IntakeTypeOK(Event) BY <1>1, <1>2, <2>1, IntakeAssumption DEF IntakeTypeOK, Proc
  <2>3. InOrder /\ MarkedInTurn /\ ProcsSound
    BY <1>1, <1>3 DEF InOrder, MarkedInTurn, ProcsSound
  <2> QED BY <2>2, <2>3 DEF IntakeSound
<1>5. StreamSound /\ FilesSound BY <1>1, <1>2 DEF StreamSound, FilesSound
<1>6. NotesSound BY <1>1, FS_EmptySet DEF NotesSound, Tracked
<1>7. SentSound BY <1>1 DEF SentSound
<1>8. AllHold
  <2>1. work \in [Requests -> Work] BY <1>1, IdleHolds
  <2>2. \A r \in Requests : Holds(work[r], proc[r]) BY <1>3 DEF Holds
  <2> QED BY <2>1, <2>2 DEF AllHold
<1>9. TwiceSound BY <1>3 DEF TwiceSound, Handling
<1>10. OnceEach /\ MadeInTurn /\ GetsRow /\ GetsSent
  BY <1>1 DEF OnceEach, MadeInTurn, GetsRow, GetsSent
<1>11. GetsMade /\ TakenBack BY <1>2 DEF GetsMade, TakenBack
<1> QED BY <1>4, <1>5, <1>6, <1>7, <1>8, <1>9, <1>10, <1>11 DEF IInv

LEMMA StepInv == IInv /\ [Next]_vars => IInv'
<1> SUFFICES ASSUME IInv, [Next]_vars PROVE IInv' OBVIOUS
<1>1. CASE Write BY <1>1, WriteInv
<1>2. ASSUME NEW r \in Requests, Handle(r) PROVE IInv'
  <2>1. CASE Dispatch(r) BY <2>1, DispatchInv
  <2>2. CASE Ignore(r) BY <2>2, IgnoreInv
  <2>3. CASE Ask(r) BY <2>3, AskInv
  <2>4. CASE Compose(r) BY <2>4, ComposeInv
  <2>5. CASE Record(r) BY <2>5, RecordInv
  <2>6. CASE Address(r) BY <2>6, AddressInv
  <2>7. CASE Edit(r) \/ Close(r) BY <2>7, EditInv
  <2>8. CASE Delete(r) BY <2>8, DeleteInv
  <2>9. CASE Deliver(r) BY <2>9, DeliverInv
  <2>10. CASE Finish(r) \/ Tally(r) \/ Refuse(r) BY <2>10, EndsInv
  <2>11. CASE Keep(r) BY <2>11, KeepInv
  <2>12. CASE KeepVote(r) BY <2>12, KeepVoteInv
  <2>13. CASE Resume(r) BY <2>13, ResumeInv
  <2>14. CASE Announced(r) BY <2>14, ResumeInv, EndsInv
  <2>15. CASE Intake(Skip(r)) \/ Intake(Mark(r)) \/ Intake(Reply(r)) BY <2>15, RequestMoves
  <2> QED BY <1>2, <2>1, <2>2, <2>3, <2>4, <2>5, <2>6, <2>7, <2>8, <2>9, <2>10, <2>11, <2>12,
             <2>13, <2>14, <2>15 DEF Handle
<1>3. ASSUME NEW r \in Requests, Intake(Send(r)) PROVE IInv' BY <1>3, RequestMoves
<1>4. CASE Intake(GiveUp) \/ (\E u \in Barrable : Bar(u)) \/ PollCloses \/ UNCHANGED vars
  BY <1>4, WorldInv
<1>5. CASE Restart BY <1>5, RestartInv
<1> QED BY <1>1, <1>2, <1>3, <1>4, <1>5 DEF Next

\* The invariant is inductive: the way of every event from the homeserver's
\* transaction through its handler to the objects, rows and deliveries, with
\* retries, give-ups and restarts (_handle_transaction, _dispatch_outbound_send).
THEOREM Inductive == Spec => []IInv
BY InitInv, StepInv, PTL DEF Spec

\* When all is handled no handler is at work, and every event is marked.
LEMMA QuietFacts ==
  ASSUME IInv, Quiet
  PROVE  /\ \A r \in Requests : work[r].pc = "none"
         /\ \A i \in 1..Len(stream) : Over(i)
<1>1. \A r \in Requests : Holds(work[r], proc[r]) /\ proc[r].pc = "idle" BY Facts DEF Quiet
<1>2. \A r \in Requests : work[r].pc = "none" BY <1>1 DEF Holds
<1>3. 1..Len(stream) \subseteq marked BY Facts DEF IntakeSound, InOrder, Quiet
<1> QED BY <1>2, <1>3 DEF Over

\* A file of an encrypted room leaves it only after its sender's answer or a
\* sibling's announcement, for any users, rooms and restarts
\* (resume_encrypted_attachment, handle_announcement).
THEOREM FilesConfirmed == Spec => []ConfirmedOnly
<1>1. IInv => ConfirmedOnly
  <2> SUFFICES ASSUME IInv, NEW d \in sent, d.act # "Delete", stream[d.ev].enc
               PROVE  \E k \in 1..Len(stream) :
                /\ stream[k].of = d.ev
                /\ \/ stream[k].kind = "announce"
                   \/ stream[k].kind = "confirm" /\ stream[k].user = stream[d.ev].user
    BY DEF ConfirmedOnly
  <2>1. d.ev \in copied BY Facts DEF SentSound
  <2>2. Permitted(d.ev) BY <2>1, Facts DEF FilesSound
  <2> QED BY <2>2 DEF Permitted, Kind
<1> QED BY <1>1, Inductive, PTL

\* An event becomes two objects only where two requests handled it, or, for
\* what is recorded late, a restart or an announcement came between
\* (maybe_distribute_profile_post and the record after the other fan-outs).
THEOREM SecondsExplained == Spec => []DuplicatesExplained
<1>1. IInv => DuplicatesExplained
  <2> SUFFICES ASSUME IInv, NEW i \in Positions, Cardinality(Made(i)) > 1 PROVE Explained(i)
    BY DEF DuplicatesExplained, Explained, Early, Kind
  <2>1. Made(i) # {} BY FS_EmptySet
  <2>2. PICK n \in Made(i) : TRUE BY <2>1
  <2>3. Made(i) # {n}
    <3>1. Cardinality({n}) = 1 BY FS_Singleton
    <3> QED BY <3>1
  <2>4. PICK m \in Made(i) : m # n BY <2>2, <2>3
  <2> QED BY <2>2, <2>4, Facts DEF OnceEach, Made
<1> QED BY <1>1, Inductive, PTL

\* Private words go where they may, nobody's identity signs for another's,
\* what is shown can be fetched, and rows and deliveries name objects that were
\* made (federated_events beside the deliveries, get_note, get_outbox).
THEOREM OutboundSound == Spec => []OutboundInv
<1>1. IInv => PrivateAndOwn
  <2> SUFFICES ASSUME IInv, NEW d \in sent
               PROVE  /\ Kind(d.note.pos) \in Private /\ d.act # "Delete" =>
                           d.to = "peer" \/ (d.to = "named" /\ stream[d.note.pos].names)
                      /\ d.by = d.note.actor
    BY DEF PrivateAndOwn, Kind
  <2>1. d.by = d.note.actor /\ d.to \in MayGet(d.note, d.act) BY Facts DEF SentSound
  <2> QED BY <2>1 DEF MayGet, DmAudience, Mentioned
<1>2. IInv => \A a \in Actors : \A note \in Outbox(a) : note.actor = a
  <2> SUFFICES ASSUME IInv, NEW a \in Actors, NEW note \in Outbox(a) PROVE note.actor = a OBVIOUS
  <2>1. PICK i \in 1..Len(stream) : /\ note \in Reconstructed(i) /\ a \in Own[stream[i].user]
                                    /\ stream[i].room # NoRoom /\ RoomActor[stream[i].room] = a
    BY DEF Outbox
  <2>2. note = rows[i] /\ Tracked(i) BY <2>1 DEF Reconstructed
  <2>3. i \in Positions BY EventFacts, Facts
  <2>4. note \in notes /\ note.pos = i BY <2>2, <2>3, RowFacts
  <2>5. note.actor \in Acting(stream[i]) BY <2>4, NoteFacts
  <2> QED BY <2>1, <2>5 DEF Acting
<1>3. IInv /\ Quiet => \A x \in shown :
         LET i == x[2].pos
         IN /\ stream[i].kind \in {"post", "reply"} /\ ~ Redacted(i) /\ i \notin twice \cup cut
            /\ ~ HasAnnouncement(i)
            => x[2] \in Served
  <2> SUFFICES ASSUME IInv, Quiet, NEW x \in shown, NEW n, n = x[2],
                      Kind(n.pos) \in {"post", "reply"}, ~ Redacted(n.pos),
                      n.pos \notin twice, n.pos \notin cut, ~ HasAnnouncement(n.pos)
               PROVE  n \in Served
    BY DEF Kind
  <2>1. n \in notes BY Facts DEF SentSound
  <2>2. n.pos \in 1..Len(stream) /\ n.pos \in Positions BY <2>1, NoteFacts
  <2>3. Tracked(n.pos)
    <3>1. CASE Kind(n.pos) = "post" BY <2>1, <3>1, Facts DEF NotesSound, Early
    <3>2. CASE Kind(n.pos) = "reply"
      <4>1. \A q \in Requests : ~ At(q, n) BY QuietFacts DEF At
      <4> QED BY <2>1, <3>2, <4>1, Facts DEF GetsRow, Late
    <3> QED BY <3>1, <3>2
  <2>4. rows[n.pos] \in notes /\ rows[n.pos].pos = n.pos BY <2>2, <2>3, RowFacts
  <2>5. n = rows[n.pos]
    <3> SUFFICES ASSUME n # rows[n.pos] PROVE FALSE OBVIOUS
    <3>1. Explained(n.pos) BY <2>1, <2>4, Facts DEF OnceEach
    <3> QED BY <3>1 DEF Explained
  <2>6. n \in Reconstructed(n.pos) BY <2>3, <2>5 DEF Reconstructed
  <2> QED BY <2>2, <2>6 DEF Served, Kind
<1>4. IInv => OutboundInv
  <2> SUFFICES ASSUME IInv PROVE OutboundInv OBVIOUS
  <2>1. PrivateAndOwn BY <1>1
  <2>2. Fetchable BY <1>2, <1>3 DEF Fetchable
  <2>3. /\ IntakeTypeOK(Event) /\ notes \subseteq Note
        /\ \A i \in Positions : rows[i] # NoNote => rows[i] \in Made(i)
    BY Facts DEF IntakeSound, NotesSound, Tracked
  <2>4. /\ sent \subseteq Activity /\ \A d \in sent : d.note \in notes
        /\ shown \subseteq {<<d.to, d.note>> : d \in sent}
    BY Facts DEF SentSound
  <2>5. copied \cup warned \subseteq {i \in 1..Len(stream) : stream[i].enc}
    BY Facts DEF FilesSound
  <2> QED BY <2>1, <2>2, <2>3, <2>4, <2>5 DEF OutboundInv
<1> QED BY <1>4, Inductive, PTL

\* Once all is handled, what was redacted is gone from every follower's server
\* (maybe_federate_delete, through restarts, edits and answers in between).
THEOREM RedactedIsGone == Spec => []DeletedAtFollowers
<1>1. IInv => DeletedAtFollowers
  <2> SUFFICES ASSUME IInv, Quiet, NEW k \in 1..Len(stream), NEW i, i = stream[k].of,
                      stream[k].kind = "redact", stream[i].kind # "vote", i \notin twice,
                      NEW note \in Made(i),
                      note = rows[i] \/ (i \notin cut /\ ~ HasAnnouncement(i))
               PROVE  \A f \in FollowersOf[note.actor] : <<f, note>> \notin shown
    BY DEF DeletedAtFollowers
  <2>1. Over(k) BY QuietFacts
  <2>2. Retracts(k) BY DEF Retracts, Kind
  <2>3. Back(k) BY <2>1, <2>2, Facts DEF TakenBack
  <2> QED BY <2>3 DEF Back
<1> QED BY <1>1, Inductive, PTL

\* Once all is handled, whoever a statement is for was sent it
\* (_dispatch_outbound_send, through retries, give-ups and restarts).
THEOREM StatementsHeard == Spec => []Heard
<1>1. IInv => Heard
  <2> SUFFICES ASSUME IInv, Quiet, NEW i \in 1..Len(stream),
                      Kind(i) \in {"post", "reply", "dm", "chat"}, stream[i].of = 0,
                      stream[i].enc => i \in copied, stream[i].user \notin barred, i \notin cut
               PROVE  \E note \in Made(i) :
                        \A to \in IF Kind(i) = "post" THEN FollowersOf[note.actor] ELSE {"peer"} :
                          Reached(to, note)
    BY DEF Heard, Kind, Reached
  <2>1. Due(i) BY DEF Due, Statement
  <2>2. Over(i) /\ \A r \in Requests : work[r].pc = "none" BY QuietFacts
  <2>3. Made(i) # {} BY <2>1, <2>2, Facts DEF GetsMade
  <2>4. PICK note \in Made(i) : TRUE BY <2>3
  <2>5. note \in notes /\ note.pos = i BY <2>4 DEF Made
  <2>6. \A to \in Hearers(note) : Reached(to, note)
    <3>1. Statement(note.pos) /\ note.pos \notin cut BY <2>5 DEF Statement
    <3>2. \A q \in Requests : ~ At(q, note) BY <2>2 DEF At
    <3> QED BY <2>5, <3>1, <3>2, Facts DEF GetsSent
  <2> QED BY <2>4, <2>5, <2>6 DEF Hearers
<1> QED BY <1>1, Inductive, PTL
===============================================================================
