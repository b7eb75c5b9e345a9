----------------------------- MODULE Relays_proofs ------------------------------
(***************************************************************************)
(* Theorems about shared rooms, for any posts, messages, followers,        *)
(* arrivals, restarts and repeated requests: rows are sound and threads    *)
(* flat, a post is shown once, nobody is told twice but by two requests,   *)
(* and followers hear of what the room shows.                              *)
(***************************************************************************)
EXTENDS Relays, TLAPS, FiniteSetTheorems

Post(o) == o \notin Own

\* The event heads a thread of this room.
Rooted(e) == e = NoEvent \/ \E s \in Here(rows) : s.event = e /\ (s.root = NoEvent \/ e[1] \in doubled)

Told(f, o) == \/ heard[f][o] > 0 \/ <<f, o>> \in missed
              \/ Post(o) /\ f = AuthorOf[o[1]]

\* Messages wait in order, each once; only a restart or another request gives
\* one another try, and only the first is being sent.
QueueSound ==
  /\ \A i, j \in 1..Len(pending) : pending[i] = pending[j] => i = j
  /\ \A i \in 1..Len(pending) :
       /\ said[pending[i]] # Unsaid
       /\ (\A l \in lanes : l.object[1] # pending[i]) => tries[pending[i]] <= troubles
       /\ \A l \in lanes : l.object[1] = pending[i] => i = 1
  /\ \A m \in Messages : tries[m] <= troubles + 1 /\ (said[m] = Unsaid => tries[m] = 0)

\* What each step of a request finds, but for what another did beside it.
RowStep(l) == /\ kind \in Hosted \cup {"channel"} /\ \A f \in Followers : heard[f][l.object] = 0
              /\ l.object[1] \notin doubled => OfEvent(<<l.object[1], 0>>) = {}
DeliverStep(l) == /\ kind \in Mirrored
                  /\ kind = "channel" => Known(l.object) \/ l.object[1] \in doubled
                  /\ kind # "channel" /\ l.object[1] \notin doubled => OfEvent(<<l.object[1], 0>>) = {}
KeepStep(l) == /\ kind \in {"community", "group"}
               /\ l.object[1] \notin doubled => OfEvent(<<l.object[1], 0>>) = {}
TellStep(l) == /\ kind \in Hosted /\ OfEvent(<<l.object[1], 0>>) # {}
               /\ Known(l.object) \/ l.object[1] \in doubled
               /\ \A f \in l.todo : heard[f][l.object] = 0
               /\ \A f \in Followers \ l.todo : Told(f, l.object)

LaneSound(l) ==
  /\ l.object[2] <= tries[l.object[1]] /\ Rooted(l.root)
  /\ l.object[1] \notin doubled => l.object[2] = tries[l.object[1]]
  /\ (l.step = "row" => RowStep(l)) /\ (l.step = "deliver" => DeliverStep(l))
  /\ (l.step = "keep" => KeepStep(l)) /\ (l.step = "tell" => TellStep(l))

LanesApart == \A l, k \in lanes :
  l.object = k.object \/ (l.object[1] = k.object[1] /\ l.object[1] \notin doubled) => l = k

\* What a row is of, and that a message's row is of its last attempt.
OwnShape(r) == /\ r.event \in Messages \X {0} /\ r.object \in Own /\ r.object[1] = r.event[1]
               /\ r.event[1] \notin doubled => r.object[2] = tries[r.event[1]]
Shaped(r) ==
  \/ OwnShape(r)
  \/ r.event \in Copies /\ r.object = <<r.event[1], 0>> /\ r.event[2] <= shown[r.event[1]]
  \/ r.event \in Elsewheres /\ r.object = r.event /\ r.root = NoEvent

RowsKept ==
  /\ \A r, s \in rows : r.event = s.event \/ r.object = s.object => r = s
  /\ \A r \in rows : Shaped(r) /\ Rooted(r.root)

ArrivedSound == \A m \in Messages, i \in Attempts : arrived[<<m, i>>] > 0 =>
  /\ i <= tries[m]
  /\ \/ m \in doubled \/ Known(<<m, i>>) \/ <<m, i>> \in cut
     \/ \E l \in lanes : l.step = "keep" /\ l.object = <<m, i>>
  /\ kind = "channel" => m \in doubled \/ Known(<<m, i>>)

\* What the handling of an activity relies on.
TaskSound(t) ==
  /\ Rooted(t.root)
  /\ t.act.via # "create" => kind \in Mirrored
  /\ ~ Post(t.act.object) => t.step = "ghost" /\ t.root = NoEvent
  /\ t.step = "record" => t.copy \in 1..shown[t.act.object[1]]
  /\ t.step = "tell" => /\ kind \in Hosted /\ Known(t.act.object)
                        /\ \A f \in Followers \ t.todo : Told(f, t.act.object)
  /\ kind = "hosted community" /\ Post(t.act.object) /\ t.act.object[1] \notin Roots =>
       Answered(t.act.object[1]) # {} \/ Astray(t.act.object)
  /\ kind \in Hosted => OfObject(t.act.object) \subseteq Here(rows) \/ Astray(t.act.object)
  /\ Post(t.act.object) /\ t.act.object \notin raced =>
       /\ t.step # "tell" => ~ Known(t.act.object)
       /\ t.step = "tell" => \A f \in t.todo : heard[f][t.act.object] = 0
       /\ t.step \in {"ghost", "send"} /\ t.act.object \notin cut => shown[t.act.object[1]] = 0

TasksApart == \A t, u \in tasks :
  t.act = u.act \/ (t.act.object = u.act.object /\ t.act.object \notin raced) => t = u

ShownSound == \A p \in Posts : <<p, 0>> \notin raced \cup cut =>
  /\ shown[p] <= 1
  /\ shown[p] = 1 => Known(<<p, 0>>) \/ \E t \in tasks : t.act.object = <<p, 0>> /\ t.step = "record"

\* A copy takes an arrival.
Unsent(p) == {t \in tasks : t.act.object = <<p, 0>> /\ t.step \in {"ghost", "send"}}
Counted == IsFiniteSet(tasks) /\ \A p \in Posts : shown[p] + Cardinality(Unsent(p)) <= arrivals

\* What followers may have heard of.
Hearable(o) ==
  /\ Post(o) => Known(o) /\ (Here(OfObject(o)) # {} \/ Astray(o))
  /\ ~ Post(o) => /\ o[2] <= tries[o[1]] /\ OfEvent(<<o[1], 0>>) # {}
                  /\ Known(o) \/ o[1] \in doubled

HeardSound == \A f \in Followers, o \in Objects :
  /\ heard[f][o] > 0 => Hearable(o)
  /\ o \notin raced => heard[f][o] <= 1

Settled(o) ==
  \/ o \in cut
  \/ \A f \in Followers : Told(f, o)
  \/ \E t \in tasks : t.act.object = o /\ t.step = "tell"
  \/ \E l \in lanes : l.object = o /\ l.step = "tell"

RowsTold == kind \in Hosted => \A r \in Here(rows) : Settled(r.object)

\* The inductive invariant.
IInv ==
  /\ TypeOK /\ QueueSound /\ (\A l \in lanes : LaneSound(l)) /\ LanesApart /\ RowsKept /\ ArrivedSound
  /\ (\A t \in tasks : TaskSound(t)) /\ TasksApart /\ ShownSound /\ Counted /\ HeardSound /\ RowsTold

-------------------------------------------------------------------------------
\* Objects and events by what they are pairs of.
LEMMA Names ==
  /\ \A o \in Objects : Post(o) => o[1] \in Posts /\ o = <<o[1], 0>>
  /\ \A p \in Posts : <<p, 0>> \in Objects /\ Post(<<p, 0>>) /\ p \notin Messages
  /\ \A o \in Own : o \in Objects /\ o[1] \in Messages /\ o[2] \in Attempts /\ o = <<o[1], o[2]>>
  /\ \A m \in Messages, i \in Attempts : <<m, i>> \in Own
  /\ \A e \in Copies : /\ e \notin Elsewheres /\ e \notin Messages \X {0} /\ e \in Events
                       /\ e[1] \in Posts /\ e[2] \in 1..MaxArrivals
  /\ \A e \in Elsewheres : e \notin Messages \X {0} /\ e \notin Copies /\ e \in Objects /\ Post(e)
  /\ \A m \in Messages : <<m, 0>> \in Events /\ <<m, 0>> \notin Elsewheres \cup Copies
  /\ NoEvent \notin Events \cup Elsewheres
  /\ MaxArrivals \in Nat /\ MaxTroubles \in Nat /\ Mirrored \cap Hosted = {}
  /\ Attempts = 1..(MaxTroubles + 1)
<1> USE RelaysAssumption
<1>1. \A o \in Own : o \in Objects /\ o[1] \in Messages /\ o[2] \in Attempts /\ o = <<o[1], o[2]>>
  BY DEF Own, Objects
<1>2. 0 \notin Attempts BY DEF Attempts
<1>3. \A p \in Posts : <<p, 0>> \in Objects /\ Post(<<p, 0>>) /\ p \notin Messages
  BY <1>2 DEF Objects, Post, Own
<1>4. \A o \in Objects : Post(o) => o[1] \in Posts /\ o = <<o[1], 0>> BY DEF Objects, Post
<1>5. \A e \in Copies : /\ e \notin Elsewheres /\ e \notin Messages \X {0} /\ e \in Events
                        /\ e[1] \in Posts /\ e[2] \in 1..MaxArrivals
  BY DEF Copies, Elsewheres, Events
<1>6. \A e \in Elsewheres : e \notin Messages \X {0} /\ e \notin Copies /\ e \in Objects /\ Post(e)
  BY <1>3, <1>5 DEF Elsewheres
<1>7. \A m \in Messages : <<m, 0>> \in Events /\ <<m, 0>> \notin Elsewheres \cup Copies
  BY DEF Events, Elsewheres, Copies
<1>8. NoEvent \notin Events \cup Elsewheres BY DEF NoEvent, Events, Elsewheres, Copies
<1>9. \A m \in Messages, i \in Attempts : <<m, i>> \in Own BY DEF Own
<1>10. Mirrored \cap Hosted = {} BY DEF Mirrored, Hosted
<1> QED BY <1>1, <1>3, <1>4, <1>5, <1>6, <1>7, <1>8, <1>9, <1>10 DEF Attempts

LEMMA RowFacts ==
  ASSUME IInv, NEW r \in rows
  PROVE  /\ r.event \in Events \cup Elsewheres /\ r.object \in Objects /\ r.root \in Events \cup {NoEvent}
         /\ r \in Row
         /\ r.event \in Elsewheres => Post(r.object) /\ r.root = NoEvent
         /\ r.event \in Messages \X {0} <=> ~ Post(r.object)
         /\ ~ Post(r.object) => OwnShape(r)
BY Names DEF IInv, TypeOK, Row, RowsKept, Shaped, OwnShape, Post

LEMMA Tried ==
  ASSUME IInv, NEW m \in Messages
  PROVE  /\ tries[m] \in Nat /\ troubles \in Nat /\ tries[m] <= troubles + 1 /\ troubles <= MaxTroubles
         /\ MaxTroubles \in Nat
<1>1. /\ tries \in [Messages -> {0} \cup Attempts] /\ troubles \in 0..MaxTroubles /\ MaxTroubles \in Nat
      /\ Attempts = 1..(MaxTroubles + 1)
  BY Names DEF IInv, TypeOK
<1>2. tries[m] \in Nat BY <1>1
<1> QED BY <1>1, <1>2 DEF IInv, QueueSound

-------------------------------------------------------------------------------
\* Rows are added; the row of a message two requests sent may take another's place.
RowsGo ==
  /\ doubled \subseteq doubled'
  /\ \A r \in rows : \/ r \in rows'
                     \/ /\ r.event \in doubled' \X {0} /\ r.event \in Messages \X {0}
                        /\ \E s \in rows' : s.event = r.event

LEMMA RowsLost ==
  ASSUME IInv, RowsGo
  PROVE  /\ \A e : Rooted(e) => Rooted(e)'
         /\ \A e : OfEvent(e) # {} => OfEvent(e)' # {}
         /\ \A o : Post(o) => /\ OfObject(o) \subseteq OfObject(o)' /\ (Known(o) => Known(o)')
                              /\ Here(OfObject(o)) \subseteq Here(OfObject(o))'
         /\ \A o : Known(o) => Known(o)' \/ o[1] \in doubled'
         /\ \A o : Astray(o) => Astray(o)'
<1>1. ASSUME NEW e, Rooted(e), e # NoEvent PROVE Rooted(e)'
  <2>1. PICK s \in Here(rows) : s.event = e /\ (s.root = NoEvent \/ e[1] \in doubled)
    BY <1>1 DEF Rooted
  <2>2. s \in rows /\ e \notin Elsewheres BY <2>1 DEF Here
  <2>3. CASE s \in rows' BY <2>1, <2>2, <2>3 DEF Rooted, Here, RowsGo
  <2>4. CASE s \notin rows'
    <3>1. PICK x \in rows' : x.event = e /\ e \in doubled' \X {0} BY <2>1, <2>2, <2>4 DEF RowsGo
    <3>2. e[1] \in doubled' BY <3>1
    <3> QED BY <2>2, <3>1, <3>2 DEF Rooted, Here
  <2> QED BY <2>3, <2>4
<1>2. \A e : Rooted(e) => Rooted(e)' BY <1>1 DEF Rooted
<1>3. \A e : OfEvent(e) # {} => OfEvent(e)' # {} BY DEF OfEvent, RowsGo
<1>4. ASSUME NEW r \in rows, Post(r.object) PROVE r \in rows'
  BY <1>4, RowFacts DEF RowsGo
<1>5. \A o : Post(o) => OfObject(o) \subseteq OfObject(o)' BY <1>4 DEF OfObject
<1>6. \A o : Post(o) => Here(OfObject(o)) \subseteq Here(OfObject(o))' BY <1>5 DEF Here
<1>7. ASSUME NEW o, Known(o) PROVE Known(o)' \/ o[1] \in doubled'
  <2>1. PICK r \in rows : r.object = o BY <1>7 DEF Known, OfObject
  <2>2. CASE r \in rows' BY <2>1, <2>2 DEF Known, OfObject
  <2>3. CASE r \notin rows'
    <3>1. r.event \in doubled' \X {0} /\ r.event \in Messages \X {0} BY <2>3 DEF RowsGo
    <3>2. r.object[1] = r.event[1] BY <3>1, RowFacts DEF OwnShape
    <3>3. r.event[1] \in doubled' BY <3>1
    <3> QED BY <2>1, <3>2, <3>3
  <2> QED BY <2>2, <2>3
<1>8. \A o : Astray(o) => Astray(o)'
  <2>1. doubled \X Attempts \subseteq doubled' \X Attempts BY DEF RowsGo
  <2> QED BY <2>1 DEF Astray, Ours
<1> QED BY <1>2, <1>3, <1>5, <1>6, <1>7, <1>8 DEF Known

\* What a post answers goes only where the answer is astray.
LEMMA AnswersLost ==
  ASSUME IInv, RowsGo, NEW o \in Objects, Post(o), Answered(o[1]) # {} \/ Astray(o)
  PROVE  Answered(o[1])' # {} \/ Astray(o)'
<1>1. CASE Astray(o) BY <1>1, RowsLost
<1>2. CASE Answered(o[1]) # {}
  <2>1. PICK r \in rows : r.object = ParentOf[o[1]] /\ r.event \notin Elsewheres
    BY <1>2 DEF Answered, Here, OfObject
  <2>2. CASE r \in rows' BY <2>1, <2>2 DEF Answered, Here, OfObject
  <2>3. CASE r \notin rows'
    <3>1. r.event \in doubled' \X {0} /\ r.event \in Messages \X {0} BY <2>3 DEF RowsGo
    <3>2. OwnShape(r) BY <3>1, RowFacts
    <3>3. /\ r.object \in Own /\ r.object[1] \in doubled' /\ r.object[2] \in Attempts
          /\ r.object = <<r.object[1], r.object[2]>>
      BY <3>1, <3>2, Names DEF OwnShape
    <3>4. ParentOf[o[1]] \in doubled' \X Attempts BY <2>1, <3>3
    <3> QED BY <3>4 DEF Astray, Ours, Post
  <2> QED BY <2>2, <2>3
<1> QED BY <1>1, <1>2

LEMMA MoreRows ==
  ASSUME rows \subseteq rows', doubled' = doubled
  PROVE  /\ \A e : Rooted(e) => Rooted(e)'
         /\ \A o : OfObject(o) \subseteq OfObject(o)' /\ (Known(o) => Known(o)')
         /\ \A o : Here(OfObject(o)) \subseteq Here(OfObject(o))'
         /\ \A p : Answered(p) # {} => Answered(p)' # {}
         /\ \A o : Astray(o)' <=> Astray(o)
         /\ RowsGo
<1>1. Here(rows) \subseteq Here(rows)' BY DEF Here
<1>2. \A o : OfObject(o) \subseteq OfObject(o)' BY DEF OfObject
<1>3. \A o : Here(OfObject(o)) \subseteq Here(OfObject(o))' BY DEF Here, OfObject
<1>4. \A e : Rooted(e) => Rooted(e)' BY <1>1 DEF Rooted
<1>5. \A p : Answered(p) \subseteq Answered(p)' BY <1>3 DEF Answered
<1>6. \A o : Astray(o)' <=> Astray(o) BY DEF Astray, Ours
<1> QED BY <1>2, <1>3, <1>4, <1>5, <1>6 DEF Known, RowsGo

\* A step of a request: rows of messages come in, nothing changes for tasks.
LaneFrame ==
  /\ UNCHANGED Inbound /\ kind' = kind /\ cut \subseteq cut' /\ RowsGo
  /\ \A r \in rows' \ rows : r.event \in Messages \X {0} /\ r.object \in Own
  /\ \A f \in Followers, o \in Objects : Post(o) => heard'[f][o] = heard[f][o]
  /\ \A f \in Followers, o \in Objects : heard[f][o] > 0 => heard'[f][o] > 0
  /\ missed \subseteq missed'

LEMMA TasksKept ==
  ASSUME IInv, LaneFrame
  PROVE  (\A t \in tasks : TaskSound(t))' /\ TasksApart' /\ ShownSound' /\ Counted'
<1>1. UNCHANGED <<shown, tasks, ghosts, arrivals, raced, kind>> BY DEF LaneFrame, Inbound
<1>2. RowsGo /\ cut \subseteq cut' /\ missed \subseteq missed' BY DEF LaneFrame
<1>3. \A o : Post(o) => OfObject(o)' = OfObject(o) /\ (Known(o)' <=> Known(o))
  <2>1. \A o : Post(o) => OfObject(o)' \subseteq OfObject(o) BY DEF LaneFrame, OfObject, Post
  <2> QED BY <1>2, <2>1, RowsLost DEF Known
<1>4. ASSUME NEW t \in tasks PROVE TaskSound(t)'
  <2>1. TaskSound(t) /\ t.act.object \in Objects /\ t.todo \subseteq Followers
    BY DEF IInv, TypeOK, Task, Activity
  <2>2. \A f \in Followers : Told(f, t.act.object) => Told(f, t.act.object)'
    BY <1>2, <2>1 DEF Told, LaneFrame, Post
  <2>3. t.step = "tell" => Post(t.act.object) BY <2>1 DEF TaskSound
  <2>4. kind \in Hosted => OfObject(t.act.object)' \subseteq Here(rows)' \/ Astray(t.act.object)'
    <3>1. CASE Post(t.act.object)
      <4>1. ASSUME NEW r \in OfObject(t.act.object), r \in Here(rows) PROVE r \in Here(rows)'
        BY <1>3, <3>1, <4>1 DEF Here, OfObject
      <4> QED BY <1>2, <1>3, <2>1, <3>1, <4>1, RowsLost DEF TaskSound
    <3>2. CASE ~ Post(t.act.object)
      <4>1. ASSUME NEW r \in rows', r.object = t.act.object PROVE r.event \in Messages \X {0}
        BY <3>2, <4>1, RowFacts DEF LaneFrame
      <4> QED BY <4>1, Names DEF Here, OfObject
    <3> QED BY <3>1, <3>2
  <2>5. Rooted(t.root)' BY <1>2, <2>1, RowsLost DEF TaskSound
  <2>6. kind = "hosted community" /\ Post(t.act.object) /\ t.act.object[1] \notin Roots =>
          Answered(t.act.object[1])' # {} \/ Astray(t.act.object)'
    BY <1>2, <2>1, AnswersLost DEF TaskSound
  <2>7. t.step = "tell" => /\ kind \in Hosted /\ Known(t.act.object)'
                           /\ \A f \in Followers \ t.todo : Told(f, t.act.object)'
    BY <1>3, <2>1, <2>2, <2>3 DEF TaskSound
  <2>8. Post(t.act.object) /\ t.act.object \notin raced =>
          /\ t.step # "tell" => ~ Known(t.act.object)'
          /\ t.step = "tell" => \A f \in t.todo : heard'[f][t.act.object] = 0
          /\ t.step \in {"ghost", "send"} /\ t.act.object \notin cut' => shown'[t.act.object[1]] = 0
    BY <1>1, <1>2, <1>3, <2>1 DEF TaskSound, LaneFrame
  <2> QED BY <1>1, <2>1, <2>4, <2>5, <2>6, <2>7, <2>8 DEF TaskSound, Post
<1>5. TasksApart' BY <1>1 DEF IInv, TasksApart
<1>6. ShownSound'
  BY <1>1, <1>2, <1>3, Names DEF IInv, ShownSound
<1>7. Counted' BY <1>1 DEF IInv, Counted, Unsent
<1> QED BY <1>1, <1>4, <1>5, <1>6, <1>7

\* A step of a task: rows of posts come in, nothing changes for the requests.
TaskFrame ==
  /\ UNCHANGED <<pending, lanes, tries, arrived>> /\ UNCHANGED Outside /\ rows \subseteq rows'
  /\ \A r \in rows' \ rows : Post(r.object) /\ r.event \notin Messages \X {0}
  /\ \A f \in Followers, o \in Objects : ~ Post(o) => heard'[f][o] = heard[f][o]
  /\ missed \subseteq missed'

LEMMA LaneFacts ==
  ASSUME IInv, NEW l \in lanes
  PROVE  /\ l \in Sending /\ LaneSound(l) /\ l.object \in Own /\ l.object \in Objects /\ ~ Post(l.object)
         /\ l.object[1] \in Messages /\ l.object[2] \in Attempts /\ l.object = <<l.object[1], l.object[2]>>
         /\ l.root \in Events \cup {NoEvent} /\ Rooted(l.root) /\ l.todo \subseteq Followers
         /\ l.object[2] <= tries[l.object[1]]
<1>1. /\ l \in Sending /\ LaneSound(l) /\ l.object \in Own /\ l.root \in Events \cup {NoEvent}
      /\ l.todo \subseteq Followers
  BY DEF IInv, TypeOK, Sending
<1> QED BY <1>1, Names DEF LaneSound, Post

LEMMA LanesKept ==
  ASSUME IInv, TaskFrame
  PROVE  QueueSound' /\ (\A l \in lanes : LaneSound(l))' /\ LanesApart' /\ ArrivedSound'
<1>1. UNCHANGED <<pending, lanes, tries, arrived, kind, said, troubles, doubled, cut>>
  BY DEF TaskFrame, Outside
<1>2. rows \subseteq rows' /\ missed \subseteq missed' BY DEF TaskFrame
<1>3. ASSUME NEW m \in Messages PROVE OfEvent(<<m, 0>>)' = OfEvent(<<m, 0>>)
  <2>1. \A r \in rows' : r.event = <<m, 0>> => r \in rows BY DEF TaskFrame
  <2> QED BY <1>2, <2>1 DEF OfEvent
<1>4. QueueSound' BY <1>1 DEF IInv, QueueSound
<1>5. ASSUME NEW l \in lanes PROVE LaneSound(l)'
  <2>1. LaneSound(l) /\ l.object \in Objects /\ ~ Post(l.object) /\ l.object[1] \in Messages
        /\ l.todo \subseteq Followers
    BY LaneFacts
  <2>2. \A f \in Followers : heard'[f][l.object] = heard[f][l.object] BY <2>1 DEF TaskFrame
  <2>3. \A f \in Followers : Told(f, l.object) => Told(f, l.object)' BY <1>2, <2>1, <2>2 DEF Told
  <2>4. OfEvent(<<l.object[1], 0>>)' = OfEvent(<<l.object[1], 0>>) BY <1>3, <2>1
  <2>5. Rooted(l.root)' /\ (Known(l.object) => Known(l.object)')
    BY <1>1, <1>2, <2>1, MoreRows DEF LaneSound
  <2>6. RowStep(l) => RowStep(l)' BY <1>1, <2>2, <2>4 DEF RowStep
  <2>7. DeliverStep(l) => DeliverStep(l)' BY <1>1, <2>4, <2>5 DEF DeliverStep
  <2>8. KeepStep(l) => KeepStep(l)' BY <1>1, <2>4 DEF KeepStep
  <2>9. TellStep(l) => TellStep(l)' BY <1>1, <2>1, <2>2, <2>3, <2>4, <2>5 DEF TellStep
  <2> QED BY <1>1, <2>1, <2>5, <2>6, <2>7, <2>8, <2>9 DEF LaneSound
<1>6. LanesApart' BY <1>1 DEF IInv, LanesApart
<1>7. ArrivedSound' BY <1>1, <1>2, MoreRows DEF IInv, ArrivedSound
<1> QED BY <1>1, <1>4, <1>5, <1>6, <1>7

\* New rows of their own shape, while old ones keep theirs or go.
LEMMA RowsGrow ==
  ASSUME IInv, RowsGo,
         \A r \in rows' \ rows : /\ Shaped(r)' /\ Rooted(r.root)'
                                 /\ \A s \in rows' : r.event = s.event \/ r.object = s.object => r = s,
         \A p \in Posts : shown[p] <= shown'[p] /\ shown'[p] \in Nat,
         \A m \in Messages : tries'[m] = tries[m] \/ m \in doubled' \/ OfEvent(<<m, 0>>) = {}
  PROVE  RowsKept'
<1>1. ASSUME NEW r \in rows PROVE Shaped(r)'
  <2>1. Shaped(r) /\ r \in Row BY DEF IInv, RowsKept, TypeOK
  <2>2. CASE OwnShape(r)
    <3>1. r.event = <<r.event[1], 0>> /\ r.event[1] \in Messages BY <2>2 DEF OwnShape
    <3>2. OfEvent(<<r.event[1], 0>>) # {} BY <3>1 DEF OfEvent
    <3>3. r.event[1] \notin doubled' => tries'[r.event[1]] = tries[r.event[1]] BY <3>1, <3>2
    <3>4. OwnShape(r)' BY <2>2, <3>3 DEF OwnShape, RowsGo
    <3> QED BY <3>4 DEF Shaped
  <2>3. CASE r.event \in Copies /\ r.object = <<r.event[1], 0>> /\ r.event[2] <= shown[r.event[1]]
    <3>1. r.event[1] \in Posts /\ r.event[2] \in Nat BY <2>3, Names
    <3>2. shown[r.event[1]] \in Nat BY <3>1, Names DEF IInv, TypeOK
    <3>3. r.event[2] <= shown'[r.event[1]] BY <2>3, <3>1, <3>2
    <3> QED BY <2>3, <3>3 DEF Shaped
  <2>4. CASE r.event \in Elsewheres /\ r.object = r.event /\ r.root = NoEvent BY <2>4 DEF Shaped
  <2> QED BY <2>1, <2>2, <2>3, <2>4 DEF Shaped
<1>2. \A r \in rows : Rooted(r.root)' BY RowsLost DEF IInv, RowsKept
<1>3. \A r, s \in rows' : r.event = s.event \/ r.object = s.object => r = s
  BY DEF IInv, RowsKept
<1> QED BY <1>1, <1>2, <1>3 DEF RowsKept

LEMMA RowsSame ==
  ASSUME IInv, UNCHANGED <<rows, shown, tries>>, doubled \subseteq doubled'
  PROVE  RowsKept'
<1>1. \A p \in Posts : shown[p] \in Nat BY Names DEF IInv, TypeOK
<1>2. RowsGo BY DEF RowsGo
<1> QED BY <1>1, <1>2, RowsGrow

LEMMA HearableKept ==
  ASSUME IInv, RowsGo, NEW o \in Objects, Hearable(o),
         \A m \in Messages : tries[m] <= tries'[m] /\ tries'[m] \in Nat
  PROVE  Hearable(o)'
<1>1. CASE Post(o) BY <1>1, RowsLost DEF Hearable, Post
<1>2. CASE ~ Post(o)
  <2>1. o[1] \in Messages /\ o[2] \in Nat BY <1>2, Names DEF Post
  <2>2. tries[o[1]] \in Nat BY <2>1, Tried
  <2>3. o[2] <= tries'[o[1]] BY <1>2, <2>1, <2>2 DEF Hearable
  <2>4. OfEvent(<<o[1], 0>>)' # {} /\ (Known(o)' \/ o[1] \in doubled')
    BY <1>2, RowsLost DEF Hearable, RowsGo
  <2> QED BY <1>2, <2>3, <2>4 DEF Hearable, Post
<1> QED BY <1>1, <1>2

LEMMA HeardKept ==
  ASSUME IInv, RowsGo, raced \subseteq raced',
         \A m \in Messages : tries[m] <= tries'[m] /\ tries'[m] \in Nat,
         \A f \in Followers, o \in Objects :
            \/ heard'[f][o] = heard[f][o]
            \/ /\ heard'[f][o] = heard[f][o] + 1 /\ Hearable(o)
               /\ o \notin raced => heard[f][o] = 0
  PROVE  HeardSound'
<1> SUFFICES ASSUME NEW f \in Followers, NEW o \in Objects
             PROVE  /\ heard'[f][o] > 0 => Hearable(o)'
                    /\ o \notin raced' => heard'[f][o] <= 1
  BY DEF HeardSound, Hearable, Known, Here, OfObject, OfEvent, Astray
<1>1. /\ heard[f][o] \in Nat /\ (heard[f][o] > 0 => Hearable(o))
      /\ o \notin raced => heard[f][o] <= 1
  BY DEF IInv, HeardSound, TypeOK
<1>2. Hearable(o) => Hearable(o)' BY HearableKept
<1> QED BY <1>1, <1>2

LEMMA ToldKept ==
  ASSUME IInv, kind' = kind,
         kind \in Hosted => /\ \A o \in Objects : Settled(o) => Settled(o)'
                            /\ \A r \in Here(rows)' \ rows : Settled(r.object)'
  PROVE  RowsTold'
<1>1. \A r \in Here(rows)' : r \in rows => r \in Here(rows) BY DEF Here
<1>2. \A r \in rows : r.object \in Objects BY RowFacts
<1> QED BY <1>1, <1>2 DEF IInv, RowsTold, Here

LEMMA ThreadRooted ==
  ASSUME IInv, NEW r \in Here(rows)
  PROVE  Rooted(ThreadOf(r)) /\ ThreadOf(r) \in Events \cup {NoEvent}
<1>1. r \in rows /\ r.event \notin Elsewheres BY DEF Here
<1>2. r.event \in Events /\ r.root \in Events \cup {NoEvent} BY <1>1, RowFacts
<1>3. Rooted(r.root) BY <1>1 DEF IInv, RowsKept
<1>4. r.root = NoEvent => Rooted(r.event) BY DEF Rooted
<1> QED BY <1>2, <1>3, <1>4 DEF ThreadOf

LEMMA RootsFor ==
  ASSUME IInv, NEW m, NEW root \in RootFor(m)
  PROVE  Rooted(root) /\ root \in Events \cup {NoEvent}
<1>1. CASE root = NoEvent BY <1>1 DEF Rooted
<1>2. CASE root # NoEvent
  <2>1. PICK r \in Target(m) : root = ThreadOf(r) BY <1>2 DEF RootFor
  <2>2. r \in Here(rows) BY DEF Target, Here, OfEvent
  <2> QED BY <2>1, <2>2, ThreadRooted
<1> QED BY <1>1, <1>2

LEMMA LaneStep ==
  ASSUME IInv, LaneFrame, TypeOK', QueueSound', (\A l \in lanes : LaneSound(l))', LanesApart', RowsKept',
         ArrivedSound', HeardSound', RowsTold'
  PROVE  IInv'
<1>1. tasks' = tasks BY DEF LaneFrame, Inbound
<1> QED BY <1>1, TasksKept DEF IInv

\* Nothing is sent, written or announced.
LEMMA Still ==
  ASSUME IInv, UNCHANGED <<kind, rows, lanes, tries, arrived, heard, missed, doubled, cut>>, UNCHANGED Inbound,
         TypeOK', QueueSound'
  PROVE  IInv'
<1>1. UNCHANGED <<shown, tasks, ghosts, arrivals, raced>> BY DEF Inbound
<1>2. RowsGo BY DEF RowsGo
<1>3. LaneFrame BY <1>2 DEF LaneFrame
<1>4. ASSUME NEW l \in lanes PROVE LaneSound(l)'
  <2>1. LaneSound(l) BY DEF IInv
  <2>2. RowStep(l)' <=> RowStep(l) BY DEF RowStep, OfEvent
  <2>3. DeliverStep(l)' <=> DeliverStep(l) BY DEF DeliverStep, OfEvent, Known, OfObject
  <2>4. KeepStep(l)' <=> KeepStep(l) BY DEF KeepStep, OfEvent
  <2>5. TellStep(l)' <=> TellStep(l) BY DEF TellStep, OfEvent, Known, OfObject, Told
  <2>6. Rooted(l.root)' <=> Rooted(l.root) BY DEF Rooted, Here
  <2> QED BY <2>1, <2>2, <2>3, <2>4, <2>5, <2>6 DEF LaneSound
<1>5. LanesApart' BY DEF IInv, LanesApart
<1>6. RowsKept' BY <1>1, RowsSame
<1>7. ArrivedSound' BY DEF IInv, ArrivedSound, Known, OfObject
<1>8. HeardSound'
  <2>1. \A m \in Messages : tries[m] <= tries'[m] /\ tries'[m] \in Nat BY Tried
  <2> QED BY <1>1, <1>2, <2>1, HeardKept
<1>9. RowsTold' BY <1>1 DEF IInv, RowsTold, Settled, Here, Told
<1> QED BY <1>3, <1>4, <1>5, <1>6, <1>7, <1>8, <1>9, LaneStep

\* The message at the head of the queue.
LEMMA AtHead ==
  ASSUME IInv, pending # <<>>
  PROVE  /\ pending \in Seq(Messages) /\ Len(pending) \in Nat /\ Len(pending) >= 1 /\ QueueSound
         /\ Now = pending[1] /\ Now \in Messages /\ said[Now] # Unsaid
         /\ ~ Beside => tries[Now] <= troubles
<1>1. pending \in Seq(Messages) /\ Len(pending) \in Nat /\ Len(pending) >= 1 /\ QueueSound
  BY DEF IInv, TypeOK
<1>2. Now = pending[1] /\ Now \in Messages /\ 1 \in 1..Len(pending) BY <1>1 DEF Now
<1> QED BY <1>1, <1>2 DEF QueueSound, Beside

LEMMA Tails ==
  ASSUME IInv, pending # <<>>, pending' = Tail(pending)
  PROVE  /\ pending' \in Seq(Messages) /\ Len(pending') \in Nat
         /\ \A i \in 1..Len(pending') : /\ pending'[i] = pending[i + 1] /\ i + 1 \in 1..Len(pending)
                                        /\ pending'[i] # Now
<1>1. /\ pending \in Seq(Messages) /\ Len(pending) \in Nat /\ Len(pending) >= 1 /\ Now = pending[1]
      /\ QueueSound
  BY AtHead
<1>2. /\ pending' \in Seq(Messages) /\ Len(pending') = Len(pending) - 1
      /\ \A i \in 1..Len(pending') : pending'[i] = pending[i + 1] /\ i + 1 \in 1..Len(pending)
  BY <1>1
<1>3. ASSUME NEW i \in 1..Len(pending') PROVE pending'[i] # Now
  <2>1. pending'[i] = pending[i + 1] /\ i + 1 \in 1..Len(pending) /\ 1 \in 1..Len(pending) /\ i + 1 # 1
    BY <1>1, <1>2
  <2> QED BY <1>1, <2>1 DEF QueueSound
<1> QED BY <1>1, <1>2, <1>3

\* The queue stays or its head goes; whatever is sent is of the same messages,
\* or of the head.
LEMMA QueueKept ==
  ASSUME IInv, said' = said, troubles' \in Nat, troubles <= troubles',
         \A m \in Messages : /\ tries'[m] <= troubles' + 1
                             /\ tries'[m] = tries[m] \/ (said[m] # Unsaid /\ \E l \in lanes' : l.object[1] = m),
         pending' = pending \/ (pending # <<>> /\ pending' = Tail(pending)),
         \A l \in lanes' : \/ \E k \in lanes : k.object[1] = l.object[1]
                           \/ pending' = pending /\ pending # <<>> /\ l.object[1] = Now,
         \A l \in lanes, i \in 1..Len(pending') :
            l.object[1] = pending'[i] => \E k \in lanes' : k.object[1] = l.object[1]
  PROVE  QueueSound' /\ pending' \in Seq(Messages)
<1>1. /\ pending \in Seq(Messages) /\ Len(pending) \in Nat /\ QueueSound
      /\ \A m \in Messages : tries[m] \in Nat /\ troubles \in Nat
  BY Tried DEF IInv, TypeOK
<1>2. \A m \in Messages : said[m] = Unsaid => tries'[m] = 0 BY <1>1 DEF QueueSound
<1>3. CASE pending' = pending
  <2>1. ASSUME NEW i \in 1..Len(pending) PROVE pending[i] \in Messages BY <1>1
  <2>2. ASSUME NEW i \in 1..Len(pending), \A l \in lanes' : l.object[1] # pending[i]
        PROVE  tries'[pending[i]] <= troubles'
    <3>1. \A l \in lanes : l.object[1] # pending[i] BY <1>3, <2>2
    <3>2. tries[pending[i]] <= troubles BY <1>1, <3>1 DEF QueueSound
    <3> QED BY <1>1, <2>1, <2>2, <3>2
  <2>3. ASSUME NEW i \in 1..Len(pending), NEW l \in lanes', l.object[1] = pending[i] PROVE i = 1
    <3>1. CASE \E k \in lanes : k.object[1] = l.object[1] BY <1>1, <2>3, <3>1 DEF QueueSound
    <3>2. CASE pending # <<>> /\ l.object[1] = Now
      <4>1. Now = pending[1] /\ 1 \in 1..Len(pending) BY <3>2, AtHead
      <4> QED BY <1>1, <2>3, <3>2, <4>1 DEF QueueSound
    <3> QED BY <3>1, <3>2
  <2> QED BY <1>1, <1>2, <1>3, <2>2, <2>3 DEF QueueSound
<1>4. CASE pending # <<>> /\ pending' = Tail(pending)
  <2>1. /\ pending' \in Seq(Messages) /\ Len(pending') \in Nat /\ pending' # pending
        /\ \A i \in 1..Len(pending') : /\ pending'[i] = pending[i + 1] /\ i + 1 \in 1..Len(pending)
                                       /\ pending'[i] # Now /\ pending'[i] \in Messages
    <3>1. /\ pending' \in Seq(Messages) /\ Len(pending') \in Nat
          /\ \A i \in 1..Len(pending') : /\ pending'[i] = pending[i + 1] /\ i + 1 \in 1..Len(pending)
                                         /\ pending'[i] # Now
      BY <1>4, Tails
    <3>2. Len(pending') = Len(pending) - 1 BY <1>1, <1>4
    <3> QED BY <1>1, <3>1, <3>2
  <2>2. ASSUME NEW i \in 1..Len(pending'), \A l \in lanes' : l.object[1] # pending'[i]
        PROVE  tries'[pending'[i]] <= troubles'
    <3>1. \A l \in lanes : l.object[1] # pending'[i] BY <2>2
    <3>2. tries[pending'[i]] <= troubles BY <1>1, <2>1, <3>1 DEF QueueSound
    <3>3. tries'[pending'[i]] = tries[pending'[i]] BY <2>1, <2>2
    <3> QED BY <1>1, <2>1, <3>2, <3>3
  <2>3. ASSUME NEW i \in 1..Len(pending'), NEW l \in lanes', l.object[1] = pending'[i] PROVE FALSE
    <3>1. PICK k \in lanes : k.object[1] = l.object[1] BY <2>1
    <3>2. k.object[1] = pending[i + 1] /\ i + 1 \in 1..Len(pending) BY <2>1, <2>3, <3>1
    <3>3. i + 1 = 1 BY <1>1, <3>2 DEF QueueSound
    <3> QED BY <2>1, <3>3
  <2>4. \A i, j \in 1..Len(pending') : pending'[i] = pending'[j] => i = j
    <3> SUFFICES ASSUME NEW i \in 1..Len(pending'), NEW j \in 1..Len(pending'), pending'[i] = pending'[j]
                 PROVE  i = j
      OBVIOUS
    <3>1. i + 1 = j + 1 BY <1>1, <2>1 DEF QueueSound
    <3> QED BY <2>1, <3>1
  <2>5. \A i \in 1..Len(pending') : said'[pending'[i]] # Unsaid BY <1>1, <2>1 DEF QueueSound
  <2> QED BY <1>2, <2>1, <2>2, <2>3, <2>4, <2>5 DEF QueueSound
<1> QED BY <1>3, <1>4

-------------------------------------------------------------------------------
LEMMA SayInv ==
  ASSUME IInv, NEW m \in Messages, NEW who \in Writers, NEW e \in Events \cup {NoEvent}, Say(m, who, e)
  PROVE  IInv'
<1>1. /\ said[m] = Unsaid /\ said' = [said EXCEPT ![m] = [who |-> who, to |-> e]]
      /\ pending' = Append(pending, m)
      /\ UNCHANGED <<kind, rows, lanes, tries, arrived, heard, missed, banned, troubles, doubled, cut>>
      /\ UNCHANGED Inbound /\ UNCHANGED <<shown, tasks, ghosts, arrivals, raced>>
  BY DEF Say, Inbound
<1>2. /\ pending \in Seq(Messages) /\ Len(pending) \in Nat /\ QueueSound /\ TypeOK
      /\ said \in [Messages -> Saying \cup {Unsaid}] /\ tries[m] \in Nat /\ troubles \in Nat
  BY Tried DEF IInv, TypeOK
<1>3. [who |-> who, to |-> e] \in Saying /\ [who |-> who, to |-> e] # Unsaid
  BY UnsaidAssumption DEF Saying
<1>4. /\ pending' \in Seq(Messages) /\ Len(pending') = Len(pending) + 1 /\ pending'[Len(pending) + 1] = m
      /\ \A i \in 1..Len(pending) : pending'[i] = pending[i]
  BY <1>1, <1>2
<1>5. TypeOK' BY <1>1, <1>2, <1>3, <1>4 DEF TypeOK
<1>6. QueueSound'
  <2>1. \A n \in Messages : said'[n] # Unsaid <=> said[n] # Unsaid \/ n = m BY <1>1, <1>2, <1>3
  <2>2. \A i \in 1..Len(pending) : pending[i] \in Messages \ {m} BY <1>1, <1>2 DEF QueueSound
  <2>3. tries[m] = 0 /\ 0 <= troubles BY <1>1, <1>2 DEF QueueSound
  <2>4. \A i \in 1..Len(pending') : i \in 1..Len(pending) \/ i = Len(pending) + 1 BY <1>2, <1>4
  <2>5. \A i, j \in 1..Len(pending') : pending'[i] = pending'[j] => i = j
    BY <1>2, <1>4, <2>2, <2>4 DEF QueueSound
  <2>6. ASSUME NEW l \in lanes PROVE l.object[1] # m
    <3>1. l.object[2] \in Attempts /\ l.object[2] <= tries[l.object[1]] BY LaneFacts
    <3> QED BY <2>3, <3>1, Names
  <2>7. \A i \in 1..Len(pending') :
          /\ said'[pending'[i]] # Unsaid
          /\ (\A l \in lanes : l.object[1] # pending'[i]) => tries[pending'[i]] <= troubles
          /\ \A l \in lanes : l.object[1] = pending'[i] => i = 1
    BY <1>2, <1>4, <2>1, <2>2, <2>3, <2>4, <2>6 DEF QueueSound
  <2> QED BY <1>1, <1>2, <2>1, <2>5, <2>7 DEF QueueSound
<1> QED BY <1>1, <1>5, <1>6, Still

LEMMA HandedFacts ==
  ASSUME IInv, Handed
  PROVE  /\ pending # <<>> /\ troubles' \in 0..MaxTroubles /\ troubles \in Nat /\ troubles' \in Nat
         /\ troubles <= troubles'
         /\ Beside => troubles' = troubles + 1
<1>1. troubles \in 0..MaxTroubles /\ MaxTroubles \in Nat BY Names DEF IInv, TypeOK
<1> QED BY <1>1 DEF Handed

LEMMA SkipInv ==
  ASSUME IInv, Skip
  PROVE  IInv'
<1>1. /\ pending # <<>> /\ pending' = Tail(pending)
      /\ UNCHANGED <<kind, rows, said, lanes, tries, arrived, heard, missed, banned, doubled, cut>>
      /\ UNCHANGED Inbound /\ UNCHANGED <<shown, tasks, ghosts, arrivals, raced>>
      /\ troubles' \in 0..MaxTroubles /\ troubles \in Nat /\ troubles' \in Nat /\ troubles <= troubles'
  BY HandedFacts DEF Skip, Inbound
<1>2. \A m \in Messages : tries[m] \in Nat /\ tries[m] <= troubles' + 1
  <2>1. \A m \in Messages : tries[m] \in Nat /\ tries[m] <= troubles + 1 BY Tried
  <2> QED BY <1>1, <2>1
<1>3. QueueSound' /\ pending' \in Seq(Messages) BY <1>1, <1>2, QueueKept
<1>4. TypeOK' BY <1>1, <1>3 DEF IInv, TypeOK
<1> QED BY <1>1, <1>3, <1>4, Still

LEMMA ArrivedKept ==
  ASSUME IInv, UNCHANGED <<arrived, kind>>, cut \subseteq cut', RowsGo,
         \A m \in Messages : tries[m] <= tries'[m] /\ tries'[m] \in Nat,
         \A l \in lanes : l.step = "keep" =>
            \/ l \in lanes' \/ l.object \in cut'
            \/ \E r \in rows' : r.object = l.object
  PROVE  ArrivedSound'
<1> SUFFICES ASSUME NEW m \in Messages, NEW i \in Attempts, arrived[<<m, i>>] > 0
             PROVE  /\ i <= tries'[m]
                    /\ \/ m \in doubled' \/ Known(<<m, i>>)' \/ <<m, i>> \in cut'
                       \/ \E l \in lanes' : l.step = "keep" /\ l.object = <<m, i>>
                    /\ kind = "channel" => m \in doubled' \/ Known(<<m, i>>)'
  BY DEF ArrivedSound
<1>1. tries[m] \in Nat /\ i \in Nat BY Tried, Names
<1>2. i <= tries[m] /\ (kind = "channel" => m \in doubled \/ Known(<<m, i>>)) BY DEF IInv, ArrivedSound
<1>3. \/ m \in doubled \/ Known(<<m, i>>) \/ <<m, i>> \in cut
      \/ \E l \in lanes : l.step = "keep" /\ l.object = <<m, i>>
  BY DEF IInv, ArrivedSound
<1>4. i <= tries'[m] BY <1>1, <1>2
<1>5. Known(<<m, i>>) => Known(<<m, i>>)' \/ m \in doubled'
  <2>1. PICK o : o = <<m, i>> OBVIOUS
  <2>2. Known(o) => Known(o)' \/ o[1] \in doubled' BY RowsLost
  <2> QED BY <2>1, <2>2
<1>6. (\E r \in rows' : r.object = <<m, i>>) => Known(<<m, i>>)' BY DEF Known, OfObject
<1>7. doubled \subseteq doubled' BY DEF RowsGo
<1> QED BY <1>2, <1>3, <1>4, <1>5, <1>6, <1>7

\* A message nobody has a row of is sent, under its next id.
LEMMA DistributeInv ==
  ASSUME IInv, NEW step, Distribute(step),
         \/ step = "deliver" /\ kind \in {"community", "group"}
         \/ step = "row" /\ kind \in Hosted \cup {"channel"}
  PROVE  IInv'
<1>1. /\ Handed /\ ~ Skipped(Now) /\ pending # <<>>
      /\ tries' = [tries EXCEPT ![Now] = @ + 1]
      /\ doubled' = IF Beside THEN doubled \cup {Now} ELSE doubled
      /\ UNCHANGED <<kind, rows, said, pending, arrived, heard, missed, banned, cut>>
      /\ UNCHANGED Inbound /\ UNCHANGED <<shown, tasks, ghosts, arrivals, raced>>
      /\ troubles' \in 0..MaxTroubles /\ troubles \in Nat /\ troubles' \in Nat /\ troubles <= troubles'
      /\ Beside => troubles' = troubles + 1
  BY HandedFacts DEF Distribute, Inbound
<1>2. PICK m \in Messages : m = Now BY <1>1, AtHead
<1>3. /\ OfEvent(<<m, 0>>) = {} /\ said[m] # Unsaid /\ tries[m] \in Nat /\ tries[m] <= troubles + 1
      /\ ~ Beside => tries[m] <= troubles
      /\ tries \in [Messages -> {0} \cup Attempts] /\ Attempts = 1..(MaxTroubles + 1) /\ MaxTroubles \in Nat
  BY <1>1, <1>2, AtHead, Tried, Names DEF Skipped, IInv, TypeOK
<1>4. tries[m] + 1 <= troubles' + 1 BY <1>1, <1>3
<1>5. PICK i \in Attempts : i = tries[m] + 1
  <2>1. tries[m] + 1 \in 1..(MaxTroubles + 1) BY <1>1, <1>3, <1>4
  <2> QED BY <1>3, <2>1
<1>6. /\ tries'[m] = i /\ (\A n \in Messages : n # m => tries'[n] = tries[n])
      /\ tries' \in [Messages -> {0} \cup Attempts] /\ i \in Nat /\ tries[m] < i
  BY <1>1, <1>2, <1>3, <1>5
<1>7. \A n \in Messages : /\ tries[n] <= tries'[n] /\ tries[n] \in Nat /\ tries'[n] \in Nat
                          /\ tries'[n] <= troubles' + 1
  <2>1. \A n \in Messages : tries[n] \in Nat /\ tries[n] <= troubles + 1 BY Tried
  <2> QED BY <1>1, <1>4, <1>5, <1>6, <2>1
<1>8. PICK root \in RootFor(m) : lanes' = lanes \cup {Lane(step, Fresh(m), root)}
  BY <1>2 DEF Distribute
<1>9. PICK k : k = Lane(step, <<m, i>>, root) OBVIOUS
<1>10. /\ lanes' = lanes \cup {k} /\ k.object = <<m, i>> /\ k.object[1] = m /\ k.object[2] = i
       /\ k.root = root /\ k.step = step /\ k \in Sending
  <2>1. Fresh(m) = <<m, i>> BY <1>5 DEF Fresh
  <2>2. root \in Events \cup {NoEvent} BY RootsFor
  <2>3. <<m, i>> \in Own BY Names
  <2>4. k = [step |-> step, object |-> <<m, i>>, todo |-> {}, root |-> root] BY <1>9 DEF Lane
  <2> QED BY <1>8, <1>9, <2>1, <2>2, <2>3, <2>4 DEF Sending
<1>11. /\ doubled \subseteq doubled' /\ doubled' \subseteq Messages
       /\ \A l \in lanes : l.object[1] = m => m \in doubled'
  BY <1>1, <1>2 DEF Beside, IInv, TypeOK
<1>12. RowsGo /\ rows' = rows BY <1>1, <1>11 DEF RowsGo
<1>13. LaneFrame BY <1>1, <1>12 DEF LaneFrame
<1>14. QueueSound' /\ pending' \in Seq(Messages)
  <2>1. \A n \in Messages : tries'[n] = tries[n] \/ (said[n] # Unsaid /\ \E l \in lanes' : l.object[1] = n)
    BY <1>3, <1>6, <1>10
  <2>2. \A l \in lanes' : \/ \E x \in lanes : x.object[1] = l.object[1]
                          \/ pending' = pending /\ pending # <<>> /\ l.object[1] = Now
    BY <1>1, <1>2, <1>10
  <2>3. \A l \in lanes : l \in lanes' BY <1>10
  <2> QED BY <1>1, <1>7, <2>1, <2>2, <2>3, QueueKept
<1>15. TypeOK'
  <2>1. lanes' \subseteq Sending BY <1>10 DEF IInv, TypeOK
  <2> QED BY <1>1, <1>6, <1>11, <1>14, <2>1 DEF IInv, TypeOK
<1>16. \A e : OfEvent(e)' = OfEvent(e) BY <1>12 DEF OfEvent
<1>17. \A o : Known(o)' <=> Known(o) BY <1>12 DEF Known, OfObject
<1>18. ASSUME NEW l \in lanes PROVE LaneSound(l)'
  <2>1. LaneSound(l) /\ l.object[1] \in Messages /\ l.object[2] \in Nat /\ tries[l.object[1]] \in Nat
        /\ l.object[2] <= tries[l.object[1]]
    BY LaneFacts, Tried, Names
  <2>2. l.object[2] <= tries'[l.object[1]] BY <1>7, <2>1
  <2>3. l.object[1] \notin doubled' => /\ l.object[1] \notin doubled
                                       /\ tries'[l.object[1]] = tries[l.object[1]]
    BY <1>6, <1>11, <2>1
  <2>4. Rooted(l.root)' BY <1>12, <2>1, RowsLost DEF LaneSound
  <2>5. RowStep(l) => RowStep(l)' BY <1>1, <1>11, <1>16 DEF RowStep
  <2>6. DeliverStep(l) => DeliverStep(l)' BY <1>1, <1>11, <1>16, <1>17 DEF DeliverStep
  <2>7. KeepStep(l) => KeepStep(l)' BY <1>1, <1>11, <1>16 DEF KeepStep
  <2>8. TellStep(l) => TellStep(l)' BY <1>1, <1>11, <1>16, <1>17 DEF TellStep, Told
  <2> QED BY <2>1, <2>2, <2>3, <2>4, <2>5, <2>6, <2>7, <2>8 DEF LaneSound
<1>19. \A f \in Followers : heard[f][k.object] = 0
  <2>1. <<m, i>> \in Objects /\ ~ Post(<<m, i>>) BY Names DEF Post
  <2>2. ~ Hearable(<<m, i>>) BY <1>3, <2>1 DEF Hearable
  <2>3. ASSUME NEW f \in Followers PROVE heard[f][<<m, i>>] = 0
    <3>1. heard[f][<<m, i>>] \in Nat BY <2>1 DEF IInv, TypeOK
    <3>2. ~ (heard[f][<<m, i>>] > 0) BY <2>1, <2>2 DEF IInv, HeardSound
    <3> QED BY <3>1, <3>2
  <2> QED BY <1>10, <2>3
<1>20. LaneSound(k)'
  <2>1. Rooted(k.root)'
    <3>1. Rooted(root) BY RootsFor
    <3> QED BY <1>10, <1>12, <3>1, RowsLost
  <2>2. OfEvent(<<k.object[1], 0>>)' = {} BY <1>3, <1>10, <1>16
  <2>3. step = "row" => RowStep(k)' BY <1>1, <1>19, <2>2, Names DEF RowStep, Hosted
  <2>4. step = "deliver" => DeliverStep(k)' BY <1>1, <2>2 DEF DeliverStep, Mirrored
  <2> QED BY <1>6, <1>10, <2>1, <2>3, <2>4 DEF LaneSound
<1>21. LanesApart'
  <2>1. ASSUME NEW l \in lanes PROVE l.object # k.object /\ (l.object[1] = m => m \in doubled')
    <3>1. l.object[1] = m => l.object[2] <= tries[m] BY LaneFacts
    <3>2. l.object[1] = m => l.object[2] # i BY <1>3, <1>6, <3>1, LaneFacts, Names
    <3> QED BY <1>10, <1>11, <3>2
  <2> QED BY <1>10, <1>11, <2>1 DEF IInv, LanesApart
<1>22. ArrivedSound'
  <2>1. \A l \in lanes : l \in lanes' BY <1>10
  <2> QED BY <1>1, <1>7, <1>12, <2>1, ArrivedKept
<1>23. RowsKept'
  <2>1. \A p \in Posts : shown[p] <= shown'[p] /\ shown'[p] \in Nat BY <1>1, Names DEF IInv, TypeOK
  <2> QED BY <1>3, <1>6, <1>12, <2>1, RowsGrow
<1>24. HeardSound' BY <1>1, <1>7, <1>12, HeardKept
<1>25. RowsTold' BY <1>1, <1>10, <1>12 DEF IInv, RowsTold, Settled, Here, Told
<1>26. \A l \in lanes' : l \in lanes \/ l = k BY <1>10
<1> QED BY <1>13, <1>14, <1>15, <1>18, <1>20, <1>21, <1>22, <1>23, <1>24, <1>25, <1>26, LaneStep

\* A step of request l leaves the other messages alone.
LaneAbout(l) ==
  /\ LaneFrame /\ UNCHANGED <<said, tries, troubles, doubled>>
  /\ \A n \in Messages : n # l.object[1] => OfEvent(<<n, 0>>)' = OfEvent(<<n, 0>>)
  /\ \A f \in Followers, o \in Objects : o # l.object => heard'[f][o] = heard[f][o]

\* Another request is as before, unless it is at the same message.
LEMMA OthersSound ==
  ASSUME IInv, NEW l \in lanes, LaneAbout(l), NEW x \in lanes, x # l
  PROVE  LaneSound(x)'
<1>1. /\ RowsGo /\ UNCHANGED <<kind, tries, doubled>> /\ missed \subseteq missed' BY DEF LaneAbout, LaneFrame
<1>2. /\ x.object \in Objects /\ ~ Post(x.object) /\ x.object[1] \in Messages /\ LaneSound(x)
      /\ x.object # l.object /\ x.todo \subseteq Followers
      /\ x.object[1] = l.object[1] => x.object[1] \in doubled
  BY LaneFacts DEF IInv, LanesApart
<1>3. \A f \in Followers : heard'[f][x.object] = heard[f][x.object] BY <1>2 DEF LaneAbout
<1>4. \A f \in Followers : Told(f, x.object) => Told(f, x.object)' BY <1>1, <1>2, <1>3 DEF Told
<1>5. x.object[1] \notin doubled => OfEvent(<<x.object[1], 0>>)' = OfEvent(<<x.object[1], 0>>)
  BY <1>2 DEF LaneAbout
<1>6. /\ Rooted(x.root)'
      /\ OfEvent(<<x.object[1], 0>>) # {} => OfEvent(<<x.object[1], 0>>)' # {}
  BY <1>1, <1>2, RowsLost DEF LaneSound
<1>7. Known(x.object) => Known(x.object)' \/ x.object[1] \in doubled BY <1>1, RowsLost
<1>8. RowStep(x) => RowStep(x)' BY <1>1, <1>3, <1>5 DEF RowStep
<1>9. DeliverStep(x) => DeliverStep(x)' BY <1>1, <1>5, <1>7 DEF DeliverStep
<1>10. KeepStep(x) => KeepStep(x)' BY <1>1, <1>5 DEF KeepStep
<1>11. TellStep(x) => TellStep(x)' BY <1>1, <1>2, <1>3, <1>4, <1>6, <1>7 DEF TellStep
<1> QED BY <1>1, <1>2, <1>6, <1>8, <1>9, <1>10, <1>11 DEF LaneSound

\* Request l goes on as k, or it is done and its message is off the queue.
LEMMA LanesGo ==
  ASSUME IInv, NEW l \in lanes, NEW k, Done(l) \/ Goes(l, k), k.object = l.object, LaneAbout(l),
         k \in lanes' => k \in Sending /\ LaneSound(k)'
  PROVE  /\ QueueSound' /\ pending' \in Seq(Messages) /\ (\A x \in lanes : LaneSound(x))'
         /\ LanesApart' /\ lanes' \subseteq Sending
<1>1. /\ UNCHANGED <<said, tries, troubles, doubled>>
      /\ lanes' \subseteq (lanes \ {l}) \cup {k} /\ lanes \ {l} \subseteq lanes'
      /\ \A x \in lanes' : (x \in lanes /\ x # l) \/ x = k
  BY DEF Done, Goes, LaneAbout
<1>2. \A m \in Messages : tries[m] \in Nat /\ troubles \in Nat /\ tries[m] <= troubles + 1 BY Tried
<1>t. troubles \in Nat BY Names DEF IInv, TypeOK
<1>3. pending' = pending \/ (pending # <<>> /\ pending' = Tail(pending)) BY DEF Done, Goes
<1>4. \A x \in lanes' : \E y \in lanes : y.object[1] = x.object[1] BY <1>1
<1>5. \A x \in lanes, i \in 1..Len(pending') :
        x.object[1] = pending'[i] => \E y \in lanes' : y.object[1] = x.object[1]
  <2>1. CASE Goes(l, k)
    <3>1. lanes' = (lanes \ {l}) \cup {k} BY <2>1 DEF Goes
    <3> QED BY <3>1
  <2>2. CASE Done(l)
    <3>1. ASSUME NEW i \in 1..Len(pending'), pending'[i] = l.object[1] PROVE FALSE
      <4>1. CASE pending # <<>> /\ Now = l.object[1]
        <5>1. pending' = Tail(pending) BY <2>2, <4>1 DEF Done
        <5> QED BY <3>1, <4>1, <5>1, Tails
      <4>2. CASE ~ (pending # <<>> /\ Now = l.object[1])
        <5>1. pending' = pending BY <2>2, <4>2 DEF Done
        <5>2. i = 1 BY <3>1, <5>1 DEF IInv, QueueSound
        <5>3. pending # <<>> BY <3>1, <5>1 DEF IInv, TypeOK
        <5>4. Now = pending[1] BY <5>3, AtHead
        <5> QED BY <3>1, <4>2, <5>1, <5>2, <5>3, <5>4
      <4> QED BY <4>1, <4>2
    <3>2. \A x \in lanes : x.object[1] # l.object[1] => x \in lanes' BY <1>1
    <3> QED BY <3>1, <3>2
  <2> QED BY <2>1, <2>2
<1>6. QueueSound' /\ pending' \in Seq(Messages) BY <1>1, <1>2, <1>t, <1>3, <1>4, <1>5, QueueKept
<1>7. \A x \in lanes' : LaneSound(x)' BY <1>1, OthersSound
<1>8. LanesApart'
  <2>1. \A x \in lanes : x # l => x.object # k.object /\ (x.object[1] = k.object[1] => x.object[1] \in doubled)
    BY DEF IInv, LanesApart
  <2> QED BY <1>1, <2>1 DEF IInv, LanesApart
<1>9. lanes' \subseteq Sending BY <1>1 DEF IInv, TypeOK
<1> QED BY <1>6, <1>7, <1>8, <1>9

\* The row of the message at hand is written, another's of the same message goes.
LEMMA RowWritten ==
  ASSUME IInv, NEW l \in lanes, rows' = RowsWith(l), UNCHANGED <<shown, tries, doubled>>,
         l.object[1] \notin doubled => OfEvent(<<l.object[1], 0>>) = {}
  PROVE  /\ RowsKept' /\ rows' \subseteq Row /\ RowsGo
         /\ \A r \in rows' \ rows : r.event \in Messages \X {0} /\ r.object = l.object
         /\ Known(l.object)' /\ OfEvent(<<l.object[1], 0>>)' # {}
         /\ \A n \in Messages : n # l.object[1] => OfEvent(<<n, 0>>)' = OfEvent(<<n, 0>>)
         /\ \E r \in rows' : r.object = l.object
<1> DEFINE e == <<l.object[1], 0>>
           new == NewRow(l.object[1], l.object, l.root)
<1>1. /\ l.object[1] \in Messages /\ l.object \in Own /\ l.object \in Objects
      /\ l.root \in Events \cup {NoEvent} /\ Rooted(l.root) /\ LaneSound(l) /\ ~ Post(l.object)
  BY LaneFacts
<1>2. /\ new.event = e /\ new.object = l.object /\ new.root = l.root
      /\ e \in Events /\ e \in Messages \X {0} /\ e[1] = l.object[1] /\ new \in Row
  BY <1>1, Names DEF NewRow, Row
<1> HIDE DEF new
<1>3. /\ \A r \in rows : r \in rows' \/ r.event = e
      /\ \A r \in rows' : (r \in rows /\ r.event # e) \/ r = new
      /\ new \in rows'
  BY DEF RowsWith, OfEvent, new
<1>4. ASSUME NEW r \in rows, r.event = e PROVE l.object[1] \in doubled
  BY <1>4 DEF OfEvent
<1>5. RowsGo
  <2>1. ASSUME NEW r \in rows, r \notin rows'
        PROVE  /\ r.event \in doubled' \X {0} /\ r.event \in Messages \X {0}
               /\ \E s \in rows' : s.event = r.event
    <3>1. r.event = e /\ l.object[1] \in doubled' BY <1>3, <1>4, <2>1
    <3> QED BY <1>2, <1>3, <3>1
  <2> QED BY <2>1 DEF RowsGo
<1>6. ASSUME NEW r \in rows, r.event # e PROVE r.object # l.object
  <2>1. SUFFICES ASSUME r.object = l.object PROVE FALSE
    OBVIOUS
  <2>2. OwnShape(r) BY <1>1, <2>1, RowFacts
  <2>3. r.event = <<r.event[1], 0>> /\ r.event[1] = l.object[1] BY <2>1, <2>2 DEF OwnShape
  <2> QED BY <1>6, <2>3
<1>7. Shaped(new)'
  <2>1. OwnShape(new)' BY <1>1, <1>2 DEF OwnShape, LaneSound
  <2> QED BY <2>1 DEF Shaped
<1>8. Rooted(new.root)' BY <1>1, <1>2, <1>5, RowsLost
<1>9. RowsKept'
  <2>1. \A p \in Posts : shown[p] <= shown'[p] /\ shown'[p] \in Nat BY Names DEF IInv, TypeOK
  <2>2. \A r \in rows' \ rows : r = new BY <1>3
  <2>3. \A s \in rows' : new.event = s.event \/ new.object = s.object => new = s
    BY <1>2, <1>3, <1>6
  <2> QED BY <1>5, <1>7, <1>8, <2>1, <2>2, <2>3, RowsGrow
<1>10. Known(l.object)' BY <1>2, <1>3 DEF Known, OfObject
<1>11. OfEvent(e)' # {} BY <1>2, <1>3 DEF OfEvent
<1>12. ASSUME NEW n \in Messages, n # l.object[1] PROVE OfEvent(<<n, 0>>)' = OfEvent(<<n, 0>>)
  <2>1. <<n, 0>> # e BY <1>12
  <2>2. \A r : r.event = <<n, 0>> => (r \in rows' <=> r \in rows) BY <1>2, <1>3, <2>1
  <2> QED BY <2>2 DEF OfEvent
<1>13. rows' \subseteq Row BY <1>2, <1>3 DEF IInv, TypeOK
<1> QED BY <1>2, <1>3, <1>5, <1>9, <1>10, <1>11, <1>12, <1>13

LEMMA SameTries ==
  ASSUME IInv, tries' = tries
  PROVE  \A m \in Messages : tries[m] <= tries'[m] /\ tries'[m] \in Nat
BY Tried

LEMMA RowFirstInv ==
  ASSUME IInv, NEW l \in lanes, RowFirst(l)
  PROVE  IInv'
<1>1. /\ l.step = "row" /\ rows' = RowsWith(l)
      /\ UNCHANGED <<kind, said, tries, arrived, heard, missed, banned, troubles, doubled, cut>>
      /\ UNCHANGED Inbound /\ UNCHANGED <<shown, tasks, ghosts, arrivals, raced>>
  BY DEF RowFirst, Inbound
<1>2. /\ l \in Sending /\ l.object \in Own /\ l.object \in Objects /\ ~ Post(l.object) /\ LaneSound(l)
      /\ RowStep(l) /\ l.object[1] \in Messages
  BY <1>1, LaneFacts DEF LaneSound
<1>3. /\ RowsKept' /\ rows' \subseteq Row /\ RowsGo
      /\ \A r \in rows' \ rows : r.event \in Messages \X {0} /\ r.object = l.object
      /\ Known(l.object)' /\ OfEvent(<<l.object[1], 0>>)' # {}
      /\ \A n \in Messages : n # l.object[1] => OfEvent(<<n, 0>>)' = OfEvent(<<n, 0>>)
  BY <1>1, <1>2, RowWritten DEF RowStep
<1>4. LaneFrame BY <1>1, <1>2, <1>3 DEF LaneFrame
<1>5. LaneAbout(l) BY <1>1, <1>3, <1>4 DEF LaneAbout
<1>6. PICK k : k = CASE kind = "channel" -> [l EXCEPT !.step = "deliver"]
                     [] kind # "channel" /\ Followers = {} -> l
                     [] OTHER -> [l EXCEPT !.step = "tell", !.todo = Followers]
  OBVIOUS
<1>7. /\ k \in Sending /\ k.object = l.object /\ k.root = l.root
      /\ kind = "channel" => k.step = "deliver" /\ Goes(l, k)
      /\ kind # "channel" /\ Followers = {} => k = l /\ Done(l)
      /\ kind # "channel" /\ Followers # {} => k.step = "tell" /\ k.todo = Followers /\ Goes(l, k)
  <2>1. CASE kind = "channel"
    <3>1. k = [l EXCEPT !.step = "deliver"] BY <1>6, <2>1
    <3>2. Goes(l, k) BY <2>1, <3>1 DEF RowFirst
    <3> QED BY <1>2, <2>1, <3>1, <3>2 DEF Sending
  <2>2. CASE kind # "channel" /\ Followers = {}
    <3>1. k = l BY <1>6, <2>2
    <3>2. Done(l) BY <2>2 DEF RowFirst
    <3> QED BY <1>2, <2>2, <3>1, <3>2
  <2>3. CASE kind # "channel" /\ Followers # {}
    <3>1. k = [l EXCEPT !.step = "tell", !.todo = Followers] BY <1>6, <2>3
    <3>2. Goes(l, [l EXCEPT !.step = "tell", !.todo = Followers]) BY <2>3 DEF RowFirst
    <3>3. Goes(l, k) BY <3>1, <3>2
    <3> QED BY <1>2, <2>3, <3>1, <3>3 DEF Sending
  <2> QED BY <2>1, <2>2, <2>3
<1>8. k \in lanes' => LaneSound(k)'
  <2>1. Rooted(k.root)' BY <1>2, <1>3, <1>7, RowsLost DEF LaneSound
  <2>2. CASE kind = "channel"
    <3>1. DeliverStep(k)' BY <1>1, <1>3, <1>7, <2>2 DEF DeliverStep, Mirrored
    <3> QED BY <1>1, <1>2, <1>7, <2>1, <2>2, <3>1 DEF LaneSound
  <2>3. CASE kind # "channel" /\ Followers = {} BY <1>7, <2>3 DEF Done
  <2>4. CASE kind # "channel" /\ Followers # {}
    <3>1. kind \in Hosted /\ \A f \in Followers : heard'[f][k.object] = 0
      BY <1>1, <1>2, <1>7, <2>4 DEF RowStep
    <3>2. TellStep(k)' BY <1>1, <1>3, <1>7, <2>4, <3>1 DEF TellStep
    <3> QED BY <1>1, <1>2, <1>7, <2>1, <2>4, <3>2 DEF LaneSound
  <2> QED BY <2>2, <2>3, <2>4
<1>9. /\ QueueSound' /\ pending' \in Seq(Messages) /\ (\A x \in lanes : LaneSound(x))'
      /\ LanesApart' /\ lanes' \subseteq Sending
  BY <1>5, <1>7, <1>8, LanesGo
<1>10. TypeOK' BY <1>1, <1>3, <1>9 DEF IInv, TypeOK
<1>11. \A x \in lanes : x.step # "row" => x \in lanes' BY <1>1, <1>7 DEF Goes, Done
<1>12. ArrivedSound' BY <1>1, <1>3, <1>11, SameTries, ArrivedKept
<1>13. HeardSound' BY <1>1, <1>3, SameTries, HeardKept
<1>14. RowsTold'
  <2>1. ASSUME kind \in Hosted PROVE Settled(l.object)'
    <3>1. kind # "channel" BY <2>1 DEF Hosted
    <3>2. CASE Followers = {} BY <3>2 DEF Settled
    <3>3. CASE Followers # {} BY <1>7, <3>1, <3>3 DEF Settled, Goes
    <3> QED BY <3>2, <3>3
  <2>2. ASSUME NEW o \in Objects, Settled(o) PROVE Settled(o)'
    BY <1>1, <1>11, <2>2 DEF Settled, Told
  <2>3. \A r \in Here(rows)' \ rows : r.object = l.object BY <1>3 DEF Here
  <2> QED BY <1>1, <2>1, <2>2, <2>3, ToldKept
<1> QED BY <1>3, <1>4, <1>9, <1>10, <1>12, <1>13, <1>14, LaneStep

\* Nothing is written: what a delivery leaves alone.
LEMMA NoRowWritten ==
  ASSUME IInv, NEW l \in lanes, UNCHANGED <<kind, rows, said, tries, heard, missed, troubles, doubled, cut>>,
         UNCHANGED Inbound
  PROVE  LaneAbout(l) /\ RowsGo /\ RowsKept' /\ HeardSound'
<1>1. RowsGo BY DEF RowsGo
<1>2. LaneAbout(l) BY <1>1 DEF LaneAbout, LaneFrame, OfEvent
<1>3. RowsKept' BY RowsSame DEF Inbound
<1>4. HeardSound' BY <1>1, SameTries, HeardKept DEF Inbound
<1> QED BY <1>1, <1>2, <1>3, <1>4

LEMMA DeliverInv ==
  ASSUME IInv, NEW l \in lanes, Deliver(l)
  PROVE  IInv'
<1>1. /\ l.step = "deliver"
      /\ UNCHANGED <<kind, rows, said, tries, heard, missed, banned, troubles, doubled, cut>>
      /\ UNCHANGED Inbound /\ UNCHANGED <<shown, tasks, ghosts, arrivals, raced>>
  BY DEF Deliver, Inbound
<1>2. /\ l \in Sending /\ l.object \in Own /\ LaneSound(l) /\ DeliverStep(l)
      /\ l.object[1] \in Messages /\ l.object[2] \in Attempts /\ l.object = <<l.object[1], l.object[2]>>
      /\ l.object[2] <= tries[l.object[1]]
  BY <1>1, LaneFacts DEF LaneSound
<1>3. LaneAbout(l) /\ LaneFrame /\ RowsGo /\ RowsKept' /\ HeardSound'
  BY <1>1, NoRowWritten DEF LaneAbout
<1>4. RowsTold' BY <1>1, <1>2, Names DEF RowsTold, DeliverStep
<1>5. arrived \in [Own -> Nat] BY DEF IInv, TypeOK
<1>6. PICK k : k = IF arrived' = arrived \/ kind = "channel" THEN l ELSE [l EXCEPT !.step = "keep"] OBVIOUS
<1>7. /\ k \in Sending /\ k.object = l.object /\ k.root = l.root
      /\ \/ Done(l) /\ k = l /\ (arrived' = arrived \/ kind = "channel")
         \/ Goes(l, k) /\ k.step = "keep" /\ kind # "channel"
      /\ arrived' = arrived \/ arrived' = [arrived EXCEPT ![l.object] = @ + 1]
  <2>1. CASE Done(l) /\ UNCHANGED arrived BY <1>2, <1>6, <2>1
  <2>2. CASE arrived' = [arrived EXCEPT ![l.object] = @ + 1] /\ kind = "channel" /\ Done(l)
    BY <1>2, <1>6, <2>2
  <2>3. CASE arrived' = [arrived EXCEPT ![l.object] = @ + 1] /\ kind # "channel" /\ Goes(l, [l EXCEPT !.step = "keep"])
    <3>1. arrived'[l.object] = arrived[l.object] + 1 /\ arrived[l.object] \in Nat BY <1>2, <1>5, <2>3
    <3>2. arrived' # arrived BY <3>1
    <3>3. k = [l EXCEPT !.step = "keep"] BY <1>6, <2>3, <3>2
    <3>4. k \in Sending /\ k.object = l.object /\ k.root = l.root /\ k.step = "keep" BY <1>2, <3>3 DEF Sending
    <3> QED BY <2>3, <3>3, <3>4
  <2> QED BY <2>1, <2>2, <2>3 DEF Deliver
<1>8. k \in lanes' => LaneSound(k)'
  <2>1. CASE Done(l) /\ k = l BY <2>1 DEF Done
  <2>2. CASE Goes(l, k) /\ k.step = "keep" /\ kind # "channel"
    <3>1. kind \in {"community", "group"} BY <1>2, <2>2 DEF DeliverStep, Mirrored
    <3>2. k.object[1] \notin doubled => OfEvent(<<k.object[1], 0>>)' = {}
      BY <1>1, <1>2, <1>7, <2>2 DEF DeliverStep, OfEvent
    <3>3. KeepStep(k)' BY <1>1, <3>1, <3>2 DEF KeepStep
    <3>4. Rooted(k.root)' BY <1>2, <1>3, <1>7, RowsLost DEF LaneSound
    <3> QED BY <1>1, <1>2, <1>7, <2>2, <3>3, <3>4 DEF LaneSound
  <2> QED BY <1>7, <2>1, <2>2
<1>9. /\ QueueSound' /\ pending' \in Seq(Messages) /\ (\A x \in lanes : LaneSound(x))'
      /\ LanesApart' /\ lanes' \subseteq Sending
  BY <1>3, <1>7, <1>8, LanesGo
<1>10. TypeOK'
  <2>1. arrived' \in [Own -> Nat] BY <1>2, <1>5, <1>7
  <2> QED BY <1>1, <1>9, <2>1 DEF IInv, TypeOK
<1>11. ArrivedSound'
  <2>1. ASSUME NEW n \in Messages, NEW j \in Attempts, arrived'[<<n, j>>] > 0
        PROVE  /\ j <= tries[n]
               /\ \/ n \in doubled \/ Known(<<n, j>>) \/ <<n, j>> \in cut
                  \/ \E x \in lanes' : x.step = "keep" /\ x.object = <<n, j>>
               /\ kind = "channel" => n \in doubled \/ Known(<<n, j>>)
    <3>1. CASE arrived[<<n, j>>] > 0
      <4>1. \A x \in lanes : x.step = "keep" => x \in lanes' BY <1>1, <1>7 DEF Goes, Done
      <4> QED BY <3>1, <4>1 DEF IInv, ArrivedSound
    <3>2. CASE ~ (arrived[<<n, j>>] > 0)
      <4>1. <<n, j>> = l.object /\ arrived' # arrived
        <5>1. <<n, j>> \in Own BY Names
        <5> QED BY <1>2, <1>5, <1>7, <2>1, <3>2, <5>1
      <4>2. n = l.object[1] /\ j = l.object[2] BY <1>2, <4>1
      <4>3. CASE kind = "channel" BY <1>2, <4>1, <4>2, <4>3 DEF DeliverStep
      <4>4. CASE kind # "channel"
        <5>1. Goes(l, k) /\ k.step = "keep" BY <1>7, <4>1, <4>4
        <5>2. k \in lanes' BY <5>1 DEF Goes
        <5> QED BY <1>2, <1>7, <4>1, <4>2, <4>4, <5>1, <5>2
      <4> QED BY <4>3, <4>4
    <3> QED BY <3>1, <3>2
  <2>2. \A o : Known(o)' <=> Known(o) BY <1>1 DEF Known, OfObject
  <2> QED BY <1>1, <2>1, <2>2 DEF ArrivedSound
<1> QED BY <1>3, <1>4, <1>9, <1>10, <1>11, LaneStep

LEMMA KeepInv ==
  ASSUME IInv, NEW l \in lanes, Keep(l)
  PROVE  IInv'
<1>1. /\ l.step = "keep" /\ rows' = RowsWith(l) /\ Done(l)
      /\ UNCHANGED <<kind, said, tries, arrived, heard, missed, banned, troubles, doubled, cut>>
      /\ UNCHANGED Inbound /\ UNCHANGED <<shown, tasks, ghosts, arrivals, raced>>
  BY DEF Keep, Inbound
<1>2. l \in Sending /\ l.object \in Own /\ LaneSound(l) /\ KeepStep(l)
  BY <1>1, LaneFacts DEF LaneSound
<1>3. /\ RowsKept' /\ rows' \subseteq Row /\ RowsGo
      /\ \A r \in rows' \ rows : r.event \in Messages \X {0} /\ r.object = l.object
      /\ \A n \in Messages : n # l.object[1] => OfEvent(<<n, 0>>)' = OfEvent(<<n, 0>>)
      /\ \E r \in rows' : r.object = l.object
  BY <1>1, <1>2, RowWritten DEF KeepStep
<1>4. LaneFrame BY <1>1, <1>2, <1>3 DEF LaneFrame
<1>5. LaneAbout(l) BY <1>1, <1>3, <1>4 DEF LaneAbout
<1>6. lanes' = lanes \ {l} BY <1>1 DEF Done
<1>7. /\ QueueSound' /\ pending' \in Seq(Messages) /\ (\A x \in lanes : LaneSound(x))'
      /\ LanesApart' /\ lanes' \subseteq Sending
  BY <1>1, <1>5, <1>6, LanesGo
<1>8. TypeOK' BY <1>1, <1>3, <1>7 DEF IInv, TypeOK
<1>9. ArrivedSound'
  <2>1. \A x \in lanes : x \in lanes' \/ \E r \in rows' : r.object = x.object BY <1>3, <1>6
  <2> QED BY <1>1, <1>3, <2>1, SameTries, ArrivedKept
<1>10. HeardSound' BY <1>1, <1>3, SameTries, HeardKept
<1>11. RowsTold' BY <1>1, <1>2 DEF RowsTold, KeepStep, Hosted
<1> QED BY <1>3, <1>4, <1>7, <1>8, <1>9, <1>10, <1>11, LaneStep

\* One announcement: somebody hears of it once more, or it is counted missed.
LEMMA Announces ==
  ASSUME IInv, NEW f \in Followers, NEW o \in Objects, Announced(f, o)
  PROVE  /\ heard' \in [Followers -> [Objects -> Nat]] /\ missed' \subseteq Followers \X Objects
         /\ missed \subseteq missed'
         /\ \A g \in Followers, p \in Objects : g # f \/ p # o => heard'[g][p] = heard[g][p]
         /\ heard'[f][o] = heard[f][o] + 1 \/ heard'[f][o] = heard[f][o]
         /\ heard'[f][o] > 0 \/ <<f, o>> \in missed'
         /\ \A g \in Followers, p \in Objects : heard[g][p] > 0 => heard'[g][p] > 0
<1>1. heard \in [Followers -> [Objects -> Nat]] /\ missed \subseteq Followers \X Objects
  BY DEF IInv, TypeOK
<1>2. CASE heard' = [heard EXCEPT ![f][o] = @ + 1] /\ UNCHANGED missed
  <2>1. heard[f][o] \in Nat /\ heard'[f][o] = heard[f][o] + 1 BY <1>1, <1>2
  <2>2. \A g \in Followers, p \in Objects : g # f \/ p # o => heard'[g][p] = heard[g][p]
    BY <1>1, <1>2
  <2>3. heard' \in [Followers -> [Objects -> Nat]] BY <1>1, <1>2
  <2> QED BY <1>1, <1>2, <2>1, <2>2, <2>3
<1>3. CASE missed' = missed \cup {<<f, o>>} /\ UNCHANGED heard BY <1>1, <1>3
<1> QED BY <1>2, <1>3 DEF Announced

LEMMA TellFollowerInv ==
  ASSUME IInv, NEW l \in lanes, NEW f \in Followers, TellFollower(l, f)
  PROVE  IInv'
<1>1. /\ l.step = "tell" /\ f \in l.todo /\ Announced(f, l.object)
      /\ UNCHANGED <<kind, rows, said, tries, arrived, banned, troubles, doubled, cut>>
      /\ UNCHANGED Inbound /\ UNCHANGED <<shown, tasks, ghosts, arrivals, raced>>
  BY DEF TellFollower, Inbound
<1>2. PICK o \in Objects : o = l.object BY LaneFacts
<1>3. /\ l \in Sending /\ ~ Post(o) /\ LaneSound(l) /\ TellStep(l) /\ l.todo \subseteq Followers
      /\ o[1] \in Messages /\ o[2] <= tries[o[1]]
  BY <1>1, <1>2, LaneFacts DEF LaneSound
<1>4. /\ heard' \in [Followers -> [Objects -> Nat]] /\ missed' \subseteq Followers \X Objects
      /\ missed \subseteq missed'
      /\ \A g \in Followers, p \in Objects : g # f \/ p # o => heard'[g][p] = heard[g][p]
      /\ heard'[f][o] = heard[f][o] + 1 \/ heard'[f][o] = heard[f][o]
      /\ heard'[f][o] > 0 \/ <<f, o>> \in missed'
      /\ \A g \in Followers, p \in Objects : heard[g][p] > 0 => heard'[g][p] > 0
  BY <1>1, <1>2, Announces
<1>5. RowsGo BY <1>1 DEF RowsGo
<1>6. LaneFrame BY <1>1, <1>3, <1>4, <1>5 DEF LaneFrame
<1>7. LaneAbout(l) BY <1>1, <1>2, <1>4, <1>6 DEF LaneAbout, OfEvent
<1>8. \A g \in Followers \ (l.todo \ {f}) : Told(g, o)'
  BY <1>2, <1>3, <1>4 DEF Told, TellStep
<1>9. HeardSound'
  <2>1. Hearable(o) BY <1>2, <1>3 DEF Hearable, TellStep
  <2>2. heard[f][o] = 0 BY <1>1, <1>2, <1>3 DEF TellStep
  <2> QED BY <1>1, <1>4, <1>5, <2>1, <2>2, SameTries, HeardKept
<1>10. PICK k : k = IF l.todo = {f} THEN l ELSE [l EXCEPT !.todo = @ \ {f}] OBVIOUS
<1>11. /\ k \in Sending /\ k.object = l.object /\ k.root = l.root /\ k.step = "tell"
       /\ l.todo = {f} => Done(l) /\ k = l
       /\ l.todo # {f} => Goes(l, k) /\ k.todo = l.todo \ {f}
  <2>1. CASE l.todo = {f} BY <1>1, <1>3, <1>10, <2>1 DEF TellFollower
  <2>2. CASE l.todo # {f}
    <3>1. k = [l EXCEPT !.todo = @ \ {f}] BY <1>10, <2>2
    <3>2. Goes(l, k) BY <2>2, <3>1 DEF TellFollower
    <3> QED BY <1>1, <1>3, <2>2, <3>1, <3>2 DEF Sending
  <2> QED BY <2>1, <2>2
<1>12. k \in lanes' => LaneSound(k)'
  <2>1. CASE l.todo = {f} BY <1>11, <2>1 DEF Done
  <2>2. CASE l.todo # {f}
    <3>1. \A g \in k.todo : heard'[g][o] = 0
      BY <1>2, <1>3, <1>4, <1>11, <2>2 DEF TellStep
    <3>2. \A g \in Followers \ k.todo : Told(g, o)' BY <1>8, <1>11, <2>2
    <3>3. (Known(o)' <=> Known(o)) /\ OfEvent(<<o[1], 0>>)' = OfEvent(<<o[1], 0>>)
      BY <1>1 DEF Known, OfObject, OfEvent
    <3>4. TellStep(k)'
      BY <1>1, <1>2, <1>3, <1>11, <3>1, <3>2, <3>3 DEF TellStep
    <3>5. Rooted(k.root)' BY <1>3, <1>5, <1>11, RowsLost DEF LaneSound
    <3> QED BY <1>1, <1>3, <1>11, <3>4, <3>5 DEF LaneSound
  <2> QED BY <2>1, <2>2
<1>13. /\ QueueSound' /\ pending' \in Seq(Messages) /\ (\A x \in lanes : LaneSound(x))'
       /\ LanesApart' /\ lanes' \subseteq Sending
  BY <1>7, <1>11, <1>12, LanesGo
<1>14. TypeOK' BY <1>1, <1>4, <1>13 DEF IInv, TypeOK
<1>15. \A x \in lanes : x # l => x \in lanes' BY <1>11 DEF Goes, Done
<1>16. ArrivedSound'
  <2>1. \A x \in lanes : x.step = "keep" => x \in lanes' BY <1>1, <1>15
  <2> QED BY <1>1, <1>5, <2>1, SameTries, ArrivedKept
<1>17. RowsTold'
  <2>1. ASSUME NEW p \in Objects, Settled(p) PROVE Settled(p)'
    <3>1. CASE p = o
      <4>1. CASE l.todo = {f} BY <1>8, <3>1, <4>1 DEF Settled
      <4>2. CASE l.todo # {f}
        <5>1. k \in lanes' /\ k.object = p BY <1>2, <1>11, <3>1, <4>2 DEF Goes
        <5> QED BY <1>11, <5>1 DEF Settled
      <4> QED BY <4>1, <4>2
    <3>2. CASE p # o
      <4>1. \A g \in Followers : Told(g, p) => Told(g, p)' BY <1>4 DEF Told
      <4> QED BY <1>1, <1>2, <1>15, <2>1, <3>2, <4>1 DEF Settled
    <3> QED BY <3>1, <3>2
  <2>2. \A r \in Here(rows)' : r \in rows BY <1>1 DEF Here
  <2> QED BY <1>1, <2>1, <2>2, ToldKept
<1>18. RowsKept' BY <1>1, RowsSame
<1> QED BY <1>6, <1>9, <1>13, <1>14, <1>16, <1>17, <1>18, LaneStep

-------------------------------------------------------------------------------
\* What every step of inbound handling leaves alone, when it is about o.
AboutOnly(o) ==
  /\ TaskFrame /\ raced \subseteq raced'
  /\ \A p \in Posts : /\ shown[p] <= shown'[p] /\ shown'[p] \in Nat
                      /\ <<p, 0>> # o => shown'[p] = shown[p]
  /\ \A f \in Followers, q \in Objects : q # o => heard'[f][q] = heard[f][q]
  /\ \A f \in Followers, q \in Objects : heard[f][q] > 0 => heard'[f][q] > 0
  /\ \A r \in rows' \ rows : r.object = o /\ (kind \in Hosted /\ About(o) # {} /\ ~ Astray(o) => r.event \notin Elsewheres)

LEMMA OthersKept ==
  ASSUME IInv, NEW o, AboutOnly(o), NEW t \in tasks, t.act.object # o \/ o \in raced'
  PROVE  TaskSound(t)'
<1>1. /\ rows \subseteq rows' /\ missed \subseteq missed' /\ UNCHANGED <<kind, doubled, cut>> /\ TaskSound(t)
      /\ raced \subseteq raced' /\ t.act.object \in Objects /\ t.todo \subseteq Followers
  BY DEF AboutOnly, TaskFrame, Outside, IInv, TypeOK, Task, Activity
<1>2. Rooted(t.root)' BY <1>1, MoreRows DEF TaskSound
<1>3. \A f \in Followers : Told(f, t.act.object) => Told(f, t.act.object)'
  BY <1>1 DEF Told, AboutOnly
<1>4. t.step = "tell" => Known(t.act.object)' BY <1>1, MoreRows DEF TaskSound
<1>5. kind \in Hosted => OfObject(t.act.object)' \subseteq Here(rows)' \/ Astray(t.act.object)
  <2> SUFFICES ASSUME kind \in Hosted, ~ Astray(t.act.object), NEW r \in OfObject(t.act.object)' PROVE r \in Here(rows)'
    OBVIOUS
  <2>1. r \in rows' /\ r.object = t.act.object BY DEF OfObject
  <2>2. CASE r \in rows BY <1>1, <2>1, <2>2 DEF OfObject, Here, TaskSound
  <2>3. CASE r \notin rows
    <3>1. r.object = o /\ (About(o) # {} /\ ~ Astray(o) => r.event \notin Elsewheres) BY <2>1, <2>3 DEF AboutOnly
    <3>2. About(o) # {} BY <2>1, <3>1 DEF About
    <3> QED BY <2>1, <3>1, <3>2 DEF Here
  <2> QED BY <2>2, <2>3
<1>6. /\ t.step = "record" => t.copy \in 1..shown'[t.act.object[1]]
  <2> SUFFICES ASSUME t.step = "record" PROVE t.copy \in 1..shown'[t.act.object[1]]
    OBVIOUS
  <2>1. Post(t.act.object) /\ t.copy \in 1..shown[t.act.object[1]] BY <1>1 DEF TaskSound
  <2>2. t.act.object[1] \in Posts BY <1>1, <2>1, Names
  <2>3. shown[t.act.object[1]] \in Nat BY <2>2, Names DEF IInv, TypeOK
  <2> QED BY <2>1, <2>2, <2>3 DEF AboutOnly
<1>7. /\ \A p : Answered(p) # {} => Answered(p)' # {}
      /\ \A q : Astray(q)' <=> Astray(q)
  BY <1>1, MoreRows
<1>8. Post(t.act.object) /\ t.act.object \notin raced' =>
       /\ t.step # "tell" => ~ Known(t.act.object)'
       /\ t.step = "tell" => \A f \in t.todo : heard'[f][t.act.object] = 0
       /\ t.step \in {"ghost", "send"} /\ t.act.object \notin cut => shown'[t.act.object[1]] = 0
  <2> SUFFICES ASSUME Post(t.act.object), t.act.object \notin raced'
               PROVE  /\ t.step # "tell" => ~ Known(t.act.object)'
                      /\ t.step = "tell" => \A f \in t.todo : heard'[f][t.act.object] = 0
                      /\ t.step \in {"ghost", "send"} /\ t.act.object \notin cut => shown'[t.act.object[1]] = 0
    OBVIOUS
  <2>1. t.act.object # o /\ t.act.object \notin raced BY <1>1
  <2>2. Known(t.act.object)' => Known(t.act.object) BY <2>1 DEF AboutOnly, Known, OfObject
  <2>3. \A f \in Followers : heard'[f][t.act.object] = heard[f][t.act.object]
    BY <1>1, <2>1 DEF AboutOnly
  <2>4. shown'[t.act.object[1]] = shown[t.act.object[1]]
    <3>1. t.act.object[1] \in Posts /\ <<t.act.object[1], 0>> # o BY <1>1, <2>1, Names
    <3> QED BY <3>1 DEF AboutOnly
  <2> QED BY <1>1, <2>1, <2>2, <2>3, <2>4 DEF TaskSound
<1>9. kind' = kind /\ cut' = cut BY <1>1
<1>10. /\ t.act.via # "create" => kind \in Mirrored
       /\ ~ Post(t.act.object) => t.step = "ghost" /\ t.root = NoEvent
       /\ t.step = "tell" => kind \in Hosted /\ \A f \in Followers \ t.todo : Told(f, t.act.object)'
       /\ kind = "hosted community" /\ Post(t.act.object) /\ t.act.object[1] \notin Roots =>
            Answered(t.act.object[1])' # {} \/ Astray(t.act.object)'
  BY <1>1, <1>3, <1>7 DEF TaskSound
<1> QED BY <1>2, <1>4, <1>5, <1>6, <1>7, <1>8, <1>9, <1>10 DEF TaskSound, Post

\* A task takes a step and becomes u, or ends.
StepOf(t, u, o) ==
  /\ AboutOnly(o) /\ t \in tasks /\ o = t.act.object /\ u.act = t.act
  /\ tasks' = tasks \ {t} \/ tasks' = (tasks \ {t}) \cup {u}
  /\ UNCHANGED <<arrivals, raced>>

\* What it sent so far is still counted.
Counts(t, u) == \A p \in Posts :
  \/ shown'[p] = shown[p] /\ (u.step \in {"ghost", "send"} => t.step \in {"ghost", "send"})
  \/ /\ shown'[p] = shown[p] + 1 /\ t.act.object = <<p, 0>>
     /\ t.step \in {"ghost", "send"} /\ u.step \notin {"ghost", "send"}

LEMMA CountedKept ==
  ASSUME IInv, NEW t, NEW u, NEW o, StepOf(t, u, o), Counts(t, u)
  PROVE  Counted'
<1>1. /\ IsFiniteSet(tasks) /\ t \in tasks /\ u.act = t.act /\ arrivals' = arrivals
      /\ tasks' \subseteq (tasks \ {t}) \cup {u}
      /\ tasks' = tasks \ {t} \/ tasks' = (tasks \ {t}) \cup {u}
  BY DEF StepOf, IInv, Counted
<1>2. IsFiniteSet(tasks')
  <2>1. IsFiniteSet(tasks \ {t}) BY <1>1, FS_RemoveElement
  <2>2. IsFiniteSet((tasks \ {t}) \cup {u}) BY <2>1, FS_AddElement
  <2> QED BY <1>1, <2>2, FS_Subset
<1>3. ASSUME NEW p \in Posts PROVE shown'[p] + Cardinality(Unsent(p)') <= arrivals
  <2> DEFINE old == Unsent(p)
             new == Unsent(p)'
  <2>1. old \subseteq tasks /\ new \subseteq tasks' /\ new \subseteq (old \ {t}) \cup {u}
    BY <1>1 DEF Unsent
  <2>2. IsFiniteSet(old) /\ IsFiniteSet(new) /\ IsFiniteSet(old \ {t}) /\ IsFiniteSet((old \ {t}) \cup {u})
    BY <1>1, <1>2, <2>1, FS_Subset, FS_RemoveElement, FS_AddElement
  <2>3. /\ Cardinality(old) \in Nat /\ Cardinality(new) \in Nat /\ Cardinality(old \ {t}) \in Nat
        /\ shown[p] \in Nat /\ shown[p] + Cardinality(old) <= arrivals /\ arrivals \in Nat
    <3>1. Cardinality(old) \in Nat /\ Cardinality(new) \in Nat /\ Cardinality(old \ {t}) \in Nat
      BY <2>2, FS_CardinalityType
    <3> QED BY <3>1, Names DEF IInv, TypeOK, Counted
  <2>4. t \in old => Cardinality(old \ {t}) = Cardinality(old) - 1 BY <2>2, FS_RemoveElement
  <2>5. Cardinality((old \ {t}) \cup {u}) <= Cardinality(old \ {t}) + 1
        /\ Cardinality((old \ {t}) \cup {u}) \in Nat
    <3>1. Cardinality((old \ {t}) \cup {u}) = IF u \in old \ {t} THEN Cardinality(old \ {t}) ELSE Cardinality(old \ {t}) + 1
      BY <2>2, FS_AddElement
    <3> QED BY <2>3, <3>1
  <2>6. Cardinality(new) <= Cardinality((old \ {t}) \cup {u})
    BY <2>1, <2>2, FS_Subset
  <2>7. new \subseteq old \ {t} => Cardinality(new) <= Cardinality(old \ {t})
    BY <2>2, FS_Subset
  <2>8. Cardinality(old \ {t}) <= Cardinality(old)
    BY <2>2, FS_Subset
  <2>9. \/ shown'[p] = shown[p] /\ (u \in new => t \in old)
        \/ shown'[p] = shown[p] + 1 /\ t \in old /\ u \notin new
    BY <1>1 DEF Counts, Unsent
  <2>10. CASE shown'[p] = shown[p] /\ t \in old
    BY <2>3, <2>4, <2>5, <2>6, <2>10
  <2>11. CASE shown'[p] = shown[p] /\ u \notin new
    <3>1. new \subseteq old \ {t} BY <2>1, <2>11
    <3> HIDE DEF new, old
    <3>2. Cardinality(new) <= Cardinality(old) BY <2>3, <2>7, <2>8, <3>1
    <3>3. shown'[p] + Cardinality(new) <= arrivals BY <2>3, <2>11, <3>2
    <3> QED BY <3>3 DEF new
  <2>12. CASE shown'[p] = shown[p] + 1 /\ t \in old /\ u \notin new
    <3>1. new \subseteq old \ {t} BY <2>1, <2>12
    <3> QED BY <2>3, <2>4, <2>7, <2>12, <3>1
  <2> QED BY <2>9, <2>10, <2>11, <2>12
<1> QED BY <1>1, <1>2, <1>3 DEF Counted

\* A post is still in the room at most once.
ShownOk(o) == \A p \in Posts : o = <<p, 0>> /\ o \notin raced \cup cut =>
  /\ shown'[p] <= 1
  /\ shown'[p] = 1 => \/ \E r \in rows' : r.object = o
                      \/ \E t \in tasks' : t.act.object = o /\ t.step = "record"

LEMMA TaskStep ==
  ASSUME IInv, NEW t, NEW u, NEW o, StepOf(t, u, o), Counts(t, u), ShownOk(o),
         TypeOK', RowsKept', HeardSound', RowsTold', u \in tasks' => TaskSound(u)'
  PROVE  IInv'
<1>1. /\ AboutOnly(o) /\ t \in tasks /\ o = t.act.object /\ u.act = t.act /\ raced' = raced
      /\ tasks' = tasks \ {t} \/ tasks' = (tasks \ {t}) \cup {u}
      /\ TaskFrame /\ rows \subseteq rows' /\ UNCHANGED <<doubled, cut>>
  BY DEF StepOf, AboutOnly, TaskFrame, Outside
<1>2. ASSUME NEW x \in tasks' PROVE TaskSound(x)'
  <2>1. CASE x = u BY <2>1
  <2>2. CASE x # u
    <3>1. x \in tasks /\ x # t BY <1>1, <2>2
    <3>2. x.act.object # o \/ o \in raced BY <1>1, <3>1 DEF IInv, TasksApart
    <3> QED BY <1>1, <3>1, <3>2, OthersKept
  <2> QED BY <2>1, <2>2
<1>3. TasksApart'
  <2> SUFFICES ASSUME NEW x \in tasks', NEW y \in tasks',
                      x.act = y.act \/ (x.act.object = y.act.object /\ x.act.object \notin raced)
               PROVE  x = y
    BY <1>1 DEF TasksApart
  <2> DEFINE Was(z) == IF z \in tasks \ {t} THEN z ELSE t
  <2>1. \A z \in tasks' : z.act = Was(z).act /\ Was(z) \in tasks /\ (z \in tasks \ {t} \/ z = u)
    BY <1>1
  <2>2. Was(x) = Was(y) BY <2>1 DEF IInv, TasksApart
  <2> QED BY <2>1, <2>2
<1>4. ShownSound'
  <2> SUFFICES ASSUME NEW p \in Posts, <<p, 0>> \notin raced \cup cut
               PROVE  /\ shown'[p] <= 1
                      /\ shown'[p] = 1 => \/ Known(<<p, 0>>)'
                                          \/ \E x \in tasks' : x.act.object = <<p, 0>> /\ x.step = "record"
    BY <1>1 DEF ShownSound
  <2>1. CASE <<p, 0>> = o
    <3>1. (\E r \in rows' : r.object = <<p, 0>>) => Known(<<p, 0>>)' BY DEF Known, OfObject
    <3> QED BY <2>1, <3>1 DEF ShownOk
  <2>2. CASE <<p, 0>> # o
    <3>1. shown'[p] = shown[p] BY <1>1, <2>2 DEF AboutOnly
    <3>2. Known(<<p, 0>>) => Known(<<p, 0>>)' BY <1>1, MoreRows
    <3>3. \A x \in tasks : x.act.object = <<p, 0>> => x \in tasks' BY <1>1, <2>2
    <3> QED BY <3>1, <3>2, <3>3 DEF IInv, ShownSound
  <2> QED BY <2>1, <2>2
<1> QED BY <1>1, <1>2, <1>3, <1>4, LanesKept, CountedKept DEF IInv

LEMMA SettledKept ==
  ASSUME IInv, NEW t, NEW u, NEW o, StepOf(t, u, o), t.step # "tell",
         \A r \in Here(rows)' \ rows : kind \in Hosted => Settled(r.object)'
  PROVE  RowsTold'
<1>1. /\ UNCHANGED <<lanes, cut, kind>> /\ rows \subseteq rows' /\ missed \subseteq missed'
      /\ tasks \ {t} \subseteq tasks'
  BY DEF StepOf, AboutOnly, TaskFrame, Outside
<1>2. ASSUME NEW p \in Objects, Settled(p) PROVE Settled(p)'
  <2>1. \A f \in Followers : Told(f, p) => Told(f, p)' BY <1>1 DEF Told, StepOf, AboutOnly
  <2>2. \A x \in tasks : x.step = "tell" => x \in tasks' BY <1>1
  <2> QED BY <1>1, <1>2, <2>1, <2>2 DEF Settled
<1> QED BY <1>1, <1>2, ToldKept

LEMMA TaskFacts ==
  ASSUME IInv, NEW t \in tasks
  PROVE  /\ t \in Task /\ t.act \in Activity /\ t.act.object \in Objects /\ TaskSound(t)
         /\ t.todo \subseteq Followers /\ t.copy \in 0..MaxArrivals
         /\ t.root \in Events \cup {NoEvent} /\ t.step \in {"ghost", "send", "record", "tell"}
         /\ Post(t.act.object) => t.act.object[1] \in Posts /\ t.act.object = <<t.act.object[1], 0>>
<1>1. t \in Task /\ t.act \in Activity /\ t.act.object \in Objects /\ TaskSound(t)
      /\ t.todo \subseteq Followers /\ t.copy \in 0..MaxArrivals
      /\ t.root \in Events \cup {NoEvent} /\ t.step \in {"ghost", "send", "record", "tell"}
  BY DEF IInv, TypeOK, Task, Activity
<1> QED BY <1>1, Names

LEMMA SoundSame ==
  ASSUME UNCHANGED <<rows, kind, shown, heard, missed, raced, doubled, cut>>, NEW u, TaskSound(u)
  PROVE  TaskSound(u)'
BY DEF TaskSound, Rooted, Here, OfObject, Known, Answered, Told, Post, Astray, Ours

\* A task goes on or ends, and nothing is written but the ghost.
LEMMA GoesOn ==
  ASSUME IInv, NEW t \in tasks, NEW u \in Task, u.act = t.act, TaskSound(u),
         tasks' = tasks \ {t} \/ tasks' = (tasks \ {t}) \cup {u},
         UNCHANGED <<rows, pending, lanes, tries, arrived, shown, heard, missed, arrivals, raced>>,
         UNCHANGED Outside, ghosts \subseteq ghosts', ghosts' \subseteq Authors,
         t.step # "tell", t.step = "record" => Known(t.act.object),
         u.step \in {"ghost", "send"} => t.step \in {"ghost", "send"}
  PROVE  IInv'
<1> DEFINE o == t.act.object
<1>1. UNCHANGED <<kind, said, banned, troubles, doubled, cut>> BY DEF Outside
<1>2. StepOf(t, u, o)
  <2>1. \A p \in Posts : shown[p] \in Nat BY Names DEF IInv, TypeOK
  <2>2. TaskFrame BY DEF TaskFrame
  <2>3. AboutOnly(o) BY <2>1, <2>2 DEF AboutOnly
  <2> QED BY <2>3 DEF StepOf
<1>3. Counts(t, u) BY DEF Counts
<1>4. ShownOk(o)
  <2> SUFFICES ASSUME NEW p \in Posts, o = <<p, 0>>, o \notin raced \cup cut
               PROVE  /\ shown'[p] <= 1
                      /\ shown'[p] = 1 => \/ \E r \in rows' : r.object = o
                                          \/ \E x \in tasks' : x.act.object = o /\ x.step = "record"
    BY DEF ShownOk
  <2>1. /\ shown'[p] <= 1
        /\ shown'[p] = 1 => Known(o) \/ \E x \in tasks : x.act.object = o /\ x.step = "record"
    BY DEF IInv, ShownSound
  <2>2. Known(o) => \E r \in rows' : r.object = o BY DEF Known, OfObject
  <2>3. \A x \in tasks : x.act.object = o /\ x.step = "record" => x = t \/ x \in tasks' OBVIOUS
  <2> QED BY <2>1, <2>2, <2>3
<1>5. TypeOK' BY <1>1 DEF IInv, TypeOK
<1>6. RowsKept' BY <1>1, RowsSame
<1>7. HeardSound' BY <1>1, MoreRows, SameTries, HeardKept
<1>8. RowsTold'
  <2>1. \A r \in Here(rows)' : r \in rows BY DEF Here
  <2> QED BY <1>2, <2>1, SettledKept
<1>9. TaskSound(u)' BY <1>1, SoundSame
<1> QED BY <1>2, <1>3, <1>4, <1>5, <1>6, <1>7, <1>8, <1>9, TaskStep

\* Once it is in the room a hosted room announces it to all but its author.
LEMMA TellingSound ==
  ASSUME IInv, NEW t \in tasks, NEW u, u = [t EXCEPT !.step = "tell", !.todo = ToTell(t)],
         ToTell(t) # {}, Post(t.act.object)
  PROVE  /\ u \in Task /\ u.act = t.act /\ u.step = "tell" /\ u.root = t.root /\ u.copy = t.copy
         /\ u.todo = Followers \ {AuthorOf[t.act.object[1]]} /\ kind \in Hosted
         /\ \A f \in Followers \ u.todo : f = AuthorOf[t.act.object[1]]
<1>1. kind \in Hosted /\ ToTell(t) = Followers \ {AuthorOf[t.act.object[1]]} BY DEF ToTell
<1> QED BY <1>1, TaskFacts DEF Task

LEMMA GhostInv ==
  ASSUME IInv, NEW t \in tasks, Ghost(t)
  PROVE  IInv'
<1> DEFINE o == t.act.object
<1>1. /\ t.step = "ghost"
      /\ UNCHANGED <<rows, pending, lanes, tries, arrived, shown, heard, missed, arrivals, raced>>
      /\ UNCHANGED Outside
  BY DEF Ghost
<1>2. t \in Task /\ TaskSound(t) /\ ghosts \subseteq Authors /\ o \in Objects
  BY TaskFacts DEF IInv, TypeOK
<1>3. CASE t.root # NoEvent /\ Known(o) /\ ThenTell(t) /\ UNCHANGED ghosts
  <2>1. Post(o) BY <1>2, <1>3 DEF TaskSound
  <2>2. o \in raced BY <1>1, <1>2, <1>3, <2>1 DEF TaskSound
  <2>3. CASE ToTell(t) = {}
    <3>1. tasks' = tasks \ {t} BY <1>3, <2>3 DEF ThenTell, Ends
    <3> QED BY <1>1, <1>2, <1>3, <3>1, GoesOn
  <2>4. CASE ToTell(t) # {}
    <3>1. PICK u : u = [t EXCEPT !.step = "tell", !.todo = ToTell(t)] OBVIOUS
    <3>2. tasks' = (tasks \ {t}) \cup {u} BY <1>3, <2>4, <3>1 DEF ThenTell, Becomes
    <3>3. /\ u \in Task /\ u.act = t.act /\ u.step = "tell" /\ u.root = t.root /\ kind \in Hosted
          /\ \A f \in Followers \ u.todo : f = AuthorOf[o[1]]
      BY <2>1, <2>4, <3>1, TellingSound
    <3>4. TaskSound(u)
      <4>1. \A f \in Followers \ u.todo : Told(f, o) BY <2>1, <3>3 DEF Told
      <4> QED BY <1>2, <1>3, <2>1, <2>2, <3>3, <4>1 DEF TaskSound
    <3> QED BY <1>1, <1>2, <1>3, <3>2, <3>3, <3>4, GoesOn
  <2> QED BY <2>3, <2>4
<1>4. CASE /\ ~ Ours(o) /\ ghosts' = ghosts \cup {AuthorOf[o[1]]}
           /\ \/ Takes(AuthorOf[o[1]]) /\ Becomes(t, [t EXCEPT !.step = "send"])
              \/ Ends(t)
  <2>1. Post(o) BY <1>4 DEF Ours, Post
  <2>2. ghosts \subseteq ghosts' /\ ghosts' \subseteq Authors
    <3>1. AuthorOf[o[1]] \in Authors BY <2>1, TaskFacts DEF Authors
    <3> QED BY <1>2, <1>4, <3>1
  <2>3. CASE Ends(t)
    <3>1. tasks' = tasks \ {t} BY <2>3 DEF Ends
    <3> QED BY <1>1, <1>2, <2>2, <3>1, GoesOn
  <2>4. CASE Becomes(t, [t EXCEPT !.step = "send"])
    <3>1. PICK u : u = [t EXCEPT !.step = "send"] OBVIOUS
    <3>2. tasks' = (tasks \ {t}) \cup {u} BY <2>4, <3>1 DEF Becomes
    <3>3. u \in Task /\ u.act = t.act /\ u.step = "send" /\ u.root = t.root
      BY <1>2, <3>1 DEF Task
    <3>4. TaskSound(u) BY <1>1, <1>2, <2>1, <3>3 DEF TaskSound
    <3> QED BY <1>1, <1>2, <2>2, <3>2, <3>3, <3>4, GoesOn
  <2> QED BY <1>4, <2>3, <2>4
<1>5. CASE Ours(o) /\ Ends(t) /\ UNCHANGED ghosts
  <2>1. tasks' = tasks \ {t} BY <1>5 DEF Ends
  <2> QED BY <1>1, <1>2, <1>5, <2>1, GoesOn
<1> QED BY <1>3, <1>4, <1>5 DEF Ghost

LEMMA SendInv ==
  ASSUME IInv, NEW t \in tasks, Send(t)
  PROVE  IInv'
<1> DEFINE o == t.act.object
           p == t.act.object[1]
<1>1. /\ t.step = "send"
      /\ UNCHANGED <<rows, pending, lanes, tries, arrived, heard, missed, ghosts, arrivals, raced>>
      /\ UNCHANGED Outside /\ UNCHANGED <<kind, said, banned, troubles, doubled, cut>>
  BY DEF Send, Outside
<1>2. /\ t \in Task /\ TaskSound(t) /\ ghosts \subseteq Authors /\ o \in Objects
      /\ Post(o) /\ p \in Posts /\ o = <<p, 0>>
  BY <1>1, TaskFacts DEF IInv, TypeOK, TaskSound
<1>3. CASE Ends(t) /\ UNCHANGED shown
  <2>1. tasks' = tasks \ {t} BY <1>3 DEF Ends
  <2> QED BY <1>1, <1>2, <1>3, <2>1, GoesOn
<1>4. CASE /\ shown' = [shown EXCEPT ![p] = @ + 1]
           /\ Becomes(t, [t EXCEPT !.step = "record", !.copy = shown[p] + 1])
  <2>1. PICK u : u = [t EXCEPT !.step = "record", !.copy = shown[p] + 1] OBVIOUS
  <2>2. tasks' = (tasks \ {t}) \cup {u} BY <1>4, <2>1 DEF Becomes
  <2>3. /\ shown \in [Posts -> 0..MaxArrivals] /\ shown[p] \in Nat /\ shown'[p] = shown[p] + 1
        /\ \A q \in Posts : q # p => shown'[q] = shown[q]
        /\ \A q \in Posts : shown[q] \in Nat
    BY <1>2, <1>4, Names DEF IInv, TypeOK
  <2>4. shown[p] + 1 <= MaxArrivals
    <3>1. t \in Unsent(p) /\ Unsent(p) \subseteq tasks BY <1>1, <1>2 DEF Unsent
    <3>2. IsFiniteSet(Unsent(p)) BY <3>1, FS_Subset DEF IInv, Counted
    <3>3. Cardinality(Unsent(p)) \in Nat /\ Cardinality(Unsent(p)) # 0
      BY <3>1, <3>2, FS_CardinalityType, FS_EmptySet
    <3>4. shown[p] + Cardinality(Unsent(p)) <= arrivals /\ arrivals <= MaxArrivals
          /\ arrivals \in Nat /\ MaxArrivals \in Nat
      BY <1>2, Names DEF IInv, Counted, TypeOK
    <3> QED BY <2>3, <3>3, <3>4
  <2>5. /\ u \in Task /\ u.act = t.act /\ u.step = "record" /\ u.root = t.root /\ u.copy = shown[p] + 1
        /\ shown' \in [Posts -> 0..MaxArrivals]
    <3>1. shown[p] + 1 \in 0..MaxArrivals BY <2>3, <2>4, Names
    <3> QED BY <1>2, <1>4, <2>1, <2>3, <3>1 DEF Task
  <2>6. StepOf(t, u, o)
    <3>1. TaskFrame BY <1>1 DEF TaskFrame
    <3>2. \A q \in Posts : /\ shown[q] <= shown'[q] /\ shown'[q] \in Nat
                           /\ <<q, 0>> # o => shown'[q] = shown[q]
      BY <1>2, <2>3
    <3>3. AboutOnly(o) BY <1>1, <3>1, <3>2 DEF AboutOnly
    <3> QED BY <1>1, <2>2, <2>5, <3>3 DEF StepOf
  <2>7. Counts(t, u) BY <1>1, <1>2, <2>3, <2>5 DEF Counts
  <2>8. ShownOk(o)
    <3>1. o \notin raced \cup cut => shown[p] = 0 BY <1>1, <1>2 DEF TaskSound
    <3>2. u \in tasks' /\ u.act.object = o /\ u.step = "record" BY <2>2, <2>5
    <3> QED BY <1>2, <2>3, <3>1, <3>2 DEF ShownOk
  <2>9. TypeOK' BY <1>1, <1>2, <2>2, <2>5 DEF IInv, TypeOK
  <2>10. RowsKept'
    <3>1. \A q \in Posts : shown[q] <= shown'[q] /\ shown'[q] \in Nat BY <2>3
    <3> QED BY <1>1, <3>1, MoreRows, RowsGrow
  <2>11. HeardSound' BY <1>1, MoreRows, SameTries, HeardKept
  <2>12. RowsTold'
    <3>1. \A r \in Here(rows)' : r \in rows BY <1>1 DEF Here
    <3> QED BY <1>1, <2>6, <3>1, SettledKept
  <2>13. TaskSound(u)'
    <3>1. Rooted(u.root)' BY <1>1, <1>2, <2>5, MoreRows DEF TaskSound
    <3>2. u.copy \in 1..shown'[p] BY <2>3, <2>5
    <3>3. kind \in Hosted => OfObject(o)' \subseteq Here(rows)' \/ Astray(o)'
      BY <1>1, <1>2, MoreRows DEF TaskSound, OfObject, Here
    <3>4. kind = "hosted community" /\ p \notin Roots => Answered(p)' # {} \/ Astray(o)'
      BY <1>1, <1>2, MoreRows DEF TaskSound
    <3>5. o \notin raced => ~ Known(o)' BY <1>1, <1>2 DEF TaskSound, Known, OfObject
    <3>6. t.act.via # "create" => kind \in Mirrored BY <1>2 DEF TaskSound
    <3>7. u.act.object = o /\ u.act.via = t.act.via BY <2>5
    <3> QED BY <1>1, <1>2, <2>5, <3>1, <3>2, <3>3, <3>4, <3>5, <3>6, <3>7 DEF TaskSound
  <2> QED BY <2>6, <2>7, <2>8, <2>9, <2>10, <2>11, <2>12, <2>13, TaskStep
<1> QED BY <1>3, <1>4 DEF Send

LEMMA RecordInv ==
  ASSUME IInv, NEW t \in tasks, Record(t)
  PROVE  IInv'
<1> DEFINE o == t.act.object
           p == t.act.object[1]
<1>1. /\ t.step = "record"
      /\ UNCHANGED <<pending, lanes, tries, arrived, shown, heard, missed, ghosts, arrivals, raced>>
      /\ UNCHANGED Outside /\ UNCHANGED <<kind, said, banned, troubles, doubled, cut>>
  BY DEF Record, Outside
<1>2. /\ t \in Task /\ TaskSound(t) /\ ghosts \subseteq Authors /\ o \in Objects
      /\ Post(o) /\ p \in Posts /\ o = <<p, 0>> /\ t.copy \in 1..shown[p] /\ t.copy \in 0..MaxArrivals
      /\ \A q \in Posts : shown[q] \in Nat
  <2>1. /\ t \in Task /\ TaskSound(t) /\ ghosts \subseteq Authors /\ o \in Objects /\ t.copy \in 0..MaxArrivals
    BY TaskFacts DEF IInv, TypeOK
  <2>2. Post(o) /\ t.copy \in 1..shown[p] BY <1>1, <2>1 DEF TaskSound
  <2>3. p \in Posts /\ o = <<p, 0>> BY <2>2, TaskFacts
  <2>4. \A q \in Posts : shown[q] \in Nat BY Names DEF IInv, TypeOK
  <2> QED BY <2>1, <2>2, <2>3, <2>4
<1>3. CASE Known(o) /\ Ends(t) /\ UNCHANGED rows
  <2>1. tasks' = tasks \ {t} BY <1>3 DEF Ends
  <2> QED BY <1>1, <1>2, <1>3, <2>1, GoesOn
<1>4. CASE ~ Known(o) /\ rows' = rows \cup {MirrorRow(t)} /\ ThenTell(t)
  <2>1. PICK new : new = MirrorRow(t) OBVIOUS
  <2>2. /\ new.event = <<p, t.copy>> /\ new.object = o /\ new.root = t.root /\ rows' = rows \cup {new}
        /\ new.event \in Copies /\ new \in Row /\ new.event \notin Messages \X {0} /\ new.event \notin Elsewheres
    <3>1. new = [event |-> <<p, t.copy>>, object |-> o, root |-> t.root] BY <2>1 DEF MirrorRow
    <3>2. t.copy \in 1..MaxArrivals BY <1>2, Names
    <3>3. new.event \in Copies BY <1>2, <3>1, <3>2 DEF Copies
    <3>4. new \in Row BY <1>2, <3>1, <3>3, TaskFacts, Names DEF Row
    <3> QED BY <1>4, <2>1, <3>1, <3>3, <3>4, Names
  <2>3. PICK u : u = IF ToTell(t) = {} THEN t ELSE [t EXCEPT !.step = "tell", !.todo = ToTell(t)] OBVIOUS
  <2>4. /\ ToTell(t) = {} => u = t /\ tasks' = tasks \ {t}
        /\ ToTell(t) # {} => u = [t EXCEPT !.step = "tell", !.todo = ToTell(t)]
                             /\ tasks' = (tasks \ {t}) \cup {u}
    BY <1>4, <2>3 DEF ThenTell, Ends, Becomes
  <2>5. /\ u \in Task /\ u.act = t.act /\ u.step \notin {"ghost", "send"}
        /\ u \in tasks' => /\ u.step = "tell" /\ u.root = t.root /\ kind \in Hosted /\ u.todo \subseteq Followers
                           /\ \A f \in Followers \ u.todo : f = AuthorOf[p]
    <3>1. CASE ToTell(t) = {} BY <1>1, <1>2, <2>4, <3>1
    <3>2. CASE ToTell(t) # {}
      <4>1. /\ u \in Task /\ u.act = t.act /\ u.step = "tell" /\ u.root = t.root
            /\ u.todo = Followers \ {AuthorOf[p]} /\ kind \in Hosted
            /\ \A f \in Followers \ u.todo : f = AuthorOf[p]
        BY <1>2, <2>4, <3>2, TellingSound
      <4> QED BY <4>1
    <3> QED BY <3>1, <3>2
  <2>6. \A r \in rows : r.event # new.event /\ r.object # o
    <3>1. ASSUME NEW r \in rows, r.event = new.event PROVE r.object = o
      <4>1. Shaped(r) BY DEF IInv, RowsKept
      <4> QED BY <1>2, <2>2, <3>1, <4>1 DEF Shaped, OwnShape
    <3> QED BY <1>4, <3>1 DEF Known, OfObject
  <2>7. RowsKept'
    <3>1. Shaped(new)' BY <1>1, <1>2, <2>2 DEF Shaped
    <3>2. Rooted(new.root)' BY <1>1, <1>2, <2>2, MoreRows DEF TaskSound
    <3>3. \A s \in rows' : new.event = s.event \/ new.object = s.object => new = s
      BY <2>2, <2>6
    <3> QED BY <1>1, <1>2, <2>2, <3>1, <3>2, <3>3, MoreRows, RowsGrow
  <2>8. StepOf(t, u, o)
    <3>1. TaskFrame BY <1>1, <1>2, <2>2 DEF TaskFrame
    <3>2. AboutOnly(o) BY <1>1, <1>2, <2>2, <3>1 DEF AboutOnly
    <3> QED BY <1>1, <2>4, <2>5, <3>2 DEF StepOf
  <2>9. Counts(t, u) BY <1>1, <2>5 DEF Counts
  <2>10. ShownOk(o)
    <3>1. \A q \in Posts : o = <<q, 0>> => q = p BY <1>2
    <3>2. o \notin raced \cup cut => shown[p] <= 1 BY <1>2 DEF IInv, ShownSound
    <3> QED BY <1>1, <2>2, <3>1, <3>2 DEF ShownOk
  <2>11. TypeOK' BY <1>1, <1>2, <2>2, <2>4, <2>5 DEF IInv, TypeOK
  <2>12. HeardSound' BY <1>1, <2>2, MoreRows, SameTries, HeardKept
  <2>13. ASSUME u \in tasks' PROVE TaskSound(u)'
    <3>1. u.step = "tell" /\ u.root = t.root /\ kind \in Hosted /\ u.act = t.act /\ u.todo \subseteq Followers
      BY <2>5, <2>13
    <3>2. Rooted(u.root)' BY <1>1, <1>2, <2>2, <3>1, MoreRows DEF TaskSound
    <3>3. \A f \in Followers \ u.todo : Told(f, o)' BY <1>2, <2>5, <2>13 DEF Told
    <3>4. Known(o)' BY <2>2 DEF Known, OfObject
    <3>5. OfObject(o)' \subseteq Here(rows)' BY <2>2, <2>6 DEF Here, OfObject
    <3>6. kind = "hosted community" /\ p \notin Roots => Answered(p)' # {} \/ Astray(o)'
      BY <1>1, <1>2, <2>2, MoreRows DEF TaskSound
    <3>7. \A f \in Followers : heard'[f][o] = 0
      <4>1. ~ Hearable(o) BY <1>2, <1>4 DEF Hearable
      <4>2. \A f \in Followers : heard[f][o] \in Nat /\ ~ (heard[f][o] > 0)
        BY <1>2, <4>1 DEF IInv, HeardSound, TypeOK
      <4> QED BY <1>1, <4>2
    <3>8. t.act.via # "create" => kind \in Mirrored BY <1>2 DEF TaskSound
    <3> QED BY <1>1, <1>2, <3>1, <3>2, <3>3, <3>4, <3>5, <3>6, <3>7, <3>8 DEF TaskSound
  <2>14. RowsTold'
    <3>1. ASSUME kind \in Hosted PROVE Settled(o)'
      <4>1. CASE ToTell(t) = {}
        <5>1. \A f \in Followers : f = AuthorOf[p] BY <3>1, <4>1 DEF ToTell
        <5>2. \A f \in Followers : Told(f, o)' BY <1>2, <5>1 DEF Told
        <5> QED BY <5>2 DEF Settled
      <4>2. CASE ToTell(t) # {}
        <5>1. u \in tasks' /\ u.act.object = o /\ u.step = "tell" BY <2>4, <2>5, <4>2
        <5> QED BY <5>1 DEF Settled
      <4> QED BY <4>1, <4>2
    <3>2. ASSUME NEW r \in Here(rows)' \ rows, kind \in Hosted PROVE Settled(r.object)'
      <4>1. r.object = o BY <2>2 DEF Here
      <4> QED BY <3>1, <3>2, <4>1
    <3> QED BY <1>1, <2>8, <3>2, SettledKept
  <2> QED BY <2>7, <2>8, <2>9, <2>10, <2>11, <2>12, <2>13, <2>14, TaskStep
<1> QED BY <1>3, <1>4 DEF Record

LEMMA ReannounceInv ==
  ASSUME IInv, NEW t \in tasks, NEW f \in Followers, Reannounce(t, f)
  PROVE  IInv'
<1> DEFINE o == t.act.object
           p == t.act.object[1]
<1>1. /\ t.step = "tell" /\ f \in t.todo /\ Announced(f, o)
      /\ UNCHANGED <<rows, pending, lanes, tries, arrived, shown, ghosts, arrivals, raced>>
      /\ UNCHANGED Outside /\ UNCHANGED <<kind, said, banned, troubles, doubled, cut>>
  BY DEF Reannounce, Outside
<1>2. /\ t \in Task /\ TaskSound(t) /\ o \in Objects /\ Post(o) /\ p \in Posts /\ o = <<p, 0>>
      /\ kind \in Hosted /\ t.todo \subseteq Followers /\ Known(o)
      /\ OfObject(o) \subseteq Here(rows) \/ Astray(o)
      /\ \A g \in Followers \ t.todo : Told(g, o)
      /\ \A q \in Posts : shown[q] \in Nat
  <2>1. t \in Task /\ TaskSound(t) /\ o \in Objects /\ t.todo \subseteq Followers BY TaskFacts
  <2>2. /\ Post(o) /\ kind \in Hosted /\ Known(o)
        /\ OfObject(o) \subseteq Here(rows) \/ Astray(o)
        /\ \A g \in Followers \ t.todo : Told(g, o)
    BY <1>1, <2>1 DEF TaskSound
  <2>3. p \in Posts /\ o = <<p, 0>> BY <2>2, TaskFacts
  <2>4. \A q \in Posts : shown[q] \in Nat BY Names DEF IInv, TypeOK
  <2> QED BY <2>1, <2>2, <2>3, <2>4
<1>3. /\ heard' \in [Followers -> [Objects -> Nat]] /\ missed' \subseteq Followers \X Objects
      /\ missed \subseteq missed'
      /\ \A g \in Followers, q \in Objects : g # f \/ q # o => heard'[g][q] = heard[g][q]
      /\ heard'[f][o] = heard[f][o] + 1 \/ heard'[f][o] = heard[f][o]
      /\ heard'[f][o] > 0 \/ <<f, o>> \in missed'
      /\ \A g \in Followers, q \in Objects : heard[g][q] > 0 => heard'[g][q] > 0
  BY <1>1, <1>2, Announces
<1>4. PICK u : u = IF t.todo = {f} THEN t ELSE [t EXCEPT !.todo = @ \ {f}] OBVIOUS
<1>5. /\ t.todo = {f} => u = t /\ tasks' = tasks \ {t}
      /\ t.todo # {f} => u = [t EXCEPT !.todo = @ \ {f}] /\ tasks' = (tasks \ {t}) \cup {u}
  BY <1>4 DEF Reannounce, Ends, Becomes
<1>6. /\ u \in Task /\ u.act = t.act /\ u.step = "tell" /\ u.root = t.root
      /\ u \in tasks' => u.todo = t.todo \ {f}
  BY <1>1, <1>2, <1>5 DEF Task
<1>7. \A g \in Followers \ (t.todo \ {f}) : Told(g, o)' BY <1>2, <1>3 DEF Told
<1>8. StepOf(t, u, o)
  <2>1. TaskFrame BY <1>1, <1>2, <1>3 DEF TaskFrame
  <2>2. AboutOnly(o) BY <1>1, <1>2, <1>3, <2>1 DEF AboutOnly
  <2> QED BY <1>1, <1>5, <1>6, <2>2 DEF StepOf
<1>9. Counts(t, u) BY <1>1, <1>6 DEF Counts
<1>10. ShownOk(o)
  <2>1. \A q \in Posts : o = <<q, 0>> => q = p BY <1>2
  <2>2. o \notin raced \cup cut => shown[p] <= 1 BY <1>2 DEF IInv, ShownSound
  <2>3. \E r \in rows' : r.object = o BY <1>1, <1>2 DEF Known, OfObject
  <2> QED BY <1>1, <2>1, <2>2, <2>3 DEF ShownOk
<1>11. TypeOK' BY <1>1, <1>2, <1>3, <1>5, <1>6 DEF IInv, TypeOK
<1>12. RowsKept' BY <1>1, RowsSame
<1>13. HeardSound'
  <2>1. o \notin raced => heard[f][o] = 0 BY <1>1, <1>2 DEF TaskSound
  <2>2. Hearable(o) BY <1>2 DEF Hearable, Known, Here, OfObject
  <2> QED BY <1>1, <1>2, <1>3, <2>1, <2>2, MoreRows, SameTries, HeardKept
<1>14. ASSUME u \in tasks' PROVE TaskSound(u)'
  <2>1. u.todo = t.todo \ {f} BY <1>6, <1>14
  <2>2. \A g \in Followers \ u.todo : Told(g, o)' BY <1>7, <2>1
  <2>3. Rooted(u.root)' BY <1>1, <1>2, <1>6, MoreRows DEF TaskSound
  <2>4. Known(o)' /\ (OfObject(o)' \subseteq Here(rows)' \/ Astray(o)')
    BY <1>1, <1>2, MoreRows DEF Here, OfObject, Known
  <2>5. kind = "hosted community" /\ p \notin Roots => Answered(p)' # {} \/ Astray(o)'
    BY <1>1, <1>2, MoreRows DEF TaskSound
  <2>6. o \notin raced => \A g \in u.todo : heard'[g][o] = 0
    BY <1>1, <1>2, <1>3, <2>1 DEF TaskSound
  <2>7. t.act.via # "create" => kind \in Mirrored BY <1>2 DEF TaskSound
  <2> QED BY <1>1, <1>2, <1>6, <2>2, <2>3, <2>4, <2>5, <2>6, <2>7 DEF TaskSound
<1>15. RowsTold'
  <2>1. ASSUME NEW q \in Objects, Settled(q) PROVE Settled(q)'
    <3>1. CASE q = o
      <4>1. CASE t.todo = {f} BY <1>7, <3>1, <4>1 DEF Settled
      <4>2. CASE t.todo # {f}
        <5>1. u \in tasks' /\ u.act.object = o /\ u.step = "tell" BY <1>5, <1>6, <4>2
        <5> QED BY <3>1, <5>1 DEF Settled
      <4> QED BY <4>1, <4>2
    <3>2. CASE q # o
      <4>1. \A g \in Followers : Told(g, q) => Told(g, q)' BY <1>3, <3>2 DEF Told
      <4>2. \A x \in tasks : x.act.object = q => x \in tasks' BY <1>5, <3>2
      <4> QED BY <1>1, <2>1, <4>1, <4>2 DEF Settled
    <3> QED BY <3>1, <3>2
  <2>2. \A r \in Here(rows)' : r \in rows BY <1>1 DEF Here
  <2> QED BY <1>1, <2>1, <2>2, ToldKept
<1> QED BY <1>8, <1>9, <1>10, <1>11, <1>12, <1>13, <1>14, <1>15, TaskStep

-------------------------------------------------------------------------------
LEMMA JobSound ==
  ASSUME IInv, NEW act \in Activity, Sendable(act), NEW job \in JobsOf(act)
  PROVE  /\ job \in Task /\ job.act = act /\ job.step = "ghost" /\ Rooted(job.root)
         /\ act.via # "create" => kind \in Mirrored
         /\ ~ Post(act.object) => job.root = NoEvent
         /\ kind = "hosted community" /\ act.object[1] \notin Roots => Answered(act.object[1]) # {}
<1>1. PICK root : job = Job(act, root) /\ root \in Events \cup {NoEvent} /\ Rooted(root)
                  /\ (act.object \in Own => root = NoEvent)
  <2>1. Rooted(NoEvent) BY DEF Rooted
  <2>2. ASSUME NEW j \in Replies(act)
        PROVE  \E root : j = Job(act, root) /\ root \in Events \cup {NoEvent} /\ Rooted(root)
    <3>1. PICK r \in Answered(act.object[1]) : j = Job(act, ThreadOf(r)) BY DEF Replies
    <3>2. r \in Here(rows) BY DEF Answered, Here, OfObject
    <3> QED BY <3>1, <3>2, ThreadRooted
  <2>3. ASSUME NEW j \in Threads(act)
        PROVE  \E root : j = Job(act, root) /\ root \in Events \cup {NoEvent} /\ Rooted(root)
    BY <2>1, <2>2 DEF Threads
  <2>4. CASE act.via = "announce"
    <3>1. job \in AnnounceJobs(act) BY <2>4 DEF JobsOf
    <3> QED BY <2>1, <2>3, <3>1 DEF AnnounceJobs
  <2>5. CASE act.via = "backfill"
    <3>1. job \in BackfillJobs(act) /\ act.object \notin Own BY <2>5 DEF JobsOf, Sendable
    <3>2. ASSUME NEW r \in Here(rows), r.root = NoEvent PROVE Rooted(r.event) /\ r.event \in Events
      BY <3>2, RowFacts DEF Rooted, Here
    <3>3. \/ job = Job(act, NoEvent) \/ job \in Replies(act)
          \/ \E r \in Here(rows) : r.root = NoEvent /\ job = Job(act, r.event)
      BY <3>1 DEF BackfillJobs
    <3> QED BY <2>1, <2>2, <3>1, <3>2, <3>3
  <2>6. CASE act.via = "create"
    <3>1. job \in CreateJobs(act) /\ act.object \notin Own BY <2>6 DEF JobsOf, Sendable
    <3>2. job \in Replies(act) \/ job \in Threads(act) BY <3>1 DEF CreateJobs, HostedJobs
    <3> QED BY <2>2, <2>3, <3>1, <3>2
  <2> QED BY <2>4, <2>5, <2>6 DEF Activity
<1>2. /\ job = [act |-> act, step |-> "ghost", root |-> root, copy |-> 0, todo |-> {}]
      /\ 0 \in 0..MaxArrivals
  BY <1>1, Names DEF Job
<1>3. job \in Task BY <1>1, <1>2 DEF Task
<1>4. act.via # "create" => kind \in Mirrored BY DEF Sendable, Activity
<1>5. kind = "hosted community" /\ act.object[1] \notin Roots => Answered(act.object[1]) # {}
  <2> SUFFICES ASSUME kind = "hosted community", act.object[1] \notin Roots PROVE Answered(act.object[1]) # {}
    OBVIOUS
  <2>1. act.via = "create" BY <1>4 DEF Mirrored
  <2>2. job \in CreateJobs(act) BY <2>1 DEF JobsOf
  <2>3. job \in Replies(act) BY <2>2 DEF CreateJobs, HostedJobs, Hosted
  <2> QED BY <2>3 DEF Replies
<1>6. ~ Post(act.object) => act.object \in Own BY DEF Post
<1>7. job.act = act /\ job.step = "ghost" /\ job.root = root BY <1>2
<1>8. Rooted(job.root) BY <1>1, <1>7
<1> QED BY <1>1, <1>3, <1>4, <1>5, <1>6, <1>7, <1>8

LEMMA BeginInv ==
  ASSUME IInv, NEW act \in Activity, Begin(act)
  PROVE  IInv'
<1> DEFINE o == act.object
<1>1. /\ arrivals < MaxArrivals /\ Sendable(act) /\ ~ Known(o) /\ arrivals' = arrivals + 1
      /\ \A t \in tasks : t.act # act
      /\ raced' = IF About(o) # {} THEN raced \cup {o} ELSE raced
      /\ UNCHANGED <<rows, pending, lanes, tries, arrived, shown, heard, missed, ghosts>>
      /\ UNCHANGED Outside /\ UNCHANGED <<kind, said, banned, troubles, doubled, cut>>
  BY DEF Begin, Outside
<1>2. PICK job \in JobsOf(act) : tasks' = tasks \cup {job} BY DEF Begin
<1>3. /\ job \in Task /\ job.act = act /\ job.step = "ghost" /\ Rooted(job.root) /\ o \in Objects
      /\ act.via # "create" => kind \in Mirrored
      /\ ~ Post(o) => job.root = NoEvent
      /\ kind = "hosted community" /\ o[1] \notin Roots => Answered(o[1]) # {}
  BY <1>1, JobSound DEF Activity
<1>4. /\ \A p \in Posts : shown[p] \in Nat
      /\ arrivals \in Nat /\ MaxArrivals \in Nat /\ arrivals + 1 \in 0..MaxArrivals
      /\ raced \subseteq raced' /\ raced' \subseteq Objects
  <2>1. /\ \A p \in Posts : shown[p] \in Nat
        /\ arrivals \in 0..MaxArrivals /\ MaxArrivals \in Nat /\ raced \subseteq Objects
    BY Names DEF IInv, TypeOK
  <2>2. raced \subseteq raced' /\ raced' \subseteq Objects BY <1>1, <1>3, <2>1
  <2>3. arrivals + 1 \in 0..MaxArrivals /\ arrivals \in Nat BY <1>1, <2>1
  <2> QED BY <2>1, <2>2, <2>3
<1>5. \A t \in tasks : t.act.object # o \/ o \in raced' BY <1>1 DEF About
<1>6. TaskFrame BY <1>1 DEF TaskFrame
<1>7. AboutOnly(o) BY <1>1, <1>4, <1>6 DEF AboutOnly
<1>8. \A t \in tasks : TaskSound(t)' BY <1>5, <1>7, OthersKept
<1>9. TaskSound(job)'
  <2>1. Rooted(job.root)' BY <1>1, <1>3, MoreRows
  <2>2. OfObject(o)' = {} /\ ~ Known(o)' BY <1>1 DEF Known, OfObject
  <2>3. Answered(o[1])' = Answered(o[1]) BY <1>1 DEF Answered, Here, OfObject
  <2>4. Post(o) /\ o \notin raced' /\ o \notin cut => shown'[o[1]] = 0
    <3> SUFFICES ASSUME Post(o), o \notin raced', o \notin cut PROVE shown[o[1]] = 0
      BY <1>1
    <3>1. o[1] \in Posts /\ o = <<o[1], 0>> BY <1>3, Names
    <3>2. About(o) = {} /\ o \notin raced BY <1>1
    <3>3. /\ shown[o[1]] <= 1
          /\ shown[o[1]] = 1 => Known(o) \/ \E t \in tasks : t.act.object = o /\ t.step = "record"
      BY <3>1, <3>2 DEF IInv, ShownSound
    <3>4. shown[o[1]] # 1 BY <1>1, <3>2, <3>3 DEF About
    <3> QED BY <1>4, <3>1, <3>3, <3>4
  <2> QED BY <1>1, <1>3, <2>1, <2>2, <2>3, <2>4 DEF TaskSound, Post
<1>10. TasksApart'
  <2>1. \A t \in tasks : t.act # job.act BY <1>1, <1>3
  <2>2. \A t \in tasks : t.act.object # job.act.object \/ o \in raced' BY <1>3, <1>5
  <2> QED BY <1>2, <1>3, <1>4, <2>1, <2>2 DEF IInv, TasksApart
<1>11. ShownSound'
  <2>1. \A q : Known(q)' <=> Known(q) BY <1>1 DEF Known, OfObject
  <2> QED BY <1>1, <1>2, <1>4, <2>1 DEF IInv, ShownSound
<1>12. Counted'
  <2>1. IsFiniteSet(tasks) /\ IsFiniteSet(tasks') BY <1>2, FS_AddElement DEF IInv, Counted
  <2>2. ASSUME NEW p \in Posts PROVE shown'[p] + Cardinality(Unsent(p)') <= arrivals'
    <3>1. Unsent(p) \subseteq tasks /\ Unsent(p)' \subseteq Unsent(p) \cup {job}
      BY <1>2 DEF Unsent
    <3>2. IsFiniteSet(Unsent(p)) BY <2>1, <3>1, FS_Subset
    <3>3. IsFiniteSet(Unsent(p) \cup {job}) BY <3>2, FS_AddElement
    <3>4. IsFiniteSet(Unsent(p)') /\ Cardinality(Unsent(p)') <= Cardinality(Unsent(p) \cup {job})
      BY <3>1, <3>3, FS_Subset
    <3>5. Cardinality(Unsent(p)) \in Nat /\ Cardinality(Unsent(p)') \in Nat
          /\ Cardinality(Unsent(p) \cup {job}) \in Nat
      BY <3>2, <3>3, <3>4, FS_CardinalityType
    <3>6. Cardinality(Unsent(p) \cup {job}) = IF job \in Unsent(p) THEN Cardinality(Unsent(p)) ELSE Cardinality(Unsent(p)) + 1
      BY <3>2, FS_AddElement
    <3>7. shown[p] + Cardinality(Unsent(p)) <= arrivals BY DEF IInv, Counted
    <3> QED BY <1>1, <1>4, <3>4, <3>5, <3>6, <3>7
  <2> QED BY <2>1, <2>2 DEF Counted
<1>13. TypeOK' BY <1>1, <1>2, <1>3, <1>4 DEF IInv, TypeOK
<1>14. RowsKept' BY <1>1, RowsSame
<1>15. HeardSound' BY <1>1, <1>4, MoreRows, SameTries, HeardKept
<1>16. RowsTold'
  <2>1. ASSUME NEW q \in Objects, Settled(q) PROVE Settled(q)'
    <3>1. \A f \in Followers : Told(f, q) => Told(f, q)' BY <1>1 DEF Told
    <3> QED BY <1>1, <1>2, <2>1, <3>1 DEF Settled
  <2>2. \A r \in Here(rows)' : r \in rows BY <1>1 DEF Here
  <2> QED BY <1>1, <2>1, <2>2, ToldKept
<1> QED BY <1>2, <1>6, <1>8, <1>9, <1>10, <1>11, <1>12, <1>13, <1>14, <1>15, <1>16, LanesKept DEF IInv

LEMMA ElsewhereInv ==
  ASSUME IInv, NEW p \in Posts, Elsewhere(p)
  PROVE  IInv'
<1>o. PICK o \in Objects : o = <<p, 0>> /\ Post(o) BY Names
<1>n. PICK new : new = [event |-> o, object |-> o, root |-> NoEvent] OBVIOUS
<1>1. /\ arrivals < MaxArrivals /\ ~ Known(o) /\ arrivals' = arrivals + 1
      /\ rows' = rows \cup {new}
      /\ raced' = IF About(o) # {} THEN raced \cup {o} ELSE raced
      /\ UNCHANGED <<pending, lanes, tries, arrived, shown, tasks, heard, missed, ghosts>>
      /\ UNCHANGED Outside /\ UNCHANGED <<kind, said, banned, troubles, doubled, cut>>
  BY <1>o, <1>n DEF Elsewhere, Outside
<1>2. /\ o \in Objects /\ Post(o) /\ o \in Elsewheres /\ o \notin Messages \X {0} /\ o \notin Copies
      /\ new \in Row /\ new.event = o /\ new.object = o /\ new.root = NoEvent
  <2>1. o \in Elsewheres BY <1>o DEF Elsewheres
  <2>2. o \notin Messages \X {0} /\ o \notin Copies BY <2>1, Names
  <2> QED BY <1>o, <1>n, <2>1, <2>2 DEF Row
<1>3. /\ \A q \in Posts : shown[q] \in Nat
      /\ arrivals \in Nat /\ MaxArrivals \in Nat /\ arrivals + 1 \in 0..MaxArrivals
      /\ raced \subseteq raced' /\ raced' \subseteq Objects
  <2>1. /\ \A q \in Posts : shown[q] \in Nat
        /\ arrivals \in 0..MaxArrivals /\ MaxArrivals \in Nat /\ raced \subseteq Objects
    BY Names DEF IInv, TypeOK
  <2>2. raced \subseteq raced' /\ raced' \subseteq Objects BY <1>1, <1>2, <2>1
  <2>3. arrivals + 1 \in 0..MaxArrivals /\ arrivals \in Nat BY <1>1, <2>1
  <2> QED BY <2>1, <2>2, <2>3
<1>c. CreateJobs([via |-> "create", object |-> o]) = {} BY <1>o DEF Elsewhere
<1>4. kind \in Hosted /\ ~ Astray(o) => About(o) = {}
  <2> SUFFICES ASSUME kind \in Hosted, ~ Astray(o), NEW t \in tasks, t.act.object = o PROVE FALSE
    BY DEF About
  <2>c. PICK create : create = [via |-> "create", object |-> o] OBVIOUS
  <2>o. create.object[1] = p BY <1>o, <2>c
  <2>1. HostedJobs(create) = {} BY <1>c, <2>c DEF CreateJobs
  <2>2. Threads(create) # {} BY DEF Threads
  <2>3. kind = "hosted community" /\ create.object[1] \notin Roots /\ Replies(create) = {}
    BY <2>1, <2>2 DEF HostedJobs
  <2>4. Answered(p) = {} /\ p \notin Roots BY <2>o, <2>3 DEF Replies
  <2>5. TaskSound(t) /\ t.act.object[1] = p /\ Post(t.act.object) BY <1>o DEF IInv
  <2> QED BY <2>3, <2>4, <2>5 DEF TaskSound
<1>5. \A t \in tasks : t.act.object # o \/ o \in raced' BY <1>1 DEF About
<1>6. TaskFrame BY <1>1, <1>2 DEF TaskFrame
<1>7. AboutOnly(o)
  <2>1. \A r \in rows' \ rows : r.object = o /\ (kind \in Hosted /\ About(o) # {} /\ ~ Astray(o) => r.event \notin Elsewheres)
    BY <1>1, <1>2, <1>4
  <2>2. \A q \in Posts : shown[q] <= shown'[q] /\ shown'[q] \in Nat /\ shown'[q] = shown[q]
    BY <1>1, <1>3
  <2> QED BY <1>1, <1>3, <1>6, <2>1, <2>2 DEF AboutOnly
<1>8. (\A t \in tasks : TaskSound(t))' BY <1>1, <1>5, <1>7, OthersKept
<1>9. TasksApart' BY <1>1, <1>3 DEF IInv, TasksApart
<1>10. ShownSound'
  <2>1. \A q : Known(q) => Known(q)' BY <1>1, MoreRows
  <2> QED BY <1>1, <1>3, <2>1 DEF IInv, ShownSound
<1>11. Counted'
  <2>1. ASSUME NEW q \in Posts PROVE shown'[q] + Cardinality(Unsent(q)') <= arrivals'
    <3>1. Unsent(q)' = Unsent(q) BY <1>1 DEF Unsent
    <3>2. Unsent(q) \subseteq tasks /\ IsFiniteSet(tasks) BY DEF Unsent, IInv, Counted
    <3>3. IsFiniteSet(Unsent(q)) BY <3>2, FS_Subset
    <3>5. Cardinality(Unsent(q)) \in Nat BY <3>3, FS_CardinalityType
    <3>4. shown[q] + Cardinality(Unsent(q)) <= arrivals BY DEF IInv, Counted
    <3> QED BY <1>1, <1>3, <3>1, <3>5, <3>4
  <2> QED BY <1>1, <2>1 DEF IInv, Counted
<1>12. TypeOK' BY <1>1, <1>2, <1>3 DEF IInv, TypeOK
<1>13. RowsKept'
  <2>1. ASSUME NEW r \in rows PROVE r.event # o /\ r.object # o
    <3>1. Shaped(r) BY DEF IInv, RowsKept
    <3>2. r.event = o => r.object = o BY <1>2, <3>1 DEF Shaped, OwnShape
    <3> QED BY <1>1, <3>2 DEF Known, OfObject
  <2>2. Shaped(new)' BY <1>2 DEF Shaped
  <2>3. Rooted(new.root)' BY <1>2 DEF Rooted
  <2>4. \A s \in rows' : new.event = s.event \/ new.object = s.object => new = s
    BY <1>1, <1>2, <2>1
  <2>5. \A r \in rows' \ rows : r = new BY <1>1
  <2> QED BY <1>1, <1>3, <2>2, <2>3, <2>4, <2>5, MoreRows, RowsGrow
<1>14. HeardSound' BY <1>1, <1>3, MoreRows, SameTries, HeardKept
<1>15. RowsTold'
  <2>1. ASSUME NEW q \in Objects, Settled(q) PROVE Settled(q)'
    <3>1. \A f \in Followers : Told(f, q) => Told(f, q)' BY <1>1 DEF Told
    <3> QED BY <1>1, <2>1, <3>1 DEF Settled
  <2>2. \A r \in Here(rows)' : r \in rows BY <1>1, <1>2 DEF Here
  <2> QED BY <1>1, <2>1, <2>2, ToldKept
<1> QED BY <1>6, <1>8, <1>9, <1>10, <1>11, <1>12, <1>13, <1>14, <1>15, LanesKept DEF IInv


-------------------------------------------------------------------------------
LEMMA BanInv ==
  ASSUME IInv, NEW a \in Authors, Ban(a)
  PROVE  IInv'
<1>1. /\ a \in ghosts /\ banned' = banned \cup {a}
      /\ UNCHANGED <<kind, rows, said, pending, lanes, tries, arrived, heard, missed, troubles, doubled, cut>>
      /\ UNCHANGED Inbound /\ UNCHANGED <<shown, tasks, ghosts, arrivals, raced>>
  BY DEF Ban, Bannable, Inbound
<1>2. TypeOK' BY <1>1 DEF IInv, TypeOK
<1>3. QueueSound' BY <1>1 DEF IInv, QueueSound
<1> QED BY <1>1, <1>2, <1>3, Still

LEMMA CrashInv ==
  ASSUME IInv, Crash
  PROVE  IInv'
<1>1. /\ troubles < MaxTroubles /\ lanes' = {} /\ tasks' = {} /\ troubles' = troubles + 1
      /\ cut' = cut \cup Cut
      /\ UNCHANGED <<kind, rows, said, pending, tries, arrived, shown, heard, missed, ghosts, banned,
                     arrivals, raced, doubled>>
  BY DEF Crash
<1>2. cut \subseteq cut' /\ (\A t \in tasks : t.act.object \in cut') /\ (\A l \in lanes : l.object \in cut')
  BY <1>1 DEF Cut
<1>3. cut' \subseteq Objects
  <2>1. \A t \in tasks : t.act.object \in Objects BY TaskFacts
  <2>2. \A l \in lanes : l.object \in Objects BY LaneFacts
  <2> QED BY <1>1, <2>1, <2>2 DEF IInv, TypeOK, Cut
<1>4. troubles \in Nat /\ troubles + 1 \in 0..MaxTroubles BY <1>1, Names DEF IInv, TypeOK
<1>5. TypeOK' BY <1>1, <1>3, <1>4 DEF IInv, TypeOK
<1>6. QueueSound'
  <2>1. pending \in Seq(Messages) /\ Len(pending) \in Nat BY DEF IInv, TypeOK
  <2>2. \A m \in Messages : tries[m] \in Nat /\ tries[m] <= troubles + 1 BY Tried
  <2>3. \A i \in 1..Len(pending) : pending[i] \in Messages BY <2>1
  <2> QED BY <1>1, <1>4, <2>1, <2>2, <2>3 DEF IInv, QueueSound
<1>7. (\A l \in lanes : LaneSound(l))' /\ LanesApart' BY <1>1 DEF LanesApart
<1>8. RowsKept' BY <1>1, RowsSame
<1>r. RowsGo BY <1>1 DEF RowsGo
<1>9. ArrivedSound' BY <1>1, <1>2, <1>r, SameTries, ArrivedKept
<1>10. (\A t \in tasks : TaskSound(t))' /\ TasksApart' BY <1>1 DEF TasksApart
<1>11. ShownSound'
  <2>1. \A o : Known(o) => Known(o)' BY <1>1, MoreRows
  <2> QED BY <1>1, <1>2, <2>1 DEF IInv, ShownSound
<1>12. Counted'
  <2>1. IsFiniteSet({}) /\ Cardinality({}) = 0 BY FS_EmptySet
  <2>2. ASSUME NEW p \in Posts PROVE shown'[p] + Cardinality(Unsent(p)') <= arrivals'
    <3>1. Unsent(p)' = {} BY <1>1 DEF Unsent
    <3>2. Unsent(p) \subseteq tasks /\ IsFiniteSet(tasks) BY DEF Unsent, IInv, Counted
    <3>3. IsFiniteSet(Unsent(p)) BY <3>2, FS_Subset
    <3>4. Cardinality(Unsent(p)) \in Nat BY <3>3, FS_CardinalityType
    <3>5. shown[p] + Cardinality(Unsent(p)) <= arrivals /\ shown[p] \in Nat /\ arrivals \in Nat
      BY Names DEF IInv, Counted, TypeOK
    <3> QED BY <1>1, <2>1, <3>1, <3>4, <3>5
  <2> QED BY <1>1, <2>1, <2>2 DEF Counted
<1>13. HeardSound' BY <1>1, <1>r, SameTries, HeardKept
<1>14. RowsTold'
  <2>1. ASSUME NEW o \in Objects, Settled(o) PROVE Settled(o)'
    <3>1. \A f \in Followers : Told(f, o) => Told(f, o)' BY <1>1 DEF Told
    <3> QED BY <1>1, <1>2, <2>1, <3>1 DEF Settled
  <2>2. \A r \in Here(rows)' : r \in rows BY <1>1 DEF Here
  <2> QED BY <1>1, <2>1, <2>2, ToldKept
<1> QED BY <1>5, <1>6, <1>7, <1>8, <1>9, <1>10, <1>11, <1>12, <1>13, <1>14 DEF IInv

LEMMA InitInv == Init => IInv
<1> SUFFICES ASSUME Init PROVE IInv
  OBVIOUS
<1>1. /\ kind \in Kinds /\ rows = {} /\ said = [m \in Messages |-> Unsaid] /\ pending = <<>> /\ lanes = {}
      /\ tries = [m \in Messages |-> 0] /\ arrived = [o \in Own |-> 0]
      /\ shown = [p \in Posts |-> 0] /\ tasks = {}
      /\ heard = [f \in Followers |-> [o \in Objects |-> 0]] /\ missed = {}
      /\ ghosts = {} /\ banned = {} /\ arrivals = 0 /\ troubles = 0 /\ raced = {} /\ doubled = {} /\ cut = {}
  BY DEF Init
<1>2. 0 \in 0..MaxArrivals /\ 0 \in 0..MaxTroubles BY Names
<1>3. TypeOK BY <1>1, <1>2 DEF TypeOK
<1>4. QueueSound /\ RowsKept BY <1>1 DEF QueueSound, RowsKept
<1>5. ArrivedSound
  <2>1. \A m \in Messages, i \in Attempts : arrived[<<m, i>>] = 0 BY <1>1, Names
  <2> QED BY <2>1 DEF ArrivedSound
<1>6. /\ (\A t \in tasks : TaskSound(t)) /\ TasksApart
      /\ (\A l \in lanes : LaneSound(l)) /\ LanesApart
  BY <1>1 DEF TasksApart, LanesApart
<1>7. ShownSound BY <1>1 DEF ShownSound
<1>8. Counted
  <2>1. \A p \in Posts : Unsent(p) = {} /\ shown[p] = 0 BY <1>1 DEF Unsent
  <2>2. IsFiniteSet({}) /\ Cardinality({}) = 0 BY FS_EmptySet
  <2>3. \A p \in Posts : shown[p] + Cardinality(Unsent(p)) <= arrivals
    <3>1. arrivals = 0 BY <1>1
    <3>2. ASSUME NEW p \in Posts PROVE shown[p] = 0 /\ Cardinality(Unsent(p)) = 0 BY <2>1, <2>2
    <3> QED BY <3>1, <3>2
  <2> QED BY <1>1, <2>2, <2>3 DEF Counted
<1>9. HeardSound BY <1>1 DEF HeardSound
<1>10. RowsTold BY <1>1 DEF RowsTold, Here
<1> QED BY <1>3, <1>4, <1>5, <1>6, <1>7, <1>8, <1>9, <1>10 DEF IInv

LEMMA NextInv == IInv /\ [Next]_vars => IInv'
<1> SUFFICES ASSUME IInv, [Next]_vars PROVE IInv'
  OBVIOUS
<1>1. CASE Take
  <2>1. CASE DistributeMirrored BY <2>1, DistributeInv DEF DistributeMirrored
  <2>2. CASE DistributeChannel BY <2>2, DistributeInv DEF DistributeChannel
  <2>3. CASE DistributeHosted BY <2>3, DistributeInv DEF DistributeHosted
  <2> QED BY <1>1, <2>1, <2>2, <2>3, SkipInv DEF Take
<1>2. CASE \E l \in lanes : GoOn(l)
  <2>1. PICK l \in lanes : GoOn(l) BY <1>2
  <2>2. CASE \E f \in Followers : TellFollower(l, f) BY <2>2, TellFollowerInv
  <2> QED BY <2>1, <2>2, RowFirstInv, DeliverInv, KeepInv DEF GoOn
<1>3. CASE \E t \in tasks : Work(t)
  <2>1. PICK t \in tasks : Work(t) BY <1>3
  <2>2. CASE \E f \in Followers : Reannounce(t, f) BY <2>2, ReannounceInv
  <2> QED BY <2>1, <2>2, GhostInv, SendInv, RecordInv DEF Work
<1>4. CASE Elsewhen
  <2>1. CASE \E m \in Messages, who \in Writers, e \in Events \cup {NoEvent} : Say(m, who, e)
    BY <2>1, SayInv
  <2>2. CASE \E act \in Activity : Begin(act) BY <2>2, BeginInv
  <2>3. CASE \E p \in Posts : Elsewhere(p) BY <2>3, ElsewhereInv
  <2>4. CASE \E a \in Authors : Ban(a) BY <2>4, BanInv
  <2> QED BY <1>4, <2>1, <2>2, <2>3, <2>4 DEF Elsewhen
<1>5. CASE UNCHANGED vars
  <2>1. UNCHANGED <<kind, rows, said, pending, lanes, tries, arrived, shown, tasks, heard, missed,
                    ghosts, banned, arrivals, troubles, raced, doubled, cut>>
    BY <1>5 DEF vars
  <2>2. TypeOK' /\ QueueSound' BY <2>1 DEF IInv, TypeOK, QueueSound
  <2>3. UNCHANGED Inbound BY <2>1 DEF Inbound
  <2>4. troubles \in Nat BY Names DEF IInv, TypeOK
  <2> QED BY <2>1, <2>2, <2>3, <2>4, Still
<1> QED BY <1>1, <1>2, <1>3, <1>4, <1>5, CrashInv DEF Next, Handle

LEMMA Inductive == Spec => []IInv
BY InitInv, NextInv, PTL DEF Spec

-------------------------------------------------------------------------------
\* Rows, queue and handlers are sound, threads are flat - but for a message two
\* requests sent - and nothing of ours is mirrored back by a ghost.
THEOREM SharedRoomsSound == Spec => []RelaysInv
<1>1. IInv => RelaysInv
  <2> SUFFICES ASSUME IInv PROVE RelaysInv
    OBVIOUS
  <2>1. RowsSound
    <3>1. \A l \in lanes, i \in 1..Len(pending) : pending[i] = l.object[1] => i = 1
      BY DEF IInv, QueueSound
    <3>2. \A r, s \in rows : r.event = s.event \/ r.object = s.object => r = s BY DEF IInv, RowsKept
    <3>3. \A t \in tasks : t.step = "record" => t.copy \in 1..shown[t.act.object[1]]
      BY DEF IInv, TaskSound
    <3> QED BY <3>1, <3>2, <3>3 DEF RowsSound
  <2>2. ThreadsFlat
    <3> SUFFICES ASSUME NEW r \in Here(rows), r.root # NoEvent
                 PROVE  \E s \in Here(rows) : s.event = r.root /\ (s.root = NoEvent \/ s.event[1] \in doubled)
      BY DEF ThreadsFlat
    <3>1. Rooted(r.root) BY DEF Here, IInv, RowsKept
    <3> QED BY <3>1 DEF Rooted
  <2>3. NoEcho BY DEF NoEcho, IInv, TaskSound, Ours, Post
  <2> QED BY <2>1, <2>2, <2>3 DEF RelaysInv, IInv
<1> QED BY <1>1, Inductive, PTL

\* A post is in the room once, whichever way and however often it comes, unless
\* two activities were at it at once or a restart ended its handling.
THEOREM PostsShownOnce == Spec => []ShownOnce
<1>1. IInv => ShownOnce BY DEF IInv, ShownSound, ShownOnce
<1> QED BY <1>1, Inductive, PTL

\* The row of a message one request sent is of its last attempt.
LEMMA LastAttempt ==
  ASSUME IInv, NEW m \in Messages \ doubled, NEW i \in Attempts, Known(<<m, i>>)
  PROVE  i = tries[m]
<1>1. PICK r \in rows : r.object = <<m, i>> BY DEF Known, OfObject
<1>2. ~ Post(<<m, i>>) BY Names DEF Post
<1>3. OwnShape(r) BY <1>1, <1>2, RowFacts
<1>4. r.event[1] = m /\ r.object[2] = i BY <1>1, <1>3 DEF OwnShape
<1> QED BY <1>3, <1>4 DEF OwnShape

LEMMA AtMostOne ==
  ASSUME NEW S, NEW x, S \subseteq {x}
  PROVE  Cardinality(S) <= 1
<1>1. IsFiniteSet({x}) /\ Cardinality({x}) = 1 BY FS_Singleton
<1>2. Cardinality(S) <= Cardinality({x}) BY <1>1, FS_Subset
<1> QED BY <1>1, <1>2

\* Nobody hears twice of one message or post, restarts included, unless a second
\* request found no row while the first was on its way; a mirrored room's actor
\* gets a message twice only so or after a restart.
THEOREM NobodyToldTwice == Spec => []ToldOnce
<1>1. IInv => ToldOnce
  <2> SUFFICES ASSUME IInv PROVE ToldOnce
    OBVIOUS
  <2>1. ASSUME NEW m \in Messages \ doubled, NEW f \in Followers
        PROVE  Cardinality({i \in Attempts : heard[f][<<m, i>>] > 0}) <= 1
    <3>1. ASSUME NEW i \in Attempts, heard[f][<<m, i>>] > 0 PROVE i = tries[m]
      <4>1. <<m, i>> \in Objects /\ ~ Post(<<m, i>>) BY Names DEF Post
      <4>2. Hearable(<<m, i>>) BY <3>1, <4>1 DEF IInv, HeardSound
      <4>3. Known(<<m, i>>) BY <4>1, <4>2 DEF Hearable
      <4> QED BY <4>3, LastAttempt
    <3>2. {i \in Attempts : heard[f][<<m, i>>] > 0} \subseteq {tries[m]} BY <3>1
    <3> QED BY <3>2, AtMostOne
  <2>2. \A f \in Followers, o \in Objects : o \notin raced => heard[f][o] <= 1
    BY DEF IInv, HeardSound
  <2>3. ASSUME NEW m \in Messages \ doubled, kind = "channel"
        PROVE  Cardinality({i \in Attempts : arrived[<<m, i>>] > 0}) <= 1
    <3>1. \A i \in Attempts : arrived[<<m, i>>] > 0 => i = tries[m]
      BY <2>3, LastAttempt DEF IInv, ArrivedSound
    <3>2. {i \in Attempts : arrived[<<m, i>>] > 0} \subseteq {tries[m]} BY <3>1
    <3> QED BY <3>2, AtMostOne
  <2>4. ASSUME NEW m \in Messages \ doubled, NEW i \in Attempts, NEW j \in Attempts,
               i < j, arrived[<<m, i>>] > 0, arrived[<<m, j>>] > 0
        PROVE  <<m, i>> \in cut
    <3>1. j <= tries[m] BY <2>4 DEF IInv, ArrivedSound
    <3>2. i # tries[m]
      <4>1. i \in Nat /\ j \in Nat /\ tries[m] \in Nat BY Names, Tried
      <4> QED BY <2>4, <3>1, <4>1
    <3>3. ~ Known(<<m, i>>) BY <3>2, LastAttempt
    <3>4. ASSUME NEW l \in lanes PROVE l.object # <<m, i>>
      <4>1. l.object[1] \notin doubled => l.object[2] = tries[l.object[1]] BY LaneFacts DEF LaneSound
      <4> QED BY <3>2, <4>1
    <3> QED BY <2>4, <3>3, <3>4 DEF IInv, ArrivedSound
  <2> QED BY <2>1, <2>2, <2>3, <2>4 DEF ToldOnce
<1> QED BY <1>1, Inductive, PTL

\* Followers of a hosted room hear only of what is in the room, but for answers
\* to a message two requests sent; and of all of it, but for deliveries that
\* failed, restarts, and their own posts.
THEOREM FollowersHearTheRoom == Spec => []RoomFirst
<1>1. IInv => RoomFirst
  <2> SUFFICES ASSUME IInv PROVE RoomFirst
    OBVIOUS
  <2>1. ASSUME NEW f \in Followers, NEW o \in Objects, heard[f][o] > 0
        PROVE  InRoom(o) \/ Astray(o)
    <3>1. Hearable(o) BY <2>1 DEF IInv, HeardSound
    <3>2. Here(OfObject(o)) # {} => InRoom(o)
      <4> SUFFICES ASSUME NEW r \in Here(OfObject(o)) PROVE InRoom(o)
        OBVIOUS
      <4>1. r \in rows /\ r.event \notin Elsewheres BY DEF Here, OfObject
      <4>2. Shaped(r) BY <4>1 DEF IInv, RowsKept
      <4>3. r.event \in Messages \X {0} \/ r.event[2] <= shown[r.event[1]]
        BY <4>1, <4>2 DEF Shaped, OwnShape
      <4> QED BY <4>3 DEF InRoom
    <3>3. CASE Post(o) BY <3>1, <3>2, <3>3 DEF Hearable
    <3>4. CASE ~ Post(o) /\ Known(o)
      <4>1. PICK r \in OfObject(o) : r \in rows /\ r.object = o BY <3>4 DEF Known, OfObject
      <4>2. r.event \notin Elsewheres BY <3>4, <4>1, RowFacts
      <4>3. r \in Here(OfObject(o)) BY <4>1, <4>2 DEF Here
      <4> QED BY <3>2, <4>3
    <3>5. CASE ~ Post(o) /\ ~ Known(o)
      <4>1. o[1] \in doubled /\ OfEvent(<<o[1], 0>>) # {} BY <3>1, <3>5 DEF Hearable
      <4> QED BY <3>5, <4>1 DEF InRoom, Ours, Post
    <3> QED BY <3>3, <3>4, <3>5
  <2>2. ASSUME NEW r \in Here(rows), kind \in Hosted, r.object \notin cut, About(r.object) = {},
               \A l \in lanes : l.object # r.object, NEW f \in Followers
        PROVE  \/ heard[f][r.object] > 0 \/ <<f, r.object>> \in missed
               \/ (~ Ours(r.object) /\ f = AuthorOf[r.object[1]])
    <3>1. Settled(r.object) BY <2>2 DEF IInv, RowsTold
    <3>2. Told(f, r.object) BY <2>2, <3>1 DEF Settled, About
    <3> QED BY <3>2 DEF Told, Ours, Post
  <2> QED BY <2>1, <2>2 DEF RoomFirst
<1> QED BY <1>1, Inductive, PTL
================================================================================
