------------------------ MODULE IdentityRegistry_proofs ------------------------
(***************************************************************************)
(* Theorems about the identity registry for any users, names and rooms and *)
(* any tasks beside each other: whoever has identities acts as exactly one *)
(* of them, rooms and history stay sound, and no command changes the keys, *)
(* the owner or the room of an identity it is not about.  Nothing is said  *)
(* of a name that two tasks were at, at once, or of a room that two tasks  *)
(* linked at once; that the tasks which meet are no harm to anything else, *)
(* and to the history not at all, is most of the argument.                 *)
(***************************************************************************)
EXTENDS IdentityRegistry, TLAPS

-------------------------------------------------------------------------------
\* What the store answers.

\* Names that are not registered are nobody's identity.
LEMMA IdsPresent ==
  ASSUME NEW u \in Users, NEW n \in Ids(u)
  PROVE  n \in Usernames /\ Present(n) /\ actor[n].owner = u
  BY DEF Ids

\* get_active_local_actor finds one of the user's identities if there is one.
LEMMA GetActiveSound ==
  ASSUME ActiveOwned, ActiveExplicit, NEW u \in Users, ~Contested(u)
  PROVE  /\ GetActive(u) \in Ids(u) \cup {NoName}
         /\ Ids(u) # {} => GetActive(u) # NoName
<1>1. CASE active[u] # NoName
  <2>1. active[u] \in Ids(u) BY <1>1 DEF ActiveOwned, Contested
  <2>2. Present(active[u]) BY <2>1, IdsPresent
  <2>3. GetActive(u) = active[u] BY <1>1, <2>2 DEF GetActive
  <2> QED BY <1>1, <2>1, <2>3
<1>2. CASE active[u] = NoName /\ Ids(u) = {}
  <2>1. ~\E n \in Usernames : Ids(u) = {n} BY <1>2
  <2>2. GetActive(u) = NoName BY <1>2, <2>1 DEF GetActive
  <2> QED BY <1>2, <2>2
<1>3. CASE active[u] = NoName /\ Ids(u) # {}
  <2>1. PICK n \in Ids(u) : TRUE BY <1>3
  <2>2. Ids(u) \cap raced = {} BY <1>3 DEF Contested
  <2>3. n \in Usernames /\ Ids(u) = {n}
    BY <2>1, <2>2, <1>3, IdsPresent DEF ActiveExplicit
  <2> DEFINE m == CHOOSE m \in Usernames : Ids(u) = {m}
  <2>4. m \in Usernames /\ Ids(u) = {m} BY <2>3
  <2>5. m \in Ids(u) BY <2>4
  <2>6. GetActive(u) = m BY <1>3, <2>3 DEF GetActive
  <2>7. m # NoName BY <2>4, NamesAssumption
  <2> QED BY <2>5, <2>6, <2>7
<1> QED BY <1>1, <1>2, <1>3

-------------------------------------------------------------------------------
\* register_local_actor: what it does to its owner's identities, and to those
\* of others, who keep theirs unless the name is one that two tasks were at.
LEMMA RegisterIds ==
  ASSUME TypeOK, NEW n \in Usernames, NEW a \in Actor, Register(n, a),
         n \notin raced => (Present(n) => actor[n].owner = a.owner)
  PROVE  /\ actor' \in [Usernames -> Actor \cup {NoActor}]
         /\ a.owner \in Users
         /\ Ids(a.owner)' = Ids(a.owner) \cup {n}
         /\ \A u \in Users \ {a.owner} : Ids(u)' = Ids(u) \ {n}
         /\ \A u \in Users \ {a.owner} : n \in Ids(u) => n \in raced
         /\ n \in Ids(a.owner) => Present(n)
         /\ Present(n) => n \in raced \/ n \in Ids(a.owner)
<1>1. actor' = [actor EXCEPT ![n] = a] BY DEF Register
<1>2. a # NoActor /\ a.owner \in Users BY DistinguishedAssumption DEF Actor
<1>3. actor \in [Usernames -> Actor \cup {NoActor}] BY DEF TypeOK
<1>4. actor' \in [Usernames -> Actor \cup {NoActor}] BY <1>1, <1>3
<1>5. Ids(a.owner)' = Ids(a.owner) \cup {n}
  BY <1>1, <1>2, <1>3 DEF Ids, Present
<1>6. \A u \in Users \ {a.owner} : Ids(u)' = Ids(u) \ {n}
  BY <1>1, <1>2, <1>3 DEF Ids, Present
<1>7. \A u \in Users \ {a.owner} : n \in Ids(u) => n \in raced BY DEF Ids
<1>8. n \in Ids(a.owner) => Present(n) BY DEF Ids
<1>9. Present(n) => n \in raced \/ n \in Ids(a.owner) BY DEF Ids
<1> QED BY <1>2, <1>4, <1>5, <1>6, <1>7, <1>8, <1>9

\* ... and to who is active.
LEMMA RegisterActive ==
  ASSUME TypeOK, ActiveOwned, ActiveExplicit,
         NEW n \in Usernames, NEW a \in Actor, Register(n, a), UNCHANGED raced,
         n \notin raced => (Present(n) => actor[n].owner = a.owner)
  PROVE  /\ active' \in [Users -> Usernames \cup {NoName}]
         /\ ActiveOwned'
         /\ ActiveExplicit'
<1> DEFINE o == a.owner
<1> DEFINE others == Ids(o) \ {n}
<1>1. /\ o \in Users
      /\ Ids(o)' = Ids(o) \cup {n}
      /\ \A u \in Users \ {o} : Ids(u)' = Ids(u) \ {n}
      /\ \A u \in Users \ {o} : n \in Ids(u) => n \in raced
      /\ Present(n) => n \in raced \/ n \in Ids(o)
  BY RegisterIds
<1>2. PICK m \in IF others = {} THEN {n} ELSE others :
        active' = IF Present(n) \/ active[o] # NoName THEN active
                  ELSE [active EXCEPT ![o] = m]
  BY DEF Register, Activated
<1>3. m \in Usernames /\ m \in Ids(o) \cup {n} BY <1>2 DEF Ids
<1>4. active \in [Users -> Usernames \cup {NoName}] BY DEF TypeOK
<1>5. active' \in [Users -> Usernames \cup {NoName}] BY <1>2, <1>3, <1>4
<1>6. \A u \in Users \ {o} : active'[u] = active[u] BY <1>1, <1>2, <1>4
<1>7. active'[o] # NoName /\ active'[o] \notin raced => active'[o] \in Ids(o)'
  BY <1>1, <1>2, <1>3, <1>4 DEF ActiveOwned
<1>8. active'[o] = NoName => Ids(o)' \ raced = Ids(o) \ raced /\ active[o] = NoName
  BY <1>1, <1>2, <1>3, <1>4, NamesAssumption
<1>9. ActiveOwned' BY <1>1, <1>6, <1>7 DEF ActiveOwned
<1>10. \A m1, m2 \in Ids(o)' \ raced : active'[o] = NoName => m1 = m2
  BY <1>1, <1>8 DEF ActiveExplicit
<1>11. ASSUME NEW u \in Users \ {o}, active'[u] = NoName
       PROVE  \A m1, m2 \in Ids(u)' \ raced : m1 = m2
  BY <1>1, <1>6, <1>11 DEF ActiveExplicit
<1>12. ActiveExplicit' BY <1>1, <1>10, <1>11 DEF ActiveExplicit
<1> QED BY <1>5, <1>9, <1>12

\* A registration for a room nobody else has keeps rooms apart.
LEMMA RegisterRooms ==
  ASSUME TypeOK, OneIdentityPerRoom, UNCHANGED met,
         NEW n \in Usernames, NEW a \in Actor, Register(n, a),
         n \notin raced /\ a.room \in Rooms \ crossed
           => LinkedTo(a.room) \ raced \subseteq {n}
  PROVE  OneIdentityPerRoom'
<1>1. actor' = [actor EXCEPT ![n] = a] /\ actor \in [Usernames -> Actor \cup {NoActor}]
  BY DEF Register, TypeOK
<1>2. \A m \in Usernames \ {n} : actor'[m] = actor[m] BY <1>1
<1>3. actor'[n] = a BY <1>1
<1>4. raced' = raced /\ crossed' = crossed BY DEF met
<1> QED BY <1>2, <1>3, <1>4 DEF OneIdentityPerRoom, LinkedTo, Present

\* profile_room_history after a registration, whether the index took the row
\* or rejected it.
LEMMA RegisterHistory ==
  ASSUME TypeOK, HistorySound, NEW n \in Usernames, NEW a \in Actor, Register(n, a)
  PROVE  history' \in [Rooms -> Row \cup {NoRow}] /\ HistorySound'
<1>1. actor' = [actor EXCEPT ![n] = a] /\ actor \in [Usernames -> Actor \cup {NoActor}]
  BY DEF Register, TypeOK
<1>2. history \in [Rooms -> Row \cup {NoRow}] BY DEF TypeOK
<1>3. a.room \in Rooms \cup {NoRoom} /\ a.owner \in Users BY DEF Actor
<1>4. CASE a.room = NoRoom
  <2>1. history' = history BY <1>4 DEF Register
  <2> QED BY <1>1, <1>2, <1>4, <2>1 DEF HistorySound, Present
<1>5. CASE a.room # NoRoom
  <2> DEFINE r == a.room
  <2> DEFINE rows == Retired(n)
  <2> DEFINE row == IF rows[r] = NoRow
                    THEN [name |-> n, owner |-> a.owner, current |-> TRUE]
                    ELSE [rows[r] EXCEPT !.current = TRUE]
  <2>1. r \in Rooms BY <1>3, <1>5
  <2>2. /\ rows \in [Rooms -> Row \cup {NoRow}]
        /\ \A q \in Rooms : rows[q] = NoRow <=> history[q] = NoRow
        /\ \A q \in Rooms : history[q] # NoRow =>
              /\ rows[q].name = history[q].name
              /\ rows[q].current => history[q].current /\ history[q].name # n
    <3> SUFFICES ASSUME NEW q \in Rooms
                 PROVE  /\ rows[q] \in Row \cup {NoRow}
                        /\ rows[q] = NoRow <=> history[q] = NoRow
                        /\ history[q] # NoRow =>
                             /\ rows[q].name = history[q].name
                             /\ rows[q].current => history[q].current /\ history[q].name # n
      BY DEF Retired
    <3>1. rows[q] = IF history[q] # NoRow /\ history[q].name = n
                    THEN [history[q] EXCEPT !.current = FALSE] ELSE history[q]
      BY DEF Retired
    <3>2. CASE history[q] = NoRow BY <3>1, <3>2
    <3>3. CASE history[q] # NoRow /\ history[q].name # n BY <1>2, <3>1, <3>3
    <3>4. CASE history[q] # NoRow /\ history[q].name = n
      <4>1. history[q] \in Row BY <1>2, <3>4
      <4>2. rows[q] = [history[q] EXCEPT !.current = FALSE] BY <3>1, <3>4
      <4>3. rows[q] \in Row /\ rows[q].name = history[q].name /\ ~rows[q].current
        BY <4>1, <4>2 DEF Row
      <4> QED BY <3>4, <4>3, DistinguishedAssumption
    <3> QED BY <3>2, <3>3, <3>4
  <2>3. row \in Row /\ row # NoRow
    <3>1. CASE rows[r] = NoRow
      <4>1. row = [name |-> n, owner |-> a.owner, current |-> TRUE] BY <3>1
      <4>2. row \in Row BY <1>3, <4>1 DEF Row
      <4> QED BY <4>2, DistinguishedAssumption
    <3>2. CASE rows[r] # NoRow
      <4>1. rows[r] \in Row BY <2>1, <2>2, <3>2
      <4>2. row = [rows[r] EXCEPT !.current = TRUE] BY <3>2
      <4>3. row \in Row BY <4>1, <4>2 DEF Row
      <4> QED BY <4>3, DistinguishedAssumption
    <3> QED BY <3>1, <3>2
  <2> HIDE DEF row, rows
  <2>4. history' = IF Clash(rows, r, row.name) THEN rows ELSE [rows EXCEPT ![r] = row]
    BY <1>5 DEF Register, Recorded, row, rows
  <2>5. \A p, q \in Rooms :
          (rows[p] # NoRow /\ rows[q] # NoRow /\ rows[p].name = rows[q].name
             /\ rows[p].current /\ rows[q].current) => p = q
    BY <2>2 DEF HistorySound
  <2>6. \A q \in Rooms : history[q] # NoRow => history'[q] # NoRow
    BY <2>1, <2>2, <2>3, <2>4
  <2>7. CASE Clash(rows, r, row.name)
    <3>1. history' = rows BY <2>4, <2>7
    <3>2. rows[r] # NoRow
      <4> SUFFICES ASSUME rows[r] = NoRow PROVE FALSE OBVIOUS
      <4>1. row.name = n BY DEF row
      <4>2. PICK q \in Rooms \ {r} : rows[q] # NoRow /\ rows[q].name = n /\ rows[q].current
        BY <2>7, <4>1 DEF Clash
      <4> QED BY <2>2, <4>2
    <3>3. \A m \in Usernames :
            Present(m)' /\ actor'[m].room # NoRoom => history'[actor'[m].room] # NoRow
      <4> SUFFICES ASSUME NEW m \in Usernames, Present(m)', actor'[m].room # NoRoom
                   PROVE  history'[actor'[m].room] # NoRow
        OBVIOUS
      <4>1. CASE m = n BY <1>1, <3>1, <3>2, <4>1
      <4>2. CASE m # n
        <5>1. actor'[m] = actor[m] BY <1>1, <4>2
        <5>2. actor[m].room \in Rooms /\ Present(m)
          BY <1>1, <5>1 DEF Actor, Present
        <5> QED BY <2>6, <5>1, <5>2 DEF HistorySound
      <4> QED BY <4>1, <4>2
    <3> QED BY <2>2, <2>5, <3>1, <3>3 DEF HistorySound
  <2>8. CASE ~Clash(rows, r, row.name)
    <3>1. history' = [rows EXCEPT ![r] = row] BY <2>4, <2>8
    <3>2. history' \in [Rooms -> Row \cup {NoRow}] BY <2>2, <2>3, <3>1
    <3>3. history'[r] = row /\ \A q \in Rooms \ {r} : history'[q] = rows[q]
      BY <2>1, <2>2, <3>1
    <3>4. \A p, q \in Rooms :
            (history'[p] # NoRow /\ history'[q] # NoRow
               /\ history'[p].name = history'[q].name
               /\ history'[p].current /\ history'[q].current) => p = q
      BY <2>1, <2>5, <2>8, <3>3 DEF Clash
    <3>5. \A m \in Usernames :
            Present(m)' /\ actor'[m].room # NoRoom => history'[actor'[m].room] # NoRow
      <4> SUFFICES ASSUME NEW m \in Usernames, Present(m)', actor'[m].room # NoRoom
                   PROVE  history'[actor'[m].room] # NoRow
        OBVIOUS
      <4>1. CASE m = n BY <1>1, <2>3, <3>3, <4>1
      <4>2. CASE m # n
        <5>1. actor'[m] = actor[m] BY <1>1, <4>2
        <5>2. actor[m].room \in Rooms /\ Present(m)
          BY <1>1, <5>1 DEF Actor, Present
        <5> QED BY <2>6, <5>1, <5>2 DEF HistorySound
      <4> QED BY <4>1, <4>2
    <3> QED BY <3>2, <3>4, <3>5 DEF HistorySound
  <2> QED BY <2>7, <2>8
<1> QED BY <1>4, <1>5

-------------------------------------------------------------------------------
\* unregister_local_actor leaves the other identities as they are, and one of
\* them active.
LEMMA UnregisterInv ==
  ASSUME TypeOK, ActiveOwned, ActiveExplicit, OneIdentityPerRoom, HistorySound,
         NEW n \in Usernames, Present(n), Unregister(n), UNCHANGED met
  PROVE  /\ actor' \in [Usernames -> Actor \cup {NoActor}]
         /\ active' \in [Users -> Usernames \cup {NoName}]
         /\ ActiveOwned'
         /\ ActiveExplicit'
         /\ OneIdentityPerRoom'
         /\ HistorySound'
<1>1. actor \in [Usernames -> Actor \cup {NoActor}] /\ active \in [Users -> Usernames \cup {NoName}]
  BY DEF TypeOK
<1>3. PICK o \in Users : o = actor[n].owner BY <1>1 DEF Present, Actor
<1> DEFINE others == Ids(o) \ {n}
<1>2. actor' = [actor EXCEPT ![n] = NoActor] /\ history' = history
  BY DEF Unregister
<1>4. Ids(o)' = others /\ n \in Ids(o) BY <1>1, <1>2, <1>3 DEF Ids, Present
<1>5. \A u \in Users \ {o} : Ids(u)' = Ids(u) BY <1>1, <1>2, <1>3 DEF Ids, Present
<1>6. PICK m \in IF others = {} THEN {NoName} ELSE others :
        active' = IF active[o] = n THEN [active EXCEPT ![o] = m] ELSE active
  BY <1>3 DEF Unregister, Promoted
<1>7. m \in Usernames \cup {NoName} BY <1>6 DEF Ids
<1>8. active' \in [Users -> Usernames \cup {NoName}] BY <1>1, <1>6, <1>7
<1>9. \A u \in Users \ {o} : active'[u] = active[u] BY <1>1, <1>6
<1>10. active'[o] # NoName /\ active'[o] \notin raced => active'[o] \in Ids(o)'
  BY <1>1, <1>3, <1>4, <1>6 DEF ActiveOwned
<1>11. active'[o] = NoName => \A k, l \in Ids(o)' \ raced : k = l
  <2> SUFFICES ASSUME active'[o] = NoName, NEW k \in others \ raced, NEW l \in others \ raced
               PROVE  k = l
    BY <1>4
  <2>1. CASE active[o] = n
    <3>1. m = NoName BY <1>1, <1>3, <1>6, <2>1
    <3>2. m \in Usernames BY <1>6 DEF Ids
    <3> QED BY <3>1, <3>2, NamesAssumption
  <2>2. CASE active[o] # n
    <3>1. active[o] = NoName BY <1>6, <2>2
    <3> QED BY <1>3, <3>1 DEF ActiveExplicit
  <2> QED BY <2>1, <2>2
<1>0. raced' = raced /\ crossed' = crossed BY DEF met
<1>12. ActiveOwned' BY <1>0, <1>5, <1>9, <1>10 DEF ActiveOwned
<1>13. ActiveExplicit' BY <1>0, <1>5, <1>9, <1>11 DEF ActiveExplicit
<1>14. \A k \in Usernames : Present(k)' => Present(k) /\ actor'[k] = actor[k]
  BY <1>1, <1>2 DEF Present
<1>15. OneIdentityPerRoom' BY <1>0, <1>14 DEF OneIdentityPerRoom
<1>16. HistorySound' BY <1>2, <1>14 DEF HistorySound
<1>17. actor' \in [Usernames -> Actor \cup {NoActor}] BY <1>1, <1>2
<1> QED BY <1>8, <1>12, <1>13, <1>15, <1>16, <1>17

-------------------------------------------------------------------------------
\* While the tables stay as they are and more tasks meet, what holds of them
\* goes on holding,
LEMMA GrowTables ==
  ASSUME RegistryInv, UNCHANGED store, made \subseteq made',
         raced \subseteq raced', crossed \subseteq crossed'
  PROVE  /\ ActiveOwned' /\ ActiveExplicit' /\ RoomsMade'
         /\ OneIdentityPerRoom' /\ HistorySound'
<1>1. actor' = actor /\ active' = active /\ history' = history BY DEF store
<1>2. \A u \in Users : Ids(u)' = Ids(u) BY <1>1 DEF Ids, Present
<1>3. ActiveOwned' BY <1>1, <1>2 DEF RegistryInv, ActiveOwned
<1>4. ActiveExplicit' BY <1>1, <1>2 DEF RegistryInv, ActiveExplicit
<1>5. RoomsMade' BY <1>1 DEF RegistryInv, RoomsMade, Present
<1>6. OneIdentityPerRoom' BY <1>1 DEF RegistryInv, OneIdentityPerRoom, Present
<1>7. HistorySound' BY <1>1 DEF RegistryInv, HistorySound, Present
<1> QED BY <1>3, <1>4, <1>5, <1>6, <1>7

\* ... and so does what a task knows.
LEMMA GrowJobs ==
  ASSUME UNCHANGED actor, made \subseteq made',
         raced \subseteq raced', crossed \subseteq crossed'
  PROVE  \A j \in Job : /\ RecordFresh(j) => RecordFresh(j)'
                        /\ RoomFresh(j) => RoomFresh(j)'
<1> SUFFICES ASSUME NEW j \in Job
             PROVE  /\ RecordFresh(j) => RecordFresh(j)'
                    /\ RoomFresh(j) => RoomFresh(j)'
  OBVIOUS
<1>1. actor' = actor OBVIOUS
<1>2. Ids(j.actor.owner)' = Ids(j.actor.owner) BY <1>1 DEF Ids, Present
<1>3. LinkedTo(j.actor.room)' = LinkedTo(j.actor.room) BY <1>1 DEF LinkedTo, Present
<1>4. RecordFresh(j) => RecordFresh(j)' BY <1>1, <1>2 DEF RecordFresh, Names, Present
<1>5. RoomFresh(j) => RoomFresh(j)' BY <1>3 DEF RoomFresh
<1> QED BY <1>4, <1>5

\* Two tasks keep apart whichever of them is named first.
LEMMA ApartSymmetric ==
  \A i, j \in Job : Apart(i, j) => Apart(j, i)
  BY DEF Apart

\* A command that starts with a record that agrees with the table leaves the
\* invariant as it is, whatever else runs: where it meets others is remembered.
LEMMA BeginInv ==
  ASSUME RegistryInv,
         NEW t \in Tasks, NEW kind \in Kinds, NEW n \in Usernames, NEW a \in Actor,
         Begin(t, kind, n, a), UNCHANGED store,
         made' \subseteq BridgeRooms, made \subseteq made', keys' \in Nat,
         kind # "shadow" => (Present(n) => actor[n].owner = a.owner /\ actor[n].key = a.key),
         kind \in {"create", "link"} => (Present(n) => actor[n].room = NoRoom),
         kind = "resave" => actor[n] = a,
         kind \in {"unlink", "delete", "replace", "switch"} => Present(n),
         kind \in {"unlink", "delete", "shadow"} => a.room = NoRoom,
         kind = "shadow" => /\ n = Default[a.owner]
                            /\ Contested(a.owner) \/ Ids(a.owner) = {},
         a.room \in OwnRooms \cup made' \cup {NoRoom},
         kind # "link" /\ n \notin raced /\ a.room \in Rooms \ crossed
           => LinkedTo(a.room) \ raced \subseteq {n}
  PROVE  RegistryInv'
<1> DEFINE step == CASE kind = "switch" -> "switch"
                     [] kind = "delete" -> "detach"
                     [] kind = "link" -> "check"
                     [] kind = "shadow" -> "pick"
                     [] OTHER -> "write"
<1>2. /\ step \in {"check", "pick", "write", "detach", "switch"}
      /\ step = "switch" <=> kind = "switch"
      /\ step = "detach" <=> kind = "delete"
      /\ step = "check" <=> kind = "link"
      /\ step = "pick" <=> kind = "shadow"
  OBVIOUS
<1> DEFINE j == [kind |-> kind, step |-> step, name |-> n, actor |-> a]
<1>1. /\ job' = [job EXCEPT ![t] = j]
      /\ raced' = raced \cup Meeting(t, j)
      /\ crossed' = crossed \cup Crossing(t, j)
  BY DEF Begin
<1> HIDE DEF step
<1>3. j \in Job BY <1>2 DEF Job
<1>4. j.kind = kind /\ j.step = step /\ j.name = n /\ j.actor = a OBVIOUS
<1> HIDE DEF j
<1>5. TypeOK BY DEF RegistryInv
<1>6. job' \in [Tasks -> Job \cup {NoJob}] BY <1>1, <1>3, <1>5 DEF TypeOK
<1>7. job'[t] = j /\ \A s \in Tasks \ {t} : job'[s] = job[s] BY <1>1, <1>5 DEF TypeOK
<1>8. Names(j) \subseteq Usernames
  BY <1>3, <1>4, NamesAssumption DEF Names, Actor
<1>9. /\ raced \subseteq raced' /\ raced' \subseteq Usernames
      /\ crossed \subseteq crossed' /\ crossed' \subseteq Rooms
  <2>1. Meeting(t, j) \subseteq Usernames BY <1>8 DEF Meeting
  <2>2. Crossing(t, j) \subseteq Rooms BY <1>4 DEF Crossing, Actor
  <2> QED BY <1>1, <1>5, <2>1, <2>2 DEF TypeOK
<1>10. TypeOK' BY <1>5, <1>6, <1>9 DEF TypeOK, store
<1>11. /\ ActiveOwned' /\ ActiveExplicit' /\ RoomsMade'
       /\ OneIdentityPerRoom' /\ HistorySound'
  BY <1>9, GrowTables
<1>12. MeetingsNoted'
  <2>1. \A s \in Tasks \ {t} : job[s] # NoJob =>
          /\ Names(j) \cap Names(job[s]) \subseteq raced'
          /\ j.actor.room = job[s].actor.room /\ j.actor.room # NoRoom
               => j.name = job[s].name \/ j.actor.room \in crossed'
    BY <1>1 DEF Meeting, Crossing
  <2>2. \A s1, s2 \in Tasks \ {t} :
          s1 # s2 /\ job[s1] # NoJob /\ job[s2] # NoJob =>
          /\ Names(job[s1]) \cap Names(job[s2]) \subseteq raced'
          /\ job[s1].actor.room = job[s2].actor.room /\ job[s1].actor.room # NoRoom
               => job[s1].name = job[s2].name \/ job[s1].actor.room \in crossed'
    BY <1>9 DEF RegistryInv, MeetingsNoted, Apart
  <2> SUFFICES ASSUME NEW s1 \in Tasks, NEW s2 \in Tasks, s1 # s2,
                      job'[s1] # NoJob, job'[s2] # NoJob
               PROVE  Apart(job[s1], job[s2])'
    BY DEF MeetingsNoted
  <2>3. /\ Names(job'[s1]) \cap Names(job'[s2]) \subseteq raced'
        /\ job'[s1].actor.room = job'[s2].actor.room /\ job'[s1].actor.room # NoRoom
             => job'[s1].name = job'[s2].name \/ job'[s1].actor.room \in crossed'
    <3>1. CASE s1 = t
      <4>1. job'[s1] = j /\ job'[s2] = job[s2] BY <1>7, <3>1
      <4> QED BY <2>1, <3>1, <4>1
    <3>2. CASE s2 = t
      <4>1. job'[s2] = j /\ job'[s1] = job[s1] BY <1>7, <3>2
      <4> QED BY <2>1, <3>2, <4>1
    <3>3. CASE s1 # t /\ s2 # t
      <4>1. job'[s2] = job[s2] /\ job'[s1] = job[s1] BY <1>7, <3>3
      <4> QED BY <2>2, <3>3, <4>1
    <3> QED BY <3>1, <3>2, <3>3
  <2> QED BY <2>3 DEF Apart, Names
<1>13. InStep(j) BY <1>2, <1>4 DEF InStep
<1>14. RecordFresh(j)'
  <2>1. actor' = actor BY DEF store
  <2>2. Ids(a.owner)' = Ids(a.owner) BY <2>1 DEF Ids, Present
  <2>3. step = "pick" => Names(j) \cap Ids(a.owner) \subseteq raced'
    BY <1>1, <1>2, <1>4 DEF Meeting
  <2> QED BY <1>2, <1>4, <1>9, <2>1, <2>2, <2>3 DEF RecordFresh, Names, Present
<1>15. RoomFresh(j)'
  <2>1. LinkedTo(a.room)' = LinkedTo(a.room) BY DEF store, LinkedTo, Present
  <2> QED BY <1>2, <1>4, <1>9, <2>1 DEF RoomFresh
<1>16. JobsSound'
  <2> SUFFICES ASSUME NEW s \in Tasks, job'[s] # NoJob
               PROVE  (InStep(job[s]) /\ RecordFresh(job[s]) /\ RoomFresh(job[s]))'
    BY DEF JobsSound
  <2>1. PICK i \in Job : i = job'[s] BY <1>6
  <2>2. InStep(i) /\ RecordFresh(i)' /\ RoomFresh(i)'
    <3>1. CASE s = t BY <1>7, <1>13, <1>14, <1>15, <2>1, <3>1
    <3>2. CASE s # t
      <4>1. i = job[s] /\ job[s] # NoJob BY <1>7, <2>1, <3>2
      <4>2. InStep(i) /\ RecordFresh(i) /\ RoomFresh(i)
        BY <4>1 DEF RegistryInv, JobsSound
      <4>3. actor' = actor BY DEF store
      <4> QED BY <1>9, <4>2, <4>3, GrowJobs
    <3> QED BY <3>1, <3>2
  <2> QED BY <2>1, <2>2 DEF InStep, RecordFresh, RoomFresh, Names
<1> QED BY <1>10, <1>11, <1>12, <1>16 DEF RegistryInv

\* The parts of a record that is read, or minted.
LEMMA RecordParts ==
  ASSUME RegistryInv
  PROVE  /\ \A n \in Usernames : Present(n) =>
              /\ actor[n] \in Actor
              /\ \A r \in Rooms \cup {NoRoom} :
                   /\ [actor[n] EXCEPT !.room = r] \in Actor
                   /\ [actor[n] EXCEPT !.room = r].owner = actor[n].owner
                   /\ [actor[n] EXCEPT !.room = r].key = actor[n].key
                   /\ [actor[n] EXCEPT !.room = r].room = r
         /\ \A u \in Users, r \in Rooms \cup {NoRoom} :
              /\ Mint(u, r) \in Actor
              /\ Mint(u, r).owner = u /\ Mint(u, r).room = r
  BY DEF RegistryInv, TypeOK, Present, Actor, Mint

\* A room that is still to be made is nobody's.
LEMMA NewRoomFree ==
  ASSUME RegistryInv, NEW r \in BridgeRooms, MakeRoom(r)
  PROVE  /\ made' = made \cup {r} /\ made' \subseteq BridgeRooms
         /\ r \in Rooms /\ r # NoRoom
         /\ LinkedTo(r) = {}
<1>1. made' = made \cup {r} /\ r \notin made BY DEF MakeRoom
<1>2. made \subseteq BridgeRooms BY DEF RegistryInv, TypeOK
<1>3. r \in Rooms /\ r # NoRoom /\ r \notin OwnRooms BY RoomsAssumption DEF Rooms
<1>4. LinkedTo(r) = {} BY <1>1, <1>3 DEF RegistryInv, RoomsMade, LinkedTo
<1> QED BY <1>1, <1>2, <1>3, <1>4

\* Attaching an identity to a room, that a check will follow on or nobody has, is
\* such a start.
LEMMA AttachInv ==
  ASSUME RegistryInv, NEW t \in Tasks, NEW kind \in {"create", "link"},
         NEW u \in Users, NEW n \in Usernames, NEW r \in Rooms,
         Attach(t, kind, u, n, r), UNCHANGED store,
         made' \subseteq BridgeRooms, made \subseteq made',
         r \in OwnRooms \cup made', kind = "link" \/ LinkedTo(r) = {}
  PROVE  RegistryInv'
<1>1. kind \in Kinds BY DEF Kinds
<1>2. keys \in Nat BY DEF RegistryInv, TypeOK
<1>3. CASE /\ n \in Ids(u)
           /\ actor[n].room = NoRoom
           /\ Begin(t, kind, n, [actor[n] EXCEPT !.room = r])
           /\ UNCHANGED keys
  <2> DEFINE a == [actor[n] EXCEPT !.room = r]
  <2>1. Present(n) BY <1>3, IdsPresent
  <2>2. a \in Actor /\ a.owner = actor[n].owner /\ a.key = actor[n].key /\ a.room = r
    BY <2>1, RecordParts
  <2> HIDE DEF a
  <2>3. Begin(t, kind, n, a) BY <1>3 DEF a
  <2> QED BY <1>1, <1>2, <1>3, <2>1, <2>2, <2>3, BeginInv
<1>4. CASE ~Present(n) /\ Begin(t, kind, n, Mint(u, r)) /\ keys' = keys + 1
  <2>1. Mint(u, r) \in Actor /\ Mint(u, r).room = r BY RecordParts
  <2>2. keys' \in Nat BY <1>2, <1>4
  <2> QED BY <1>1, <1>4, <2>1, <2>2, BeginInv
<1> QED BY <1>3, <1>4 DEF Attach

-------------------------------------------------------------------------------
LEMMA InitInv == Init => RegistryInv
<1> SUFFICES ASSUME Init PROVE RegistryInv OBVIOUS
<1>1. \A n \in Usernames : Present(n) =>
        \E u \in Legacy : Default[u] = n /\ actor[n] = [owner |-> u, room |-> NoRoom, key |-> 0]
  <2> SUFFICES ASSUME NEW n \in Usernames, Present(n)
               PROVE  \E u \in Legacy : Default[u] = n
                        /\ actor[n] = [owner |-> u, room |-> NoRoom, key |-> 0]
    OBVIOUS
  <2>1. \E u \in Legacy : Default[u] = n BY DEF Init, Present
  <2> DEFINE w == CHOOSE u \in Legacy : Default[u] = n
  <2>2. w \in Legacy /\ Default[w] = n BY <2>1
  <2>3. actor[n] = [owner |-> w, room |-> NoRoom, key |-> 0] BY <2>1 DEF Init
  <2> QED BY <2>2, <2>3
<1>2. \A n \in Usernames : Present(n) =>
        actor[n] \in Actor /\ actor[n].room = NoRoom /\ Default[actor[n].owner] = n
  <2> SUFFICES ASSUME NEW n \in Usernames, Present(n)
               PROVE  /\ actor[n] \in Actor
                      /\ actor[n].room = NoRoom
                      /\ Default[actor[n].owner] = n
    OBVIOUS
  <2>1. PICK u \in Legacy : Default[u] = n /\ actor[n] = [owner |-> u, room |-> NoRoom, key |-> 0]
    BY <1>1
  <2>2. u \in Users BY LegacyAssumption
  <2> QED BY <2>1, <2>2 DEF Actor
<1>3. actor \in [Usernames -> Actor \cup {NoActor}]
  <2>1. \A n \in Usernames : actor[n] \in Actor \cup {NoActor} BY <1>2 DEF Present
  <2> QED BY <2>1 DEF Init
<1>4. TypeOK BY <1>3 DEF Init, TypeOK
<1>5. ActiveOwned BY DEF Init, ActiveOwned
<1>6. ActiveExplicit
  <2> SUFFICES ASSUME NEW u \in Users, NEW m \in Ids(u), NEW n \in Ids(u) PROVE m = n
    BY DEF ActiveExplicit
  <2>1. Default[u] = m /\ Default[u] = n BY <1>2, IdsPresent
  <2> QED BY <2>1
<1>7. JobsSound /\ MeetingsNoted BY DEF Init, JobsSound, MeetingsNoted
<1>8. RoomsMade BY <1>2 DEF RoomsMade
<1>9. OneIdentityPerRoom BY <1>2, RoomsAssumption DEF OneIdentityPerRoom
<1>10. HistorySound BY <1>2 DEF Init, HistorySound
<1> QED BY <1>4, <1>5, <1>6, <1>7, <1>8, <1>9, <1>10 DEF RegistryInv

\* Every command starts in a way that keeps the invariant.
LEMMA StartInv ==
  ASSUME RegistryInv, NEW t \in Tasks, Start(t)
  PROVE  RegistryInv'
<1> USE DEF Kinds
<1>1. keys \in Nat /\ made \subseteq BridgeRooms BY DEF RegistryInv, TypeOK
<1>2. ASSUME NEW u \in Users, NEW n \in Usernames, Create(t, u, n) PROVE RegistryInv'
  <2>1. PICK r \in BridgeRooms : MakeRoom(r) /\ Attach(t, "create", u, n, r)
    BY <1>2 DEF Create
  <2>2. UNCHANGED store BY <1>2 DEF Create
  <2>3. /\ made' = made \cup {r} /\ made' \subseteq BridgeRooms
        /\ r \in Rooms /\ LinkedTo(r) = {}
    BY <2>1, NewRoomFree
  <2> QED BY <2>1, <2>2, <2>3, AttachInv
<1>3. ASSUME NEW u \in Users, NEW r \in Rooms, Link(t, u, r) PROVE RegistryInv'
  <2>1. Default[u] \in Usernames BY NamesAssumption
  <2>2. Attach(t, "link", u, Default[u], r) /\ UNCHANGED <<store, made>> BY <1>3 DEF Link
  <2>3. r \in OwnRooms \cup made BY <1>3 DEF Link
  <2> QED BY <1>1, <2>1, <2>2, <2>3, AttachInv
<1>4. ASSUME NEW u \in Users, NEW n \in Usernames, Unlink(t, u, n) PROVE RegistryInv'
  <2> DEFINE a == [actor[n] EXCEPT !.room = NoRoom]
  <2>1. Present(n) /\ UNCHANGED <<store, made, keys>> BY <1>4, IdsPresent DEF Unlink
  <2>2. a \in Actor /\ a.owner = actor[n].owner /\ a.key = actor[n].key /\ a.room = NoRoom
    BY <2>1, RecordParts
  <2>4. a.room \notin Rooms BY <2>2, RoomsAssumption
  <2>3. Begin(t, "unlink", n, a) BY <1>4 DEF Unlink
  <2> HIDE DEF a
  <2> QED BY <1>1, <2>1, <2>2, <2>3, <2>4, BeginInv
<1>5. ASSUME NEW u \in Users, NEW n \in Usernames, Delete(t, u, n) PROVE RegistryInv'
  <2> DEFINE a == [actor[n] EXCEPT !.room = NoRoom]
  <2>1. Present(n) /\ UNCHANGED <<store, made, keys>> BY <1>5, IdsPresent DEF Delete
  <2>2. a \in Actor /\ a.owner = actor[n].owner /\ a.key = actor[n].key /\ a.room = NoRoom
    BY <2>1, RecordParts
  <2>4. a.room \notin Rooms BY <2>2, RoomsAssumption
  <2>3. Begin(t, "delete", n, a) BY <1>5 DEF Delete
  <2> HIDE DEF a
  <2> QED BY <1>1, <2>1, <2>2, <2>3, <2>4, BeginInv
<1>6. ASSUME NEW n \in Usernames, Present(n)
      PROVE  /\ actor[n] \in Actor
             /\ actor[n].room \in OwnRooms \cup made \cup {NoRoom}
             /\ n \notin raced /\ actor[n].room \in Rooms \ crossed
                  => LinkedTo(actor[n].room) \ raced \subseteq {n}
  BY <1>6, RecordParts DEF RegistryInv, RoomsMade, OneIdentityPerRoom, LinkedTo
<1>7. ASSUME NEW u \in Users, NEW n \in Usernames, Switch(t, u, n) PROVE RegistryInv'
  <2>1. Present(n) /\ UNCHANGED <<store, made, keys>> /\ Begin(t, "switch", n, actor[n])
    BY <1>7, IdsPresent DEF Switch
  <2> QED BY <1>1, <1>6, <2>1, BeginInv
<1>8. ASSUME NEW u \in Users, Shadow(t, u) PROVE RegistryInv'
  <2>1. /\ GetActive(u) = NoName
        /\ Begin(t, "shadow", Default[u], Mint(u, NoRoom))
        /\ keys' = keys + 1
        /\ UNCHANGED <<store, made>>
    BY <1>8 DEF Shadow
  <2>2. Default[u] \in Usernames BY NamesAssumption
  <2>3. Contested(u) \/ Ids(u) = {} BY <2>1, GetActiveSound DEF RegistryInv
  <2>4. PICK a \in Actor : a = Mint(u, NoRoom) /\ a.owner = u /\ a.room = NoRoom
    BY RecordParts
  <2>5. keys' \in Nat BY <1>1, <2>1
  <2>6. a.room \notin Rooms BY <2>4, RoomsAssumption
  <2> QED BY <1>1, <2>1, <2>2, <2>3, <2>4, <2>5, <2>6, BeginInv
<1>9. ASSUME NEW n \in Usernames, Replace(t, n) PROVE RegistryInv'
  <2>1. PICK r \in BridgeRooms :
          MakeRoom(r) /\ Begin(t, "replace", n, [actor[n] EXCEPT !.room = r])
    BY <1>9 DEF Replace
  <2>2. Present(n) /\ UNCHANGED <<store, keys>> BY <1>9 DEF Replace
  <2>3. /\ made' = made \cup {r} /\ made' \subseteq BridgeRooms
        /\ r \in Rooms /\ LinkedTo(r) = {}
    BY <2>1, NewRoomFree
  <2> DEFINE a == [actor[n] EXCEPT !.room = r]
  <2>4. a \in Actor /\ a.owner = actor[n].owner /\ a.key = actor[n].key /\ a.room = r
    BY <2>2, <2>3, RecordParts
  <2>5. Begin(t, "replace", n, a) BY <2>1
  <2> HIDE DEF a
  <2> QED BY <1>1, <2>2, <2>3, <2>4, <2>5, BeginInv
<1>10. ASSUME NEW n \in Usernames, Resave(t, n) PROVE RegistryInv'
  <2>1. Present(n) /\ UNCHANGED <<store, made, keys>> /\ Begin(t, "resave", n, actor[n])
    BY <1>10 DEF Resave
  <2> QED BY <1>1, <1>6, <2>1, BeginInv
<1> QED BY <1>2, <1>3, <1>4, <1>5, <1>7, <1>8, <1>9, <1>10 DEF Start

-------------------------------------------------------------------------------
\* What a running command knows about the identity it is about, if it is the
\* only one at it.
LEMMA JobKnows ==
  ASSUME RegistryInv, NEW t \in Tasks, job[t] # NoJob
  PROVE  /\ job[t] \in Job
         /\ job[t].name \in Usernames
         /\ job[t].actor \in Actor
         /\ InStep(job[t]) /\ RecordFresh(job[t]) /\ RoomFresh(job[t])
         /\ job[t].step # "pick" /\ job[t].name \notin raced /\ Present(job[t].name) =>
              /\ actor[job[t].name].owner = job[t].actor.owner
              /\ actor[job[t].name].key = job[t].actor.key
         /\ job[t].actor.room \in OwnRooms \cup made \cup {NoRoom}
<1>1. job[t] \in Job BY DEF RegistryInv, TypeOK
<1>2. InStep(job[t]) /\ RecordFresh(job[t]) /\ RoomFresh(job[t])
  BY DEF RegistryInv, JobsSound
<1> QED BY <1>1, <1>2 DEF Job, RecordFresh, RoomFresh

\* A task's step that keeps what the tables promise, and what the others know,
\* keeps the invariant, when it ends its job or goes on with one as sound.
LEMMA GoOnInv ==
  ASSUME RegistryInv, NEW t \in Tasks, job[t] # NoJob, UNCHANGED <<made, keys, met>>,
         actor' \in [Usernames -> Actor \cup {NoActor}],
         active' \in [Users -> Usernames \cup {NoName}],
         history' \in [Rooms -> Row \cup {NoRow}],
         ActiveOwned', ActiveExplicit', RoomsMade', OneIdentityPerRoom', HistorySound',
         \A j \in Job : Apart(job[t], j) /\ RecordFresh(j) /\ RoomFresh(j)
                          => RecordFresh(j)' /\ RoomFresh(j)',
         NEW x \in Job \cup {NoJob}, job' = [job EXCEPT ![t] = x],
         x # NoJob => /\ InStep(x) /\ RecordFresh(x)' /\ RoomFresh(x)'
                      /\ \A j \in Job : Apart(job[t], j) => Apart(x, j)
  PROVE  RegistryInv'
<1>1. TypeOK BY DEF RegistryInv
<1>2. job' \in [Tasks -> Job \cup {NoJob}] BY <1>1 DEF TypeOK
<1>3. job'[t] = x /\ \A s \in Tasks \ {t} : job'[s] = job[s] BY <1>1 DEF TypeOK
<1>4. raced' = raced /\ crossed' = crossed BY DEF met
<1>5. TypeOK' BY <1>1, <1>2, <1>4 DEF TypeOK
<1>6. \A s \in Tasks \ {t} : job[s] # NoJob => job[s] \in Job /\ Apart(job[t], job[s])
  BY <1>1 DEF TypeOK, RegistryInv, MeetingsNoted
<1>7. JobsSound'
  <2> SUFFICES ASSUME NEW s \in Tasks, job'[s] # NoJob
               PROVE  (InStep(job[s]) /\ RecordFresh(job[s]) /\ RoomFresh(job[s]))'
    BY DEF JobsSound
  <2>1. PICK i \in Job : i = job'[s] BY <1>2
  <2>2. InStep(i) /\ RecordFresh(i)' /\ RoomFresh(i)'
    <3>1. CASE s = t BY <1>3, <2>1, <3>1
    <3>2. CASE s # t
      <4>1. i = job[s] /\ job[s] # NoJob BY <1>3, <2>1, <3>2
      <4>2. InStep(i) /\ RecordFresh(i) /\ RoomFresh(i)
        BY <4>1 DEF RegistryInv, JobsSound
      <4>3. Apart(job[t], i) BY <1>6, <3>2, <4>1
      <4> QED BY <4>2, <4>3
    <3> QED BY <3>1, <3>2
  <2> QED BY <2>1, <2>2 DEF InStep, RecordFresh, RoomFresh, Names
<1>8. MeetingsNoted'
  <2> SUFFICES ASSUME NEW s1 \in Tasks, NEW s2 \in Tasks, s1 # s2,
                      job'[s1] # NoJob, job'[s2] # NoJob
               PROVE  Apart(job[s1], job[s2])'
    BY DEF MeetingsNoted
  <2>1. PICK i \in Job, j \in Job : i = job'[s1] /\ j = job'[s2] BY <1>2
  <2>2. Apart(i, j)
    <3>1. CASE s1 = t
      <4>1. i = x /\ x # NoJob /\ j = job[s2] /\ job[s2] # NoJob BY <1>3, <2>1, <3>1
      <4>2. Apart(job[t], j) BY <1>6, <3>1, <4>1
      <4> QED BY <4>1, <4>2
    <3>2. CASE s2 = t
      <4>1. j = x /\ x # NoJob /\ i = job[s1] /\ job[s1] # NoJob BY <1>3, <2>1, <3>2
      <4>2. Apart(job[t], i) BY <1>6, <3>2, <4>1
      <4>3. Apart(j, i) BY <4>1, <4>2
      <4> QED BY <4>3, ApartSymmetric
    <3>3. CASE s1 # t /\ s2 # t
      <4>1. i = job[s1] /\ j = job[s2] /\ i # NoJob /\ j # NoJob BY <1>3, <2>1, <3>3
      <4> QED BY <4>1 DEF RegistryInv, MeetingsNoted
    <3> QED BY <3>1, <3>2, <3>3
  <2> QED BY <1>4, <2>1, <2>2 DEF Apart, Names
<1> QED BY <1>5, <1>7, <1>8 DEF RegistryInv

\* What the others know survives a registration: of the names one of them is at,
\* it changes one both are at; and it links no room that one of them wants for
\* another name, unless that room is crossed.
LEMMA RegisterJobs ==
  ASSUME RegistryInv, NEW t \in Tasks, job[t] # NoJob, job[t].step # "pick",
         Register(job[t].name, job[t].actor), UNCHANGED <<made, keys, met>>
  PROVE  \A j \in Job : Apart(job[t], j) /\ RecordFresh(j) /\ RoomFresh(j)
                          => RecordFresh(j)' /\ RoomFresh(j)'
<1>1. PICK n \in Usernames, a \in Actor : n = job[t].name /\ a = job[t].actor
  BY JobKnows
<1>2. n \notin raced => (Present(n) => actor[n].owner = a.owner) BY <1>1, JobKnows
<1>3. Register(n, a) /\ TypeOK BY <1>1 DEF RegistryInv
<1>4. actor' = [actor EXCEPT ![n] = a] /\ actor \in [Usernames -> Actor \cup {NoActor}]
  BY <1>3 DEF Register, TypeOK
<1>5. actor'[n] = a /\ \A m \in Usernames \ {n} : actor'[m] = actor[m] BY <1>4
<1>6. raced' = raced /\ crossed' = crossed /\ made' = made BY DEF met
<1>7. /\ Ids(a.owner)' = Ids(a.owner) \cup {n}
      /\ \A u \in Users \ {a.owner} : Ids(u)' = Ids(u) \ {n}
  BY <1>2, <1>3, RegisterIds
<1> SUFFICES ASSUME NEW j \in Job, Apart(job[t], j), RecordFresh(j), RoomFresh(j)
             PROVE  RecordFresh(j)' /\ RoomFresh(j)'
  OBVIOUS
<1>8. j.name \in Usernames /\ j.actor \in Actor /\ j.actor.owner \in Users
  BY DEF Job, Actor
<1>9. n \in Names(j) => n \in raced
  BY <1>1 DEF Apart, Names
<1>10. RecordFresh(j)'
  <2>1. j.step = "pick" => Names(j) \cap Ids(j.actor.owner)' \subseteq raced
    BY <1>7, <1>8, <1>9 DEF RecordFresh
  <2>2. j.step # "pick" /\ j.name \notin raced => actor'[j.name] = actor[j.name]
    BY <1>5, <1>8, <1>9 DEF Names
  <2> QED BY <1>6, <2>1, <2>2 DEF RecordFresh, Names, Present
<1>11. RoomFresh(j)'
  <2>1. LinkedTo(j.actor.room)' \subseteq LinkedTo(j.actor.room)
          \cup {m \in {n} : a.room = j.actor.room}
    BY <1>5 DEF LinkedTo, Present
  <2>2. a.room = j.actor.room /\ j.actor.room \in Rooms \ crossed => n = j.name
    BY <1>1, RoomsAssumption DEF Apart
  <2> QED BY <1>6, <2>1, <2>2 DEF RoomFresh
<1> QED BY <1>10, <1>11

\* ... and an erasure.
LEMMA UnregisterJobs ==
  ASSUME RegistryInv, NEW t \in Tasks, job[t] # NoJob, job[t].step # "pick",
         Unregister(job[t].name), UNCHANGED <<made, keys, met>>
  PROVE  \A j \in Job : Apart(job[t], j) /\ RecordFresh(j) /\ RoomFresh(j)
                          => RecordFresh(j)' /\ RoomFresh(j)'
<1>1. PICK n \in Usernames : n = job[t].name BY JobKnows
<1>2. actor' = [actor EXCEPT ![n] = NoActor] /\ actor \in [Usernames -> Actor \cup {NoActor}]
  BY <1>1 DEF Unregister, RegistryInv, TypeOK
<1>3. actor'[n] = NoActor /\ \A m \in Usernames \ {n} : actor'[m] = actor[m] BY <1>2
<1>4. raced' = raced /\ crossed' = crossed /\ made' = made BY DEF met
<1> SUFFICES ASSUME NEW j \in Job, Apart(job[t], j), RecordFresh(j), RoomFresh(j)
             PROVE  RecordFresh(j)' /\ RoomFresh(j)'
  OBVIOUS
<1>5. j.name \in Usernames BY DEF Job
<1>6. n \in Names(j) => n \in raced BY <1>1 DEF Apart, Names
<1>7. Ids(j.actor.owner)' \subseteq Ids(j.actor.owner) BY <1>3 DEF Ids, Present
<1>8. LinkedTo(j.actor.room)' \subseteq LinkedTo(j.actor.room)
  BY <1>3 DEF LinkedTo, Present
<1>9. j.step # "pick" /\ j.name \notin raced => actor'[j.name] = actor[j.name]
  BY <1>3, <1>5, <1>6 DEF Names
<1>10. RecordFresh(j)' BY <1>4, <1>7, <1>9 DEF RecordFresh, Names, Present
<1>11. RoomFresh(j)' BY <1>4, <1>8 DEF RoomFresh
<1> QED BY <1>10, <1>11

\* What a registration leaves, whatever becomes of the job.
LEMMA RegisterInv ==
  ASSUME RegistryInv, NEW t \in Tasks, job[t] # NoJob,
         job[t].step \in {"write", "detach"},
         Register(job[t].name, job[t].actor), UNCHANGED <<made, keys, met>>
  PROVE  /\ actor' = [actor EXCEPT ![job[t].name] = job[t].actor]
         /\ actor' \in [Usernames -> Actor \cup {NoActor}]
         /\ active' \in [Users -> Usernames \cup {NoName}]
         /\ history' \in [Rooms -> Row \cup {NoRow}]
         /\ ActiveOwned' /\ ActiveExplicit' /\ RoomsMade'
         /\ OneIdentityPerRoom' /\ HistorySound'
<1> DEFINE n == job[t].name
<1> DEFINE a == job[t].actor
<1>1. n \in Usernames /\ a \in Actor BY JobKnows
<1>2. n \notin raced => (Present(n) => actor[n].owner = a.owner) BY JobKnows
<1>3. n \notin raced /\ a.room \in Rooms \ crossed => LinkedTo(a.room) \ raced \subseteq {n}
  BY JobKnows DEF RoomFresh
<1>4. a.room \in OwnRooms \cup made \cup {NoRoom} BY JobKnows
<1> HIDE DEF n, a
<1>5. Register(n, a) BY DEF n, a
<1>6. TypeOK /\ ActiveOwned /\ ActiveExplicit /\ OneIdentityPerRoom /\ HistorySound
  BY DEF RegistryInv
<1>7. raced' = raced BY DEF met
<1>8. actor' \in [Usernames -> Actor \cup {NoActor}] BY <1>1, <1>2, <1>5, <1>6, RegisterIds
<1>9. active' \in [Users -> Usernames \cup {NoName}] /\ ActiveOwned' /\ ActiveExplicit'
  BY <1>1, <1>2, <1>5, <1>6, <1>7, RegisterActive
<1>10. OneIdentityPerRoom' BY <1>1, <1>3, <1>5, <1>6, RegisterRooms
<1>11. history' \in [Rooms -> Row \cup {NoRow}] /\ HistorySound'
  BY <1>1, <1>5, <1>6, RegisterHistory
<1>12. actor' = [actor EXCEPT ![n] = a] BY <1>5 DEF Register
<1>13. RoomsMade'
  BY <1>1, <1>4, <1>6, <1>12 DEF RegistryInv, TypeOK, RoomsMade, Present
<1> QED BY <1>8, <1>9, <1>10, <1>11, <1>12, <1>13 DEF n, a

\* A job's next step, when it stays at names it was at already.
LEMMA StepOn ==
  ASSUME NEW i \in Job, NEW x \in Job, Names(x) \subseteq Names(i),
         x.actor.room = i.actor.room, x.name = i.name \/ x.actor.room = NoRoom
  PROVE  \A j \in Job : Apart(i, j) => Apart(x, j)
  BY DEF Apart

\* Every step of a running command keeps the invariant.
LEMMA EndInv ==
  ASSUME RegistryInv, NEW t \in Tasks, CheckRoom(t) \/ PickName(t) \/ End(t)
  PROVE  RegistryInv'
<1>1. job[t] # NoJob /\ UNCHANGED <<made, keys, met>>
  BY DEF CheckRoom, PickName, End, Write, SetActive, Detach, Erase, Abort
<1>2. PICK i \in Job : i = job[t] BY <1>1, JobKnows
<1>3. PICK n \in Usernames, a \in Actor : n = i.name /\ a = i.actor BY <1>2 DEF Job
<1>4. InStep(i) /\ RecordFresh(i) /\ RoomFresh(i) BY <1>1, <1>2, JobKnows
<1>5. /\ actor \in [Usernames -> Actor \cup {NoActor}]
      /\ active \in [Users -> Usernames \cup {NoName}]
      /\ history \in [Rooms -> Row \cup {NoRow}]
  BY DEF RegistryInv, TypeOK
<1>6. raced' = raced /\ crossed' = crossed /\ made' = made BY <1>1 DEF met
<1>7. ASSUME UNCHANGED store
      PROVE  /\ actor' \in [Usernames -> Actor \cup {NoActor}]
             /\ active' \in [Users -> Usernames \cup {NoName}]
             /\ history' \in [Rooms -> Row \cup {NoRow}]
             /\ ActiveOwned' /\ ActiveExplicit' /\ RoomsMade'
             /\ OneIdentityPerRoom' /\ HistorySound'
             /\ \A j \in Job : /\ RecordFresh(j) => RecordFresh(j)'
                               /\ RoomFresh(j) => RoomFresh(j)'
  <2>1. actor' = actor /\ active' = active /\ history' = history BY <1>7 DEF store
  <2>2. /\ ActiveOwned' /\ ActiveExplicit' /\ RoomsMade'
        /\ OneIdentityPerRoom' /\ HistorySound'
    BY <1>6, <1>7, GrowTables
  <2>3. \A j \in Job : /\ RecordFresh(j) => RecordFresh(j)'
                       /\ RoomFresh(j) => RoomFresh(j)'
    BY <1>6, <2>1, GrowJobs
  <2> QED BY <1>5, <2>1, <2>2, <2>3
<1>8. CASE CheckRoom(t)
  <2>1. UNCHANGED store /\ i.step = "check" BY <1>2, <1>8 DEF CheckRoom
  <2>2. CASE ~Linkable(i.actor.room)
    <3>1. job' = [job EXCEPT ![t] = NoJob] BY <1>2, <1>8, <2>2 DEF CheckRoom
    <3> QED BY <1>1, <1>7, <2>1, <3>1, GoOnInv
  <2>3. CASE Linkable(i.actor.room)
    <3>1. PICK x : x = [i EXCEPT !.step = "write"] OBVIOUS
    <3>2. job' = [job EXCEPT ![t] = x] BY <1>2, <1>8, <2>3, <3>1 DEF CheckRoom
    <3>3. /\ x \in Job /\ x # NoJob
          /\ x.kind = i.kind /\ x.step = "write" /\ x.name = i.name /\ x.actor = i.actor
      BY <3>1, DistinguishedAssumption DEF Job
    <3>4. InStep(x) BY <1>4, <2>1, <3>3 DEF InStep
    <3>5. RecordFresh(x) BY <1>4, <2>1, <3>3 DEF RecordFresh
    <3>6. RoomFresh(x) BY <1>4, <2>3, <3>3 DEF RoomFresh, Linkable
    <3>7. RecordFresh(x)' /\ RoomFresh(x)' BY <1>7, <2>1, <3>3, <3>5, <3>6
    <3>8. Names(x) \subseteq Names(i) BY <2>1, <3>3 DEF Names
    <3>9. \A j \in Job : Apart(job[t], j) => Apart(x, j)
      BY <1>2, <3>3, <3>8, StepOn
    <3> QED BY <1>1, <1>7, <2>1, <3>2, <3>3, <3>4, <3>7, <3>9, GoOnInv
  <2> QED BY <2>2, <2>3
<1>9. CASE PickName(t)
  <2>1. UNCHANGED store /\ i.step = "pick" BY <1>2, <1>9 DEF PickName
  <2>2. i.kind = "shadow" /\ a.room = NoRoom /\ n = Default[a.owner]
    BY <1>3, <1>4, <2>1 DEF InStep
  <2>3. PICK u \in Users : u = a.owner BY DEF Actor
  <2>4. PICK m : m = IF FreeFor(u, Default[u]) THEN Default[u] ELSE Suffixed[u]
    OBVIOUS
  <2>5. m \in Usernames /\ m \in Names(i)
    BY <1>3, <2>1, <2>2, <2>3, <2>4, NamesAssumption DEF Names
  <2>6. FreeFor(u, m) /\ job' = [job EXCEPT ![t] = [i EXCEPT !.step = "write", !.name = m]]
    BY <1>2, <1>3, <1>9, <2>3, <2>4 DEF PickName
  <2>7. PICK x : x = [i EXCEPT !.step = "write", !.name = m] OBVIOUS
  <2>8. /\ x \in Job /\ x # NoJob
        /\ x.kind = i.kind /\ x.step = "write" /\ x.name = m /\ x.actor = a
    BY <1>3, <2>5, <2>7, DistinguishedAssumption DEF Job
  <2>9. InStep(x) BY <2>2, <2>8 DEF InStep
  <2>10. m \notin raced => ~Present(m)
    BY <1>3, <1>4, <2>1, <2>3, <2>5, <2>6 DEF RecordFresh, FreeFor, Ids
  <2>11. RecordFresh(x) BY <2>2, <2>8, <2>10 DEF RecordFresh
  <2>12. RoomFresh(x) BY <2>2, <2>8, RoomsAssumption DEF RoomFresh
  <2>13. RecordFresh(x)' /\ RoomFresh(x)' BY <1>7, <2>1, <2>8, <2>11, <2>12
  <2>14. Names(x) \subseteq Names(i) BY <2>5, <2>8 DEF Names
  <2>15. \A j \in Job : Apart(job[t], j) => Apart(x, j)
    BY <1>2, <1>3, <2>2, <2>8, <2>14, StepOn
  <2> QED BY <1>1, <1>7, <2>1, <2>6, <2>7, <2>8, <2>9, <2>13, <2>15, GoOnInv
<1>10. CASE Write(t)
  <2>1. /\ job[t].step = "write" /\ Register(job[t].name, job[t].actor)
        /\ job' = [job EXCEPT ![t] = NoJob]
    BY <1>10 DEF Write, Done
  <2> QED BY <1>1, <2>1, RegisterInv, RegisterJobs, GoOnInv
<1>11. CASE SetActive(t)
  <2>1. PICK o \in Users : o = a.owner BY DEF Actor
  <2>2. /\ active' = [active EXCEPT ![o] = n]
        /\ job' = [job EXCEPT ![t] = NoJob]
        /\ actor' = actor /\ history' = history
        /\ i.step = "switch"
    BY <1>2, <1>3, <1>11, <2>1 DEF SetActive, Done
  <2>3. i.kind = "switch" BY <1>4, <2>2 DEF InStep
  <2>4. n \notin raced => n \in Ids(o)
    BY <1>3, <1>4, <2>1, <2>2, <2>3 DEF RecordFresh, Ids
  <2>5. \A u \in Users : Ids(u)' = Ids(u) BY <2>2 DEF Ids, Present
  <2>6. active' \in [Users -> Usernames \cup {NoName}] BY <1>5, <2>2
  <2>7. \A u \in Users \ {o} : active'[u] = active[u] BY <1>5, <2>2
  <2>8. active'[o] = n /\ n # NoName BY <1>5, <2>2, NamesAssumption
  <2>9. ActiveOwned'
    BY <1>6, <2>4, <2>5, <2>7, <2>8 DEF RegistryInv, ActiveOwned
  <2>10. ActiveExplicit'
    BY <1>6, <2>5, <2>7, <2>8 DEF RegistryInv, ActiveExplicit
  <2>11. RoomsMade' /\ OneIdentityPerRoom' /\ HistorySound'
    BY <1>6, <2>2 DEF RegistryInv, RoomsMade, OneIdentityPerRoom, HistorySound, Present
  <2>12. \A j \in Job : /\ RecordFresh(j) => RecordFresh(j)'
                        /\ RoomFresh(j) => RoomFresh(j)'
    BY <1>6, <2>2, GrowJobs
  <2> QED BY <1>1, <1>5, <2>2, <2>6, <2>9, <2>10, <2>11, <2>12, GoOnInv
<1>12. CASE Detach(t)
  <2>1. PICK x : x = [i EXCEPT !.step = "erase"] OBVIOUS
  <2>2. /\ i.step = "detach" /\ Register(job[t].name, job[t].actor)
        /\ job' = [job EXCEPT ![t] = x]
    BY <1>2, <1>12, <2>1 DEF Detach
  <2>3. /\ x \in Job /\ x # NoJob
        /\ x.kind = i.kind /\ x.step = "erase" /\ x.name = n /\ x.actor = a
    BY <1>3, <2>1, DistinguishedAssumption DEF Job
  <2>4. i.kind = "delete" /\ a.room = NoRoom BY <1>3, <1>4, <2>2 DEF InStep
  <2>5. /\ actor' = [actor EXCEPT ![n] = a]
        /\ actor' \in [Usernames -> Actor \cup {NoActor}]
        /\ active' \in [Users -> Usernames \cup {NoName}]
        /\ history' \in [Rooms -> Row \cup {NoRow}]
        /\ ActiveOwned' /\ ActiveExplicit' /\ RoomsMade'
        /\ OneIdentityPerRoom' /\ HistorySound'
    BY <1>1, <1>2, <1>3, <2>2, RegisterInv
  <2>6. \A j \in Job : Apart(job[t], j) /\ RecordFresh(j) /\ RoomFresh(j)
                         => RecordFresh(j)' /\ RoomFresh(j)'
    BY <1>1, <1>2, <2>2, RegisterJobs
  <2>7. actor'[n] = a /\ a # NoActor BY <1>5, <2>5, DistinguishedAssumption
  <2>8. InStep(x) BY <2>3, <2>4 DEF InStep
  <2>9. RecordFresh(x)' BY <2>3, <2>4, <2>7 DEF RecordFresh, Present
  <2>10. RoomFresh(x)' BY <2>3, <2>4, RoomsAssumption DEF RoomFresh
  <2>11. Names(x) \subseteq Names(i) BY <1>3, <2>2, <2>3 DEF Names
  <2>12. \A j \in Job : Apart(job[t], j) => Apart(x, j)
    BY <1>2, <1>3, <2>3, <2>11, StepOn
  <2> QED BY <1>1, <2>2, <2>3, <2>5, <2>6, <2>8, <2>9, <2>10, <2>12, GoOnInv
<1>13. CASE Erase(t)
  <2>1. /\ i.step = "erase" /\ Unregister(job[t].name) /\ Unregister(n)
        /\ job' = [job EXCEPT ![t] = NoJob]
        /\ history' = history /\ actor' = [actor EXCEPT ![n] = NoActor]
    BY <1>2, <1>3, <1>13 DEF Erase, Unregister, Done
  <2>2. TypeOK /\ ActiveOwned /\ ActiveExplicit /\ OneIdentityPerRoom /\ HistorySound
    BY DEF RegistryInv
  <2>3. RoomsMade'
    BY <1>5, <1>6, <2>1 DEF RegistryInv, RoomsMade, Present
  <2>4. \A j \in Job : Apart(job[t], j) /\ RecordFresh(j) /\ RoomFresh(j)
                         => RecordFresh(j)' /\ RoomFresh(j)'
    BY <1>1, <1>2, <2>1, UnregisterJobs
  <2>5. CASE Present(n)
    <3>1. /\ actor' \in [Usernames -> Actor \cup {NoActor}]
          /\ active' \in [Users -> Usernames \cup {NoName}]
          /\ ActiveOwned' /\ ActiveExplicit' /\ OneIdentityPerRoom' /\ HistorySound'
      BY <1>1, <2>1, <2>2, <2>5, UnregisterInv
    <3> QED BY <1>1, <1>5, <2>1, <2>3, <2>4, <3>1, GoOnInv
  <2>6. CASE ~Present(n)
    <3>1. actor' = actor /\ active' = active
      BY <1>5, <2>1, <2>6 DEF Present, Unregister
    <3>2. UNCHANGED store BY <2>1, <3>1 DEF store
    <3> QED BY <1>1, <1>7, <2>1, <3>2, GoOnInv
  <2> QED BY <2>5, <2>6
<1>14. CASE Abort(t)
  <2>1. UNCHANGED store /\ job' = [job EXCEPT ![t] = NoJob] BY <1>14 DEF Abort, Done
  <2> QED BY <1>1, <1>7, <2>1, GoOnInv
<1> QED BY <1>8, <1>9, <1>10, <1>11, <1>12, <1>13, <1>14 DEF End

LEMMA NextInv ==
  ASSUME RegistryInv, [Next]_vars
  PROVE  RegistryInv'
<1>1. CASE UNCHANGED vars
  <2>1. /\ actor' = actor /\ active' = active /\ history' = history /\ job' = job
        /\ made' = made /\ keys' = keys /\ raced' = raced /\ crossed' = crossed
    BY <1>1 DEF vars, store, met
  <2> QED
    BY <2>1 DEF RegistryInv, TypeOK, ActiveOwned, ActiveExplicit, RoomsMade,
                MeetingsNoted, JobsSound, OneIdentityPerRoom, HistorySound, Ids,
                Present, InStep, RecordFresh, RoomFresh, Apart, Names, LinkedTo
<1>2. CASE \E t \in Tasks : Start(t) \/ CheckRoom(t) \/ PickName(t) \/ End(t)
  BY <1>2, StartInv, EndInv
<1> QED BY <1>1, <1>2 DEF Next, Idle

-------------------------------------------------------------------------------
\* Whatever runs beside what, the inductive invariant of the three tables holds:
\* rows name identities of their user, several identities have an active one,
\* and what a command read is still so when it writes, for every name that two
\* tasks were never at, at once.
THEOREM RegistryInvariant == Spec => []RegistryInv
<1>1. RegistryInv /\ [Next]_vars => RegistryInv' BY NextInv
<1> QED BY <1>1, InitInv, PTL DEF Spec

\* Whoever has an identity acts as exactly one of theirs, however identities
\* are created, linked, switched and deleted beside each other, unless a race
\* about that very identity put it in doubt.
THEOREM SomebodyActs == Spec => []AlwaysActive
<1>1. RegistryInv => AlwaysActive BY GetActiveSound DEF RegistryInv, AlwaysActive
<1> QED BY <1>1, RegistryInvariant, PTL

\* No two identities publish from one room, unless two tasks linked that room,
\* or wrote one of the two, at once.
THEOREM RoomsApart == Spec => []OneIdentityPerRoom
<1>1. RegistryInv => OneIdentityPerRoom BY DEF RegistryInv
<1> QED BY <1>1, RegistryInvariant, PTL

\* A linked room has an owner on record and a username one current room at
\* most, also after a registration that the unique index rejected half way, and
\* whichever tasks raced.
THEOREM HistoryStaysSound == Spec => []HistorySound
<1>1. RegistryInv => HistorySound BY DEF RegistryInv
<1> QED BY <1>1, RegistryInvariant, PTL

\* What the steps do to one identity's record.
LEMMA RecordSteps ==
  ASSUME TypeOK, [Next]_vars, NEW n \in Usernames, actor'[n] # actor[n]
  PROVE  \E t \in Tasks :
           /\ job[t] # NoJob
           /\ job[t].name = n
           /\ \/ actor'[n] = job[t].actor /\ job[t].step \in {"write", "detach"}
              \/ actor'[n] = NoActor /\ job[t].step = "erase"
<1>1. actor \in [Usernames -> Actor \cup {NoActor}] BY DEF TypeOK
<1>2. actor' # actor OBVIOUS
<1>3. ASSUME NEW t \in Tasks, Start(t) PROVE actor' = actor
  BY <1>3 DEF Start, Create, Unlink, Delete, Switch, Link, Shadow, Replace,
              Resave, store
<1>8. ASSUME NEW t \in Tasks, CheckRoom(t) \/ PickName(t) PROVE actor' = actor
  BY <1>8 DEF CheckRoom, PickName, store
<1>4. PICK t \in Tasks : End(t)
  BY <1>2, <1>3, <1>8 DEF Next, Idle, vars, store
<1>5. CASE Write(t) \/ Detach(t)
  <2>1. /\ job[t] # NoJob /\ job[t].step \in {"write", "detach"}
        /\ actor' = [actor EXCEPT ![job[t].name] = job[t].actor]
    BY <1>5 DEF Write, Detach, Register
  <2>2. job[t].name = n /\ actor'[n] = job[t].actor BY <1>1, <2>1
  <2> QED BY <2>1, <2>2
<1>6. CASE Erase(t)
  <2>1. /\ job[t] # NoJob /\ job[t].step = "erase"
        /\ actor' = [actor EXCEPT ![job[t].name] = NoActor]
    BY <1>6 DEF Erase, Unregister
  <2>2. job[t].name = n /\ actor'[n] = NoActor BY <1>1, <2>1
  <2> QED BY <2>1, <2>2
<1>7. ~SetActive(t) /\ ~Abort(t) BY <1>2 DEF SetActive, Abort, store
<1> QED BY <1>4, <1>5, <1>6, <1>7 DEF End

\* What a command knows of the record it is alone at.
LEMMA FreshParts ==
  ASSUME RegistryInv, NEW t \in Tasks, job[t] # NoJob,
         NEW n \in Usernames \ raced, job[t].name = n, job[t].step # "pick"
  PROVE  /\ Present(n) => /\ actor[n].owner = job[t].actor.owner
                          /\ actor[n].key = job[t].actor.key
         /\ job[t].kind \in {"create", "link", "shadow"}
              => (Present(n) => actor[n].room = NoRoom)
         /\ job[t].kind = "resave" => actor[n] = job[t].actor
         /\ job[t].step = "switch" <=> job[t].kind = "switch"
         /\ job[t].step \in {"detach", "erase"} <=> job[t].kind = "delete"
  BY JobKnows DEF RecordFresh, InStep

\* An identity, while it exists, has the owner and the key pair it began with,
\* unless two tasks were at its name at once.
THEOREM KeysStay == Spec => IdentityKept
<1> DEFINE Kept(n) == (Present(n) /\ actor'[n] # NoActor)
                        => /\ actor'[n].owner = actor[n].owner
                           /\ actor'[n].key = actor[n].key
<1>1. ASSUME RegistryInv, [Next]_vars, NEW n \in Usernames \ raced PROVE Kept(n)
  <2> SUFFICES ASSUME Present(n), actor'[n] # NoActor, actor'[n] # actor[n]
               PROVE  actor'[n].owner = actor[n].owner /\ actor'[n].key = actor[n].key
    OBVIOUS
  <2>1. PICK t \in Tasks : /\ job[t] # NoJob /\ job[t].name = n
                           /\ actor'[n] = job[t].actor /\ job[t].step # "pick"
    BY <1>1, RecordSteps DEF RegistryInv
  <2> QED BY <1>1, <2>1, FreshParts DEF RegistryInv
<1>2. RegistryInv /\ [Next]_vars => [\A n \in Usernames \ raced : Kept(n)]_vars BY <1>1
<1> QED BY <1>2, RegistryInvariant, PTL DEF Spec, IdentityKept

\* The room of an identity is its own until a command about that identity
\* takes it away: no other command, and no edit of its fields, does, unless two
\* tasks were at it at once.
THEOREM RoomsStay == Spec => RoomKept
<1> DEFINE About(n) == \E t \in Tasks :
                         /\ job[t] # NoJob
                         /\ job[t].name = n
                         /\ job[t].kind \in {"unlink", "delete", "replace"}
<1> DEFINE Kept(n) == (Present(n) /\ actor[n].room # NoRoom /\ ~About(n))
                        => actor'[n] = actor[n]
<1>1. ASSUME RegistryInv, [Next]_vars, NEW n \in Usernames \ raced PROVE Kept(n)
  <2> SUFFICES ASSUME Present(n), actor[n].room # NoRoom, ~About(n),
                      actor'[n] # actor[n]
               PROVE  FALSE
    OBVIOUS
  <2>1. PICK t \in Tasks :
          /\ job[t] # NoJob
          /\ job[t].name = n
          /\ \/ actor'[n] = job[t].actor /\ job[t].step \in {"write", "detach"}
             \/ actor'[n] = NoActor /\ job[t].step = "erase"
    BY <1>1, RecordSteps DEF RegistryInv
  <2>2. job[t].kind \notin {"unlink", "delete", "replace"} BY <2>1
  <2>3. job[t].kind \in Kinds BY <1>1, <2>1, JobKnows DEF Job
  <2>5. job[t].step \notin {"switch", "detach", "erase"}
    BY <1>1, <2>1, <2>2, FreshParts
  <2>6. job[t].kind \notin {"create", "link", "shadow", "switch"}
    BY <1>1, <2>1, <2>5, FreshParts
  <2>7. job[t].kind = "resave" BY <2>2, <2>3, <2>6 DEF Kinds
  <2> QED BY <1>1, <2>1, <2>5, <2>7, FreshParts
<1>2. RegistryInv /\ [Next]_vars => [\A n \in Usernames \ raced : Kept(n)]_vars BY <1>1
<1> QED BY <1>2, RegistryInvariant, PTL DEF Spec, RoomKept

-------------------------------------------------------------------------------
\* n is u's, and u's row says so or there is no row to say otherwise.
ActsAs(u, n) == n \in Ids(u) /\ (active[u] = n \/ active[u] = NoName)

\* Then u acts as n, and as nobody else.
LEMMA ActsAsActive ==
  RegistryInv => \A u \in Users, n \in Usernames :
                   ActsAs(u, n) /\ ~Contested(u) => GetActive(u) = n
<1> SUFFICES ASSUME RegistryInv, NEW u \in Users, NEW n \in Usernames, ActsAs(u, n),
                    ~Contested(u)
             PROVE  GetActive(u) = n
  OBVIOUS
<1>1. ActiveOwned /\ ActiveExplicit BY DEF RegistryInv
<1>2. n \in Ids(u) /\ n # NoName /\ Present(n) BY IdsPresent, NamesAssumption DEF ActsAs
<1>3. CASE active[u] = n BY <1>2, <1>3 DEF GetActive
<1>4. CASE active[u] = NoName
  <2>1. GetActive(u) \in Ids(u) BY <1>1, <1>2, GetActiveSound
  <2>2. Ids(u) \cap raced = {} BY <1>4 DEF Contested
  <2> QED BY <1>1, <1>2, <1>4, <2>1, <2>2 DEF ActiveExplicit
<1> QED BY <1>3, <1>4 DEF ActsAs

LEMMA ActiveActsAs ==
  ASSUME RegistryInv, NEW u \in Users, GetActive(u) # NoName, ~Contested(u)
  PROVE  GetActive(u) \in Usernames /\ ActsAs(u, GetActive(u))
<1>1. ActiveOwned /\ ActiveExplicit BY DEF RegistryInv
<1>2. GetActive(u) \in Ids(u) BY <1>1, GetActiveSound
<1>3. CASE active[u] = NoName BY <1>2, <1>3, IdsPresent DEF ActsAs
<1>4. CASE active[u] # NoName
  <2>1. Present(active[u]) BY <1>1, <1>4, IdsPresent DEF ActiveOwned, Contested
  <2>2. GetActive(u) = active[u] BY <1>4, <2>1 DEF GetActive
  <2> QED BY <1>2, <2>2, IdsPresent DEF ActsAs
<1> QED BY <1>3, <1>4

\* Nor is it an identity that two tasks were at.
LEMMA ActsAsUnraced ==
  ASSUME NEW u \in Users, NEW k \in Usernames, ActsAs(u, k), ~Contested(u)
  PROVE  k \notin raced
  BY DEF ActsAs, Contested

\* A registration leaves everybody acting as before.
LEMMA RegisterKeepsActive ==
  ASSUME RegistryInv, NEW t \in Tasks, job[t] # NoJob,
         job[t].step # "pick", Register(job[t].name, job[t].actor),
         NEW u \in Users, NEW k \in Usernames, ActsAs(u, k), ~Contested(u)
  PROVE  ActsAs(u, k)'
<1>1. job[t].name \in Usernames /\ job[t].actor \in Actor BY JobKnows
<1>2. PICK n \in Usernames, a \in Actor : n = job[t].name /\ a = job[t].actor BY <1>1
<1>3. n \notin raced => (Present(n) => actor[n].owner = a.owner) BY <1>2, JobKnows
<1>4. Register(n, a) BY <1>2
<1>5. TypeOK /\ ActiveExplicit BY DEF RegistryInv
<1>6. PICK o \in Users : o = a.owner BY DEF Actor
<1>7. /\ Ids(o)' = Ids(o) \cup {n}
      /\ \A v \in Users \ {o} : Ids(v)' = Ids(v) \ {n}
      /\ \A v \in Users \ {o} : n \in Ids(v) => n \in raced
      /\ n \in Ids(o) => Present(n)
  BY <1>3, <1>4, <1>5, <1>6, RegisterIds
<1>8. k \in Ids(u)' BY <1>7, ActsAsUnraced DEF ActsAs
<1>9. PICK m \in IF Ids(o) \ {n} = {} THEN {n} ELSE Ids(o) \ {n} :
        active' = IF Present(n) \/ active[o] # NoName THEN active
                  ELSE [active EXCEPT ![o] = m]
  BY <1>4, <1>6 DEF Register, Activated
<1>10. active'[u] = k \/ active'[u] = NoName
  <2>1. CASE Present(n) \/ active[o] # NoName \/ u # o
    BY <1>5, <1>9, <2>1 DEF TypeOK, ActsAs
  <2>2. CASE ~Present(n) /\ active[o] = NoName /\ u = o
    <3>1. k \in Ids(o) \ {n} BY <1>7, <2>2 DEF ActsAs
    <3>2. m \in Ids(o) BY <1>9, <3>1
    <3>4. Ids(o) \cap raced = {} BY <2>2 DEF Contested
    <3>3. m = k BY <1>5, <2>2, <3>1, <3>2, <3>4 DEF ActiveExplicit
    <3> QED BY <1>5, <1>9, <2>2, <3>3 DEF TypeOK
  <2> QED BY <2>1, <2>2
<1> QED BY <1>8, <1>10 DEF ActsAs

\* Who acts for a user changes only by a switch of that user, or because the
\* identity that acted is gone: no new identity, link, edit or deletion of
\* another one does it, whatever runs beside it.  A race about that identity, or
\* while no row says which it is about another of the user's, may.
THEOREM ActiveStays == Spec => ActiveNotStolen
<1> DEFINE Kept(u) ==
      (GetActive(u) # NoName /\ GetActive(u)' # GetActive(u))
        => \/ actor'[GetActive(u)] = NoActor
           \/ \E t \in Tasks : job[t] # NoJob /\ job[t].step = "switch"
                                 /\ job[t].actor.owner = u
           \/ Contested(u)
           \/ Contested(u)'
<1>1. ASSUME RegistryInv, RegistryInv', [Next]_vars, NEW u \in Users,
             \A v \in Users, n \in Usernames :
                ActsAs(v, n)' /\ ~Contested(v)' => GetActive(v)' = n
      PROVE  Kept(u)
  <2> SUFFICES ASSUME NEW k \in Usernames, ActsAs(u, k), actor'[k] # NoActor,
                      ~\E t \in Tasks : job[t] # NoJob /\ job[t].step = "switch"
                                          /\ job[t].actor.owner = u,
                      ~Contested(u)
               PROVE  ActsAs(u, k)'
    BY <1>1, ActiveActsAs
  <2>1. CASE actor' = actor /\ active' = active
    BY <2>1 DEF ActsAs, Ids, Present
  <2>2. ASSUME NEW t \in Tasks, Start(t) PROVE actor' = actor /\ active' = active
    BY <2>2 DEF Start, Create, Unlink, Delete, Switch, Link, Shadow, Replace,
                Resave, store
  <2>3. ASSUME NEW t \in Tasks, Write(t) \/ Detach(t) PROVE ActsAs(u, k)'
    <3>1. /\ job[t] # NoJob /\ job[t].step # "pick"
          /\ Register(job[t].name, job[t].actor)
      BY <2>3 DEF Write, Detach
    <3> QED BY <1>1, <3>1, RegisterKeepsActive
  <2>4. ASSUME NEW t \in Tasks, SetActive(t) PROVE ActsAs(u, k)'
    <3>1. /\ job[t].actor.owner # u
          /\ active' = [active EXCEPT ![job[t].actor.owner] = job[t].name]
          /\ actor' = actor
      BY <2>4 DEF SetActive
    <3>2. active'[u] = active[u] BY <1>1, <3>1 DEF RegistryInv, TypeOK
    <3> QED BY <3>1, <3>2 DEF ActsAs, Ids, Present
  <2>5. ASSUME NEW t \in Tasks, Erase(t) PROVE ActsAs(u, k)'
    <3>1. job[t] # NoJob /\ Unregister(job[t].name) BY <2>5 DEF Erase
    <3>2. PICK n \in Usernames : n = job[t].name BY <1>1, <3>1, JobKnows
    <3>3. actor' = [actor EXCEPT ![n] = NoActor] BY <3>1, <3>2 DEF Unregister
    <3>4. actor \in [Usernames -> Actor \cup {NoActor}]
          /\ active \in [Users -> Usernames \cup {NoName}]
      BY <1>1 DEF RegistryInv, TypeOK
    <3>5. k # n BY <3>3, <3>4
    <3>6. k \in Ids(u)' BY <3>3, <3>4, <3>5 DEF ActsAs, Ids, Present
    <3>7. CASE ~Present(n)
      BY <3>1, <3>2, <3>6, <3>7 DEF Unregister, ActsAs
    <3>8. CASE Present(n)
      <4>1. PICK o \in Users : o = actor[n].owner BY <3>4, <3>8 DEF Present, Actor
      <4>2. PICK m : active' = IF active[o] = n THEN [active EXCEPT ![o] = m] ELSE active
        BY <3>1, <3>2, <3>8, <4>1 DEF Unregister, Promoted
      <4>3. CASE active[o] # n \/ u # o
        BY <3>4, <3>6, <4>2, <4>3 DEF ActsAs
      <4>4. CASE active[o] = n /\ u = o
        <5>1. n # NoName BY NamesAssumption
        <5> QED BY <3>5, <4>4, <5>1 DEF ActsAs
      <4> QED BY <4>3, <4>4
    <3> QED BY <3>7, <3>8
  <2>6. ASSUME NEW t \in Tasks, Abort(t) \/ CheckRoom(t) \/ PickName(t)
        PROVE  actor' = actor /\ active' = active
    BY <2>6 DEF Abort, CheckRoom, PickName, store
  <2> QED BY <1>1, <2>1, <2>2, <2>3, <2>4, <2>5, <2>6 DEF Next, Idle, End, vars, store
<1>2. (\A v \in Users, n \in Usernames :
         ActsAs(v, n) /\ ~Contested(v) => GetActive(v) = n)'
        /\ RegistryInv /\ RegistryInv' /\ [Next]_vars => [\A u \in Users : Kept(u)]_vars
  BY <1>1
<1>3. RegistryInv => \A v \in Users, n \in Usernames :
                       ActsAs(v, n) /\ ~Contested(v) => GetActive(v) = n
  BY ActsAsActive
<1> QED BY <1>2, <1>3, RegistryInvariant, PTL DEF Spec, ActiveNotStolen
===============================================================================
