------------------------- MODULE ReactionBridge_proofs --------------------------
(***************************************************************************)
(* Theorems about reactions on their way out and back, for any users,      *)
(* identities, requests, events, give-ups and restarts: transactions are   *)
(* handled in order, a second activity for a reaction only follows an Undo *)
(* its reactor asked for, and a row goes only when everybody the activity  *)
(* went to was sent that Undo.                                             *)
(***************************************************************************)
EXTENDS ReactionBridge, TLAPS, FiniteSetTheorems

\* Where the requests are.
ProcsSound ==
  /\ \A r \in Requests : proc[r].pc # "idle" =>
       /\ proc[r].at >= 1 /\ proc[r].end <= Len(stream)
       /\ proc[r].at <= proc[r].end + 1
       /\ proc[r].pc # "look" => proc[r].at <= proc[r].end
  /\ waiting # NoRequest => proc[waiting].pc # "idle" /\ proc[waiting].end = batch

IntakeSound == IntakeTypeOK(Event) /\ InOrder /\ ProcsSound

Undone(a) == \A x \in Reachable(a) : <<x, a, Signer(a)>> \in undos

\* What a handler at w relies on, its request being at p.
Holds(w, p) ==
  /\ w.pc # "none" <=> p.pc = "run"
  /\ w.pc \in {"check", "claim"} => IsReaction(p.at)
  /\ w.pc \in {"card", "post", "record"} => w.act \in issued /\ w.act.pos = p.at
  /\ w.pc = "find" => p.at \in 1..Len(stream) /\ Kind(p.at) = "redact"
  /\ w.pc \in {"undo", "remove"} => w.act \in issued /\ Asked(w.act)
  /\ w.pc \in {"card", "post", "undo"} => w.todo # <<>>
  /\ w.pc = "undo" => \A x \in Reachable(w.act) :
       (\E i \in 1..Len(w.todo) : w.todo[i] = x) \/ <<x, w.act, Signer(w.act)>> \in undos
  /\ w.pc = "remove" => Silent(w.act) \/ Undone(w.act)

\* Activities are numbered in the order of their claims.
Numbered ==
  /\ IsFiniteSet(issued)
  /\ \A a \in issued : IsReaction(a.pos) /\ a.n <= Cardinality({b \in issued : b.pos = a.pos})

TablesTyped ==
  /\ rows \subseteq [act : Activity, card : BOOLEAN]
  /\ issued \subseteq Activity /\ cards \subseteq issued
  /\ sent \subseteq Inboxes \X issued
  /\ undos \subseteq Inboxes \X issued \X Actors
  /\ barred \subseteq Barrable
  /\ lost \subseteq Positions

RowsUnique ==
  /\ \A x, y \in rows : x.act.pos = y.act.pos => x = y
  /\ \A x \in rows : x.act \in issued /\ (x.card => x.act \in cards)

TablesSound == TablesTyped /\ RowsUnique /\ Numbered /\ OneActivityPerReaction /\ NothingUnasked

\* The inductive invariant.
IInv == /\ IntakeSound /\ TablesSound
        /\ work \in [Requests -> Work]
        /\ \A r \in Requests : Holds(work[r], proc[r])

-------------------------------------------------------------------------------
\* The intake, whatever the handlers do.
Proc == [pc : {"idle", "look", "run", "mark"}, at : 0..MaxEvents + 1, end : 0..MaxEvents]

LEMMA IntakeFacts ==
  ASSUME IntakeSound
  PROVE  /\ MaxRequests \in Nat /\ MaxEvents \in Nat /\ MaxTimeouts \in Nat /\ MaxCrashes \in Nat
         /\ stream \in Seq(Event) /\ Len(stream) \in Nat /\ Len(stream) <= MaxEvents
         /\ acked \in 0..Len(stream) /\ batch \in acked..Len(stream)
         /\ proc \in [Requests -> Proc] /\ marked \subseteq 1..Len(stream)
         /\ NoRequest \notin Requests /\ IdleProc \in Proc
         /\ waiting \in Requests \cup {NoRequest}
         /\ timeouts \in Nat /\ crashes \in Nat
BY IntakeAssumption
   DEF IntakeSound, IntakeTypeOK, Proc, IdleProc, NoRequest, Requests

\* The stream only grows, and what was in it stays.
Grows == /\ stream' \in Seq(Event) /\ Len(stream) <= Len(stream')
         /\ \A i \in 1..Len(stream) : stream'[i] = stream[i]

LEMMA ArriveInv ==
  ASSUME IntakeSound, NEW e \in Event, Arrive(e)
  PROVE  IntakeSound' /\ Grows /\ proc' = proc
<1> USE IntakeFacts
<1>1. /\ stream' = Append(stream, e) /\ Len(stream') = Len(stream) + 1 /\ stream' \in Seq(Event)
      /\ Len(stream) < MaxEvents
      /\ UNCHANGED <<acked, batch, waiting, proc, marked, timeouts, crashes>>
  BY DEF Arrive
<1>2. \A i \in 1..Len(stream) : stream'[i] = stream[i] BY <1>1
<1>3. Grows BY <1>1, <1>2 DEF Grows
<1>4. IntakeTypeOK(Event)' BY <1>1 DEF IntakeSound, IntakeTypeOK, Requests
<1>5. InOrder' BY <1>1 DEF IntakeSound, InOrder, Requests
<1>6. ProcsSound' BY <1>1 DEF IntakeSound, ProcsSound, Proc, Requests
<1> QED BY <1>1, <1>3, <1>4, <1>5, <1>6 DEF IntakeSound

\* A request comes, or goes on: its own entry of proc changes.
LEMMA ProcStep ==
  ASSUME IntakeSound, NEW r \in Requests, NEW p \in Proc,
         proc' = [proc EXCEPT ![r] = p], marked \subseteq marked', marked' \subseteq 1..Len(stream),
         p.pc # "idle" =>
           /\ p.at >= 1 /\ p.end <= Len(stream) /\ p.at <= p.end + 1
           /\ p.pc # "look" => p.at <= p.end
           /\ 1..(p.at - 1) \subseteq marked',
         waiting' # NoRequest => waiting' \in Requests /\ batch' = (IF waiting' = r THEN p.end ELSE batch),
         waiting' = r => p.pc # "idle",
         waiting' \in {waiting, r, NoRequest},
         acked' \in {acked, batch}, 1..acked' \subseteq marked', batch' \in acked'..Len(stream),
         UNCHANGED <<stream, timeouts, crashes>>
  PROVE  IntakeSound' /\ Grows /\ \A q \in Requests \ {r} : proc'[q] = proc[q]
<1> USE IntakeFacts
<1>1. proc' \in [Requests -> Proc] BY DEF Proc
<1>2. \A q \in Requests : proc'[q] = IF q = r THEN p ELSE proc[q] BY DEF Proc
<1>3. Grows BY DEF Grows
<1>4. IntakeTypeOK(Event)'
  <2>1. acked' \in 0..Len(stream) /\ waiting' \in Requests' \cup {NoRequest}
    BY DEF Requests
  <2>2. stream' \in Seq(Event) /\ Len(stream') <= MaxEvents /\ Len(stream') = Len(stream) OBVIOUS
  <2>3. timeouts' \in 0..MaxTimeouts /\ crashes' \in 0..MaxCrashes
    BY DEF IntakeSound, IntakeTypeOK
  <2> QED BY <1>1, <2>1, <2>2, <2>3 DEF IntakeTypeOK, Proc, Requests
<1>5. InOrder' BY <1>1, <1>2 DEF IntakeSound, InOrder, Requests
<1>6. ProcsSound' BY <1>1, <1>2 DEF IntakeSound, ProcsSound, Proc, Requests
<1> QED BY <1>2, <1>3, <1>4, <1>5, <1>6 DEF IntakeSound

LEMMA RequestsInv ==
  ASSUME IntakeSound, NEW r \in Requests, Send(r) \/ Skip(r) \/ Begin(r) \/ Mark(r) \/ Reply(r)
                                          \/ (End(r) /\ proc[r].pc = "run")
  PROVE  /\ IntakeSound' /\ Grows /\ stream' = stream
         /\ \A q \in Requests \ {r} : proc'[q] = proc[q]
         /\ proc[r].pc = "run" => End(r)
         /\ Begin(r) => proc'[r] = [proc[r] EXCEPT !.pc = "run"]
         /\ ~ Begin(r) => proc'[r].pc # "run"
<1> USE IntakeFacts
<1> DEFINE p == proc[r]
<1>0. p \in Proc /\ r # NoRequest /\ r \in Nat BY DEF Requests
<1>1. p.pc # "idle" =>
        /\ p.at >= 1 /\ p.end <= Len(stream) /\ p.at <= p.end + 1
        /\ p.pc # "look" => p.at <= p.end
        /\ 1..(p.at - 1) \subseteq marked
  BY DEF IntakeSound, ProcsSound, InOrder
<1>2. waiting = r => p.pc # "idle" /\ p.end = batch BY <1>0 DEF IntakeSound, ProcsSound
<1>3. 1..acked \subseteq marked BY DEF IntakeSound, InOrder
<1>4. CASE Send(r)
  <2>1. batch' \in (acked + 1)..Len(stream) /\ proc' = [proc EXCEPT ![r] = [pc |-> "look", at |-> acked + 1, end |-> batch']]
    <3>1. batch' \in IF batch > acked THEN {batch} ELSE (acked + 1)..Len(stream) BY <1>4 DEF Send
    <3>2. batch \in Nat /\ acked \in Nat /\ batch <= Len(stream) OBVIOUS
    <3>3. batch' \in (acked + 1)..Len(stream) BY <3>1, <3>2
    <3> QED BY <1>4, <3>3 DEF Send
  <2>2. /\ waiting = NoRequest /\ waiting' = r /\ p.pc = "idle"
        /\ UNCHANGED <<stream, acked, marked, timeouts, crashes>>
    BY <1>0, <1>4 DEF Send, Requests
  <2>3. PICK q \in Proc : q = [pc |-> "look", at |-> acked + 1, end |-> batch']
    <3>1. batch' \in 0..MaxEvents /\ acked + 1 \in 0..MaxEvents + 1 BY <2>1
    <3> QED BY <3>1 DEF Proc
  <2>4. /\ q.pc = "look" /\ q.at = acked + 1 /\ q.end = batch'
        /\ proc' = [proc EXCEPT ![r] = q]
    BY <2>1, <2>3
  <2>5. /\ q.at >= 1 /\ q.end <= Len(stream) /\ q.at <= q.end + 1
        /\ 1..(q.at - 1) \subseteq marked'
    BY <1>3, <2>1, <2>2, <2>4
  <2>6. proc'[r] = q BY <2>4
  <2>7. acked' = acked /\ batch' \in acked'..Len(stream) /\ 1..acked' \subseteq marked'
    BY <1>3, <2>1, <2>2
  <2>8. /\ IntakeSound' /\ Grows /\ \A x \in Requests \ {r} : proc'[x] = proc[x]
    BY <1>0, <2>1, <2>2, <2>4, <2>5, <2>7, ProcStep
  <2> QED BY <2>2, <2>4, <2>6, <2>8 DEF Begin, Looking
<1>5. ASSUME Skip(r) \/ Begin(r) \/ Mark(r) \/ (End(r) /\ p.pc = "run"),
             NEW q \in Proc, proc' = [proc EXCEPT ![r] = q],
             q.pc # "idle" /\ q.end = p.end /\ q.at \in {p.at, p.at + 1},
             q.at = p.at + 1 => p.at \in marked' /\ p.at <= p.end,
             q.pc # "look" => q.at <= q.end,
             marked \subseteq marked', marked' \subseteq 1..Len(stream), p.pc # "idle"
      PROVE  IntakeSound' /\ Grows /\ \A x \in Requests \ {r} : proc'[x] = proc[x]
  <2>1. UNCHANGED <<stream, acked, batch, waiting, timeouts, crashes>>
    BY <1>5 DEF Skip, Begin, Mark, End
  <2>2. 1..(q.at - 1) \subseteq marked'
    <3>1. p.at \in Nat /\ 1..(p.at - 1) \subseteq marked' BY <1>0, <1>1, <1>5 DEF Proc
    <3>2. CASE q.at = p.at BY <3>1, <3>2
    <3>3. CASE q.at = p.at + 1
      <4>1. \A i \in 1..(q.at - 1) : i \in 1..(p.at - 1) \/ i = p.at BY <3>1, <3>3
      <4> QED BY <1>5, <3>1, <3>3, <4>1
    <3> QED BY <1>5, <3>2, <3>3
  <2>a. p.at \in Nat /\ p.end \in Nat /\ p.at >= 1 /\ p.end <= Len(stream) /\ p.at <= p.end + 1
    BY <1>0, <1>1, <1>5 DEF Proc
  <2>3. q.at >= 1 /\ q.end <= Len(stream) /\ q.at <= q.end + 1 BY <1>5, <2>a
  <2>4. 1..acked' \subseteq marked' /\ batch' \in acked'..Len(stream) BY <1>3, <1>5, <2>1
  <2> QED BY <1>0, <1>2, <1>5, <2>1, <2>2, <2>3, <2>4, ProcStep
<1>6. CASE Skip(r)
  <2>1. p.pc = "look" /\ p.at <= p.end /\ p.at \in marked /\ UNCHANGED <<stream, marked>>
    BY <1>6 DEF Skip, Looking, IsProcessed
  <2>0. p.at + 1 \in 0..MaxEvents + 1 BY <1>0, <2>1 DEF Proc
  <2>2. PICK q \in Proc : q = [p EXCEPT !.at = p.at + 1] BY <1>0, <2>0 DEF Proc
  <2>3. q.pc = p.pc /\ q.end = p.end /\ q.at = p.at + 1 /\ proc' = [proc EXCEPT ![r] = q]
    BY <1>0, <1>6, <2>2 DEF Skip, Proc
  <2>4. proc'[r] = q BY <2>3
  <2> QED BY <1>5, <1>6, <2>1, <2>3, <2>4 DEF Begin, IsProcessed
<1>7. CASE Begin(r)
  <2>1. p.pc = "look" /\ p.at <= p.end /\ UNCHANGED <<stream, marked>>
    BY <1>7 DEF Begin, Looking
  <2>2. PICK q \in Proc : q = [p EXCEPT !.pc = "run"] BY <1>0 DEF Proc
  <2>3. q.pc = "run" /\ q.end = p.end /\ q.at = p.at /\ proc' = [proc EXCEPT ![r] = q]
    BY <1>0, <1>7, <2>2 DEF Begin, Proc
  <2>4. proc'[r] = q BY <2>3
  <2>5. p.at + 1 # p.at BY <1>0 DEF Proc
  <2> QED BY <1>5, <1>7, <2>1, <2>2, <2>3, <2>4, <2>5
<1>8. CASE End(r) /\ p.pc = "run"
  <2>1. p.at <= p.end /\ UNCHANGED <<stream, marked>> BY <1>1, <1>8 DEF End
  <2>2. PICK q \in Proc : q = [p EXCEPT !.pc = "mark"] BY <1>0 DEF Proc
  <2>3. q.pc = "mark" /\ q.end = p.end /\ q.at = p.at /\ proc' = [proc EXCEPT ![r] = q]
    BY <1>0, <1>8, <2>2 DEF End, Proc
  <2>4. proc'[r] = q BY <2>3
  <2>5. p.at + 1 # p.at BY <1>0 DEF Proc
  <2> QED BY <1>5, <1>8, <2>1, <2>3, <2>4, <2>5 DEF Begin, Looking
<1>9. CASE Mark(r)
  <2>1. /\ p.pc = "mark" /\ p.at >= 1 /\ p.at <= p.end /\ p.end <= Len(stream)
        /\ stream' = stream /\ marked' = marked \cup {p.at}
    BY <1>1, <1>9 DEF Mark
  <2>0. p.at + 1 \in 0..MaxEvents + 1 BY <1>0, <2>1 DEF Proc
  <2>2. PICK q \in Proc : q = [p EXCEPT !.pc = "look", !.at = p.at + 1] BY <1>0, <2>0 DEF Proc
  <2>3. q.pc = "look" /\ q.end = p.end /\ q.at = p.at + 1 /\ proc' = [proc EXCEPT ![r] = q]
    BY <1>0, <1>9, <2>2 DEF Mark, Proc
  <2>4. proc'[r] = q BY <2>3
  <2>5. marked' \subseteq 1..Len(stream) BY <1>0, <2>1 DEF Proc
  <2> QED BY <1>5, <1>9, <2>1, <2>3, <2>4, <2>5 DEF Begin, Looking
<1>10. CASE Reply(r)
  <2>1. /\ p.pc = "look" /\ p.at > p.end /\ proc' = [proc EXCEPT ![r] = IdleProc]
        /\ UNCHANGED <<stream, batch, marked, timeouts, crashes>>
        /\ IF waiting = r THEN acked' = batch /\ waiting' = NoRequest ELSE UNCHANGED <<acked, waiting>>
    BY <1>10 DEF Reply
  <2>2. waiting = r => 1..batch \subseteq marked BY <1>0, <1>1, <1>2, <2>1 DEF Proc
  <2>3. IdleProc.pc = "idle" BY DEF IdleProc
  <2>4. acked' \in {acked, batch} /\ 1..acked' \subseteq marked' /\ batch' \in acked'..Len(stream)
    BY <1>3, <2>1, <2>2
  <2>5. waiting' # r /\ waiting' \in {waiting, NoRequest}
    BY <1>0, <2>1
  <2>6. /\ IntakeSound' /\ Grows /\ \A x \in Requests \ {r} : proc'[x] = proc[x]
    BY <2>1, <2>3, <2>4, <2>5, ProcStep
  <2>7. proc'[r] = IdleProc BY <2>1
  <2> QED BY <2>1, <2>3, <2>6, <2>7 DEF Begin, Looking
<1> QED BY <1>4, <1>6, <1>7, <1>8, <1>9, <1>10

LEMMA GiveUpInv ==
  ASSUME IntakeSound, GiveUp
  PROVE  IntakeSound' /\ Grows /\ proc' = proc /\ stream' = stream
<1> USE IntakeFacts
<1>1. /\ waiting' = NoRequest /\ timeouts' = timeouts + 1 /\ timeouts < MaxTimeouts
      /\ UNCHANGED <<stream, acked, batch, proc, marked, crashes>>
  BY DEF GiveUp
<1>2. timeouts' \in 0..MaxTimeouts BY <1>1
<1>3. IntakeTypeOK(Event)' BY <1>1, <1>2 DEF IntakeSound, IntakeTypeOK, Requests
<1>4. InOrder' /\ ProcsSound' BY <1>1 DEF IntakeSound, InOrder, ProcsSound, Requests
<1> QED BY <1>1, <1>3, <1>4 DEF IntakeSound, Grows

LEMMA CrashInv ==
  ASSUME IntakeSound, Crash
  PROVE  IntakeSound' /\ Grows /\ stream' = stream /\ proc' = [r \in Requests |-> IdleProc]
<1> USE IntakeFacts
<1>1. /\ waiting' = NoRequest /\ crashes' = crashes + 1 /\ crashes < MaxCrashes
      /\ proc' = [r \in Requests |-> IdleProc]
      /\ UNCHANGED <<stream, acked, batch, marked, timeouts>>
  BY DEF Crash
<1>2. crashes' \in 0..MaxCrashes BY <1>1
<1>3. proc' \in [Requests' -> Proc] BY <1>1 DEF Requests
<1>4. IntakeTypeOK(Event)' BY <1>1, <1>2, <1>3 DEF IntakeSound, IntakeTypeOK, Requests, Proc
<1>5. \A r \in Requests : proc'[r].pc = "idle" BY <1>1 DEF IdleProc
<1>6. InOrder' /\ ProcsSound' BY <1>1, <1>5 DEF IntakeSound, InOrder, ProcsSound, Requests
<1> QED BY <1>1, <1>4, <1>6 DEF IntakeSound, Grows

-------------------------------------------------------------------------------
\* What a handler relies on is never taken back.
LEMMA StreamFacts ==
  ASSUME IntakeSound, Grows, NEW i \in 1..Len(stream)
  PROVE  /\ i \in 1..Len(stream') /\ i \in Positions /\ stream'[i] = stream[i]
         /\ stream[i] \in Event /\ (IsReaction(i) <=> IsReaction(i)')
<1>1. Len(stream) \in Nat /\ Len(stream') \in Nat /\ Len(stream) <= MaxEvents
      /\ MaxEvents \in Nat /\ stream \in Seq(Event)
  BY IntakeFacts DEF Grows
<1>2. i \in 1..Len(stream') /\ stream'[i] = stream[i] /\ i \in Positions
  BY <1>1 DEF Grows, Positions
<1> QED BY <1>1, <1>2 DEF IsReaction, Kind

LEMMA AskedStays ==
  ASSUME IntakeSound, Grows, NEW a, a.pos \in 1..Len(stream)
  PROVE  /\ Reactor(a)' = Reactor(a) /\ Reachable(a)' = Reachable(a) /\ Signer(a)' = Signer(a)
         /\ IsRepost(a)' = IsRepost(a)
         /\ Asked(a) => Asked(a)'
         /\ barred \subseteq barred' => (Silent(a) => Silent(a)')
<1>1. stream'[a.pos] = stream[a.pos] BY StreamFacts
<1>2. Reactor(a)' = Reactor(a) /\ Reachable(a)' = Reachable(a) /\ IsRepost(a)' = IsRepost(a)
  BY <1>1 DEF Reactor, Reachable, Owed, Signer, IsRepost, Kind
<1>3. Asked(a) => Asked(a)' BY <1>2, StreamFacts DEF Asked, Kind
<1> QED BY <1>2, <1>3 DEF Signer, Silent

LEMMA HoldsStays ==
  ASSUME IntakeSound, TablesSound, Grows, issued \subseteq issued', undos \subseteq undos',
         barred \subseteq barred', NEW w \in Work, NEW p, p.pc = "run" => p.at \in 1..Len(stream),
         Holds(w, p)
  PROVE  Holds(w, p)'
<1>1. \A a \in issued : a.pos \in 1..Len(stream)
  BY DEF TablesSound, Numbered, IsReaction
<1>2. ASSUME w.pc \in {"undo", "remove"}
      PROVE  /\ w.act \in issued' /\ Asked(w.act)' /\ Reachable(w.act)' = Reachable(w.act)
             /\ Signer(w.act)' = Signer(w.act) /\ (Silent(w.act) => Silent(w.act)')
  BY <1>1, <1>2, AskedStays DEF Holds
<1>3. w.pc \in {"check", "claim"} => IsReaction(p.at)'
  BY StreamFacts DEF Holds
<1>4. w.pc = "find" => p.at \in 1..Len(stream') /\ Kind(p.at)' = "redact"
  BY StreamFacts DEF Holds, Kind
<1>5. w.pc = "undo" => \A x \in Reachable(w.act)' :
         (\E i \in 1..Len(w.todo) : w.todo[i] = x) \/ <<x, w.act, Signer(w.act)'>> \in undos'
  BY <1>2 DEF Holds
<1>6. w.pc = "remove" => Silent(w.act)' \/ Undone(w.act)'
  BY <1>2 DEF Holds, Undone
<1>7. w.pc \in {"card", "post", "record"} => w.act \in issued' /\ w.act.pos = p.at BY DEF Holds
<1>8. w.pc \in {"undo", "remove"} => w.act \in issued' /\ Asked(w.act)' BY <1>2
<1>9. (w.pc # "none" <=> p.pc = "run") /\ (w.pc \in {"card", "post", "undo"} => w.todo # <<>>)
  BY DEF Holds
<1> QED BY <1>3, <1>4, <1>5, <1>6, <1>7, <1>8, <1>9 DEF Holds

\* A step that leaves the tables alone.
LEMMA TablesStay ==
  ASSUME IntakeSound, TablesSound, Grows, barred \subseteq barred', barred' \subseteq Barrable,
         lost' \subseteq Positions, UNCHANGED <<rows, issued>>,
         cards \subseteq cards', cards' \subseteq issued,
         sent' \subseteq Inboxes \X issued,
         undos' \subseteq Inboxes \X issued \X Actors,
         \A u \in undos' : u \in undos \/ Asked(u[2])'
  PROVE  TablesSound'
<1>1. \A a \in issued : a \in Activity /\ a.pos \in 1..Len(stream)
  BY DEF TablesSound, TablesTyped, Numbered, IsReaction
<1>2. \A a \in issued : Asked(a) => Asked(a)' BY <1>1, AskedStays
<1>3. TablesTyped' BY DEF TablesSound, TablesTyped
<1>4. RowsUnique' BY DEF TablesSound, RowsUnique
<1>5. Numbered' BY <1>1, StreamFacts DEF TablesSound, Numbered
<1>6. OneActivityPerReaction' BY <1>2 DEF TablesSound, OneActivityPerReaction
<1>7. NothingUnasked'
  <2>1. \A u \in undos' : Asked(u[2])'
    <3> SUFFICES ASSUME NEW u \in undos, Asked(u[2]) PROVE Asked(u[2])'
      BY DEF TablesSound, NothingUnasked
    <3>1. u[2] \in issued BY DEF TablesSound, TablesTyped
    <3> QED BY <1>2, <3>1
  <2>2. \A a \in issued' : (\E row \in rows' : row.act = a) \/ Asked(a)'
    BY <1>2 DEF TablesSound, NothingUnasked
  <2> QED BY <2>1, <2>2 DEF NothingUnasked
<1> QED BY <1>3, <1>4, <1>5, <1>6, <1>7 DEF TablesSound

\* The handlers of the other requests, and of one that comes to w.
LEMMA HandlersStep ==
  ASSUME IInv, IntakeSound', TablesSound', Grows, issued \subseteq issued', undos \subseteq undos',
         barred \subseteq barred', NEW r \in Requests, NEW w \in Work,
         \A q \in Requests \ {r} : proc'[q] = proc[q],
         work' = [work EXCEPT ![r] = w], Holds(w, proc[r])'
  PROVE  IInv'
<1>1. work' \in [Requests' -> Work] BY DEF IInv, Requests
<1>2. ASSUME NEW q \in Requests' PROVE Holds(work[q], proc[q])'
  <2>1. CASE q = r BY <2>1 DEF IInv
  <2>2. CASE q # r
    <3>1. q \in Requests /\ work'[q] = work[q] /\ proc'[q] = proc[q] /\ work[q] \in Work
      BY <2>2 DEF IInv, Requests
    <3>2. proc[q].pc = "run" => proc[q].at \in 1..Len(stream)
      <4>1. proc[q] \in Proc /\ Len(stream) \in Nat BY <3>1, IntakeFacts DEF IInv
      <4> QED BY <3>1, <4>1 DEF IInv, IntakeSound, ProcsSound, Proc
    <3>3. PICK v \in Work, p \in {proc[q]} : v = work[q] BY <3>1
    <3>4. Holds(v, p) BY <3>1, <3>3 DEF IInv
    <3>5. Holds(v, p)' BY <3>2, <3>3, <3>4, HoldsStays DEF IInv
    <3> QED BY <3>1, <3>3, <3>5
  <2> QED BY <2>1, <2>2
<1> QED BY <1>1, <1>2 DEF IInv

LEMMA IntakeStays ==
  ASSUME IntakeSound, UNCHANGED intakeVars
  PROVE  IntakeSound' /\ Grows /\ stream' = stream
<1>1. stream \in Seq(Event) /\ Len(stream) \in Nat BY IntakeFacts
<1> QED BY <1>1 DEF IntakeSound, IntakeTypeOK, InOrder, ProcsSound, intakeVars, Grows, Requests

LEMMA WorkFacts ==
  ASSUME IInv, NEW r \in Requests
  PROVE  /\ work[r] \in Work /\ Holds(work[r], proc[r]) /\ proc[r] \in Proc
         /\ proc[r].pc = "run" => proc[r].at \in 1..Len(stream) /\ proc[r].at \in Positions
<1>1. proc[r] \in Proc /\ Len(stream) \in Nat /\ Len(stream) <= MaxEvents /\ MaxEvents \in Nat
  BY IntakeFacts DEF IInv
<1> QED BY <1>1 DEF IInv, IntakeSound, ProcsSound, Proc, Positions

LEMMA IdleHolds ==
  /\ IdleWork \in Work /\ IdleWork.pc = "none"
  /\ \A p : p.pc # "run" => Holds(IdleWork, p)'
<1>1. /\ IdleWork.pc = "none" /\ IdleWork.act = NoActivity /\ IdleWork.todo = <<>> BY DEF IdleWork
<1>2. IdleWork \in Work
  <2>1. <<>> \in Seq(Inboxes) OBVIOUS
  <2> QED BY <2>1 DEF IdleWork, Work
<1> QED BY <1>1, <1>2 DEF Holds

\* A handler ends: its request goes on to mark the event.
LEMMA DoneInv ==
  ASSUME IInv, NEW r \in Requests, proc[r].pc = "run", Done(r), TablesSound',
         issued \subseteq issued', undos \subseteq undos', barred \subseteq barred'
  PROVE  IInv'
<1>1. End(r) /\ work' = [work EXCEPT ![r] = IdleWork] BY DEF Done
<1>2. proc'[r].pc = "mark"
  <2>1. proc \in [Requests -> Proc] BY IntakeFacts DEF IInv
  <2> QED BY <1>1, <2>1 DEF End, Proc
<1>3. /\ IntakeSound' /\ Grows /\ \A q \in Requests \ {r} : proc'[q] = proc[q]
  BY <1>1, RequestsInv DEF IInv
<1>4. Holds(IdleWork, proc[r])' BY <1>2, IdleHolds
<1> QED BY <1>1, <1>3, <1>4, IdleHolds, HandlersStep

\* A handler goes on to w between two awaits.
LEMMA WorkStep ==
  ASSUME IInv, NEW r \in Requests, NEW w \in Work, UNCHANGED intakeVars,
         work' = [work EXCEPT ![r] = w], TablesSound', proc[r].pc = "run",
         issued \subseteq issued', undos \subseteq undos', barred \subseteq barred',
         Holds(w, proc[r])'
  PROVE  IInv'
<1>1. IntakeSound' /\ Grows /\ proc' = proc BY IntakeStays DEF IInv, intakeVars
<1> QED BY <1>1, HandlersStep

LEMMA EndingsInv ==
  ASSUME IInv, NEW r \in Requests,
         CheckNo(r) \/ CheckRaises(r) \/ ClaimLost(r) \/ CardRaises(r) \/ FindNothing(r)
  PROVE  IInv'
<1> DEFINE w == work[r]
<1>1. /\ Done(r) /\ proc[r].pc = "run" /\ UNCHANGED <<rows, issued, sent, undos, barred>>
      /\ lost' \subseteq lost \cup {proc[r].at}
      /\ \/ cards' = cards
         \/ cards' = cards \cup {w.act} /\ w.pc = "card"
  BY DEF CheckNo, CheckRaises, ClaimLost, CardRaises, FindNothing, Doing, Cut, outside
<1>2. w \in Work /\ Holds(w, proc[r]) /\ proc[r].at \in Positions BY <1>1, WorkFacts
<1>3. cards' \subseteq issued /\ cards \subseteq cards'
  BY <1>1, <1>2 DEF Holds, IInv, TablesSound, TablesTyped
<1>4. IntakeSound' /\ Grows BY <1>1, RequestsInv DEF Done, IInv
<1>5. TablesSound'
  BY <1>1, <1>2, <1>3, <1>4, TablesStay DEF IInv, TablesSound, TablesTyped
<1> QED BY <1>1, <1>5, DoneInv

LEMMA TailFacts ==
  ASSUME NEW S, NEW s \in Seq(S), s # <<>>
  PROVE  /\ Head(s) \in S /\ Tail(s) \in Seq(S)
         /\ \A i \in 1..Len(s) : s[i] = Head(s) \/ (\E j \in 1..Len(Tail(s)) : Tail(s)[j] = s[i])
         /\ Len(s) = 1 => \A i \in 1..Len(s) : s[i] = Head(s)
         /\ Len(s) # 1 => Tail(s) # <<>>
<1>1. Len(s) \in Nat /\ Len(s) >= 1 /\ s[1] \in S /\ Head(s) = s[1] OBVIOUS
<1>2. /\ Tail(s) \in Seq(S) /\ Len(Tail(s)) = Len(s) - 1
      /\ \A i \in 1..Len(Tail(s)) : Tail(s)[i] = s[i + 1]
  BY <1>1
<1>3. ASSUME NEW i \in 1..Len(s)
      PROVE  s[i] = Head(s) \/ (\E j \in 1..Len(Tail(s)) : Tail(s)[j] = s[i])
  <2>1. CASE i = 1 BY <1>1, <2>1
  <2>2. CASE i # 1
    <3>1. i - 1 \in 1..Len(Tail(s)) /\ Tail(s)[i - 1] = s[i] BY <1>1, <1>2, <2>2
    <3> QED BY <3>1
  <2> QED BY <2>1, <2>2
<1>4. Len(s) # 1 => Len(Tail(s)) # 0 BY <1>1, <1>2
<1>5. Len(<<>>) = 0 OBVIOUS
<1>6. Len(s) # 1 => Tail(s) # <<>> BY <1>4, <1>5
<1>7. Len(s) = 1 => \A i \in 1..Len(s) : s[i] = Head(s)
  <2>1. Len(s) = 1 => \A i \in 1..Len(s) : i = 1 BY <1>1
  <2> QED BY <1>1, <2>1
<1> QED BY <1>1, <1>2, <1>3, <1>6, <1>7

LEMMA RecipientsFacts ==
  ASSUME NEW a, a.actor \in Actors, Signer(a) \in Actors
  PROVE  /\ Recipients(a) \in Seq(Inboxes) /\ Recipients(a) # <<>>
         /\ UndoRecipients(a) \in Seq(Inboxes) /\ UndoRecipients(a) # <<>>
         /\ \A x \in Reachable(a) : \E i \in 1..Len(UndoRecipients(a)) : UndoRecipients(a)[i] = x
<1>1. "author" \in Inboxes /\ a.actor \in Inboxes /\ Signer(a) \in Inboxes BY DEF Inboxes
<1>2. CASE IsRepost(a)
  <2>1. Recipients(a) = <<a.actor, "author">> /\ UndoRecipients(a) = <<"author", Signer(a)>>
    BY <1>2 DEF Recipients, UndoRecipients
  <2>2. /\ <<a.actor, "author">> \in Seq(Inboxes) /\ <<"author", Signer(a)>> \in Seq(Inboxes)
        /\ Len(<<"author", Signer(a)>>) = 2
    BY <1>1
  <2>3. 1 \in 1..2 /\ 2 \in 1..2 OBVIOUS
  <2> QED BY <2>1, <2>2, <2>3 DEF Reachable
<1>3. CASE ~ IsRepost(a)
  <2>1. Recipients(a) = <<"author">> /\ UndoRecipients(a) = <<"author">> /\ Owed(a) = {"author"}
    BY <1>3 DEF Recipients, UndoRecipients, Owed
  <2>2. <<"author">> \in Seq(Inboxes) /\ Len(<<"author">>) = 1 BY <1>1
  <2> QED BY <2>1, <2>2 DEF Reachable
<1> QED BY <1>2, <1>3

\* The reaction: checked, then its card and its deliveries.
LEMMA SendingInv ==
  ASSUME IInv, NEW r \in Requests, CheckOk(r) \/ Card(r) \/ Post(r)
  PROVE  IInv'
<1> DEFINE w == work[r]
<1>1. /\ UNCHANGED intakeVars /\ proc[r].pc = "run"
      /\ UNCHANGED <<rows, issued, undos, barred, lost>>
  BY DEF CheckOk, Card, Post, Doing, outside
<1>2. /\ w \in Work /\ Holds(w, proc[r]) /\ work \in [Requests -> Work]
      /\ IntakeSound /\ TablesSound /\ proc' = proc
  BY <1>1, WorkFacts DEF IInv, intakeVars
<1>3. IntakeSound' /\ Grows /\ stream' = stream BY <1>1, <1>2, IntakeStays
<1>4. ASSUME cards \subseteq cards', cards' \subseteq issued, sent' \subseteq Inboxes \X issued
      PROVE  TablesSound'
  BY <1>1, <1>2, <1>3, <1>4, TablesStay DEF TablesSound, TablesTyped
<1>5. CASE CheckOk(r)
  <2>1. PICK v \in Work : v = [w EXCEPT !.pc = "claim"] BY <1>2 DEF Work
  <2>2. v.pc = "claim" /\ work' = [work EXCEPT ![r] = v] BY <1>2, <1>5, <2>1 DEF CheckOk, Work
  <2>3. IsReaction(proc[r].at) BY <1>2, <1>5 DEF CheckOk, Doing, Holds
  <2>4. Holds(v, proc[r])' BY <1>1, <1>2, <1>3, <2>2, <2>3 DEF Holds, IsReaction, Kind
  <2>5. TablesSound' BY <1>2, <1>4, <1>5 DEF CheckOk, outside, TablesSound, TablesTyped
  <2> QED BY <1>1, <2>2, <2>4, <2>5, WorkStep
<1>6. CASE Card(r)
  <2>1. PICK v \in Work : v = [w EXCEPT !.pc = "post"] BY <1>2 DEF Work
  <2>2. /\ v.pc = "post" /\ v.act = w.act /\ v.todo = w.todo
        /\ work' = [work EXCEPT ![r] = v]
    BY <1>2, <1>6, <2>1 DEF Card, Work
  <2>3. w.act \in issued /\ w.act.pos = proc[r].at /\ w.todo # <<>>
    BY <1>2, <1>6 DEF Card, Doing, Holds
  <2>4. Holds(v, proc[r])' BY <1>1, <1>2, <2>2, <2>3 DEF Holds
  <2>5. TablesSound' BY <1>2, <1>4, <1>6, <2>3 DEF Card, TablesSound, TablesTyped
  <2> QED BY <1>1, <2>2, <2>4, <2>5, WorkStep
<1>7. CASE Post(r)
  <2>1. PICK v \in Work : v = [w EXCEPT !.todo = Tail(w.todo),
                                        !.pc = IF Len(w.todo) = 1 THEN "record" ELSE "post"]
    <3>1. w.todo \in Seq(Inboxes) /\ w.todo # <<>> BY <1>2, <1>7 DEF Post, Doing, Holds, Work
    <3>2. Tail(w.todo) \in Seq(Inboxes) BY <3>1
    <3> QED BY <1>2, <3>2 DEF Work
  <2>2. /\ v.pc = (IF Len(w.todo) = 1 THEN "record" ELSE "post") /\ v.act = w.act
        /\ v.todo = Tail(w.todo) /\ work' = [work EXCEPT ![r] = v]
    BY <1>2, <1>7, <2>1 DEF Post, Posted, Doing, Work
  <2>3. /\ w.act \in issued /\ w.act.pos = proc[r].at
        /\ w.todo \in Seq(Inboxes) /\ w.todo # <<>>
    BY <1>2, <1>7 DEF Post, Doing, Holds, Work
  <2>4. v.pc = "post" => v.todo # <<>> BY <2>2, <2>3, TailFacts
  <2>5. Holds(v, proc[r])' BY <1>1, <1>2, <2>2, <2>3, <2>4 DEF Holds
  <2>6. Head(w.todo) \in Inboxes BY <2>3
  <2>7. TablesSound' BY <1>2, <1>4, <1>7, <2>3, <2>6 DEF Post, TablesSound, TablesTyped
  <2> QED BY <1>1, <2>2, <2>5, <2>7, WorkStep
<1> QED BY <1>5, <1>6, <1>7

\* The Undo: the row is found, and each inbox is sent it.
LEMMA UndoingInv ==
  ASSUME IInv, NEW r \in Requests, FindRow(r) \/ Undo(r)
  PROVE  IInv'
<1> DEFINE w == work[r]
<1>1. /\ UNCHANGED intakeVars /\ proc[r].pc = "run"
      /\ UNCHANGED <<rows, issued, cards, sent, barred, lost>>
  BY DEF FindRow, Undo, Doing, outside
<1>2. /\ w \in Work /\ Holds(w, proc[r]) /\ work \in [Requests -> Work]
      /\ IntakeSound /\ TablesSound /\ proc' = proc
      /\ proc[r].at \in 1..Len(stream)
  BY <1>1, WorkFacts DEF IInv, intakeVars
<1>3. IntakeSound' /\ Grows /\ stream' = stream BY <1>1, <1>2, IntakeStays
<1>4. \A a \in issued : a \in Activity /\ a.pos \in 1..Len(stream) /\ IsReaction(a.pos)
                        /\ Signer(a) \in Actors
  <2> SUFFICES ASSUME NEW a \in issued
               PROVE  /\ a \in Activity /\ a.pos \in 1..Len(stream) /\ IsReaction(a.pos)
                      /\ Signer(a) \in Actors
    OBVIOUS
  <2>1. a \in Activity /\ a.pos \in 1..Len(stream) /\ IsReaction(a.pos)
    BY <1>2 DEF TablesSound, TablesTyped, Numbered, IsReaction
  <2>2. stream[a.pos] \in Event /\ Kind(a.pos) # "redact"
    BY <1>2, <1>3, <2>1, StreamFacts DEF IsReaction
  <2>3. stream[a.pos].user \in Users
    BY <2>2, IdentitiesAssumption DEF Event, Reactions, Redactions, Kind
  <2> QED BY <2>1, <2>3, IdentitiesAssumption DEF Signer, Reactor
<1>5. \A a \in issued : /\ Reachable(a)' = Reachable(a) /\ Signer(a)' = Signer(a)
                        /\ (Asked(a) => Asked(a)') /\ (Silent(a) => Silent(a)')
  BY <1>1, <1>2, <1>3, <1>4, AskedStays
<1>6. CASE FindRow(r)
  <2>1. PICK row \in RowsFor(stream[proc[r].at].of) :
          /\ MayUndo(stream[proc[r].at].user, row.act)
          /\ work' = [work EXCEPT ![r] =
               [pc |-> IF Silent(row.act) THEN "remove" ELSE "undo",
                act |-> row.act, todo |-> UndoRecipients(row.act)]]
    BY <1>6 DEF FindRow
  <2>2. row \in rows /\ row.act \in issued /\ row.act \in Activity
    BY <1>2, <1>4 DEF RowsFor, TablesSound, RowsUnique
  <2>a. row.act.actor \in Actors /\ Signer(row.act) \in Actors BY <1>4, <2>2 DEF Activity
  <2>3. PICK v \in Work : v = [pc |-> IF Silent(row.act) THEN "remove" ELSE "undo",
                               act |-> row.act, todo |-> UndoRecipients(row.act)]
    <3>1. UndoRecipients(row.act) \in Seq(Inboxes) BY <2>a, RecipientsFacts
    <3>2. PICK step \in {"remove", "undo"} : step = IF Silent(row.act) THEN "remove" ELSE "undo"
      OBVIOUS
    <3>3. [pc |-> step, act |-> row.act, todo |-> UndoRecipients(row.act)] \in Work
      BY <2>2, <3>1 DEF Work
    <3> QED BY <3>2, <3>3
  <2>4. Kind(proc[r].at) = "redact" BY <1>2, <1>6 DEF FindRow, Doing, Holds
  <2>5. stream[proc[r].at].of \in {EventOf(row.act.pos), [pos |-> row.act.pos, card |-> row.act.n]}
    <3> DEFINE id == stream[proc[r].at].of
    <3>1. id \in EventIds
      <4>1. stream[proc[r].at] \in Event BY <1>2, <1>3, StreamFacts
      <4> QED BY <2>4, <4>1 DEF Event, Reactions, Redactions, Kind
    <3>2. row.act.pos = id.pos /\ (id.card = 0 \/ row.act.n = id.card)
      BY <2>1 DEF RowsFor
    <3>3. id = [pos |-> id.pos, card |-> id.card] BY <3>1 DEF EventIds
    <3> QED BY <3>2, <3>3 DEF EventOf
  <2>6. Asked(row.act) BY <1>2, <2>1, <2>4, <2>5 DEF Asked, MayUndo
  <2>7. \A x \in Reachable(row.act) : \E i \in 1..Len(v.todo) : v.todo[i] = x
    BY <2>a, <2>3, RecipientsFacts
  <2>8. v.todo # <<>> BY <2>a, <2>3, RecipientsFacts
  <2>9. Holds(v, proc[r])'
    BY <1>1, <1>2, <1>5, <2>2, <2>3, <2>6, <2>7, <2>8 DEF Holds, Undone
  <2>10. TablesSound'
    BY <1>1, <1>2, <1>3, <1>6, TablesStay DEF FindRow, outside, TablesSound, TablesTyped
  <2> QED BY <1>1, <1>6, <2>1, <2>3, <2>9, <2>10, WorkStep DEF FindRow, outside
<1>7. CASE Undo(r)
  <2>1. /\ w.act \in issued /\ Asked(w.act) /\ w.todo \in Seq(Inboxes) /\ w.todo # <<>>
        /\ w.pc = "undo"
    BY <1>2, <1>7 DEF Undo, Doing, Holds, Work
  <2>2. undos' = undos \cup {<<Head(w.todo), w.act, Signer(w.act)>>} BY <1>7 DEF Undo
  <2>3. /\ Head(w.todo) \in Inboxes /\ Tail(w.todo) \in Seq(Inboxes)
        /\ \A i \in 1..Len(w.todo) : w.todo[i] = Head(w.todo)
                \/ (\E j \in 1..Len(Tail(w.todo)) : Tail(w.todo)[j] = w.todo[i])
        /\ Len(w.todo) = 1 => \A i \in 1..Len(w.todo) : w.todo[i] = Head(w.todo)
        /\ Len(w.todo) # 1 => Tail(w.todo) # <<>>
    BY <2>1, TailFacts
  <2>4. PICK v \in Work : v = [w EXCEPT !.todo = Tail(w.todo),
                                        !.pc = IF Len(w.todo) = 1 THEN "remove" ELSE "undo"]
    BY <1>2, <2>3 DEF Work
  <2>5. /\ v.pc = (IF Len(w.todo) = 1 THEN "remove" ELSE "undo") /\ v.act = w.act
        /\ v.todo = Tail(w.todo) /\ work' = [work EXCEPT ![r] = v]
    BY <1>2, <1>7, <2>1, <2>4 DEF Undo, Posted, Work
  <2>6. \A x \in Reachable(w.act) : (\E i \in 1..Len(w.todo) : w.todo[i] = x)
                                    \/ <<x, w.act, Signer(w.act)>> \in undos
    BY <1>2, <2>1 DEF Holds
  <2>7. \A x \in Reachable(w.act) : /\ (\E i \in 1..Len(v.todo) : v.todo[i] = x)
                                       \/ <<x, w.act, Signer(w.act)>> \in undos'
                                    /\ v.pc = "remove" => <<x, w.act, Signer(w.act)>> \in undos'
    BY <2>2, <2>3, <2>5, <2>6
  <2>8. v.pc = "undo" => v.todo # <<>> BY <2>3, <2>5
  <2>9. Holds(v, proc[r])'
    BY <1>1, <1>2, <1>5, <2>1, <2>5, <2>7, <2>8 DEF Holds, Undone
  <2>10. undos' \subseteq Inboxes \X issued \X Actors
    BY <1>2, <1>4, <2>1, <2>2, <2>3 DEF TablesSound, TablesTyped
  <2>11. \A u \in undos' : u \in undos \/ Asked(u[2])' BY <1>5, <2>1, <2>2
  <2>12. TablesSound'
    BY <1>1, <1>2, <1>3, <2>10, <2>11, TablesStay DEF TablesSound, TablesTyped
  <2> QED BY <1>1, <2>2, <2>5, <2>9, <2>12, WorkStep
<1> QED BY <1>6, <1>7

\* The claim: activities of one reaction are numbered, and each one before the
\* new one was taken back.
LEMMA ClaimInv ==
  ASSUME IInv, NEW r \in Requests, ClaimWon(r)
  PROVE  IInv'
<1> DEFINE i == proc[r].at
<1>1. /\ UNCHANGED intakeVars /\ proc[r].pc = "run" /\ work[r].pc = "claim"
      /\ UNCHANGED <<cards, sent, undos, barred, lost>> /\ ~ Claimed(i)
  BY DEF ClaimWon, Doing, Insertable
<1>2. /\ work[r] \in Work /\ Holds(work[r], proc[r]) /\ work \in [Requests -> Work]
      /\ IntakeSound /\ TablesSound /\ i \in 1..Len(stream) /\ i \in Positions
  BY <1>1, WorkFacts DEF IInv
<1>3. IntakeSound' /\ Grows /\ stream' = stream BY <1>1, <1>2, IntakeStays
<1>4. IsReaction(i) BY <1>1, <1>2 DEF Holds
<1>5. stream[i].user \in Users
  <2>1. stream[i] \in Event BY <1>2, <1>3, StreamFacts
  <2> QED BY <2>1, IdentitiesAssumption DEF Event, Reactions, Redactions
<1>6. PICK a : \E actor \in Own[stream[i].user] :
         /\ a = [pos |-> i, n |-> NextN(i), actor |-> actor]
         /\ rows' = rows \cup {[act |-> a, card |-> FALSE]}
         /\ issued' = issued \cup {a}
         /\ work' = [work EXCEPT ![r] =
              [pc |-> IF IsRepost(a) /\ actor \in HasRoom THEN "card" ELSE "post",
               act |-> a, todo |-> Recipients(a)]]
  BY DEF ClaimWon
<1>a. PICK actor \in Own[stream[i].user] :
         /\ a = [pos |-> i, n |-> NextN(i), actor |-> actor]
         /\ rows' = rows \cup {[act |-> a, card |-> FALSE]}
         /\ issued' = issued \cup {a}
         /\ work' = [work EXCEPT ![r] =
              [pc |-> IF IsRepost(a) /\ actor \in HasRoom THEN "card" ELSE "post",
               act |-> a, todo |-> Recipients(a)]]
  BY <1>6
<1> DEFINE same(pos) == {b \in issued : b.pos = pos}
<1>7. IsFiniteSet(issued) /\ \A b \in issued : b.n <= Cardinality(same(b.pos)) /\ b.n \in Nat \ {0}
  BY <1>2 DEF TablesSound, Numbered, TablesTyped, Activity
<1>8. \A pos : IsFiniteSet(same(pos)) /\ Cardinality(same(pos)) \in Nat
  BY <1>7, FS_Subset, FS_CardinalityType
<1>9. a.pos = i /\ a.n = 1 + Cardinality(same(i)) /\ a \in Activity
  <2>1. NextN(i) = 1 + Cardinality(same(i)) BY DEF NextN
  <2>2. NextN(i) \in Nat \ {0} BY <1>8, <2>1
  <2>3. actor \in Actors BY <1>5, <1>a, IdentitiesAssumption
  <2> QED BY <1>2, <1>a, <2>1, <2>2, <2>3 DEF Activity
<1> HIDE DEF same
<1>10. \A b \in issued : b.pos = i => b.n < a.n /\ Asked(b)
  <2> SUFFICES ASSUME NEW b \in issued, b.pos = i PROVE b.n < a.n /\ Asked(b) OBVIOUS
  <2>1. b.n < a.n BY <1>7, <1>8, <1>9
  <2>2. ~ \E row \in rows : row.act = b BY <1>1 DEF Claimed
  <2> QED BY <1>2, <2>1, <2>2 DEF TablesSound, NothingUnasked
<1>11. a \notin issued
  <2>1. a.n \in Nat BY <1>8, <1>9
  <2>2. ~ (a.n < a.n) BY <2>1
  <2> QED BY <1>9, <1>10, <2>2
<1>12. \A b : Asked(b) => Asked(b)' BY <1>3 DEF Asked, Kind, Reactor
<1>13. PICK new \in [act : Activity, card : BOOLEAN] :
         new.act = a /\ new.card = FALSE /\ rows' = rows \cup {new}
  <2>1. [act |-> a, card |-> FALSE] \in [act : Activity, card : BOOLEAN] BY <1>9
  <2> QED BY <1>a, <2>1
<1>14. TablesTyped'
  BY <1>1, <1>2, <1>a, <1>9, <1>13 DEF TablesSound, TablesTyped
<1>15. RowsUnique'
  <2>1. \A x \in rows : x.act.pos # i BY <1>1 DEF Claimed
  <2> QED BY <1>1, <1>2, <1>a, <1>9, <1>13, <2>1 DEF TablesSound, RowsUnique
<1>16. Numbered'
  <2>1. IsFiniteSet(issued') BY <1>a, <1>7, FS_AddElement
  <2>2. ASSUME NEW pos PROVE Cardinality({b \in issued' : b.pos = pos}) =
          IF pos = i THEN Cardinality(same(pos)) + 1 ELSE Cardinality(same(pos))
    <3>1. CASE pos = i
      <4>1. {b \in issued' : b.pos = pos} = same(pos) \cup {a} BY <1>a, <1>9, <3>1 DEF same
      <4>2. a \notin same(pos) BY <1>11 DEF same
      <4> QED BY <1>8, <3>1, <4>1, <4>2, FS_AddElement
    <3>2. CASE pos # i
      <4>1. {b \in issued' : b.pos = pos} = same(pos) BY <1>a, <1>9, <3>2 DEF same
      <4> QED BY <3>2, <4>1
    <3> QED BY <3>1, <3>2
  <2>3. ASSUME NEW b \in issued' PROVE IsReaction(b.pos)' /\ b.n <= Cardinality({c \in issued' : c.pos = b.pos})
    <3>1. CASE b = a
      <4>1. IsReaction(b.pos)' BY <1>3, <1>4, <1>9, <3>1 DEF IsReaction, Kind
      <4>2. b.n <= Cardinality({c \in issued' : c.pos = b.pos}) BY <1>8, <1>9, <2>2, <3>1
      <4> QED BY <4>1, <4>2
    <3>2. CASE b \in issued
      <4>1. IsReaction(b.pos)' BY <1>2, <1>3, <3>2 DEF TablesSound, Numbered, IsReaction, Kind
      <4>2. b.n <= Cardinality(same(b.pos)) /\ b.n \in Nat /\ Cardinality(same(b.pos)) \in Nat
        BY <1>7, <1>8, <3>2
      <4>3. b.n <= Cardinality({c \in issued' : c.pos = b.pos}) BY <2>2, <4>2
      <4> QED BY <4>1, <4>3
    <3> QED BY <1>a, <3>1, <3>2
  <2> QED BY <2>1, <2>3 DEF Numbered
<1>17. OneActivityPerReaction'
  <2> SUFFICES ASSUME NEW b \in issued', NEW c \in issued', b.pos = c.pos, b.n < c.n PROVE Asked(b)'
    BY DEF OneActivityPerReaction
  <2>1. CASE b \in issued /\ c \in issued
    BY <1>2, <1>12, <2>1 DEF TablesSound, OneActivityPerReaction
  <2>2. CASE b \in issued /\ c = a BY <1>9, <1>10, <1>12, <2>2
  <2>3. CASE b = a
    <3>1. c \in issued => c.n < a.n /\ c.n \in Nat BY <1>7, <1>9, <1>10, <2>3
    <3>2. a.n \in Nat BY <1>8, <1>9
    <3> QED BY <1>a, <2>3, <3>1, <3>2
  <2> QED BY <1>a, <2>1, <2>2, <2>3
<1>18. NothingUnasked'
  <2>1. \A u \in undos' : Asked(u[2])' BY <1>1, <1>2, <1>12 DEF TablesSound, NothingUnasked
  <2>2. \A b \in issued' : (\E row \in rows' : row.act = b) \/ Asked(b)'
    BY <1>2, <1>a, <1>12, <1>13 DEF TablesSound, NothingUnasked
  <2> QED BY <2>1, <2>2 DEF NothingUnasked
<1>b. a.actor \in Actors /\ Signer(a) \in Actors
  BY <1>5, <1>9, IdentitiesAssumption DEF Activity, Signer, Reactor
<1>19. PICK v \in Work : /\ v.pc \in {"card", "post"} /\ v.act = a /\ v.todo = Recipients(a)
                         /\ work' = [work EXCEPT ![r] = v]
  <2>1. PICK step \in {"card", "post"} : step = IF IsRepost(a) /\ actor \in HasRoom THEN "card" ELSE "post"
    OBVIOUS
  <2>2. Recipients(a) \in Seq(Inboxes) BY <1>b, RecipientsFacts
  <2>3. [pc |-> step, act |-> a, todo |-> Recipients(a)] \in Work BY <1>9, <2>2 DEF Work
  <2> QED BY <1>a, <2>1, <2>3
<1>20. Holds(v, proc[r])'
  <2>1. v.todo # <<>> BY <1>19, <1>b, RecipientsFacts
  <2>2. proc' = proc BY <1>1 DEF intakeVars
  <2> QED BY <1>1, <1>a, <1>9, <1>19, <2>1, <2>2 DEF Holds
<1>21. TablesSound' BY <1>14, <1>15, <1>16, <1>17, <1>18 DEF TablesSound
<1> QED BY <1>1, <1>a, <1>19, <1>20, <1>21, WorkStep

\* What is recorded after the deliveries, and what is removed after the Undo.
LEMMA RowStepInv ==
  ASSUME IInv, NEW r \in Requests, Record(r) \/ Remove(r)
  PROVE  IInv'
<1> DEFINE a == work[r].act
<1>1. /\ Done(r) /\ proc[r].pc = "run" /\ UNCHANGED <<issued, cards, sent, undos, barred, lost>>
  BY DEF Record, Remove, Doing, outside
<1>2. /\ work[r] \in Work /\ Holds(work[r], proc[r]) /\ IntakeSound /\ TablesSound
  BY <1>1, WorkFacts DEF IInv
<1>3. IntakeSound' /\ Grows /\ stream' = stream BY <1>1, <1>2, RequestsInv DEF Done
<1>4. a \in issued /\ a \in Activity
  BY <1>2 DEF Record, Remove, Doing, Holds, TablesSound, TablesTyped
<1>5. \A b : Asked(b) => Asked(b)' BY <1>3 DEF Asked, Kind, Reactor
<1>6. Numbered' /\ OneActivityPerReaction'
  BY <1>1, <1>2, <1>3, <1>5 DEF TablesSound, Numbered, OneActivityPerReaction, IsReaction, Kind
<1>7. PICK new \in [act : Activity, card : BOOLEAN] :
         new = [act |-> a, card |-> a \in cards] /\ new.act = a /\ (new.card => a \in cards)
  <2>1. CASE a \in cards
    <3>1. (a \in cards) = TRUE BY <2>1
    <3>2. [act |-> a, card |-> TRUE] \in [act : Activity, card : BOOLEAN] BY <1>4
    <3> QED BY <3>1, <3>2
  <2>2. CASE a \notin cards
    <3>1. (a \in cards) = FALSE BY <2>2
    <3>2. [act |-> a, card |-> FALSE] \in [act : Activity, card : BOOLEAN] BY <1>4
    <3> QED BY <3>1, <3>2
  <2> QED BY <2>1, <2>2
<1>8. /\ rows' \subseteq rows \cup {new}
      /\ \A row \in rows : (\E kept \in rows' : kept.act = row.act) \/ (Asked(row.act) /\ Remove(r))
      /\ RowsUnique'
  <2>1. CASE Record(r)
    <3>1. CASE \E row \in Others(a) : row.act.pos = a.pos
      <4>1. rows' = rows BY <2>1, <3>1 DEF Record
      <4> QED BY <1>1, <1>2, <4>1 DEF TablesSound, RowsUnique
    <3>2. CASE ~ \E row \in Others(a) : row.act.pos = a.pos
      <4>1. rows' = Others(a) \cup {new}
        BY <1>7, <2>1, <3>2 DEF Record, Recorded
      <4>2. RowsUnique' BY <1>1, <1>2, <1>4, <1>7, <3>2, <4>1 DEF TablesSound, RowsUnique, Others
      <4> QED BY <1>7, <4>1, <4>2 DEF Others
    <3> QED BY <3>1, <3>2
  <2>2. CASE Remove(r)
    <3>1. rows' = Others(a) /\ Asked(a) BY <1>2, <2>2 DEF Remove, Doing, Holds
    <3>2. RowsUnique' BY <1>1, <1>2, <3>1 DEF TablesSound, RowsUnique, Others
    <3> QED BY <2>2, <3>1, <3>2 DEF Others
  <2> QED BY <2>1, <2>2
<1>9. TablesTyped' BY <1>1, <1>2, <1>4, <1>8, <1>7 DEF TablesSound, TablesTyped
<1>10. NothingUnasked'
  BY <1>1, <1>2, <1>5, <1>8 DEF TablesSound, NothingUnasked
<1>11. TablesSound' BY <1>6, <1>8, <1>9, <1>10 DEF TablesSound
<1> QED BY <1>1, <1>11, DoneInv

-------------------------------------------------------------------------------
\* The intake's own steps, and the surroundings.
LEMMA SurroundingsInv ==
  ASSUME IInv,
         \/ \E r \in Requests : Intake(r) \/ Dispatch(r)
         \/ React \/ Redact \/ TimeOut \/ \E u \in Users : Bar(u)
  PROVE  IInv'
<1>1. IntakeSound /\ TablesSound /\ work \in [Requests -> Work] BY DEF IInv
<1>2. ASSUME IntakeSound', Grows, UNCHANGED <<rows, outside, lost>>,
             barred \subseteq barred', barred' \subseteq Barrable
      PROVE  TablesSound'
  BY <1>1, <1>2, TablesStay DEF outside, TablesSound, TablesTyped
<1>3. ASSUME IntakeSound', TablesSound', Grows, UNCHANGED <<issued, undos, work, proc>>,
             barred \subseteq barred'
      PROVE  IInv'
  <2>1. CASE Requests = {} BY <1>3, <1>1, <2>1 DEF IInv, Requests
  <2>2. CASE Requests # {}
    <3>1. PICK r \in Requests : TRUE BY <2>2
    <3>2. PICK w \in Work, p \in {proc[r]} : w = work[r] BY <3>1, WorkFacts
    <3>3. Holds(w, p) /\ (p.pc = "run" => p.at \in 1..Len(stream)) BY <3>1, <3>2, WorkFacts
    <3>4. Holds(w, p)' BY <1>1, <1>3, <3>3, HoldsStays
    <3>5. Holds(w, proc[r])' BY <1>3, <3>2, <3>4
    <3>6. work' = [work EXCEPT ![r] = w] BY <1>1, <1>3, <3>2
    <3> QED BY <1>3, <3>1, <3>5, <3>6, HandlersStep
  <2> QED BY <2>1, <2>2
<1>4. ASSUME NEW r \in Requests, Intake(r) PROVE IInv'
  <2>1. /\ Send(r) \/ Skip(r) \/ Mark(r) \/ Reply(r)
        /\ UNCHANGED <<work, rows, outside, barred, lost>>
    BY <1>4 DEF Intake
  <2>2. r \in Nat /\ r >= 1 BY DEF Requests
  <2>3. proc[r].pc # "run" /\ ~ Begin(r)
    <3>1. proc \in [Requests -> Proc] /\ NoRequest \notin Requests BY <1>1, IntakeFacts
    <3>2. Send(r) => proc[r].pc = "idle" BY <2>2 DEF Send
    <3>3. Mark(r) => proc'[r].pc = "look" BY <3>1 DEF Mark, Proc
    <3>4. Skip(r) => proc'[r].pc = "look" /\ proc[r].at \in marked
      BY <3>1 DEF Skip, Looking, Proc, IsProcessed
    <3>5. Reply(r) => proc[r].pc = "look" /\ proc[r].at > proc[r].end BY DEF Reply
    <3>6. proc[r].at \in Nat /\ proc[r].end \in Nat BY <3>1 DEF Proc
    <3> QED BY <2>1, <3>2, <3>3, <3>4, <3>5, <3>6 DEF Begin, Looking, Mark, Skip, IsProcessed
  <2>4. IntakeSound' /\ Grows /\ (\A q \in Requests \ {r} : proc'[q] = proc[q])
        /\ proc'[r].pc # "run"
    BY <1>1, <2>1, <2>3, RequestsInv
  <2>5. PICK w \in Work : w = work[r] BY <1>1
  <2>6. w.pc = "none" BY <2>3, <2>5, WorkFacts DEF Holds
  <2>7. Holds(w, proc[r])' BY <2>4, <2>6 DEF Holds
  <2>8. TablesSound' BY <1>1, <1>2, <2>1, <2>4 DEF TablesSound, TablesTyped
  <2> QED BY <1>1, <2>1, <2>4, <2>5, <2>7, <2>8, HandlersStep DEF outside
<1>5. ASSUME NEW r \in Requests, Dispatch(r) PROVE IInv'
  <2>1. Begin(r) /\ UNCHANGED <<rows, outside, barred, lost>> BY <1>5 DEF Dispatch
  <2>2. /\ IntakeSound' /\ Grows /\ stream' = stream
        /\ (\A q \in Requests \ {r} : proc'[q] = proc[q])
        /\ proc'[r] = [proc[r] EXCEPT !.pc = "run"]
    BY <1>1, <2>1, RequestsInv
  <2>3. proc[r] \in Proc /\ proc[r].pc = "look" BY <2>1, WorkFacts DEF Begin, Looking
  <2>4. proc'[r].pc = "run" /\ proc'[r].at = proc[r].at BY <2>2, <2>3 DEF Proc
  <2>5. proc[r].at \in 1..Len(stream)
    BY <1>1, <2>1, <2>3, IntakeFacts DEF Begin, Looking, IntakeSound, ProcsSound, Proc
  <2>6. PICK w \in Work : /\ w.pc = (IF IsReaction(proc[r].at) THEN "check" ELSE "find")
                          /\ work' = [work EXCEPT ![r] = w]
    <3>1. [work[r] EXCEPT !.pc = IF IsReaction(proc[r].at) THEN "check" ELSE "find"] \in Work
      BY <1>1 DEF Work
    <3> QED BY <1>1, <1>5, <3>1 DEF Dispatch, Work
  <2>7. ~ IsReaction(proc[r].at) => Kind(proc[r].at) = "redact"
    <3>1. stream[proc[r].at] \in Event BY <1>1, <2>2, <2>5, StreamFacts
    <3> QED BY <2>5, <3>1 DEF IsReaction, Kind, Event, Reactions, Redactions
  <2>8. Holds(w, proc[r])' BY <2>2, <2>4, <2>5, <2>6, <2>7 DEF Holds, IsReaction, Kind
  <2>9. TablesSound' BY <1>1, <1>2, <2>1, <2>2 DEF TablesSound, TablesTyped
  <2> QED BY <1>1, <2>1, <2>2, <2>6, <2>8, <2>9, HandlersStep DEF outside
<1>6. CASE React \/ Redact
  <2>1. PICK e \in Event : Arrive(e)
    <3>1. CASE React BY <3>1 DEF React, Event
    <3>2. CASE Redact
      <4>1. PICK u \in Users, id \in EventIds : Arrive([kind |-> "redact", user |-> u, of |-> id])
        BY <3>2 DEF Redact
      <4>2. [kind |-> "redact", user |-> u, of |-> id] \in Event BY DEF Event, Redactions
      <4> QED BY <4>1, <4>2
    <3> QED BY <1>6, <3>1, <3>2
  <2>2. UNCHANGED <<work, rows, outside, barred, lost>> BY <1>6 DEF React, Redact
  <2>3. IntakeSound' /\ Grows /\ proc' = proc BY <1>1, <2>1, ArriveInv
  <2>4. TablesSound' BY <1>1, <1>2, <2>2, <2>3 DEF TablesSound, TablesTyped
  <2> QED BY <1>3, <2>2, <2>3, <2>4 DEF outside
<1>7. CASE TimeOut
  <2>1. GiveUp /\ UNCHANGED <<work, rows, outside, barred, lost>> BY <1>7 DEF TimeOut
  <2>2. IntakeSound' /\ Grows /\ proc' = proc BY <1>1, <2>1, GiveUpInv
  <2>3. TablesSound' BY <1>1, <1>2, <2>1, <2>2 DEF TablesSound, TablesTyped
  <2> QED BY <1>3, <2>1, <2>2, <2>3 DEF outside
<1>8. ASSUME NEW u \in Users, Bar(u) PROVE IInv'
  <2>1. /\ barred' = barred \cup {u} /\ u \in Barrable
        /\ UNCHANGED <<intakeVars, work, rows, outside, lost>>
    BY <1>8 DEF Bar
  <2>2. IntakeSound' /\ Grows /\ proc' = proc BY <1>1, <2>1, IntakeStays DEF intakeVars
  <2>3. barred' \subseteq Barrable BY <1>1, <2>1 DEF TablesSound, TablesTyped
  <2>4. TablesSound' BY <1>2, <2>1, <2>2, <2>3
  <2> QED BY <1>3, <2>1, <2>2, <2>4 DEF outside
<1> QED BY <1>4, <1>5, <1>6, <1>7, <1>8

\* A restart leaves the tables, and marks and acknowledgements, as they are.
LEMMA RestartInv ==
  ASSUME IInv, Restart
  PROVE  IInv'
<1> DEFINE sending == {q \in Requests : work[q].pc \in {"card", "post", "record"}}
<1>1. /\ Crash /\ lost' = lost \cup {work[r].act.pos : r \in sending}
      /\ work' = [r \in Requests |-> IdleWork] /\ UNCHANGED <<rows, outside, barred>>
  BY DEF Restart
<1>2. /\ IntakeSound' /\ Grows /\ stream' = stream /\ proc' = [r \in Requests |-> IdleProc]
      /\ TablesSound
  BY <1>1, CrashInv DEF IInv
<1>3. \A r \in sending : work[r].act.pos \in Positions
  BY <1>2, WorkFacts DEF Holds, TablesSound, TablesTyped, Activity
<1>4. lost' \subseteq Positions BY <1>1, <1>2, <1>3 DEF TablesSound, TablesTyped
<1>5. TablesSound'
  BY <1>1, <1>2, <1>4, TablesStay DEF IInv, outside, TablesSound, TablesTyped
<1>6. \A r \in Requests' : work'[r] = IdleWork /\ proc'[r].pc # "run"
  BY <1>1, <1>2 DEF Requests, IdleProc
<1>7. ASSUME NEW r \in Requests' PROVE Holds(work[r], proc[r])'
  <2>1. Holds(IdleWork, proc[r])' BY <1>6, IdleHolds
  <2> QED BY <1>6, <2>1
<1>8. work' \in [Requests' -> Work] BY <1>1, IdleHolds DEF Requests
<1> QED BY <1>2, <1>5, <1>7, <1>8 DEF IInv

-------------------------------------------------------------------------------
LEMMA InitInv == Init => IInv
<1> SUFFICES ASSUME Init PROVE IInv OBVIOUS
<1> USE DEF Init
<1>1. /\ stream = <<>> /\ acked = 0 /\ batch = 0 /\ waiting = NoRequest /\ marked = {}
      /\ proc = [r \in Requests |-> IdleProc] /\ timeouts = 0 /\ crashes = 0
  BY DEF IntakeInit
<1>2. IdleProc \in Proc /\ IdleProc.pc = "idle"
  BY IntakeAssumption DEF IdleProc, Proc
<1>3. Len(stream) = 0 /\ stream \in Seq(Event) BY <1>1
<1>4. IntakeTypeOK(Event)
  BY <1>1, <1>2, <1>3, IntakeAssumption DEF IntakeTypeOK, Proc
<1>5. InOrder /\ ProcsSound BY <1>1, <1>2 DEF InOrder, ProcsSound
<1>6. Numbered BY FS_EmptySet DEF Numbered
<1>7. TablesSound
  BY <1>6 DEF TablesSound, TablesTyped, RowsUnique, OneActivityPerReaction, NothingUnasked
<1>8. work \in [Requests -> Work] BY IdleHolds
<1>9. \A r \in Requests : Holds(work[r], proc[r])
  BY <1>1, <1>2, IdleHolds DEF Holds, IdleWork
<1> QED BY <1>4, <1>5, <1>7, <1>8, <1>9 DEF IInv, IntakeSound

LEMMA StepInv == IInv /\ [Next]_vars => IInv'
<1> SUFFICES ASSUME IInv, [Next]_vars PROVE IInv' OBVIOUS
<1>1. CASE UNCHANGED vars
  <2>1. IntakeSound' /\ proc' = proc /\ stream' = stream
    BY <1>1, IntakeStays DEF vars, IInv, intakeVars
  <2> USE DEF vars, intakeVars, outside
  <2>2. TablesTyped' /\ RowsUnique' BY <1>1 DEF IInv, TablesSound, TablesTyped, RowsUnique
  <2>3. Numbered' BY <1>1 DEF IInv, TablesSound, Numbered, IsReaction, Kind
  <2>4. OneActivityPerReaction' /\ NothingUnasked'
    BY <1>1 DEF IInv, TablesSound, OneActivityPerReaction, NothingUnasked, Asked, Kind, Reactor
  <2>5. \A r \in Requests' : Holds(work[r], proc[r])'
    BY <1>1 DEF IInv, Requests, Holds, IsReaction, Kind, Asked, Reactor, Reachable, Owed,
                IsRepost, Signer, Silent, Undone
  <2>6. work' \in [Requests' -> Work] BY <1>1 DEF IInv, Requests
  <2> QED BY <2>1, <2>2, <2>3, <2>4, <2>5, <2>6 DEF IInv, TablesSound
<1>2. ASSUME NEW r \in Requests, Intake(r) \/ Handle(r) PROVE IInv'
  BY <1>2, SurroundingsInv, EndingsInv, SendingInv, UndoingInv, ClaimInv, RowStepInv DEF Handle
<1>3. CASE React \/ Redact \/ TimeOut \/ \E u \in Users : Bar(u) BY <1>3, SurroundingsInv
<1>4. CASE Restart BY <1>4, RestartInv
<1>5. CASE Idle BY <1>1, <1>5 DEF Idle
<1> QED BY <1>1, <1>2, <1>3, <1>4, <1>5 DEF Next

LEMMA Inductive == Spec => []IInv
<1>1. Init => IInv BY InitInv
<1>2. IInv /\ [Next]_vars => IInv' BY StepInv
<1> QED BY <1>1, <1>2, PTL DEF Spec

LEMMA InvImplies == IInv => BridgeInv /\ NothingUnasked
<1> SUFFICES ASSUME IInv PROVE BridgeInv /\ NothingUnasked OBVIOUS
<1>1. TypeOK BY DEF IInv, IntakeSound, TablesSound, TablesTyped, TypeOK
<1>2. RowsSound
  BY DEF IInv, TablesSound, RowsUnique, RowsSound, Holds
<1>3. InOrder /\ OneActivityPerReaction BY DEF IInv, IntakeSound, TablesSound
<1> QED BY <1>1, <1>2, <1>3 DEF BridgeInv, IInv, TablesSound

\* Only Remove drops a row, and its handler has sent what it had to.
LEMMA ForgetStep ==
  ASSUME IInv, [Next]_vars, NEW row \in rows, \A new \in rows' : new.act # row.act
  PROVE  Silent(row.act) \/ \A x \in Reachable(row.act) : <<x, row.act, Signer(row.act)>> \in undos
<1>1. row \notin rows' /\ ~ (rows \subseteq rows') OBVIOUS
<1>2. PICK r \in Requests : Record(r) \/ Remove(r)
  BY <1>1 DEF Next, vars, Intake, Handle, Dispatch, CheckOk, CheckNo, CheckRaises, Cut, ClaimWon,
              ClaimLost, Card, CardRaises, Post, FindNothing, FindRow, Undo, React, Redact,
              TimeOut, Restart, Idle, Bar
<1>3. CASE Record(r)
  <2>1. rows' = Others(work[r].act) \cup {[act |-> work[r].act, card |-> work[r].act \in cards]}
    BY <1>1, <1>3 DEF Record, Recorded
  <2>2. row \notin Others(work[r].act) BY <1>1, <2>1
  <2>3. row.act = work[r].act BY <2>2 DEF Others
  <2>4. [act |-> work[r].act, card |-> work[r].act \in cards].act = work[r].act OBVIOUS
  <2> QED BY <2>1, <2>3, <2>4
<1>4. CASE Remove(r)
  <2>1. row.act = work[r].act BY <1>1, <1>4 DEF Remove, Others
  <2>2. Silent(work[r].act) \/ Undone(work[r].act)
    BY <1>4, WorkFacts DEF Remove, Doing, Holds
  <2> QED BY <2>1, <2>2 DEF Undone
<1> QED BY <1>2, <1>3, <1>4

-------------------------------------------------------------------------------
\* Transactions are handled in order, through retries, give-ups and restarts,
\* and a reaction has one row and one activity at a time (_handle_transaction,
\* claim_reaction).
THEOREM OneReaction == Spec => []BridgeInv
BY Inductive, InvImplies, PTL

\* No Undo goes out and no row is dropped but for a redaction by the reactor
\* (maybe_federate_reaction_removal).
THEOREM UndoneByReactor == Spec => []NothingUnasked
BY Inductive, InvImplies, PTL

\* A row is dropped only after everybody its Undo can reach was sent it, unless
\* its reactor may not federate: the author always, and a repost's followers when
\* it was made as its reactor's oldest identity (maybe_federate_reaction_removal).
THEOREM ForgottenAfterUndo == Spec => UndoBeforeForget
<1>1. IInv /\ [Next]_vars =>
        [\A row \in rows :
           (\A new \in rows' : new.act # row.act) =>
               \/ Silent(row.act)
               \/ \A x \in Reachable(row.act) : <<x, row.act, Signer(row.act)>> \in undos]_vars
  BY ForgetStep
<1> QED BY <1>1, Inductive, PTL DEF Spec, UndoBeforeForget
================================================================================
