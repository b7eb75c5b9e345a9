----------------------------- MODULE Follows_proofs -----------------------------
(***************************************************************************)
(* Theorems about the follow relation, for any accounts, operations,       *)
(* interleavings, copies, lost deliveries and restarts.  The first part is *)
(* about remote followers: a block holds, the table agrees with what the   *)
(* follower was told, and a Follow is announced once.  The second part     *)
(* is about what the users' commands do: what is followed agrees with what *)
(* other servers were told, with the rooms, and with what guilds answered. *)
(***************************************************************************)
EXTENDS Follows, TLAPS

Ending == {"Undo", "Block"}                 \* what ends a follow from outside
FollowPCs == {"lock", "check", "list", "add", "accept", "announce", "reject", "over"}
EndingPCs == {"lock", "drop", "over"}
OwnPCs == {"list", "add", "accept", "announce", "reject"}   \* only Follows are there

Used(s) == pc[s] # "unused"
Sent(kinds, q) == {s \in Slots : Used(s) /\ Pair(s) = q /\ Kind(s) \in kinds}
RemotePairs == Locals \X Remotes

\* The part of the state these theorems are about.
Shape ==
  /\ op \in [Slots -> Wanted \cup {Nothing}] /\ id \in [Slots -> Slots] /\ pc \in [Slots -> PCs]
  /\ seen \in [Slots -> BOOLEAN]
  /\ view \in [RemotePairs -> {"none", "asked", "yes", "refused"}]
  /\ \A s \in Slots : IF Used(s) THEN op[s] \in Wanted ELSE id[s] = s
  /\ \A s, t \in Slots : t < s /\ Used(s) => Used(t)
  /\ blocked \subseteq everBlocked /\ everBlocked \subseteq Profiles \X Accounts
  /\ announced \subseteq {s \in Slots : Used(s)}

\* Where the handler of each kind may be.
Places(s) ==
  /\ Kind(s) = "Follow" => pc[s] \in FollowPCs
  /\ Kind(s) \in Ending => pc[s] \in EndingPCs
  /\ pc[s] \in OwnPCs => Kind(s) = "Follow"
  /\ pc[s] \in {"flag", "expel"} => Kind(s) = "block"
  /\ pc[s] = "expel" => Pair(s) \in everBlocked
  /\ s \in announced => Kind(s) = "Follow" /\ pc[s] = "over"
PlacesSound == \A s \in Slots : Used(s) => Places(s)

\* A copy comes while its original is the last thing its sender sent, and waits
\* for the other copies.
CopiesSound == \A s \in Slots : Used(s) =>
  /\ id[s] <= s /\ op[id[s]] = op[s]
  /\ Kind(s) = "Follow" => \A u \in Sent(Ending, Pair(s)) : ~ (id[s] < u /\ u < s)
  /\ Kind(s) = "Follow" /\ Running(s) /\ pc[s] # "lock" =>
       \A t \in Slots \ {s} : Used(t) /\ id[t] = id[s] => ~ Running(t) \/ pc[t] = "lock"

\* An Undo or a Block and a Follow are never handled at the same time.
TurnsSound ==
  \A s, u \in Slots : Used(s) /\ Used(u) /\ Pair(s) = Pair(u) /\ Kind(s) = "Follow" /\ Kind(u) \in Ending =>
    /\ s < u => ~ Running(s)
    /\ u < s => ~ Running(u)

Dropping(q) == \E u \in Sent(Ending, q) : Running(u)
Accepting(q) == \E s \in Sent({"Follow"}, q) : pc[s] = "accept"
Expelling(q) == \E s \in Sent({"block"}, q) : pc[s] = "expel"

\* What a remote account takes its follow for, and the row.
ViewSound == \A q \in RemotePairs :
  /\ view[q] = "none" => \A s \in Sent({"Follow"}, q) : \E u \in Sent(Ending, q) : s < u
  /\ Dropping(q) => view[q] \in {"none", "refused"}
  /\ view[q] = "yes" => q \in followers \cup everBlocked \cup upset
  /\ q \in followers => view[q] \in {"asked", "yes"} \/ Dropping(q) \/ Accepting(q) \/ q \in upset

\* A blocked account's row is about to go, and nobody is about to add it.
BlockSound == \A q \in RemotePairs : q \in blocked \ overtaken =>
  /\ \A s \in Sent({"Follow"}, q) : pc[s] \notin {"list", "add"}
  /\ q \in followers => q \in upset \/ Expelling(q)

\* A Follow that was announced is a follower's until something ends it, so its
\* copies find the row.
AnnouncedSound ==
  \A s \in Slots : Used(s) /\ Kind(s) = "Follow" /\ Pair(s) \notin everBlocked \cup upset =>
    /\ pc[s] \in {"accept", "announce"} => Pair(s) \in followers
    /\ s \in announced => Pair(s) \in followers \/ \E u \in Sent(Ending, Pair(s)) : s < u
    /\ (\E t \in announced \ {s} : id[t] = id[s]) =>
         (pc[s] \in {"add", "accept"} => seen[s]) /\ pc[s] # "announce" /\ s \notin announced

\* The inductive invariant.
IInv == /\ Shape /\ PlacesSound /\ CopiesSound /\ TurnsSound
        /\ ViewSound /\ BlockSound /\ AnnouncedSound

-----------------------------------------------------------------------------
(* What operations and slots are. *)

LEMMA WantedFacts ==
  ASSUME NEW w \in Wanted
  PROVE  /\ w.kind \in Inbound \cup Commands /\ w.me \in Locals /\ w.them \in Accounts
         /\ w.kind \in {"Follow", "Undo", "Block"} => <<w.me, w.them>> \in RemotePairs
         /\ w.kind \notin {"Follow", "Undo", "Block"} => w.me \in Profiles
<1>1. w \in Operation
  BY BoundsAssumption
<1> QED
  BY <1>1, WantedAssumption DEF Operation, RemotePairs

LEMMA SlotFacts == Slots \subseteq Nat
BY BoundsAssumption

\* A handler goes from one place to another.
Moves(s, p) ==
  /\ op' = op /\ id' = id /\ pc' = [pc EXCEPT ![s] = p] /\ seen' \in [Slots -> BOOLEAN]
  /\ view' \in [RemotePairs -> {"none", "asked", "yes", "refused"}]
  /\ blocked' \subseteq everBlocked' /\ everBlocked \subseteq everBlocked'
  /\ everBlocked' \subseteq Profiles \X Accounts /\ announced' \subseteq announced \cup {s}
LEMMA MovesKeep ==
  ASSUME Shape, PlacesSound, CopiesSound, TurnsSound,
         NEW s \in Slots, Running(s), NEW p \in PCs \ {"unused", "lock"}, Moves(s, p), Places(s)',
         Kind(s) = "Follow" /\ pc[s] = "lock" =>
           \A t \in Slots \ {s} : Used(t) /\ id[t] = id[s] => ~ Running(t) \/ pc[t] = "lock"
  PROVE  /\ Shape' /\ PlacesSound' /\ CopiesSound' /\ TurnsSound'
         /\ \A kinds, q : Sent(kinds, q)' = Sent(kinds, q)
         /\ pc'[s] = p /\ \A t \in Slots : t # s => pc'[t] = pc[t]
<1>1. pc'[s] = p /\ (\A t \in Slots : t # s => pc'[t] = pc[t]) /\ pc' \in [Slots -> PCs] /\ Used(s)
  BY DEF Moves, Shape, Running, Used
<1>2. \A t \in Slots : (Used(t)' <=> Used(t)) /\ (t # s => (Running(t)' <=> Running(t)))
  BY <1>1 DEF Used, Running
<1>2a. \A t : Kind(t)' = Kind(t) /\ Pair(t)' = Pair(t)
  BY DEF Moves, Kind, Pair, Me, Them
<1>3. Shape'
  <2>1. op' = op /\ id' = id
    BY DEF Moves
  <2>2. \A t \in Slots : IF Used(t)' THEN op[t] \in Wanted ELSE id[t] = t
    BY <1>2 DEF Shape
  <2>3. \A t, u \in Slots : u < t /\ Used(t)' => Used(u)'
    BY <1>2 DEF Shape
  <2>4. announced' \subseteq {t \in Slots : Used(t)'}
    <3> SUFFICES ASSUME NEW t \in announced' PROVE t \in Slots /\ Used(t)'
      OBVIOUS
    <3>1. t \in Slots /\ Used(t)
      BY <1>1 DEF Shape, Moves
    <3> QED
      BY <1>2, <3>1
  <2> QED
    BY <1>1, <2>1, <2>2, <2>3, <2>4 DEF Shape, Moves
<1>4. PlacesSound'
  <2> SUFFICES ASSUME NEW t \in Slots, Used(t)', t # s PROVE Places(t)'
    BY DEF PlacesSound
  <2>1. Places(t) /\ pc'[t] = pc[t] /\ (t \in announced' => t \in announced)
    BY <1>1, <1>2 DEF PlacesSound, Moves
  <2> QED
    BY <1>2a, <2>1 DEF Places, Moves
<1>5. \A kinds, q : Sent(kinds, q)' = Sent(kinds, q)
  BY <1>2, <1>2a DEF Sent
<1>6. CopiesSound'
  <2> SUFFICES ASSUME NEW t \in Slots, Used(t)'
               PROVE  /\ id'[t] <= t /\ op'[id'[t]] = op'[t]
                      /\ Kind(t)' = "Follow" => \A u \in Sent(Ending, Pair(t))' : ~ (id'[t] < u /\ u < t)
                      /\ Kind(t)' = "Follow" /\ Running(t)' /\ pc'[t] # "lock" =>
                           \A u \in Slots \ {t} : Used(u)' /\ id'[u] = id'[t] => ~ Running(u)' \/ pc'[u] = "lock"
    BY DEF CopiesSound
  <2>0. Used(t)
    BY <1>2
  <2>1. id'[t] <= t /\ op'[id'[t]] = op'[t]
    BY <2>0 DEF CopiesSound, Moves
  <2>2. ASSUME Kind(t)' = "Follow" PROVE \A u \in Sent(Ending, Pair(t))' : ~ (id'[t] < u /\ u < t)
    <3>1. Sent(Ending, Pair(t))' = Sent(Ending, Pair(t))
      BY <1>2, <1>2a DEF Sent
    <3>2. Kind(t) = "Follow" /\ id' = id
      BY <1>2a, <2>2 DEF Moves
    <3> QED
      BY <2>0, <3>1, <3>2 DEF CopiesSound
  <2>3. ASSUME Kind(t)' = "Follow", Running(t)', pc'[t] # "lock", NEW u \in Slots \ {t}, Used(u)', id'[u] = id'[t]
        PROVE  ~ Running(u)' \/ pc'[u] = "lock"
    <3>1. Kind(t) = "Follow" /\ id[u] = id[t] /\ Used(u)
      BY <1>2, <1>2a, <2>3 DEF Moves
    <3>2. CASE t = s
      <4>1. \A v \in Slots \ {s} : Used(v) /\ id[v] = id[s] => ~ Running(v) \/ pc[v] = "lock"
        BY <1>1, <3>1, <3>2 DEF CopiesSound
      <4> QED
        BY <1>1, <1>2, <2>3, <3>1, <3>2, <4>1
    <3>3. CASE t # s
      <4>1. Running(t) /\ pc[t] # "lock" /\ (~ Running(u) \/ pc[u] = "lock")
        BY <1>1, <1>2, <2>0, <2>3, <3>1, <3>3 DEF CopiesSound
      <4>2. CASE u = s
        <5>1. op[id[t]] = op[t] /\ op[id[u]] = op[u]
          BY <2>0, <3>1 DEF CopiesSound
        <5>2. Kind(s) = "Follow"
          BY <3>1, <4>2, <5>1 DEF Kind
        <5> QED
          BY <2>0, <3>1, <4>1, <4>2, <5>2
      <4> QED
        BY <1>1, <1>2, <4>1, <4>2
    <3> QED
      BY <3>2, <3>3
  <2> QED
    BY <2>1, <2>2, <2>3
<1>7. TurnsSound'
  BY <1>1, <1>2, <1>2a DEF TurnsSound
<1> QED
  BY <1>1, <1>3, <1>4, <1>5, <1>6, <1>7


-----------------------------------------------------------------------------
(* The handler of a Follow. *)

\* What holds of a Follow while it is handled, and of its pair.
LEMMA FollowFacts ==
  ASSUME IInv, NEW s \in Slots, Running(s), Kind(s) = "Follow"
  PROVE  /\ Used(s) /\ op[s] \in Wanted /\ Pair(s) \in RemotePairs /\ s \in Sent({"Follow"}, Pair(s))
         /\ Pair(s) = <<Me(s), Them(s)>> /\ s \notin announced
         /\ ~ Dropping(Pair(s)) /\ view[Pair(s)] # "none"
<1>1. Used(s) /\ op[s] \in Wanted
  BY DEF IInv, Shape, Used, Running
<1>2. Pair(s) \in RemotePairs /\ Pair(s) = <<Me(s), Them(s)>>
  BY <1>1, WantedFacts DEF Pair, Me, Them, Kind
<1>3. s \in Sent({"Follow"}, Pair(s))
  BY <1>1 DEF Sent
<1>4. s \notin announced
  BY <1>1 DEF IInv, PlacesSound, Places, Running
<1>5. ASSUME NEW u \in Sent(Ending, Pair(s)) PROVE u \in Slots /\ u < s /\ ~ Running(u)
  <2>1. u \in Slots /\ Used(u) /\ Kind(u) \in Ending /\ Pair(u) = Pair(s) /\ u # s
    BY <1>5 DEF Sent, Ending
  <2>2. (s < u => ~ Running(s)) /\ (u < s => ~ Running(u))
    BY <1>1, <2>1 DEF IInv, TurnsSound
  <2>3. s < u \/ u < s
    BY <2>1, SlotFacts
  <2> QED
    BY <2>1, <2>2, <2>3
<1>6. ~ Dropping(Pair(s))
  BY <1>5 DEF Dropping
<1>7. view[Pair(s)] # "none"
  <2> SUFFICES ASSUME view[Pair(s)] = "none" PROVE FALSE
    OBVIOUS
  <2>1. PICK u \in Sent(Ending, Pair(s)) : s < u
    BY <1>2, <1>3 DEF IInv, ViewSound
  <2>2. u \in Nat /\ s \in Nat /\ u < s
    BY <1>5, SlotFacts
  <2> QED
    BY <2>1, <2>2
<1> QED
  BY <1>1, <1>2, <1>3, <1>4, <1>6, <1>7

\* A step of that handler: only its own pair's view may change.
FollowMoves(s, p) ==
  /\ Kind(s) = "Follow" /\ Running(s) /\ p \in FollowPCs \ {"lock"} /\ Moves(s, p)
  /\ blocked' = blocked /\ everBlocked' = everBlocked /\ overtaken' = overtaken
  /\ upset \subseteq upset'
  /\ \A q : q # Pair(s) => (q \in followers' <=> q \in followers)
  /\ followers \subseteq followers'
  /\ \A q \in RemotePairs : q # Pair(s) => view'[q] = view[q]
  /\ \A t \in Slots : t # s => seen'[t] = seen[t]
  /\ p = "over" \/ announced' = announced
  /\ pc[s] = "lock" => \A t \in Slots \ {s} : Used(t) /\ id[t] = id[s] => ~ Running(t) \/ pc[t] = "lock"
\* and what it must leave to be true of its pair, and of itself.
PairLeft(s) ==
  LET q == Pair(s) IN
  /\ view'[q] # "none" /\ (view'[q] = "yes" => q \in followers' \cup everBlocked \cup upset')
  /\ q \in followers' => view'[q] \in {"asked", "yes"} \/ pc'[s] = "accept" \/ q \in upset'
                         \/ (Accepting(q) /\ pc[s] # "accept")
  /\ q \in blocked \ overtaken => pc'[s] \notin {"list", "add"} /\ followers' = followers
  /\ q \notin everBlocked \cup upset' =>
       /\ pc'[s] \in {"accept", "announce"} \/ s \in announced' => q \in followers'
       /\ (\E t \in announced \ {s} : id[t] = id[s]) =>
            (pc'[s] \in {"add", "accept"} => seen'[s]) /\ pc'[s] # "announce" /\ s \notin announced'

LEMMA FollowMovesKeep ==
  ASSUME IInv, NEW s \in Slots, NEW p \in PCs, FollowMoves(s, p), PairLeft(s)
  PROVE  IInv'
<1>0. /\ Used(s) /\ op[s] \in Wanted /\ Pair(s) \in RemotePairs /\ s \in Sent({"Follow"}, Pair(s))
      /\ s \notin announced /\ ~ Dropping(Pair(s)) /\ view[Pair(s)] # "none"
  BY FollowFacts DEF FollowMoves
<1>1. p \in PCs \ {"unused", "lock"} /\ Running(s) /\ Kind(s) = "Follow"
  BY DEF FollowMoves, FollowPCs
<1>1a. pc'[s] = p
  BY DEF FollowMoves, Moves, IInv, Shape
<1>1b. \A t : Kind(t)' = Kind(t) /\ Pair(t)' = Pair(t)
  BY DEF FollowMoves, Moves, Kind, Pair, Me, Them
<1>1c. Places(s)'
  <2>1. Kind(s)' = "Follow" /\ p \in FollowPCs
    BY <1>1, <1>1b DEF FollowMoves
  <2>2. s \in announced' => p = "over"
    BY <1>0 DEF FollowMoves
  <2> QED
    BY <1>1a, <2>1, <2>2 DEF Places, Ending, OwnPCs, FollowPCs
<1>2. /\ Shape' /\ PlacesSound' /\ CopiesSound' /\ TurnsSound'
      /\ (\A kinds, q : Sent(kinds, q)' = Sent(kinds, q))
      /\ \A t \in Slots : t # s => pc'[t] = pc[t]
  BY <1>1, <1>1c, MovesKeep DEF FollowMoves, IInv
<1>3. \A t \in Slots : (Used(t)' <=> Used(t)) /\ (t # s => (Running(t)' <=> Running(t)))
  BY <1>0, <1>1, <1>1a, <1>2 DEF Running, Used
<1>3a. \A kinds, q, t : t \in Sent(kinds, q)' <=> t \in Sent(kinds, q)
  BY <1>2
<1>4. \A q : Dropping(q)' <=> Dropping(q)
  <2> SUFFICES ASSUME NEW q PROVE Dropping(q)' <=> Dropping(q)
    OBVIOUS
  <2>1. \A u \in Sent(Ending, q) : u \in Slots /\ u # s
    BY <1>1 DEF Sent, Ending
  <2>2. Sent(Ending, q)' = Sent(Ending, q)
    BY <1>2
  <2> QED
    BY <1>3, <2>1, <2>2 DEF Dropping
<1>5. \A q : Expelling(q)' <=> Expelling(q)
  <2> SUFFICES ASSUME NEW q PROVE Expelling(q)' <=> Expelling(q)
    OBVIOUS
  <2>1. \A u \in Sent({"block"}, q) : u \in Slots /\ u # s
    BY <1>1 DEF Sent
  <2>2. Sent({"block"}, q)' = Sent({"block"}, q)
    BY <1>2
  <2> QED
    BY <1>2, <2>1, <2>2 DEF Expelling
<1>6. \A q : Accepting(q) => Accepting(q)' \/ (q = Pair(s) /\ pc[s] = "accept")
  <2> SUFFICES ASSUME NEW q, Accepting(q), ~ (q = Pair(s) /\ pc[s] = "accept") PROVE Accepting(q)'
    OBVIOUS
  <2>1. PICK t \in Sent({"Follow"}, q) : pc[t] = "accept"
    BY DEF Accepting
  <2>2. t \in Slots /\ t # s
    BY <2>1 DEF Sent
  <2>3. Sent({"Follow"}, q)' = Sent({"Follow"}, q)
    BY <1>2
  <2> QED
    BY <1>2, <2>1, <2>2, <2>3 DEF Accepting
<1>7. pc'[s] = "accept" => Accepting(Pair(s))'
  <2>1. s \in Sent({"Follow"}, Pair(s))'
    BY <1>0, <1>1, <1>1b, <1>3 DEF Sent
  <2> QED
    BY <2>1, <1>1b DEF Accepting
<1>8. ViewSound'
  <2> SUFFICES ASSUME NEW q \in RemotePairs
      PROVE  /\ view'[q] = "none" => \A t \in Sent({"Follow"}, q)' : \E u \in Sent(Ending, q)' : t < u
             /\ Dropping(q)' => view'[q] \in {"none", "refused"}
             /\ view'[q] = "yes" => q \in followers' \cup everBlocked' \cup upset'
             /\ q \in followers' =>
                  view'[q] \in {"asked", "yes"} \/ Dropping(q)' \/ Accepting(q)' \/ q \in upset'
    BY Zenon DEF ViewSound, RemotePairs
  <2>0. Sent({"Follow"}, q)' = Sent({"Follow"}, q) /\ Sent(Ending, q)' = Sent(Ending, q)
    BY <1>2
  <2>1. CASE q = Pair(s)
    <3>1. /\ view'[q] # "none" /\ (view'[q] = "yes" => q \in followers' \cup everBlocked \cup upset')
          /\ q \in followers' => view'[q] \in {"asked", "yes"} \/ pc'[s] = "accept" \/ q \in upset'
                                 \/ (Accepting(q) /\ pc[s] # "accept")
      BY <2>1 DEF PairLeft
    <3> QED
      BY <1>0, <1>1b, <1>4, <1>6, <1>7, <2>1, <3>1 DEF FollowMoves
  <2>2. CASE q # Pair(s)
    <3>1. view'[q] = view[q] /\ (q \in followers' <=> q \in followers) /\ upset \subseteq upset' /\ everBlocked' = everBlocked
      BY <2>2 DEF FollowMoves
    <3> QED
      BY <1>4, <1>6, <2>0, <2>2, <3>1 DEF IInv, ViewSound
  <2> QED
    BY <2>1, <2>2
<1>9. BlockSound'
  <2> SUFFICES ASSUME NEW q \in RemotePairs, q \in blocked \ overtaken
      PROVE  /\ \A t \in Sent({"Follow"}, q)' : pc'[t] \notin {"list", "add"}
             /\ q \in followers' => q \in upset' \/ Expelling(q)'
    BY DEF BlockSound, FollowMoves
  <2>1. (\A t \in Sent({"Follow"}, q) : pc[t] \notin {"list", "add"}) /\ (q \in followers => q \in upset \/ Expelling(q))
    BY DEF IInv, BlockSound
  <2>2. ASSUME NEW t \in Sent({"Follow"}, q)' PROVE pc'[t] \notin {"list", "add"}
    <3>1. t \in Sent({"Follow"}, q) /\ t \in Slots /\ Pair(t) = q
      BY <1>1b, <1>3, <2>2 DEF Sent
    <3>2. CASE t = s
      BY <3>1, <3>2 DEF PairLeft
    <3>3. CASE t # s
      BY <1>2, <2>1, <3>1, <3>3
    <3> QED
      BY <3>2, <3>3
  <2>3. q \in followers' => q \in followers
    BY DEF PairLeft, FollowMoves
  <2> QED
    BY <1>5, <2>1, <2>2, <2>3 DEF FollowMoves
<1>10. AnnouncedSound'
  <2>0. announced' \subseteq announced \cup {s} /\ everBlocked' = everBlocked /\ upset \subseteq upset' /\ followers \subseteq followers' /\ id' = id
    BY DEF FollowMoves, Moves
  <2> SUFFICES ASSUME NEW t \in Slots, Used(t)', Kind(t)' = "Follow", Pair(t)' \notin everBlocked' \cup upset'
      PROVE  /\ pc'[t] \in {"accept", "announce"} => Pair(t)' \in followers'
             /\ t \in announced' => Pair(t)' \in followers' \/ \E u \in Sent(Ending, Pair(t))' : t < u
             /\ (\E v \in announced' \ {t} : id'[v] = id'[t]) =>
                  (pc'[t] \in {"add", "accept"} => seen'[t]) /\ pc'[t] # "announce" /\ t \notin announced'
    BY DEF AnnouncedSound
  <2>1. Pair(t)' = Pair(t) /\ Kind(t) = "Follow" /\ Pair(t) \notin everBlocked \cup upset
    BY <1>1b, <2>0
  <2>2. CASE t = s
    BY <1>1b, <2>0, <2>1, <2>2 DEF PairLeft
  <2>3. CASE t # s
    <3>1. pc'[t] = pc[t] /\ Used(t) /\ seen'[t] = seen[t] /\ (t \in announced' => t \in announced)
      BY <1>2, <1>3, <2>3, <2>0 DEF FollowMoves
    <3>1a. Sent(Ending, Pair(t))' = Sent(Ending, Pair(t))
      BY <1>1b, <1>3 DEF Sent
    <3>2. /\ pc[t] \in {"accept", "announce"} => Pair(t) \in followers
          /\ t \in announced => Pair(t) \in followers \/ \E u \in Sent(Ending, Pair(t)) : t < u
          /\ (\E v \in announced \ {t} : id[v] = id[t]) =>
               (pc[t] \in {"add", "accept"} => seen[t]) /\ pc[t] # "announce" /\ t \notin announced
      BY <2>1, <3>1 DEF IInv, AnnouncedSound
    <3>3. ASSUME s \in announced', id[s] = id[t]
          PROVE  pc[t] \notin {"add", "accept", "announce"} /\ t \notin announced
      <4>1. pc[s] # "lock" => ~ Running(t) \/ pc[t] = "lock"
        BY <1>0, <1>1, <2>3, <3>1, <3>3 DEF IInv, CopiesSound
      <4>2. pc[s] = "lock" => ~ Running(t) \/ pc[t] = "lock"
        BY <2>3, <3>1, <3>3 DEF FollowMoves
      <4>3. pc[t] \notin {"add", "accept", "announce"}
        BY <4>1, <4>2 DEF Running
      <4>4. t \notin announced
        <5> SUFFICES ASSUME t \in announced PROVE FALSE
          OBVIOUS
        <5>1. op[id[s]] = op[s] /\ op[id[t]] = op[t]
          BY <1>0, <3>1 DEF IInv, CopiesSound
        <5>2. Pair(s) = Pair(t)
          BY <3>3, <5>1 DEF Pair, Me, Them
        <5>3. Pair(s) \notin everBlocked \cup upset'
          BY <1>1b, <2>0, <5>2
        <5> QED
          BY <2>3, <3>3, <5>3 DEF PairLeft
      <4> QED
        BY <4>3, <4>4
    <3> QED
      BY <2>0, <2>1, <3>1, <3>1a, <3>2, <3>3
  <2> QED
    BY <2>2, <2>3
<1> QED
  BY <1>2, <1>8, <1>9, <1>10 DEF IInv


LEMMA FollowStepsKeep ==
  ASSUME IInv, NEW s \in Slots, op[s] \in Wanted, Kind(s) = "Follow", Places(s),
         \/ Lock(s) \/ FollowCheck(s) \/ FollowReject(s) \/ FollowList(s)
         \/ FollowAdd(s) \/ FollowAccept(s) \/ FollowAnnounce(s)
  PROVE  IInv'
<1>0. Running(s)
  BY DEF Lock, FollowCheck, FollowReject, FollowList, FollowAdd, FollowAccept, FollowAnnounce, At, Running
<1>1. /\ Used(s) /\ Pair(s) \in RemotePairs /\ s \in Sent({"Follow"}, Pair(s)) /\ s \notin announced
      /\ ~ Dropping(Pair(s)) /\ view[Pair(s)] # "none"
  BY <1>0, FollowFacts
<1>2. /\ Shape /\ blocked \subseteq everBlocked /\ everBlocked \subseteq Profiles \X Accounts
      /\ view \in [RemotePairs -> {"none", "asked", "yes", "refused"}] /\ seen \in [Slots -> BOOLEAN]
      /\ pc \in [Slots -> PCs]
  BY DEF IInv, Shape
<1>3. /\ view[Pair(s)] = "yes" => Pair(s) \in followers \cup everBlocked \cup upset
      /\ Pair(s) \in followers => view[Pair(s)] \in {"asked", "yes"} \/ Accepting(Pair(s)) \/ Pair(s) \in upset
      /\ view[Pair(s)] \in {"asked", "yes", "refused"}
  BY <1>1, <1>2 DEF IInv, ViewSound
<1>4. Pair(s) \in blocked \ overtaken => pc[s] \notin {"list", "add"}
  BY <1>1 DEF IInv, BlockSound
<1>5. Pair(s) \notin everBlocked \cup upset =>
        /\ pc[s] \in {"accept", "announce"} => Pair(s) \in followers
        /\ (\E t \in announced \ {s} : id[t] = id[s]) => (pc[s] \in {"add", "accept"} => seen[s]) /\ pc[s] # "announce"
  BY <1>1 DEF IInv, AnnouncedSound
<1>6. CASE Lock(s)
  <2> DEFINE p == IF Me(s) \in Profiles THEN "check" ELSE "list"
  <2>1. /\ pc[s] = "lock" /\ pc' = [pc EXCEPT ![s] = p]
        /\ UNCHANGED <<op, id, seen, followers, blocked, view, announced, upset, everBlocked, overtaken>>
        /\ \A t \in Slots \ {s} : Running(t) /\ ~At(t, "lock") => id[t] # id[s]
    BY <1>6 DEF Lock, At, Go, tables, others, history
  <2>2. p \in FollowPCs \ {"lock"} /\ p \in PCs
    BY DEF FollowPCs, PCs
  <2>3. FollowMoves(s, p)
    BY <1>0, <1>2, <2>1, <2>2 DEF FollowMoves, Moves, At
  <2>4. pc'[s] = p
    BY <1>2, <2>1
  <2>5. Pair(s) \in blocked => p = "check"
    BY <1>2 DEF Pair
  <2>6. PairLeft(s)
    BY <1>1, <1>3, <2>1, <2>4, <2>5 DEF PairLeft
  <2> QED
    BY <2>2, <2>3, <2>6, FollowMovesKeep
<1>7. CASE FollowCheck(s)
  <2> DEFINE p == IF Pair(s) \in blocked THEN "reject" ELSE "list"
  <2>1. /\ pc[s] = "check" /\ pc' = [pc EXCEPT ![s] = p]
        /\ UNCHANGED <<op, id, seen, followers, blocked, view, announced, upset, everBlocked, overtaken>>
    BY <1>7 DEF FollowCheck, At, Go, tables, others, history
  <2>2. p \in FollowPCs \ {"lock"} /\ p \in PCs
    BY DEF FollowPCs, PCs
  <2>3. FollowMoves(s, p)
    BY <1>0, <1>2, <2>1, <2>2 DEF FollowMoves, Moves
  <2>4. pc'[s] = p
    BY <1>2, <2>1
  <2>6. PairLeft(s)
    BY <1>1, <1>3, <2>1, <2>4 DEF PairLeft
  <2> QED
    BY <2>2, <2>3, <2>6, FollowMovesKeep
<1>8. CASE FollowReject(s)
  <2>1. /\ pc[s] = "reject" /\ pc' = [pc EXCEPT ![s] = "over"]
        /\ UNCHANGED <<op, id, seen, followers, blocked, announced, everBlocked, overtaken>>
    BY <1>8 DEF FollowReject, At, Go, tables
  <2>2. /\ upset \subseteq upset' /\ (Pair(s) \in followers => Pair(s) \in upset' \/ view'[Pair(s)] = view[Pair(s)])
        /\ view' \in [RemotePairs -> {"none", "asked", "yes", "refused"}]
        /\ \A q \in RemotePairs : q # Pair(s) => view'[q] = view[q]
        /\ view'[Pair(s)] \in {view[Pair(s)], "refused"}
    BY <1>1, <1>2, <1>8 DEF FollowReject, SetView, Upset, Delivered, Failed
  <2>3. FollowMoves(s, "over")
    BY <1>0, <1>2, <2>1, <2>2 DEF FollowMoves, Moves, FollowPCs
  <2>4. pc'[s] = "over"
    BY <1>2, <2>1 DEF PCs
  <2>6. PairLeft(s)
    BY <1>1, <1>3, <2>1, <2>2, <2>4 DEF PairLeft
  <2> QED
    BY <2>3, <2>6, FollowMovesKeep DEF PCs
<1>9. CASE FollowList(s)
  <2>1. /\ pc[s] = "list" /\ pc' = [pc EXCEPT ![s] = "add"] /\ seen' = [seen EXCEPT ![s] = Pair(s) \in followers]
        /\ UNCHANGED <<op, id, followers, blocked, view, announced, upset, everBlocked, overtaken>>
    BY <1>9 DEF FollowList, At, Go, tables, others, history
  <2>2. FollowMoves(s, "add")
    <3>1. seen' \in [Slots -> BOOLEAN]
      BY <1>2, <2>1
    <3> QED
      BY <1>0, <1>2, <2>1, <3>1 DEF FollowMoves, Moves, FollowPCs
  <2>3. pc'[s] = "add" /\ (Pair(s) \in followers => seen'[s])
    BY <1>2, <2>1 DEF PCs
  <2>4. ASSUME NEW t \in announced \ {s}, id[t] = id[s], Pair(s) \notin everBlocked \cup upset
        PROVE  Pair(s) \in followers
    <3>1. t \in Slots /\ Used(t) /\ op[t] = op[s] /\ id[s] <= t
      BY <1>1, <2>4 DEF IInv, Shape, CopiesSound
    <3>2. Kind(t) = "Follow" /\ Pair(t) = Pair(s)
      BY <3>1 DEF Kind, Pair, Me, Them
    <3>3. Pair(s) \in followers \/ \E u \in Sent(Ending, Pair(s)) : t < u
      BY <2>4, <3>1, <3>2 DEF IInv, AnnouncedSound
    <3>4. ASSUME NEW u \in Sent(Ending, Pair(s)), t < u PROVE FALSE
      <4>1. u \in Slots /\ Used(u) /\ Kind(u) \in Ending /\ Pair(u) = Pair(s) /\ u # s
        BY <3>4 DEF Sent, Ending
      <4>2. ~ (id[s] < u /\ u < s)
        BY <1>1, <3>4 DEF IInv, CopiesSound
      <4>3. ~ (s < u)
        BY <1>0, <1>1, <4>1 DEF IInv, TurnsSound
      <4>4. id[s] \in Nat /\ t \in Nat /\ u \in Nat /\ s \in Nat
        BY <1>2, <3>1, <4>1, SlotFacts DEF IInv, Shape
      <4> QED
        BY <3>1, <3>4, <4>1, <4>2, <4>3, <4>4
    <3> QED
      BY <3>3, <3>4
  <2>5. PairLeft(s)
    BY <1>1, <1>3, <1>4, <2>1, <2>3, <2>4 DEF PairLeft
  <2> QED
    BY <2>2, <2>5, FollowMovesKeep DEF PCs
<1>10. CASE FollowAdd(s)
  <2>1. /\ pc[s] = "add" /\ pc' = [pc EXCEPT ![s] = "accept"] /\ followers' = followers \cup {Pair(s)}
        /\ UNCHANGED <<op, id, seen, blocked, view, announced, upset, everBlocked, overtaken>>
    BY <1>10 DEF FollowAdd, At, Go, others, history
  <2>2. FollowMoves(s, "accept")
    BY <1>0, <1>2, <2>1 DEF FollowMoves, Moves, FollowPCs
  <2>3. pc'[s] = "accept"
    BY <1>2, <2>1 DEF PCs
  <2>4. PairLeft(s)
    BY <1>1, <1>3, <1>4, <1>5, <2>1, <2>3 DEF PairLeft
  <2> QED
    BY <2>2, <2>4, FollowMovesKeep DEF PCs
<1>11. CASE FollowAccept(s)
  <2> DEFINE p == IF seen[s] THEN "over" ELSE "announce"
  <2>1. /\ pc[s] = "accept" /\ pc' = [pc EXCEPT ![s] = p]
        /\ UNCHANGED <<op, id, seen, followers, blocked, announced, everBlocked, overtaken>>
    BY <1>11 DEF FollowAccept, At, Go, tables
  <2>2. /\ upset \subseteq upset' /\ (view[Pair(s)] \in {"asked", "refused"} => Pair(s) \in upset' \/ view'[Pair(s)] = "yes")
        /\ view' \in [RemotePairs -> {"none", "asked", "yes", "refused"}]
        /\ \A q \in RemotePairs : q # Pair(s) => view'[q] = view[q]
        /\ view'[Pair(s)] \in {view[Pair(s)], "yes"}
    BY <1>1, <1>2, <1>11 DEF FollowAccept, SetView, Upset, Delivered, Failed
  <2>3. p \in FollowPCs \ {"lock"} /\ p \in PCs
    BY DEF FollowPCs, PCs
  <2>4. FollowMoves(s, p)
    BY <1>0, <1>2, <2>1, <2>2, <2>3 DEF FollowMoves, Moves
  <2>5. pc'[s] = p
    BY <1>2, <2>1
  <2>6. PairLeft(s)
    BY <1>1, <1>3, <1>5, <2>1, <2>2, <2>5 DEF PairLeft
  <2> QED
    BY <2>3, <2>4, <2>6, FollowMovesKeep
<1>12. CASE FollowAnnounce(s)
  <2>1. /\ pc[s] = "announce" /\ pc' = [pc EXCEPT ![s] = "over"] /\ announced' = announced \cup {s}
        /\ UNCHANGED <<op, id, seen, followers, blocked, view, upset, everBlocked, overtaken>>
    BY <1>12 DEF FollowAnnounce, At, Go, tables, others
  <2>2. FollowMoves(s, "over")
    BY <1>0, <1>2, <2>1 DEF FollowMoves, Moves, FollowPCs
  <2>3. pc'[s] = "over"
    BY <1>2, <2>1 DEF PCs
  <2>4. PairLeft(s)
    BY <1>1, <1>3, <1>5, <2>1, <2>3 DEF PairLeft
  <2> QED
    BY <2>2, <2>4, FollowMovesKeep DEF PCs
<1> QED
  BY <1>6, <1>7, <1>8, <1>9, <1>10, <1>11, <1>12


-----------------------------------------------------------------------------
(* The other handlers. *)

\* A step of theirs: of a remote account's rows it only takes some away.
OtherMoves(s, p) ==
  /\ Kind(s) # "Follow" /\ Running(s) /\ p \in PCs \ {"unused", "lock"} /\ Moves(s, p) /\ Places(s)'
  /\ view' = view /\ announced' = announced /\ upset \subseteq upset' /\ overtaken \subseteq overtaken'
  /\ \A t \in Slots : t # s => seen'[t] = seen[t]
  /\ \A q \in RemotePairs : q \in followers' => q \in followers
\* An Undo or a Block takes its pair's; a block expels, and is not flagged before
\* those that passed the check are noted.
RowsGo(s) ==
  /\ \A q \in RemotePairs : q \in followers \ followers' =>
       q \in everBlocked' \/ (q = Pair(s) /\ Kind(s) \in Ending)
  /\ Kind(s) \in Ending => pc'[s] # "over" \/ Pair(s) \notin followers'
  /\ pc[s] = "expel" => Pair(s) \notin followers'
  /\ \A q \in RemotePairs : q \in blocked' \ overtaken' => q \in blocked \ overtaken \/
       /\ q = Pair(s) /\ Kind(s) = "block" /\ pc'[s] = "expel"
       /\ \A t \in Sent({"Follow"}, q) : pc[t] \notin {"list", "add"}

LEMMA OtherMovesKeep ==
  ASSUME IInv, NEW s \in Slots, NEW p, OtherMoves(s, p), RowsGo(s)
  PROVE  IInv'
<1>1. p \in PCs \ {"unused", "lock"} /\ Running(s) /\ Kind(s) # "Follow"
  BY DEF OtherMoves
<1>1a. pc'[s] = p /\ Used(s)
  BY <1>1 DEF OtherMoves, Moves, IInv, Shape, Running, Used
<1>1b. \A t : Kind(t)' = Kind(t) /\ Pair(t)' = Pair(t)
  BY DEF OtherMoves, Moves, Kind, Pair, Me, Them
<1>2. /\ Shape' /\ PlacesSound' /\ CopiesSound' /\ TurnsSound'
      /\ (\A kinds, q : Sent(kinds, q)' = Sent(kinds, q))
      /\ \A t \in Slots : t # s => pc'[t] = pc[t]
  BY <1>1, MovesKeep DEF OtherMoves, IInv
<1>3. \A t \in Slots : (Used(t)' <=> Used(t)) /\ (t # s => (Running(t)' <=> Running(t)))
  BY <1>1, <1>1a, <1>2 DEF Running, Used
<1>3a. /\ upset \subseteq upset' /\ everBlocked \subseteq everBlocked' /\ announced' = announced /\ view' = view
       /\ op' = op /\ id' = id
  BY DEF OtherMoves, Moves
<1>4. \A q : /\ Dropping(q)' => Dropping(q)
             /\ Dropping(q) => Dropping(q)' \/ (q = Pair(s) /\ Kind(s) \in Ending /\ pc'[s] = "over")
  <2> SUFFICES ASSUME NEW q
               PROVE  /\ Dropping(q)' => Dropping(q)
                      /\ Dropping(q) => Dropping(q)' \/ (q = Pair(s) /\ Kind(s) \in Ending /\ pc'[s] = "over")
    OBVIOUS
  <2>1. Sent(Ending, q)' = Sent(Ending, q) /\ \A u \in Sent(Ending, q) : u \in Slots /\ Pair(u) = q /\ Kind(u) \in Ending
    BY <1>2 DEF Sent
  <2>2. Running(s)' \/ pc'[s] = "over"
    BY <1>1, <1>1a DEF Running
  <2> QED
    BY <1>1, <1>3, <2>1, <2>2 DEF Dropping
<1>5. \A q : Expelling(q) => Expelling(q)' \/ (q = Pair(s) /\ pc[s] = "expel")
  <2> SUFFICES ASSUME NEW q PROVE Expelling(q) => Expelling(q)' \/ (q = Pair(s) /\ pc[s] = "expel")
    OBVIOUS
  <2>1. Sent({"block"}, q)' = Sent({"block"}, q) /\ \A u \in Sent({"block"}, q) : u \in Slots /\ Pair(u) = q
    BY <1>2 DEF Sent
  <2> QED
    BY <1>2, <2>1 DEF Expelling
<1>5a. \A q : q = Pair(s) /\ Kind(s) = "block" /\ pc'[s] = "expel" => Expelling(q)'
  <2> SUFFICES ASSUME NEW q, q = Pair(s), Kind(s) = "block", pc'[s] = "expel" PROVE Expelling(q)'
    OBVIOUS
  <2>1. s \in Sent({"block"}, q)'
    BY <1>1a, <1>1b, <1>3 DEF Sent
  <2> QED
    BY <2>1 DEF Expelling
<1>6. \A q : Accepting(q) => Accepting(q)'
  <2> SUFFICES ASSUME NEW q PROVE Accepting(q) => Accepting(q)'
    OBVIOUS
  <2>1. Sent({"Follow"}, q)' = Sent({"Follow"}, q) /\ \A u \in Sent({"Follow"}, q) : u \in Slots /\ u # s
    BY <1>1, <1>2 DEF Sent
  <2> QED
    BY <1>2, <2>1 DEF Accepting
<1>7. ViewSound'
  <2> SUFFICES ASSUME NEW q \in RemotePairs
      PROVE  /\ view'[q] = "none" => \A t \in Sent({"Follow"}, q)' : \E u \in Sent(Ending, q)' : t < u
             /\ Dropping(q)' => view'[q] \in {"none", "refused"}
             /\ view'[q] = "yes" => q \in followers' \cup everBlocked' \cup upset'
             /\ q \in followers' =>
                  view'[q] \in {"asked", "yes"} \/ Dropping(q)' \/ Accepting(q)' \/ q \in upset'
    BY Zenon DEF ViewSound, RemotePairs
  <2>0. Sent({"Follow"}, q)' = Sent({"Follow"}, q) /\ Sent(Ending, q)' = Sent(Ending, q)
    BY <1>2
  <2>1. /\ view[q] = "none" => \A t \in Sent({"Follow"}, q) : \E u \in Sent(Ending, q) : t < u
        /\ Dropping(q) => view[q] \in {"none", "refused"}
        /\ view[q] = "yes" => q \in followers \cup everBlocked \cup upset
        /\ q \in followers => view[q] \in {"asked", "yes"} \/ Dropping(q) \/ Accepting(q) \/ q \in upset
    BY DEF IInv, ViewSound
  <2>2. q \in followers' => q \in followers
    BY DEF OtherMoves
  <2>3. q \in followers \ followers' => q \in everBlocked' \/ Dropping(q)
    <3>1. Kind(s) \in Ending => s \in Sent(Ending, Pair(s))
      BY <1>1a DEF Sent
    <3> QED
      BY <1>1, <3>1 DEF RowsGo, Dropping
  <2>4. q = Pair(s) /\ Kind(s) \in Ending /\ pc'[s] = "over" => q \notin followers'
    BY DEF RowsGo
  <2> QED
    BY <1>3a, <1>4, <1>6, <2>0, <2>1, <2>2, <2>3, <2>4
<1>8. BlockSound'
  <2> SUFFICES ASSUME NEW q \in RemotePairs, q \in blocked' \ overtaken'
      PROVE  /\ \A t \in Sent({"Follow"}, q)' : pc'[t] \notin {"list", "add"}
             /\ q \in followers' => q \in upset' \/ Expelling(q)'
    BY Zenon DEF BlockSound, RemotePairs
  <2>0. /\ Sent({"Follow"}, q)' = Sent({"Follow"}, q)
        /\ \A t \in Sent({"Follow"}, q) : t \in Slots /\ pc'[t] = pc[t]
    BY <1>1, <1>2 DEF Sent
  <2>1. CASE q \in blocked \ overtaken
    <3>1. (\A t \in Sent({"Follow"}, q) : pc[t] \notin {"list", "add"}) /\ (q \in followers => q \in upset \/ Expelling(q))
      BY <2>1 DEF IInv, BlockSound
    <3>2. pc[s] = "expel" /\ q = Pair(s) => q \notin followers'
      BY DEF RowsGo
    <3>3. q \in followers' => q \in followers
      BY DEF OtherMoves
    <3> QED
      BY <1>3a, <1>5, <2>0, <3>1, <3>2, <3>3
  <2>2. CASE q \notin blocked \ overtaken
    BY <1>5a, <2>0, <2>2 DEF RowsGo
  <2> QED
    BY <2>1, <2>2
<1>9. AnnouncedSound'
  <2> SUFFICES ASSUME NEW t \in Slots, Used(t)', Kind(t)' = "Follow", Pair(t)' \notin everBlocked' \cup upset'
      PROVE  /\ pc'[t] \in {"accept", "announce"} => Pair(t)' \in followers'
             /\ t \in announced' => Pair(t)' \in followers' \/ \E u \in Sent(Ending, Pair(t))' : t < u
             /\ (\E v \in announced' \ {t} : id'[v] = id'[t]) =>
                  (pc'[t] \in {"add", "accept"} => seen'[t]) /\ pc'[t] # "announce" /\ t \notin announced'
    BY DEF AnnouncedSound
  <2>1. Pair(t)' = Pair(t) /\ Kind(t) = "Follow" /\ Used(t) /\ Pair(t) \notin everBlocked' /\ Pair(t) \notin everBlocked \cup upset /\ t # s
    BY <1>1, <1>1b, <1>3, <1>3a
  <2>2. pc'[t] = pc[t] /\ seen'[t] = seen[t]
    BY <1>2, <2>1 DEF OtherMoves
  <2>3. /\ pc[t] \in {"accept", "announce"} => Pair(t) \in followers
        /\ t \in announced => Pair(t) \in followers \/ \E u \in Sent(Ending, Pair(t)) : t < u
        /\ (\E v \in announced \ {t} : id[v] = id[t]) =>
             (pc[t] \in {"add", "accept"} => seen[t]) /\ pc[t] # "announce" /\ t \notin announced
    BY <2>1 DEF IInv, AnnouncedSound
  <2>4. Sent(Ending, Pair(t))' = Sent(Ending, Pair(t))
    BY <1>1b, <1>3 DEF Sent
  <2>5. ASSUME Pair(t) \in followers \ followers'
        PROVE  pc[t] \notin {"accept", "announce"} /\ \E u \in Sent(Ending, Pair(t)) : t < u
    <3>1. Pair(t) \in RemotePairs
      <4>1. op[t] \in Wanted
        BY <2>1 DEF IInv, Shape
      <4> QED
        BY <2>1, <4>1, WantedFacts DEF Pair, Me, Them, Kind
    <3>2. Pair(t) = Pair(s) /\ Kind(s) \in Ending
      BY <2>1, <2>5, <3>1 DEF RowsGo
    <3>3. (t < s => ~ Running(t)) /\ (s < t => ~ Running(s))
      BY <1>1a, <2>1, <3>2 DEF IInv, TurnsSound
    <3>4. t < s
      BY <1>1, <2>1, <3>3, SlotFacts
    <3>5. s \in Sent(Ending, Pair(t))
      BY <1>1a, <3>2 DEF Sent
    <3> QED
      BY <3>3, <3>4, <3>5 DEF Running
  <2> QED
    BY <1>3a, <2>1, <2>2, <2>3, <2>4, <2>5
<1> QED
  BY <1>2, <1>7, <1>8, <1>9 DEF IInv


\* A step that touches nothing of a remote account's follow.
OtherPCs == PCs \ ({"unused", "lock", "expel"} \cup OwnPCs)
Aside(s) ==
  /\ Kind(s) \notin {"Follow", "Undo", "Block"} /\ pc[s] \notin {"unused", "over", "expel"}
  /\ pc'[s] \in OtherPCs /\ pc' = [pc EXCEPT ![s] = pc'[s]] /\ (pc'[s] = "flag" => Kind(s) = "block")
  /\ op' = op /\ id' = id /\ view' = view /\ announced' = announced
  /\ everBlocked' = everBlocked /\ overtaken' = overtaken /\ blocked' \subseteq blocked
  /\ seen' = seen \/ seen' = [seen EXCEPT ![s] = TRUE]
  /\ upset \subseteq upset'
  /\ \A q \in RemotePairs : q \in followers' <=> q \in followers

LEMMA AsideKeeps ==
  ASSUME IInv, NEW s \in Slots, Places(s), Aside(s)
  PROVE  IInv'
<1>1. PICK p \in OtherPCs : pc'[s] = p /\ pc' = [pc EXCEPT ![s] = p] /\ (p = "flag" => Kind(s) = "block")
  BY DEF Aside
<1>2. pc'[s] = p /\ p \in PCs \ {"unused", "lock"} /\ p # "expel" /\ p \notin OwnPCs
  BY <1>1 DEF OtherPCs, IInv, Shape
<1>3. Moves(s, p)
  BY <1>1 DEF Moves, Aside, IInv, Shape
<1>4. Kind(s)' = Kind(s) /\ Kind(s) \notin Ending \cup {"Follow"}
  BY DEF Aside, Kind, Ending
<1>5. s \notin announced'
  BY <1>4 DEF Aside, IInv, Shape, PlacesSound, Places
<1>6. Places(s)'
  BY <1>1, <1>2, <1>4, <1>5 DEF Places
<1>7. OtherMoves(s, p)
  <2>1. seen \in [Slots -> BOOLEAN]
    BY DEF IInv, Shape
  <2>2. \A t \in Slots : t # s => seen'[t] = seen[t]
    BY <2>1 DEF Aside
  <2> QED
    BY <1>2, <1>3, <1>4, <1>6, <2>2 DEF OtherMoves, Aside, Running
<1>8. RowsGo(s)
  BY <1>4 DEF RowsGo, Aside
<1> QED
  BY <1>7, <1>8, OtherMovesKeep

LEMMA OtherSides ==
  ASSUME NEW s \in Slots, op[s] \in Wanted, Kind(s) \notin {"Follow", "Undo", "Block"}
  PROVE  Back(s) \notin RemotePairs /\ Left(s) \notin RemotePairs
<1>1. Me(s) \in Profiles
  BY WantedFacts DEF Me, Kind
<1>2. OldestOf[User(s)] \in Profiles
  BY <1>1, PeopleAssumption DEF User
<1>3. \A p \in Profiles : p \notin Remotes
  BY KindsApartAssumption DEF Locals
<1> QED
  BY <1>1, <1>2, <1>3 DEF Back, Left, Leaver, RemotePairs

LEMMA CommandsAside ==
  ASSUME NEW s \in Slots, pc \in [Slots -> PCs], op[s] \in Wanted, Places(s),
         \/ AlreadyFollowing(s) \/ FollowBegins(s) \/ FindRoom(s) \/ MakeRoom(s)
         \/ TellFollow(s) \/ RecordFollowing(s) \/ RecordFollower(s)
         \/ Unfollow(s) \/ DropFollowing(s) \/ DropBack(s)
         \/ RoomLeft(s) \/ LeaveDrop(s) \/ LeaveUndo(s)
         \/ BlockCheck(s) \/ BlockCut(s) \/ BlockUndo(s) \/ BlockKick(s) \/ Unblock(s)
  PROVE  Aside(s)
<1>1. /\ pc[s] \notin {"lock", "check", "list", "add", "accept", "announce", "reject", "drop", "over"} =>
           Kind(s) \notin {"Follow", "Undo", "Block"}
      /\ Back(s) \notin RemotePairs \/ Kind(s) \in {"Follow", "Undo", "Block"}
      /\ Left(s) \notin RemotePairs \/ Kind(s) \in {"Follow", "Undo", "Block"}
  BY OtherSides DEF Places, FollowPCs, EndingPCs, Ending
<1> USE DEF Aside, OtherPCs, OwnPCs, PCs, At, Go, tables, others, history, matrix
<1>2. CASE AlreadyFollowing(s)
  BY <1>2 DEF AlreadyFollowing
<1>3. CASE FollowBegins(s)
  BY <1>3 DEF FollowBegins
<1>4. CASE FindRoom(s)
  BY <1>1, <1>4 DEF FindRoom
<1>5. CASE MakeRoom(s)
  BY <1>1, <1>5 DEF MakeRoom
<1>6. CASE TellFollow(s)
  BY <1>1, <1>6 DEF TellFollow, Delivered, Failed, Upset
<1>7. CASE RecordFollowing(s)
  BY <1>7 DEF RecordFollowing
<1>8. CASE RecordFollower(s)
  BY <1>1, <1>8 DEF RecordFollower
<1>9. CASE Unfollow(s)
  BY <1>9 DEF Unfollow, Kick
<1>10. CASE DropFollowing(s)
  BY <1>10 DEF DropFollowing
<1>11. CASE DropBack(s)
  BY <1>1, <1>11 DEF DropBack
<1>12. CASE RoomLeft(s)
  BY <1>1, <1>12 DEF RoomLeft
<1>13. CASE LeaveDrop(s)
  BY <1>1, <1>13 DEF LeaveDrop
<1>14. CASE LeaveUndo(s)
  BY <1>1, <1>14 DEF LeaveUndo, TellUndo, Delivered, Failed, Upset
<1>15. CASE BlockCheck(s)
  BY <1>15 DEF BlockCheck
<1>16. CASE BlockCut(s)
  BY <1>1, <1>16 DEF BlockCut
<1>17. CASE BlockUndo(s)
  BY <1>1, <1>17 DEF BlockUndo, TellUndo, Delivered, Failed, Upset
<1>18. CASE BlockKick(s)
  BY <1>1, <1>18 DEF BlockKick, Kick
<1>19. CASE Unblock(s)
  BY <1>19 DEF Unblock
<1> QED
  BY <1>2, <1>3, <1>4, <1>5, <1>6, <1>7, <1>8, <1>9, <1>10, <1>11, <1>12, <1>13, <1>14, <1>15,
     <1>16, <1>17, <1>18, <1>19

LEMMA GuildsAside ==
  ASSUME NEW s \in Slots, pc \in [Slots -> PCs], op[s] \in Wanted, Places(s), GuildStep(s)
  PROVE  Aside(s)
<1>1. pc[s] \notin {"lock", "check", "list", "add", "accept", "announce", "reject", "drop", "over"} =>
        Kind(s) \notin {"Follow", "Undo", "Block"}
  BY DEF Places, FollowPCs, EndingPCs, Ending
<1> USE DEF Aside, OtherPCs, OwnPCs, PCs, At, Go, tables, others, history, matrix, guilds
<1>2. CASE JoinCheck(s) \/ LeaveGuild(s)
  BY <1>2 DEF JoinCheck, LeaveGuild
<1>3. CASE JoinAsk(s) \/ JoinNote(s)
  BY <1>1, <1>3 DEF JoinAsk, JoinNote
<1>4. CASE JoinSend(s)
  BY <1>1, <1>4 DEF JoinSend, NoJoin, Delivered, Failed, Upset
<1>5. CASE JoinSent(s)
  BY <1>1, <1>5 DEF JoinSent, NoJoin, Delivered, Failed, Upset
<1>6. CASE GuildAnswered(s) \/ NothingPending(s)
  BY <1>1, <1>6 DEF GuildAnswered, NothingPending
<1>7. CASE GuildMember(s)
  BY <1>1, <1>7 DEF GuildMember, Upset
<1>8. CASE GuildRooms(s) \/ GuildClear(s) \/ GuildLeft(s)
  BY <1>1, <1>8 DEF GuildRooms, GuildClear, GuildLeft
<1>9. CASE GuildUndo(s)
  BY <1>1, <1>9 DEF GuildUndo, TellUndo, Delivered, Failed, Upset
<1> QED
  BY <1>2, <1>3, <1>4, <1>5, <1>6, <1>7, <1>8, <1>9 DEF GuildStep


\* An Undo or a Block, and a profile's block.
LEMMA EndingStepsKeep ==
  ASSUME IInv, NEW s \in Slots, op[s] \in Wanted, Places(s),
         \/ Lock(s) /\ Kind(s) # "Follow"
         \/ DropFollower(s) \/ BlockFlag(s) \/ BlockExpel(s)
  PROVE  IInv'
<1>1. /\ pc \in [Slots -> PCs] /\ seen \in [Slots -> BOOLEAN]
      /\ view \in [RemotePairs -> {"none", "asked", "yes", "refused"}]
      /\ blocked \subseteq everBlocked /\ everBlocked \subseteq Profiles \X Accounts
      /\ Kind(s) \in Inbound \cup Commands
  BY WantedFacts DEF IInv, Shape, Kind
<1>2. pc[s] # "over" /\ Kind(s) # "Follow" => s \notin announced
  BY DEF IInv, PlacesSound, Places, Shape
<1>2a. op' = op => Kind(s)' = Kind(s) /\ Pair(s)' = Pair(s)
  BY DEF Kind, Pair, Me, Them
<1>3. CASE Lock(s) /\ Kind(s) # "Follow"
  <2>1. /\ pc[s] = "lock" /\ pc' = [pc EXCEPT ![s] = IF Kind(s) \in {"Accept", "Reject"} THEN "record" ELSE "drop"]
        /\ UNCHANGED <<op, id, seen, followers, blocked, view, announced, upset, everBlocked, overtaken>>
    BY <1>3 DEF Lock, At, Go, tables, others, history
  <2>2. CASE Kind(s) \in {"Undo", "Block"}
    <3>1. pc'[s] = "drop" /\ pc' = [pc EXCEPT ![s] = "drop"]
      BY <1>1, <2>1, <2>2
    <3>2. Places(s)'
      BY <1>2, <1>2a, <2>1, <2>2, <3>1 DEF Places, Ending, EndingPCs, OwnPCs
    <3>3. OtherMoves(s, "drop")
      BY <1>1, <2>1, <2>2, <3>1, <3>2 DEF OtherMoves, Moves, Running, PCs
    <3>4. RowsGo(s)
      BY <2>1, <3>1 DEF RowsGo
    <3> QED
      BY <3>3, <3>4, OtherMovesKeep
  <2>3. CASE Kind(s) \notin {"Undo", "Block"}
    <3>1. Kind(s) \notin {"Follow", "Undo", "Block"}
      BY <1>3, <2>3
    <3>2. pc'[s] \in {"record", "drop"} /\ pc' = [pc EXCEPT ![s] = pc'[s]]
      BY <1>1, <2>1
    <3>3. Aside(s)
      BY <2>1, <3>1, <3>2 DEF Aside, OtherPCs, OwnPCs, PCs
    <3> QED
      BY <3>3, AsideKeeps
  <2> QED
    BY <2>2, <2>3
<1>4. CASE DropFollower(s)
  <2>1. /\ pc[s] = "drop" /\ Kind(s) \in {"Undo", "Block"} /\ pc' = [pc EXCEPT ![s] = "over"]
        /\ followers' = followers \ {Pair(s)}
        /\ UNCHANGED <<op, id, seen, blocked, view, announced, upset, everBlocked, overtaken>>
    BY <1>4 DEF DropFollower, At, Go, others, history
  <2>2. pc'[s] = "over"
    BY <1>1, <2>1
  <2>3. Places(s)'
    BY <1>2, <1>2a, <2>1, <2>2 DEF Places, Ending, EndingPCs, OwnPCs
  <2>4. OtherMoves(s, "over")
    BY <1>1, <2>1, <2>2, <2>3 DEF OtherMoves, Moves, Running, PCs
  <2>5. RowsGo(s)
    BY <2>1, <2>2 DEF RowsGo, Ending
  <2> QED
    BY <2>4, <2>5, OtherMovesKeep
<1>5. CASE BlockFlag(s)
  <2>1. /\ pc[s] = "flag" /\ pc' = [pc EXCEPT ![s] = "expel"]
        /\ blocked' = blocked \cup {Pair(s)} /\ everBlocked' = everBlocked \cup {Pair(s)}
        /\ UNCHANGED <<op, id, seen, followers, view, announced, upset>>
    BY <1>5 DEF BlockFlag, At, Go, others
  <2>2. pc'[s] = "expel"
    BY <1>1, <2>1 DEF PCs
  <2>3. Kind(s) = "block"
    BY <2>1 DEF Places
  <2>4. Pair(s) \in Profiles \X Accounts
    BY <2>3, WantedFacts DEF Pair, Me, Them, Kind
  <2>5. Places(s)'
    BY <1>2, <1>2a, <2>1, <2>2, <2>3 DEF Places, Ending, EndingPCs, OwnPCs
  <2>6. /\ overtaken \subseteq overtaken' /\ overtaken' \subseteq overtaken \cup {Pair(s)}
        /\ Pair(s) \notin overtaken' =>
             \A t \in About(Pair(s)) : Kind(t) = "Follow" => pc[t] \notin {"list", "add"}
    BY <1>5 DEF BlockFlag
  <2>7. OtherMoves(s, "expel")
    BY <1>1, <2>1, <2>2, <2>3, <2>4, <2>5, <2>6 DEF OtherMoves, Moves, Running, PCs
  <2>8. Pair(s) \notin overtaken' => \A t \in Sent({"Follow"}, Pair(s)) : pc[t] \notin {"list", "add"}
    <3> SUFFICES ASSUME NEW t \in Sent({"Follow"}, Pair(s)), pc[t] \in {"list", "add"} PROVE t \in About(Pair(s)) /\ Kind(t) = "Follow"
      BY <2>6
    <3>1. t \in Slots /\ Pair(t) = Pair(s) /\ Kind(t) = "Follow"
      BY DEF Sent
    <3> QED
      BY <3>1 DEF About, Running, Subject, Leaving
  <2>9. RowsGo(s)
    BY <2>1, <2>2, <2>3, <2>6, <2>8 DEF RowsGo, Ending
  <2> QED
    BY <2>7, <2>9, OtherMovesKeep
<1>6. CASE BlockExpel(s)
  <2>1. /\ pc[s] = "expel" /\ pc' = [pc EXCEPT ![s] = "cut"] /\ followers' = followers \ {Pair(s)}
        /\ UNCHANGED <<op, id, seen, blocked, view, announced, upset, everBlocked, overtaken>>
    BY <1>6 DEF BlockExpel, At, Go, others, history
  <2>2. pc'[s] = "cut"
    BY <1>1, <2>1 DEF PCs
  <2>3. Kind(s) = "block" /\ Pair(s) \in everBlocked
    BY <2>1 DEF Places
  <2>4. Places(s)'
    BY <1>2, <1>2a, <2>1, <2>2, <2>3 DEF Places, Ending, EndingPCs, OwnPCs
  <2>5. OtherMoves(s, "cut")
    BY <1>1, <2>1, <2>2, <2>3, <2>4 DEF OtherMoves, Moves, Running, PCs
  <2>6. RowsGo(s)
    BY <2>1, <2>2, <2>3 DEF RowsGo, Ending
  <2> QED
    BY <2>5, <2>6, OtherMovesKeep
<1> QED
  BY <1>3, <1>4, <1>5, <1>6

LEMMA StepKeeps ==
  ASSUME IInv, NEW s \in Slots, Step(s)
  PROVE  IInv'
<1>1. Used(s)
  BY DEF Step, FollowStep, GuildStep, At, Used, Lock, FollowCheck, FollowReject, FollowList, FollowAdd,
     FollowAccept, FollowAnnounce, DropFollower, Accepted, AlreadyFollowing, FollowBegins, FindRoom,
     MakeRoom, TellFollow, RecordFollowing, RecordFollower, Unfollow, DropFollowing, DropBack, RoomLeft,
     LeaveDrop, LeaveUndo, TellUndo, BlockCheck, BlockFlag, BlockExpel, BlockCut, BlockUndo, BlockKick,
     Unblock, JoinCheck, JoinAsk, JoinNote, JoinSend, JoinSent, GuildAnswered, NothingPending,
     GuildMember, GuildRooms, GuildClear, LeaveGuild, GuildUndo, GuildLeft
<1>2. op[s] \in Wanted /\ Places(s) /\ pc \in [Slots -> PCs]
  BY <1>1 DEF IInv, Shape, PlacesSound
<1>3. CASE \/ Lock(s) /\ Kind(s) = "Follow"
           \/ FollowCheck(s) \/ FollowReject(s) \/ FollowList(s)
           \/ FollowAdd(s) \/ FollowAccept(s) \/ FollowAnnounce(s)
  <2>1. Kind(s) = "Follow"
    BY <1>2, <1>3 DEF FollowCheck, FollowReject, FollowList, FollowAdd, FollowAccept, FollowAnnounce,
       At, Places, OwnPCs
  <2> QED
    BY <1>2, <1>3, <2>1, FollowStepsKeep
<1>4. CASE \/ Lock(s) /\ Kind(s) # "Follow"
           \/ DropFollower(s) \/ BlockFlag(s) \/ BlockExpel(s)
  BY <1>2, <1>4, EndingStepsKeep
<1>5. CASE Accepted(s)
  <2>1. Aside(s)
    <3>1. Kind(s) \notin {"Follow", "Undo", "Block"}
      BY <1>5 DEF Accepted
    <3> QED
      BY <1>2, <1>5, <3>1 DEF Accepted, Upset, At, Go, Aside, OtherPCs, OwnPCs, PCs, others
  <2> QED
    BY <1>2, <2>1, AsideKeeps
<1>6. CASE GuildStep(s)
  BY <1>2, <1>6, GuildsAside, AsideKeeps
<1>7. CASE \/ AlreadyFollowing(s) \/ FollowBegins(s) \/ FindRoom(s) \/ MakeRoom(s)
           \/ TellFollow(s) \/ RecordFollowing(s) \/ RecordFollower(s)
           \/ Unfollow(s) \/ DropFollowing(s) \/ DropBack(s)
           \/ RoomLeft(s) \/ LeaveDrop(s) \/ LeaveUndo(s)
           \/ BlockCheck(s) \/ BlockCut(s) \/ BlockUndo(s) \/ BlockKick(s) \/ Unblock(s)
  BY <1>2, <1>7, CommandsAside, AsideKeeps
<1> QED
  BY <1>3, <1>4, <1>5, <1>6, <1>7 DEF Step, FollowStep


-----------------------------------------------------------------------------
(* What begins. *)

\* Slot s is taken for operation w, as the one of slot i or as a copy of it.
Arrives(s, w, i, p) ==
  /\ ~ Used(s) /\ (\A t \in Slots : t < s => Used(t)) /\ w \in Wanted /\ i \in Slots /\ i <= s
  /\ op' = [op EXCEPT ![s] = w] /\ id' = [id EXCEPT ![s] = i] /\ pc' = [pc EXCEPT ![s] = p]
  /\ op'[i] = w /\ p \in {"lock", "check", "left"}
  /\ w.kind \in {"Follow", "Undo", "Block"} \/ i # s => p = "lock"
  /\ UNCHANGED <<seen, followers, blocked, announced, upset, everBlocked, overtaken>>
  /\ view' \in [RemotePairs -> {"none", "asked", "yes", "refused"}]
\* What it finds, and what its sender expects of it.
Expects(w, i) ==
  LET q == <<w.me, w.them>> IN
  /\ \A r \in RemotePairs : r # q => view'[r] = view[r]
  /\ w.kind = "Follow" => /\ view'[q] = "asked" \/ (view'[q] = view[q] /\ view[q] # "none")
                          /\ \A u \in Sent(Ending, q) : ~ Running(u) /\ ~ (i < u)
  /\ w.kind \in Ending => /\ view'[q] \in {"none", "refused"}
                          /\ \A t \in Sent({"Follow"}, q) : ~ Running(t)
  /\ w.kind \notin {"Follow", "Undo", "Block"} => view' = view

LEMMA ArrivesKeep ==
  ASSUME IInv, NEW s \in Slots, NEW w, NEW i, NEW p, Arrives(s, w, i, p), Expects(w, i)
  PROVE  IInv'
<1> DEFINE pair == <<w.me, w.them>>
<1>1. /\ w \in Wanted /\ i \in Slots /\ i <= s /\ p \in PCs \ {"unused"} /\ p \in {"lock", "check", "left"}
      /\ Shape /\ op \in [Slots -> Wanted \cup {Nothing}] /\ id \in [Slots -> Slots] /\ pc \in [Slots -> PCs]
      /\ UNCHANGED <<seen, followers, blocked, announced, upset, everBlocked, overtaken>>
  BY DEF IInv, Shape, Arrives, PCs
<1>2. op'[s] = w /\ id'[s] = i /\ pc'[s] = p /\ op'[i] = w
  BY <1>1 DEF Arrives
<1>3. \A t \in Slots : t # s => op'[t] = op[t] /\ id'[t] = id[t] /\ pc'[t] = pc[t]
  BY <1>1 DEF Arrives
<1>4. /\ Kind(s)' = w.kind /\ Pair(s)' = pair /\ Used(s)' /\ ~ Used(s) /\ Running(s)'
      /\ \A t \in Slots : t # s =>
           /\ Kind(t)' = Kind(t) /\ Pair(t)' = Pair(t)
           /\ (Used(t)' <=> Used(t)) /\ (Running(t)' <=> Running(t))
  BY <1>1, <1>2, <1>3 DEF Kind, Pair, Me, Them, Used, Running, Arrives
<1>5. \A t \in Slots : (Used(t) => t < s) /\ (t < s => Used(t))
  <2>1. \A t \in Slots : s < t /\ Used(t) => Used(s)
    BY <1>1 DEF Shape
  <2> QED
    BY <1>4, <2>1, SlotFacts DEF Arrives
<1>6. \A t : t \in announced => t \in Slots /\ Used(t) /\ t # s
  BY <1>1, <1>4 DEF Shape
<1>7. \A kinds, q, t : t \in Sent(kinds, q)' <=> t \in Sent(kinds, q) \/ (t = s /\ w.kind \in kinds /\ q = pair)
  BY <1>4 DEF Sent
<1>7a. \A kinds, q, t : t \in Sent(kinds, q) => t \in Slots /\ t < s /\ Used(t) /\ Kind(t) \in kinds /\ Pair(t) = q
  BY <1>5 DEF Sent
<1>7b. \A t \in Slots : t < s => t # s
  BY SlotFacts
<1>8. Shape'
  <2>1. op' \in [Slots -> Wanted \cup {Nothing}] /\ id' \in [Slots -> Slots] /\ pc' \in [Slots -> PCs]
    BY <1>1 DEF Arrives
  <2>2. \A t \in Slots : IF Used(t)' THEN op'[t] \in Wanted ELSE id'[t] = t
    BY <1>1, <1>2, <1>3, <1>4 DEF Shape
  <2>3. \A t, u \in Slots : u < t /\ Used(t)' => Used(u)'
    <3> SUFFICES ASSUME NEW t \in Slots, NEW u \in Slots, u < t, Used(t)', u # s PROVE Used(u)
      BY <1>4
    <3>1. CASE t = s
      BY <1>5, <3>1
    <3>2. CASE t # s
      BY <1>1, <1>4, <3>2 DEF Shape
    <3> QED
      BY <3>1, <3>2
  <2>4. announced' \subseteq {t \in Slots : Used(t)'}
    BY <1>1, <1>4, <1>6
  <2> QED
    BY <1>1, <2>1, <2>2, <2>3, <2>4 DEF Shape, Arrives
<1>9. PlacesSound'
  <2> SUFFICES ASSUME NEW t \in Slots, Used(t)' PROVE Places(t)'
    BY DEF PlacesSound
  <2>1. CASE t = s
    <3>1. t \notin announced' /\ pc'[t] = p
      BY <1>1, <1>2, <1>6, <2>1
    <3>2. w.kind \in {"Follow", "Undo", "Block"} => p = "lock"
      BY DEF Arrives
    <3> QED
      BY <1>1, <1>4, <2>1, <3>1, <3>2 DEF Places, FollowPCs, EndingPCs, OwnPCs, Ending
  <2>2. CASE t # s
    <3>1. Places(t)
      BY <1>4, <2>2 DEF IInv, PlacesSound
    <3>2. Kind(t)' = Kind(t) /\ Pair(t)' = Pair(t) /\ pc'[t] = pc[t] /\ announced' = announced /\ everBlocked' = everBlocked
      BY <1>1, <1>3, <1>4, <2>2
    <3> QED
      BY <3>1, <3>2 DEF Places
  <2> QED
    BY <2>1, <2>2
<1>10. CopiesSound'
  <2> SUFFICES ASSUME NEW t \in Slots, Used(t)'
               PROVE  /\ id'[t] <= t /\ op'[id'[t]] = op'[t]
                      /\ Kind(t)' = "Follow" => \A u \in Sent(Ending, Pair(t))' : ~ (id'[t] < u /\ u < t)
                      /\ Kind(t)' = "Follow" /\ Running(t)' /\ pc'[t] # "lock" =>
                           \A u \in Slots \ {t} : Used(u)' /\ id'[u] = id'[t] => ~ Running(u)' \/ pc'[u] = "lock"
    BY DEF CopiesSound
  <2>1. CASE t = s
    <3>1. ASSUME w.kind = "Follow", NEW u \in Sent(Ending, Pair(s))' PROVE ~ (id'[s] < u /\ u < s)
      <4>1. u \in Sent(Ending, pair)
        BY <1>4, <1>7, <3>1 DEF Ending, Sent
      <4> QED
        BY <1>2, <3>1, <4>1 DEF Expects
    <3>2. w.kind = "Follow" => pc'[s] = "lock"
      BY <1>2 DEF Arrives
    <3> QED
      BY <1>1, <1>2, <1>4, <2>1, <3>1, <3>2
  <2>2. CASE t # s
    <3>0. Used(t) /\ t < s /\ id'[t] = id[t] /\ op'[t] = op[t] /\ pc'[t] = pc[t] /\ id[t] \in Slots
          /\ Kind(t)' = Kind(t) /\ Pair(t)' = Pair(t)
      BY <1>1, <1>3, <1>4, <1>5, <2>2
    <3>1. id[t] <= t /\ op[id[t]] = op[t]
      BY <3>0 DEF IInv, CopiesSound
    <3>2. id[t] # s
      BY <3>0, <3>1, SlotFacts
    <3>3. ASSUME Kind(t)' = "Follow", NEW u \in Sent(Ending, Pair(t))' PROVE ~ (id'[t] < u /\ u < t)
      <4>1. CASE u = s
        BY <3>0, <4>1, SlotFacts
      <4>2. CASE u # s
        <5>1. u \in Sent(Ending, Pair(t))
          BY <1>4, <3>0, <3>3, <4>2 DEF Sent
        <5> QED
          BY <3>0, <3>3, <5>1 DEF IInv, CopiesSound
      <4> QED
        BY <4>1, <4>2
    <3>4. ASSUME Kind(t)' = "Follow", Running(t)', pc'[t] # "lock", NEW u \in Slots \ {t}, Used(u)', id'[u] = id'[t]
          PROVE  ~ Running(u)' \/ pc'[u] = "lock"
      <4>1. CASE u = s
        <5>1. i # s
          BY <1>2, <3>0, <3>2, <3>4, <4>1
        <5> QED
          BY <1>2, <4>1, <5>1 DEF Arrives
      <4>2. CASE u # s
        <5>1. Used(u) /\ id[u] = id[t] /\ Running(t) /\ pc[t] # "lock" /\ Kind(t) = "Follow"
          BY <1>3, <1>4, <2>2, <3>0, <3>4, <4>2
        <5>2. ~ Running(u) \/ pc[u] = "lock"
          BY <3>0, <5>1 DEF IInv, CopiesSound
        <5> QED
          BY <1>3, <1>4, <4>2, <5>2
      <4> QED
        BY <4>1, <4>2
    <3> QED
      BY <1>3, <3>0, <3>1, <3>2, <3>3, <3>4
  <2> QED
    BY <2>1, <2>2
<1>11. TurnsSound'
  <2> SUFFICES ASSUME NEW t \in Slots, NEW u \in Slots, Used(t)', Used(u)', Pair(t)' = Pair(u)',
                      Kind(t)' = "Follow", Kind(u)' \in Ending
               PROVE  (t < u => ~ Running(t)') /\ (u < t => ~ Running(u)')
    BY DEF TurnsSound
  <2>1. CASE t = s
    <3>1. u # s
      BY <1>4, <2>1 DEF Ending
    <3>2. u \in Sent(Ending, pair) /\ u < s
      BY <1>4, <1>5, <2>1, <3>1 DEF Sent
    <3>3. ~ Running(u)
      BY <1>4, <2>1, <3>2 DEF Expects
    <3> QED
      BY <1>4, <2>1, <3>1, <3>2, <3>3, SlotFacts
  <2>2. CASE t # s /\ u = s
    <3>1. t \in Sent({"Follow"}, pair) /\ t < s
      BY <1>4, <1>5, <2>2 DEF Sent
    <3>2. ~ Running(t)
      BY <1>4, <2>2, <3>1 DEF Expects
    <3> QED
      BY <1>4, <2>2, <3>1, <3>2, SlotFacts
  <2>3. CASE t # s /\ u # s
    BY <1>4, <2>3 DEF IInv, TurnsSound
  <2> QED
    BY <2>1, <2>2, <2>3
<1>12. \A q : /\ Dropping(q)' <=> Dropping(q) \/ (w.kind \in Ending /\ q = pair)
              /\ Accepting(q) => Accepting(q)'
              /\ Expelling(q) => Expelling(q)'
  <2> SUFFICES ASSUME NEW q
               PROVE  /\ Dropping(q)' <=> Dropping(q) \/ (w.kind \in Ending /\ q = pair)
                      /\ Accepting(q) => Accepting(q)'
                      /\ Expelling(q) => Expelling(q)'
    OBVIOUS
  <2>1. \A t : t \in Sent(Ending, q)' <=> t \in Sent(Ending, q) \/ (t = s /\ w.kind \in Ending /\ q = pair)
    BY <1>7
  <2>2. \A t : t \in Sent(Ending, q) => t \in Slots /\ t # s
    BY <1>7a, <1>7b
  <2>3. Dropping(q)' <=> Dropping(q) \/ (w.kind \in Ending /\ q = pair)
    BY <1>4, <2>1, <2>2 DEF Dropping
  <2>4. \A t : t \in Sent({"Follow"}, q) => t \in Sent({"Follow"}, q)' /\ pc'[t] = pc[t]
    BY <1>3, <1>7, <1>7a, <1>7b
  <2>5. \A t : t \in Sent({"block"}, q) => t \in Sent({"block"}, q)' /\ pc'[t] = pc[t]
    BY <1>3, <1>7, <1>7a, <1>7b
  <2> QED
    BY <2>3, <2>4, <2>5 DEF Accepting, Expelling
<1>13. ViewSound'
  <2> SUFFICES ASSUME NEW q \in RemotePairs
      PROVE  /\ view'[q] = "none" => \A t \in Sent({"Follow"}, q)' : \E u \in Sent(Ending, q)' : t < u
             /\ Dropping(q)' => view'[q] \in {"none", "refused"}
             /\ view'[q] = "yes" => q \in followers' \cup everBlocked' \cup upset'
             /\ q \in followers' =>
                  view'[q] \in {"asked", "yes"} \/ Dropping(q)' \/ Accepting(q)' \/ q \in upset'
    BY Zenon DEF ViewSound, RemotePairs
  <2>1. /\ view[q] = "none" => \A t \in Sent({"Follow"}, q) : \E u \in Sent(Ending, q) : t < u
        /\ Dropping(q) => view[q] \in {"none", "refused"}
        /\ view[q] = "yes" => q \in followers \cup everBlocked \cup upset
        /\ q \in followers => view[q] \in {"asked", "yes"} \/ Dropping(q) \/ Accepting(q) \/ q \in upset
    BY DEF IInv, ViewSound
  <2>2. CASE q = pair /\ w.kind = "Follow"
    <3>1. view'[q] = "asked" \/ (view'[q] = view[q] /\ view[q] # "none")
      BY <2>2 DEF Expects
    <3>2. ~ Dropping(q) /\ w.kind \notin Ending
      BY <2>2 DEF Expects, Dropping, Ending
    <3> QED
      BY <1>1, <1>12, <2>1, <3>1, <3>2
  <2>3. CASE q = pair /\ w.kind \in Ending
    <3>1. view'[q] \in {"none", "refused"} /\ Dropping(q)'
      BY <1>12, <2>3 DEF Expects
    <3>2. \A t \in Sent({"Follow"}, q)' : \E u \in Sent(Ending, q)' : t < u
      <4>1. s \in Sent(Ending, q)'
        BY <1>7, <2>3
      <4>2. \A t \in Sent({"Follow"}, q)' : t < s
        BY <1>7, <1>7a, <2>3 DEF Ending
      <4> QED
        BY <4>1, <4>2
    <3> QED
      BY <3>1, <3>2
  <2>4. CASE q # pair \/ w.kind \notin Ending \cup {"Follow"}
    <3>1. view'[q] = view[q]
      BY <2>4 DEF Expects, Ending
    <3>2. /\ \A t : t \in Sent({"Follow"}, q)' <=> t \in Sent({"Follow"}, q)
          /\ \A t : t \in Sent(Ending, q)' <=> t \in Sent(Ending, q)
      BY <1>7, <2>4
    <3>3. Dropping(q)' <=> Dropping(q)
      BY <1>12, <2>4
    <3> QED
      BY <1>1, <1>12, <2>1, <3>1, <3>2, <3>3
  <2> QED
    BY <2>2, <2>3, <2>4
<1>14. BlockSound'
  <2> SUFFICES ASSUME NEW q \in RemotePairs, q \in blocked \ overtaken
      PROVE  /\ \A t \in Sent({"Follow"}, q)' : pc'[t] \notin {"list", "add"}
             /\ q \in followers' => q \in upset' \/ Expelling(q)'
    BY <1>1 DEF BlockSound
  <2>1. (\A t \in Sent({"Follow"}, q) : pc[t] \notin {"list", "add"}) /\ (q \in followers => q \in upset \/ Expelling(q))
    BY DEF IInv, BlockSound
  <2>2. ASSUME NEW t \in Sent({"Follow"}, q)' PROVE pc'[t] \notin {"list", "add"}
    <3>1. CASE t = s
      BY <1>1, <1>2, <3>1
    <3>2. CASE t # s
      <4>1. t \in Sent({"Follow"}, q) /\ t \in Slots
        BY <1>7, <1>7a, <2>2, <3>2
      <4> QED
        BY <1>3, <2>1, <3>2, <4>1
    <3> QED
      BY <3>1, <3>2
  <2> QED
    BY <1>1, <1>12, <2>1, <2>2
<1>15. AnnouncedSound'
  <2> SUFFICES ASSUME NEW t \in Slots, Used(t)', Kind(t)' = "Follow", Pair(t)' \notin everBlocked' \cup upset'
      PROVE  /\ pc'[t] \in {"accept", "announce"} => Pair(t)' \in followers'
             /\ t \in announced' => Pair(t)' \in followers' \/ \E u \in Sent(Ending, Pair(t))' : t < u
             /\ (\E v \in announced' \ {t} : id'[v] = id'[t]) =>
                  (pc'[t] \in {"add", "accept"} => seen'[t]) /\ pc'[t] # "announce" /\ t \notin announced'
    BY DEF AnnouncedSound
  <2>1. CASE t = s
    BY <1>1, <1>2, <1>6, <2>1
  <2>2. CASE t # s
    <3>1. /\ Used(t) /\ Kind(t) = "Follow" /\ Pair(t)' = Pair(t) /\ pc'[t] = pc[t] /\ id'[t] = id[t]
          /\ Pair(t) \notin everBlocked \cup upset
      BY <1>1, <1>3, <1>4, <2>2
    <3>2. /\ pc[t] \in {"accept", "announce"} => Pair(t) \in followers
          /\ t \in announced => Pair(t) \in followers \/ \E u \in Sent(Ending, Pair(t)) : t < u
          /\ (\E v \in announced \ {t} : id[v] = id[t]) =>
               (pc[t] \in {"add", "accept"} => seen[t]) /\ pc[t] # "announce" /\ t \notin announced
      BY <3>1 DEF IInv, AnnouncedSound
    <3>3. \A u : u \in Sent(Ending, Pair(t)) => u \in Sent(Ending, Pair(t))'
      BY <1>4, <3>1, <1>7a, <1>7b DEF Sent
    <3>4. \A v \in announced : id'[v] = id[v]
      BY <1>3, <1>6
    <3> QED
      BY <1>1, <3>1, <3>2, <3>3, <3>4
  <2> QED
    BY <2>1, <2>2
<1> QED
  BY <1>8, <1>9, <1>10, <1>11, <1>13, <1>14, <1>15 DEF IInv


LEMMA BeginKeeps ==
  ASSUME IInv, NEW s \in Slots, NEW w \in Wanted, At(s, "unused"),
         \A t \in Slots : t < s => ~ At(t, "unused"), Begin(s, w)
  PROVE  IInv'
<1> DEFINE pair == <<w.me, w.them>>
<1>1. /\ ~ Used(s) /\ (\A t \in Slots : t < s => Used(t)) /\ s <= s
      /\ op \in [Slots -> Wanted \cup {Nothing}] /\ id \in [Slots -> Slots] /\ id[s] = s
      /\ view \in [RemotePairs -> {"none", "asked", "yes", "refused"}]
      /\ \A u \in Slots : Used(u) => ~ (s < u)
  BY SlotFacts DEF IInv, Shape, At, Used
<1>2. /\ op' = [op EXCEPT ![s] = w] /\ id' = id /\ pc' = [pc EXCEPT ![s] = FirstStep(w)]
      /\ UNCHANGED <<seen, followers, blocked, announced, upset, everBlocked, overtaken>>
  BY DEF Begin, Go, tables, history
<1>3. id' = [id EXCEPT ![s] = s] /\ op'[s] = w
  BY <1>1, <1>2
<1>4. FirstStep(w) \in {"lock", "check", "left"} /\ (w.kind \in {"Follow", "Undo", "Block"} => FirstStep(w) = "lock")
  BY DEF FirstStep, Inbound
<1>5. w.kind \in {"Follow", "Undo", "Block"} => pair \in RemotePairs
  BY WantedFacts
<1>6. \/ InboundComes(w) /\ w.kind \in Inbound
      \/ view' = view /\ w.kind \notin {"Follow", "Undo", "Block"}
  BY DEF Begin, GuildAnswers, Inbound, Commands
<1>7. view' \in [RemotePairs -> {"none", "asked", "yes", "refused"}] /\ \A r \in RemotePairs : r # pair => view'[r] = view[r]
  BY <1>1, <1>5, <1>6 DEF InboundComes, SetView
<1>8. Arrives(s, w, s, FirstStep(w))
  BY <1>1, <1>2, <1>3, <1>4, <1>7 DEF Arrives
<1>9. ASSUME NEW t \in Slots, Used(t), Running(t), Pair(t) = pair, Kind(t) \in {"Follow", "Undo", "Block"}
      PROVE  t \in About(pair) /\ Kind(t) \in Inbound
  <2>1. pc[t] \notin {"left", "leaveDrop", "leaveUndo"}
    BY <1>9 DEF IInv, PlacesSound, Places, FollowPCs, EndingPCs, Ending
  <2> QED
    BY <1>9, <2>1 DEF About, Subject, Leaving, Inbound
<1>10. Expects(w, s)
  <2>1. CASE w.kind = "Follow"
    <3>1. /\ view[pair] \in {"none", "asked", "refused"} /\ SetView(pair, {"none", "refused"}, "asked")
          /\ \A t \in About(pair) : Kind(t) \in Inbound => Kind(t) = "Follow"
      BY <1>6, <2>1 DEF InboundComes
    <3>2. view'[pair] = "asked"
      BY <1>1, <1>5, <2>1, <3>1 DEF SetView
    <3>3. ASSUME NEW u \in Sent(Ending, pair) PROVE ~ Running(u) /\ ~ (s < u)
      <4>1. u \in Slots /\ Used(u) /\ Pair(u) = pair /\ Kind(u) \in {"Undo", "Block"}
        BY <3>3 DEF Sent, Ending
      <4> QED
        BY <1>1, <1>9, <3>1, <4>1
    <3> QED
      BY <1>7, <2>1, <3>2, <3>3 DEF Expects, Ending
  <2>2. CASE w.kind \in {"Undo", "Block"}
    <3>1. /\ {t \in About(pair) : Kind(t) \in Inbound} = {}
          /\ \/ view[pair] = "yes" /\ SetView(pair, {"yes"}, "none")
             \/ SetView(pair, {"asked", "yes"}, "none")
      BY <1>6, <2>2 DEF InboundComes
    <3>2. view'[pair] \in {"none", "refused"}
      BY <1>1, <1>5, <2>2, <3>1 DEF SetView
    <3>3. ASSUME NEW t \in Sent({"Follow"}, pair) PROVE ~ Running(t)
      <4>1. t \in Slots /\ Used(t) /\ Pair(t) = pair /\ Kind(t) = "Follow"
        BY <3>3 DEF Sent
      <4> QED
        BY <1>9, <3>1, <4>1
    <3> QED
      BY <1>7, <2>2, <3>2, <3>3 DEF Expects, Ending
  <2>3. CASE w.kind \notin {"Follow", "Undo", "Block"}
    <3>1. view' = view
      BY <1>6, <2>3 DEF InboundComes
    <3> QED
      BY <2>3, <3>1 DEF Expects, Ending
  <2> QED
    BY <2>1, <2>2, <2>3
<1> QED
  BY <1>8, <1>10, ArrivesKeep

LEMMA RedeliverKeeps ==
  ASSUME IInv, NEW s \in Slots, NEW t \in Slots, At(s, "unused"),
         \A u \in Slots : u < s => ~ At(u, "unused"), Redeliver(s, t)
  PROVE  IInv'
<1>1. /\ ~ Used(s) /\ (\A u \in Slots : u < s => Used(u)) /\ t < s /\ Used(t) /\ op[t] \in Wanted /\ id[t] = t
      /\ op \in [Slots -> Wanted \cup {Nothing}] /\ id \in [Slots -> Slots]
      /\ view \in [RemotePairs -> {"none", "asked", "yes", "refused"}]
      /\ \A u \in Slots : Used(u) => ~ (s < u)
      /\ t <= s /\ t # s
  BY SlotFacts DEF IInv, Shape, At, Used, Redeliver
<1>2. /\ op' = [op EXCEPT ![s] = op[t]] /\ id' = [id EXCEPT ![s] = t] /\ pc' = [pc EXCEPT ![s] = "lock"]
      /\ UNCHANGED <<seen, followers, blocked, announced, upset, everBlocked, overtaken>> /\ view' = view
      /\ Kind(t) \in {"Follow", "Accept", "Reject"}
  BY DEF Redeliver, Go, tables, history, others
<1>3. Arrives(s, op[t], t, "lock")
  BY <1>1, <1>2 DEF Arrives
<1>4. Kind(t) = op[t].kind /\ Pair(t) = <<op[t].me, op[t].them>>
  BY DEF Kind, Pair, Me, Them
<1>5. ASSUME Kind(t) = "Follow" PROVE Pair(t) \in RemotePairs /\ view[Pair(t)] # "none"
                                      /\ \A u \in Sent(Ending, Pair(t)) : ~ Running(u) /\ ~ (t < u)
  <2>1. Pair(t) \in RemotePairs
    BY <1>1, <1>4, <1>5, WantedFacts
  <2>2. ASSUME NEW u \in Sent(Ending, Pair(t)) PROVE ~ Running(u) /\ ~ (t < u)
    <3>1. u \in Slots /\ Used(u) /\ Pair(u) = Pair(t) /\ Kind(u) \in {"Undo", "Block"} /\ u # s /\ u # t
      BY <1>1, <1>5, <2>2 DEF Sent, Ending
    <3>2. ~ (t < u)
      <4> SUFFICES ASSUME t < u PROVE FALSE
        OBVIOUS
      <4>1. u < s
        BY <1>1, <3>1, SlotFacts
      <4>2. id[u] = t
        BY <3>1, <4>1 DEF Redeliver, Inbound
      <4>3. op[u] = op[t]
        BY <3>1, <4>2 DEF IInv, CopiesSound
      <4> QED
        BY <1>5, <3>1, <4>3 DEF Kind
    <3>3. u < t
      BY <3>1, <3>2, SlotFacts
    <3>4. ~ Running(u)
      BY <1>1, <1>5, <3>1, <3>3 DEF IInv, TurnsSound, Ending
    <3> QED
      BY <3>2, <3>4
  <2>3. view[Pair(t)] # "none"
    <3> SUFFICES ASSUME view[Pair(t)] = "none" PROVE FALSE
      OBVIOUS
    <3>1. t \in Sent({"Follow"}, Pair(t))
      BY <1>1, <1>5 DEF Sent
    <3>2. \E u \in Sent(Ending, Pair(t)) : t < u
      BY <2>1, <3>1 DEF IInv, ViewSound
    <3> QED
      BY <2>2, <3>2
  <2> QED
    BY <2>1, <2>2, <2>3
<1>6. Expects(op[t], t)
  BY <1>2, <1>4, <1>5 DEF Expects, Ending
<1> QED
  BY <1>3, <1>6, ArrivesKeep


-----------------------------------------------------------------------------
(* A restart. *)

LEMMA RestartKeeps ==
  ASSUME IInv, Restart
  PROVE  IInv'
<1>0. /\ Shape /\ PlacesSound /\ pc \in [Slots -> PCs] /\ op \in [Slots -> Wanted \cup {Nothing}]
      /\ view \in [RemotePairs -> {"none", "asked", "yes", "refused"}]
  BY DEF IInv, Shape
<1>1. /\ UNCHANGED <<op, id, seen, followers, blocked, view, announced, everBlocked, overtaken>>
      /\ upset \subseteq upset'
  BY DEF Restart, tables, others
<1>2. \A t \in Slots : Running(t) /\ pc[t] # "left" => Subject(t) \in upset'
  BY DEF Restart, At
<1>3. /\ pc' \in [Slots -> PCs]
      /\ \A t \in Slots :
           \/ pc'[t] = pc[t] /\ (~ Running(t) \/ pc[t] = "left")
           \/ Running(t) /\ pc'[t] = "over"
           \/ Running(t) /\ pc'[t] = "check" /\ Kind(t) \in Commands
  <2>1. PICK again \in SUBSET {t \in Slots : Running(t) /\ Kind(t) \in Commands} :
          pc' = [t \in Slots |-> IF t \in again THEN "check"
                                 ELSE IF Running(t) /\ pc[t] # "left" THEN "over" ELSE pc[t]]
    <3> DEFINE cutOff == {t \in Slots : Running(t) /\ ~At(t, "left")}
    <3>1. PICK again \in SUBSET {t \in cutOff : Kind(t) \in Commands \ {"joinguild"} /\ ~Leaving(t)} :
            pc' = [t \in Slots |-> IF t \in again THEN "check" ELSE IF t \in cutOff THEN "over" ELSE pc[t]]
      BY DEF Restart
    <3>2. again \in SUBSET {t \in Slots : Running(t) /\ Kind(t) \in Commands}
      BY <3>1
    <3>3. pc' = [t \in Slots |-> IF t \in again THEN "check"
                                 ELSE IF Running(t) /\ pc[t] # "left" THEN "over" ELSE pc[t]]
      BY <3>1 DEF At
    <3> QED
      BY <3>2, <3>3
  <2> QED
    BY <1>0, <2>1 DEF PCs
<1>4. \A t : Kind(t)' = Kind(t) /\ Pair(t)' = Pair(t)
  BY <1>1 DEF Kind, Pair, Me, Them
<1>5. \A t \in Slots : Used(t)' <=> Used(t)
  BY <1>3 DEF Used, Running
<1>6. \A kinds, q, t : t \in Sent(kinds, q)' <=> t \in Sent(kinds, q)
  BY <1>4, <1>5 DEF Sent
<1>7. ASSUME NEW t \in Slots, Used(t), Kind(t) \in {"Follow", "Undo", "Block"}
      PROVE  ~ Running(t)' /\ pc'[t] = "over" /\ (Running(t) => Pair(t) \in upset')
  <2>1. pc[t] \notin {"left", "leaveDrop", "leaveUndo", "unused"}
    BY <1>0, <1>7 DEF PlacesSound, Places, FollowPCs, EndingPCs, Ending, Used
  <2>2. pc'[t] = "over"
    BY <1>3, <1>7, <2>1 DEF Commands, Running
  <2> QED
    BY <1>2, <2>1, <2>2 DEF Running, Subject, Leaving
<1>8. Shape'
  <2>1. \A t \in Slots : IF Used(t)' THEN op'[t] \in Wanted ELSE id'[t] = t
    BY <1>0, <1>1, <1>5 DEF Shape
  <2>2. \A t, u \in Slots : u < t /\ Used(t)' => Used(u)'
    BY <1>0, <1>5 DEF Shape
  <2>3. announced' \subseteq {t \in Slots : Used(t)'}
    BY <1>0, <1>1, <1>5 DEF Shape
  <2> QED
    BY <1>0, <1>1, <1>3, <2>1, <2>2, <2>3 DEF Shape
<1>9. PlacesSound'
  <2> SUFFICES ASSUME NEW t \in Slots, Used(t)' PROVE Places(t)'
    BY DEF PlacesSound
  <2>1. Places(t)
    BY <1>0, <1>5 DEF PlacesSound
  <2>2. \/ pc'[t] = pc[t]
        \/ pc'[t] = "over" /\ Running(t)
        \/ pc'[t] = "check" /\ Kind(t) \in Commands /\ Running(t)
    BY <1>3
  <2>3. Running(t) => t \notin announced
    BY <2>1 DEF Places, Running
  <2> QED
    BY <1>1, <1>4, <2>1, <2>2, <2>3 DEF Places, Commands, Ending, EndingPCs, FollowPCs, OwnPCs
<1>10. CopiesSound'
  <2> SUFFICES ASSUME NEW t \in Slots, Used(t)'
               PROVE  /\ id'[t] <= t /\ op'[id'[t]] = op'[t]
                      /\ Kind(t)' = "Follow" => \A u \in Sent(Ending, Pair(t))' : ~ (id'[t] < u /\ u < t)
                      /\ Kind(t)' = "Follow" => ~ Running(t)'
    BY DEF CopiesSound
  <2>1. \A u : u \in Sent(Ending, Pair(t))' <=> u \in Sent(Ending, Pair(t))
    BY <1>4, <1>5 DEF Sent
  <2> QED
    BY <1>1, <1>4, <1>5, <1>7, <2>1 DEF IInv, CopiesSound
<1>11. TurnsSound'
  BY <1>4, <1>5, <1>7 DEF TurnsSound, Ending
<1>12. \A q : ~ Dropping(q)' /\ (Dropping(q) \/ Accepting(q) \/ Expelling(q) => q \in upset')
  <2> SUFFICES ASSUME NEW q PROVE ~ Dropping(q)' /\ (Dropping(q) \/ Accepting(q) \/ Expelling(q) => q \in upset')
    OBVIOUS
  <2>1. \A u \in Sent(Ending, q) : ~ Running(u)' /\ (Running(u) => q \in upset')
    BY <1>7 DEF Sent, Ending
  <2>2. \A u \in Sent({"Follow"}, q) : pc[u] = "accept" => q \in upset'
    BY <1>7 DEF Sent, Running
  <2>3. \A u \in Sent({"block"}, q) : pc[u] = "expel" => q \in upset'
    BY <1>2 DEF Sent, Running, Subject, Leaving
  <2> QED
    BY <1>6, <2>1, <2>2, <2>3 DEF Dropping, Accepting, Expelling
<1>13. ViewSound'
  <2> SUFFICES ASSUME NEW q \in RemotePairs
      PROVE  /\ view'[q] = "none" => \A t \in Sent({"Follow"}, q)' : \E u \in Sent(Ending, q)' : t < u
             /\ ~ Dropping(q)'
             /\ view'[q] = "yes" => q \in followers' \cup everBlocked' \cup upset'
             /\ q \in followers' => view'[q] \in {"asked", "yes"} \/ q \in upset'
    BY Zenon DEF ViewSound, RemotePairs
  <2>1. /\ view[q] = "none" => \A t \in Sent({"Follow"}, q) : \E u \in Sent(Ending, q) : t < u
        /\ view[q] = "yes" => q \in followers \cup everBlocked \cup upset
        /\ q \in followers => view[q] \in {"asked", "yes"} \/ Dropping(q) \/ Accepting(q) \/ q \in upset
    BY DEF IInv, ViewSound
  <2> QED
    BY <1>1, <1>6, <1>12, <2>1
<1>14. BlockSound'
  <2> SUFFICES ASSUME NEW q \in RemotePairs, q \in blocked \ overtaken
      PROVE  /\ \A t \in Sent({"Follow"}, q)' : pc'[t] \notin {"list", "add"}
             /\ q \in followers' => q \in upset'
    BY <1>1 DEF BlockSound
  <2>1. \A t \in Sent({"Follow"}, q) : pc'[t] = "over"
    BY <1>7 DEF Sent
  <2> QED
    BY <1>1, <1>6, <1>12, <2>1 DEF IInv, BlockSound
<1>15. AnnouncedSound'
  <2> SUFFICES ASSUME NEW t \in Slots, Used(t)', Kind(t)' = "Follow", Pair(t)' \notin everBlocked' \cup upset'
      PROVE  /\ pc'[t] = "over"
             /\ t \in announced' => Pair(t)' \in followers' \/ \E u \in Sent(Ending, Pair(t))' : t < u
             /\ (\E v \in announced' \ {t} : id'[v] = id'[t]) => t \notin announced'
    BY DEF AnnouncedSound
  <2>1. Used(t) /\ Kind(t) = "Follow" /\ Pair(t)' = Pair(t) /\ Pair(t) \notin everBlocked \cup upset
    BY <1>1, <1>4, <1>5
  <2>2. \A u : u \in Sent(Ending, Pair(t))' <=> u \in Sent(Ending, Pair(t))
    BY <1>4, <1>5 DEF Sent
  <2> QED
    BY <1>1, <1>7, <2>1, <2>2 DEF IInv, AnnouncedSound
<1> QED
  BY <1>8, <1>9, <1>10, <1>11, <1>13, <1>14, <1>15 DEF IInv

-----------------------------------------------------------------------------
(* The theorems. *)

LEMMA InitIInv == Init => IInv
<1> SUFFICES ASSUME Init PROVE IInv
  OBVIOUS
<1>1. \A s \in Slots : ~ Used(s)
  BY DEF Init, Used
<1>2. \A kinds, q : Sent(kinds, q) = {}
  BY <1>1 DEF Sent
<1>3. Shape
  BY <1>1 DEF Init, Shape, PCs, RemotePairs
<1>4. PlacesSound /\ CopiesSound /\ TurnsSound /\ AnnouncedSound
  BY <1>1 DEF PlacesSound, CopiesSound, TurnsSound, AnnouncedSound
<1>5. ViewSound
  BY <1>2 DEF Init, ViewSound, Dropping, RemotePairs
<1>6. BlockSound
  BY DEF Init, BlockSound
<1> QED
  BY <1>3, <1>4, <1>5, <1>6 DEF IInv

LEMMA NextKeeps == IInv /\ [Next]_vars => IInv'
<1> SUFFICES ASSUME IInv, [Next]_vars PROVE IInv'
  OBVIOUS
<1>1. ASSUME NEW s \in Slots, NEW W \in Workloads, Open(s, W), NEW w \in W, Begin(s, w) PROVE IInv'
  BY <1>1, BeginKeeps DEF Open, Wanted
<1>2. ASSUME NEW s \in Slots, NEW W \in Workloads, Open(s, W), NEW t \in Slots, Redeliver(s, t) PROVE IInv'
  BY <1>2, RedeliverKeeps DEF Open
<1>3. ASSUME NEW s \in Slots, Step(s) PROVE IInv'
  BY <1>3, StepKeeps
<1>4. CASE Restart
  BY <1>4, RestartKeeps
<1>5. CASE UNCHANGED vars
  BY <1>5 DEF vars, tasks, tables, others, history, IInv, Shape, PlacesSound, Places, CopiesSound, TurnsSound,
     ViewSound, BlockSound, AnnouncedSound, Dropping, Accepting, Expelling, Sent, Used, Running, Pair, Kind, Me, Them
<1> QED
  BY <1>1, <1>2, <1>3, <1>4, <1>5 DEF Next, Idle

LEMMA Invariance == Spec => []IInv
BY InitIInv, NextKeeps, PTL DEF Spec

\* Whoever is being handled is somebody.
LEMMA HandledIsAbout ==
  ASSUME IInv, NEW q, Dropping(q) \/ Accepting(q) \/ Expelling(q)
  PROVE  About(q) # {}
<1>1. PICK s \in Slots : /\ Used(s) /\ Pair(s) = q /\ Running(s)
                         /\ Kind(s) \in Ending \/ pc[s] \in {"accept", "expel"}
  BY DEF Dropping, Accepting, Expelling, Sent, Running
<1>2. Places(s)
  BY <1>1 DEF IInv, PlacesSound
<1>3. ~ Leaving(s)
  BY <1>1, <1>2 DEF Places, EndingPCs, Leaving
<1> QED
  BY <1>1, <1>3 DEF About, Subject

\* Of a remote account that is blocked no follower row is left or comes back once
\* its operations are over, but for a Follow that had passed the check (_handle_follow,
\* _handle_block).
THEOREM BlockedStaysOut == Spec => []BlockHolds
<1>1. IInv => BlockHolds
  <2> SUFFICES ASSUME IInv, NEW pair \in blocked \ overtaken, pair[2] \in Remotes, Calm(pair), pair \in followers
               PROVE  FALSE
    BY DEF BlockHolds
  <2>1. pair \in Profiles \X Accounts
    BY DEF IInv, Shape
  <2>2. pair \in RemotePairs
    BY <2>1 DEF RemotePairs, Locals
  <2>3. Expelling(pair)
    BY <2>2 DEF IInv, BlockSound, Calm
  <2> QED
    BY <2>3, HandledIsAbout DEF Calm
<1> QED
  BY <1>1, Invariance, PTL

\* Once nothing is under way or was lost, followers lists whom the remote accounts
\* take to follow, and whoever was told yes is in it unless blocked since.
THEOREM FollowersAreAgreed == Spec => []FollowersAgree
<1>1. IInv => FollowersAgree
  <2> SUFFICES ASSUME IInv, NEW l \in Locals, NEW a \in Remotes, Calm(<<l, a>>)
      PROVE  /\ <<l, a>> \in followers => view[<<l, a>>] \in {"asked", "yes"}
             /\ view[<<l, a>>] = "yes" => <<l, a>> \in followers \cup everBlocked
    BY DEF FollowersAgree
  <2>1. <<l, a>> \in RemotePairs
    BY DEF RemotePairs
  <2>2. ~ Dropping(<<l, a>>) /\ ~ Accepting(<<l, a>>)
    BY HandledIsAbout DEF Calm
  <2> QED
    BY <2>1, <2>2 DEF IInv, ViewSound, Calm
<1> QED
  BY <1>1, Invariance, PTL

\* However often a Follow is delivered, its follower is announced once, unless
\* the account was blocked or something was lost.
THEOREM FollowsAreAnnouncedOnce == Spec => []AnnouncedOnce
<1>1. IInv => AnnouncedOnce
  <2> SUFFICES ASSUME IInv, NEW s \in announced, NEW t \in announced, s # t, id[s] = id[t]
               PROVE  Pair(s) \in everBlocked \cup upset
    BY DEF AnnouncedOnce
  <2>1. s \in Slots /\ Used(s)
    BY DEF IInv, Shape
  <2>2. Kind(s) = "Follow"
    BY <2>1 DEF IInv, PlacesSound, Places
  <2> QED
    BY <2>1, <2>2 DEF IInv, AnnouncedSound
<1> QED
  BY <1>1, Invariance, PTL

-----------------------------------------------------------------------------
(* The second part: what the commands do.  Here the state is the whole one.   *)

IsCommand(s) == Used(s) /\ Kind(s) \in Commands
Answers(s) == Used(s) /\ Kind(s) \in {"Accept", "Reject"} /\ Them(s) \in Guilds    \* a join

\* Where the handler of each operation may be.
Stations(s) ==
  /\ pc[s] = "lock" => Kind(s) \in Inbound
  /\ pc[s] = "check" => Kind(s) \in {"Follow"} \cup (Commands \ {"leave"})
  /\ pc[s] \in OwnPCs => Kind(s) = "Follow"
  /\ pc[s] \in {"room", "make"} => Kind(s) = "follow" /\ IsRemote(s)
  /\ pc[s] = "tell" => Kind(s) = "follow" /\ ~ IsLocal(s)
  /\ pc[s] = "record" => Kind(s) \in {"follow", "Accept", "Reject"}
  /\ pc[s] = "recordBack" => Kind(s) = "follow" /\ IsLocal(s)
  /\ pc[s] = "drop" => Kind(s) \in Ending \/ (Kind(s) = "unfollow" /\ IsLocal(s))
  /\ pc[s] = "dropBack" => Kind(s) = "unfollow" /\ IsLocal(s)
  /\ pc[s] = "left" => Kind(s) \in {"unfollow", "leave", "block"} /\ (Kind(s) # "leave" => IsRemote(s))
  /\ pc[s] = "leaveDrop" => Kind(s) = "leave" /\ IsLocal(s)
  /\ pc[s] = "leaveUndo" => Kind(s) \in {"unfollow", "leave", "block"} /\ IsRemote(s)
  /\ pc[s] \in {"flag", "expel", "cut", "undo", "kick"} => Kind(s) = "block"
  /\ pc[s] \in {"expel", "cut", "undo", "kick"} => Pair(s) \in everBlocked
  /\ pc[s] = "undo" => IsRemote(s)
  /\ pc[s] \in {"ask", "note", "send", "sent"} => Kind(s) = "joinguild"
  /\ pc[s] \in {"guildUndo", "unmember"} => Kind(s) = "leaveguild"
  /\ pc[s] \in {"member", "rooms", "clear"} => Answers(s)
  /\ pc[s] \in {"member", "rooms"} => Kind(s) = "Accept"
  /\ Kind(s) \in {"Accept", "Reject"} => pc[s] \in {"lock", "record", "member", "rooms", "clear", "over"}
StationsSound == \A s \in Slots : Used(s) => Stations(s)

\* A user's commands are handled one at a time; only the leave events of kicks wait.
OneAtATime == \A s, t \in Slots : IsCommand(s) /\ IsCommand(t) /\ User(s) = User(t) /\ s < t =>
  /\ Queued(s) \/ Queued(t)
  /\ Kind(s) \in {"joinguild", "leaveguild"} => pc[s] = "over"

\* The room that is left is one that was made; an answer's join was received.
PlaceSound == \A s \in Slots :
  /\ ~ Used(s) => op[s] = Nothing /\ place[s] = Nothing /\ ~ seen[s] /\ s \notin pending
  /\ \A j \in Slots : place[s] = j => /\ Used(j) /\ Kind(j) \in {"follow", "joinguild"}
                                      /\ Kind(j) = "joinguild" => Answers(s)
  /\ Used(s) /\ Kind(s) = "follow" => place[s] = Nothing
  /\ Used(s) /\ Kind(s) = "Accept" /\ Them(s) \notin Guilds => place[s] = Nothing
  /\ Answers(s) => /\ place[s] \in Slots /\ op[place[s]] = [op[s] EXCEPT !.kind = "joinguild"]
                   /\ seen[place[s]]
                   /\ place[id[s]] = place[s] /\ op[id[s]] = op[s]
                   /\ \A t \in Slots : Answers(t) /\ place[t] = place[s] => id[t] = id[s]

\* Rooms are made by those who follow, who are in them when they send the Follow.
IsRoomOf(x, r) == x \in Slots /\ Used(x) /\ Kind(x) = "follow" /\ Them(x) = r
RoomSound ==
  /\ \A r \in Remotes, x \in Slots : room[r] = x => IsRoomOf(x, r)
  /\ \A u \in Users, x \in Slots : <<u, x>> \in inRoom => \E r \in Remotes : IsRoomOf(x, r)
  /\ \A q \in Profiles \X Remotes : told[q] = "follow" => room[q[2]] # Nothing
  /\ \A s \in Slots : pc[s] = "tell" /\ IsRemote(s) =>
       room[Them(s)] # Nothing /\ (Them(s) \notin doubled => <<User(s), room[Them(s)]>> \in inRoom)

\* Of local profiles the two sides differ only between the two writes.
HalfPCs == {"recordBack", "dropBack", "leaveDrop"}
Halfway(q) == \E s \in Slots : pc[s] \in HalfPCs /\ Subject(s) = q
SidesSound == \A p, q \in Profiles :
  <<p, q>> \notin upset \cup everBlocked /\ <<q, p>> \notin everBlocked =>
    /\ Halfway(<<p, q>>) \/ (<<p, q>> \in following <=> <<q, p>> \in followers)
    /\ \A s \in Slots : pc[s] \in HalfPCs /\ Subject(s) = <<p, q>> =>
         (<<p, q>> \in following <=> pc[s] = "recordBack")

\* What others were told differs from the row only between telling and writing.
Recording(q) == \E s \in Slots : pc[s] = "record" /\ Kind(s) = "follow" /\ Pair(s) = q
Undoing(q) == \E s \in Slots : pc[s] \in {"undo", "leaveUndo"} /\ Subject(s) = q
ToldSound == \A q \in Profiles \X (Remotes \cup Boards) :
  q \notin upset /\ (q \in everBlocked => q[2] \notin Boards) =>
    /\ q \in following => told[q] = "follow" /\ ~ Undoing(q)
    /\ told[q] = "follow" => q \in following \/ Recording(q) \/ Undoing(q)
    /\ Recording(q) => told[q] = "follow"

\* Whoever left the room of an account they follow is about to unfollow it.
LeftQueued(u, r) == \E s \in Slots : pc[s] = "left" /\ User(s) = u /\ Them(s) = r /\ place[s] = room[r]
InSound == \A u \in Users, r \in Remotes \ doubled :
  LET q == <<OldestOf[u], r>> IN
  q \notin upset /\ told[q] = "follow" => <<u, room[r]>> \in inRoom \/ LeftQueued(u, r) \/ Undoing(q)

\* A join is pending from before it is sent until an answer to it was handled.
PendingSound == \A j \in Slots : Used(j) /\ Kind(j) = "joinguild" /\ Pair(j) \notin upset =>
  /\ pc[j] \in {"check", "ask", "note", "send"} => ~ seen[j]
  /\ j \in pending <=> pc[j] = "send" \/ (seen[j] /\ \A t \in Slots : Answers(t) /\ place[t] = j => pc[t] # "over")

\* A membership is due to an Accept of a join that no ;leaveguild followed.
Past(t) == Answers(t) /\ Kind(t) = "Accept" /\ pc[t] \in {"rooms", "clear", "over"}
Counts(t) == \A l \in Slots : Used(l) /\ Kind(l) = "leaveguild" /\ Pair(l) = Pair(t) /\ seen[l] => l < place[t]
MembersSound == \A q \in Profiles \X Guilds : q \notin upset =>
  /\ q \in members <=> \E t \in Slots : Past(t) /\ Pair(t) = q /\ Counts(t)
  /\ q \in following => \E t \in Slots : Answers(t) /\ Kind(t) = "Accept" /\ Pair(t) = q /\ id[t] # t

\* The inductive invariant of this part, which needs the first one.
Agreement == /\ TypeOK /\ StationsSound /\ OneAtATime /\ PlaceSound /\ RoomSound
             /\ SidesSound /\ ToldSound /\ InSound /\ PendingSound /\ MembersSound

-----------------------------------------------------------------------------
(* What a step does to each variable. *)

LEMMA KindFacts ==
  ASSUME NEW s \in Slots, op[s] \in Wanted
  PROVE  /\ Kind(s) \in Inbound \cup Commands /\ Pair(s) = <<Me(s), Them(s)>> /\ Them(s) \in Accounts
         /\ Kind(s) \in {"Follow", "Undo", "Block"} => Me(s) \in Locals /\ IsRemote(s) /\ ~ IsLocal(s)
         /\ Kind(s) \notin {"Follow", "Undo", "Block"} => Me(s) \in Profiles /\ Me(s) \in Locals /\ User(s) \in Users
         /\ Kind(s) = "leave" => IsRemote(s) \/ IsLocal(s)
         /\ Kind(s) = "Accept" => ~ IsLocal(s)
         /\ Kind(s) \in {"joinguild", "leaveguild", "Reject"} <=> Them(s) \in Guilds /\ Kind(s) # "Accept"
         /\ ~ (IsLocal(s) /\ IsRemote(s))
<1>1. op[s].kind \in Inbound \cup Commands /\ op[s].me \in Locals /\ op[s].them \in Accounts
  BY WantedFacts
<1>2. /\ Kind(s) \in {"Follow", "Undo", "Block"} => Them(s) \in Remotes
      /\ Kind(s) \notin {"Follow", "Undo", "Block"} => Me(s) \in Profiles
      /\ Kind(s) = "leave" => Them(s) \in Remotes \cup Profiles
      /\ Kind(s) = "Accept" => Them(s) \notin Profiles
      /\ Kind(s) \in {"joinguild", "leaveguild", "Reject"} <=> Them(s) \in Guilds /\ Kind(s) # "Accept"
  BY WantedAssumption DEF Kind, Me, Them
<1>3. Me(s) \in Profiles => User(s) \in Users
  BY PeopleAssumption DEF User
<1>4. ~ (Them(s) \in Profiles /\ Them(s) \in Remotes)
  BY KindsApartAssumption DEF Locals
<1> QED
  BY <1>1, <1>2, <1>3, <1>4 DEF Kind, Me, Them, Pair, IsRemote, IsLocal

\* The step of a handler that stands at a place.
LEMMA StepsAt ==
  ASSUME NEW s \in Slots, Step(s)
  PROVE  /\ pc[s] \notin {"unused", "over"}
         /\ pc[s] = "record" => Accepted(s) \/ RecordFollowing(s) \/ GuildAnswered(s) \/ NothingPending(s)
         /\ pc[s] = "recordBack" => RecordFollower(s)
         /\ pc[s] = "drop" => DropFollower(s) \/ DropFollowing(s)
         /\ pc[s] = "dropBack" => DropBack(s)
         /\ pc[s] = "room" => FindRoom(s)
         /\ pc[s] = "make" => MakeRoom(s)
         /\ pc[s] = "tell" => TellFollow(s)
         /\ pc[s] = "left" => RoomLeft(s)
         /\ pc[s] = "leaveDrop" => LeaveDrop(s)
         /\ pc[s] = "leaveUndo" => LeaveUndo(s)
         /\ pc[s] = "cut" => BlockCut(s)
         /\ pc[s] = "undo" => BlockUndo(s)
         /\ pc[s] = "kick" => BlockKick(s)
         /\ pc[s] = "note" => JoinNote(s)
         /\ pc[s] = "send" => JoinSend(s)
         /\ pc[s] = "sent" => JoinSent(s)
         /\ pc[s] = "member" => GuildMember(s)
         /\ pc[s] = "rooms" => GuildRooms(s)
         /\ pc[s] = "clear" => GuildClear(s)
         /\ pc[s] = "guildUndo" => GuildUndo(s)
         /\ pc[s] = "unmember" => GuildLeft(s)
BY DEF Step, FollowStep, GuildStep, At, Lock, FollowCheck, FollowReject, FollowList, FollowAdd,
   FollowAccept, FollowAnnounce, DropFollower, Accepted, AlreadyFollowing, FollowBegins, FindRoom,
   MakeRoom, TellFollow, RecordFollowing, RecordFollower, Unfollow, DropFollowing, DropBack, RoomLeft,
   LeaveDrop, LeaveUndo, TellUndo, BlockCheck, BlockFlag, BlockExpel, BlockCut, BlockUndo, BlockKick,
   Unblock, JoinCheck, JoinAsk, JoinNote, JoinSend, JoinSent, GuildAnswered, NothingPending,
   GuildMember, GuildRooms, GuildClear, LeaveGuild, GuildUndo, GuildLeft

\* A handler goes on: what it may have done to each variable.
Effects(s) ==
  /\ op' = op /\ id' = id /\ pc' = [pc EXCEPT ![s] = pc'[s]] /\ pc'[s] \in PCs \ {"unused"}
  /\ upset \subseteq upset' /\ upset' \subseteq upset \cup {Subject(s)} /\ faults' \in 0..MaxFaults
  /\ everBlocked \subseteq everBlocked' /\ everBlocked' \subseteq everBlocked \cup {Pair(s)}
  /\ blocked' \subseteq everBlocked' /\ (pc[s] # "flag" => everBlocked' = everBlocked /\ overtaken' = overtaken)
  /\ overtaken' \subseteq overtaken \cup {Pair(s)} /\ announced' \subseteq announced \cup {s}
  /\ doubled \subseteq doubled' /\ doubled' \subseteq doubled \cup {Them(s)}
  /\ followers' \subseteq followers \cup {IF pc[s] = "recordBack" THEN Back(s) ELSE Pair(s)}
  /\ following' \subseteq following \cup {Pair(s)}
  /\ pending' \subseteq pending \cup {s} /\ members' \subseteq members \cup {Pair(s)}
  /\ told' = told \/ \E what \in {"follow", "undo"} : \E q : told' = [told EXCEPT ![q] = what]
  /\ room' = room \/ (pc[s] = "make" /\ room' = [room EXCEPT ![Them(s)] = s])
  /\ seen' \in [Slots -> BOOLEAN] /\ \A t \in Slots \ {s} : seen'[t] = seen[t]
  /\ place' = place \/ (pc'[s] = "left" /\ \E x \in Rooms : <<User(s), x>> \in inRoom /\ place' = [place EXCEPT ![s] = x])
  /\ \/ inRoom' \subseteq inRoom
     \/ /\ Kind(s) \in Commands
        /\ \E x \in Rooms : /\ inRoom' = inRoom \cup {<<User(s), x>>}
                            /\ \/ x \in Profiles
                               \/ x = s /\ pc[s] = "make"
                               \/ IsRemote(s) /\ x = room[Them(s)]
\* Where each variable stays as it is.
Stays(s) ==
  /\ pc[s] \notin {"add", "drop", "recordBack", "dropBack", "leaveDrop", "expel"} => followers' = followers
  /\ pc[s] \notin {"record", "drop", "left", "cut"} => following' = following
  /\ pc[s] # "record" => following' \subseteq following
  /\ pc[s] \notin {"tell", "undo", "leaveUndo", "send", "guildUndo"} => told' = told
  /\ pc[s] # "make" => room' = room /\ doubled' = doubled
  /\ pc[s] \notin {"check", "room", "make", "kick"} => inRoom' = inRoom
  /\ pc[s] \notin {"check", "kick"} => place' = place
  /\ pc[s] \notin {"list", "send", "rooms", "unmember"} => seen' = seen
  /\ pc[s] # "list" => seen' = seen \/ seen' = [seen EXCEPT ![s] = TRUE]
  /\ pc[s] \notin {"note", "send", "sent", "clear"} => pending' = pending
  /\ pc[s] \notin {"member", "unmember"} => members' = members
  /\ pc[s] # "member" => members' \subseteq members
\* From where a handler comes to a place.
Leads(s) ==
  /\ pc'[s] # "lock" /\ (pc'[s] = "check" => pc[s] = "lock")
  /\ pc'[s] = "record" => pc[s] \in {"lock", "tell"} \/ (pc[s] = "check" /\ IsLocal(s))
  /\ pc'[s] = "recordBack" => pc[s] = "record"
  /\ pc'[s] = "dropBack" => pc[s] = "drop"
  /\ pc'[s] = "undo" => pc[s] = "cut"
  /\ pc'[s] \in {"leaveDrop", "leaveUndo"} => pc[s] = "left"
  /\ pc'[s] = "left" => pc[s] \in {"check", "kick"} /\ IsRemote(s)
  /\ pc'[s] = "tell" => pc[s] \in {"room", "make"} \/ (pc[s] = "check" /\ ~ IsRemote(s))
  /\ pc'[s] = "send" => pc[s] = "note"
  /\ pc'[s] \in {"ask", "note"} => pc[s] \in {"check", "ask"}
  /\ pc'[s] = "rooms" => pc[s] = "member"
  /\ pc'[s] = "clear" => pc[s] \in {"rooms", "record"}
  /\ Kind(s) \in {"Accept", "Reject"} /\ pc'[s] = "over" => pc[s] \in {"record", "clear"}
  /\ Kind(s) = "joinguild" /\ pc'[s] = "over" => pc[s] \in {"check", "ask", "send", "sent"}
  /\ pc'[s] \in {"sent"} => pc[s] = "send"

LEMMA StepEffects ==
  ASSUME NEW s \in Slots, Step(s), TypeOK, op[s] \in Wanted, Used(s), Stations(s), PlaceSound
  PROVE  Effects(s) /\ Stays(s) /\ Leads(s) /\ Stations(s)'
<1>1. /\ Kind(s) \in Inbound \cup Commands /\ Them(s) \in Accounts
      /\ Kind(s) = "leave" => IsRemote(s) \/ IsLocal(s)
      /\ Kind(s) = "Accept" => ~ IsLocal(s)
      /\ Kind(s) \in {"joinguild", "leaveguild", "Reject"} <=> Them(s) \in Guilds /\ Kind(s) # "Accept"
      /\ ~ (IsLocal(s) /\ IsRemote(s))
  BY KindFacts
<1>2. /\ pc \in [Slots -> PCs] /\ seen \in [Slots -> BOOLEAN] /\ place \in [Slots -> Rooms \cup {Nothing}]
      /\ blocked \subseteq everBlocked /\ faults \in 0..MaxFaults /\ MaxFaults \in Nat /\ inRoom \subseteq Users \X Rooms
      /\ room \in [Remotes -> Slots \cup {Nothing}]
  BY BoundsAssumption DEF TypeOK
<1>2a. pc[s] = "record" /\ place[s] \in pending => Answers(s)
  <2>1. Nothing \notin pending
    BY BoundsAssumption DEF TypeOK
  <2> QED
    BY <1>1, <2>1 DEF PlaceSound, Stations, Answers
<1>3. op' = op => Kind(s)' = Kind(s) /\ Pair(s)' = Pair(s) /\ Them(s)' = Them(s)
  BY DEF Kind, Pair, Me, Them
<1>4. op' = op /\ pc' = [pc EXCEPT ![s] = pc'[s]] => (Answers(s)' <=> pc'[s] # "unused" /\ Kind(s) \in {"Accept", "Reject"} /\ Them(s) \in Guilds)
  BY <1>3 DEF Answers, Used
<1> DEFINE Done == Effects(s) /\ Stays(s) /\ Leads(s) /\ Stations(s)'
<1>5. ASSUME NEW p, pc' = [pc EXCEPT ![s] = p] PROVE pc'[s] = p /\ pc' = [pc EXCEPT ![s] = pc'[s]]
  BY <1>2, <1>5
<1>6. ASSUME Lock(s), UNCHANGED guilds PROVE Done
  BY <1>1, <1>2, <1>2a, <1>3, <1>4, <1>5, <1>6 DEF Lock, Effects, Stays, Leads, Stations, OwnPCs, At, Go, PCs, Inbound, Commands, Ending,
     tables, guilds, matrix, others, history, Subject, Leaving, Rooms, RoomOf, IsRemote, IsLocal, Accounts
<1>7. ASSUME FollowCheck(s), UNCHANGED guilds PROVE Done
  BY <1>1, <1>2, <1>2a, <1>3, <1>4, <1>5, <1>7 DEF FollowCheck, Effects, Stays, Leads, Stations, OwnPCs, At, Go, PCs, Inbound, Commands, Ending,
     tables, guilds, matrix, others, history, Subject, Leaving, Rooms, RoomOf, IsRemote, IsLocal, Accounts
<1>8. ASSUME FollowReject(s), UNCHANGED guilds PROVE Done
  <2>1. Stays(s) /\ Leads(s)
    BY <1>1, <1>2, <1>5, <1>8 DEF FollowReject, Delivered, Failed, Upset, Stations, Answers, OwnPCs, Stays, Leads, At, Go, PCs, tables, guilds, matrix, others, history, IsRemote
  <2>2. Stations(s)'
    BY <1>1, <1>2, <1>2a, <1>3, <1>4, <1>5, <1>8 DEF FollowReject, Delivered, Failed, Upset, Stations, Answers, Used, OwnPCs, At, Go, PCs, tables, guilds, matrix, others, history, Inbound, Commands, Ending, IsRemote, IsLocal
  <2>3. told' = told \/ \E what \in {"follow", "undo"} : \E q : told' = [told EXCEPT ![q] = what]
    BY <1>8 DEF FollowReject, Delivered, Failed, Upset, At, Go, PCs, tables, guilds, matrix, others, history
  <2>4. seen' \in [Slots -> BOOLEAN] /\ \A t \in Slots \ {s} : seen'[t] = seen[t]
    BY <1>2, <1>8 DEF FollowReject, Delivered, Failed, Upset, At, Go, PCs, tables, guilds, matrix, others, history
  <2>5. place' = place \/ (pc'[s] = "left" /\ \E x \in Rooms : <<User(s), x>> \in inRoom /\ place' = [place EXCEPT ![s] = x])
    BY <1>2, <1>5, <1>8 DEF FollowReject, Delivered, Failed, Upset, At, Go, PCs, tables, guilds, matrix, others, history, Rooms
  <2>6. upset \subseteq upset' /\ upset' \subseteq upset \cup {Subject(s)} /\ faults' \in 0..MaxFaults
    BY <1>2, <1>8 DEF FollowReject, Delivered, Failed, Upset, At, Go, PCs, tables, guilds, matrix, others, history, Subject, Leaving
  <2> QED
    BY <1>1, <1>2, <1>5, <1>8, <2>1, <2>2, <2>3, <2>4, <2>5, <2>6 DEF FollowReject, Delivered, Failed, Upset, At, Go, PCs, tables, guilds, matrix, others, history, Stations, Effects
<1>9. ASSUME FollowList(s), UNCHANGED guilds PROVE Done
  <2>1. Stays(s) /\ Leads(s)
    BY <1>1, <1>2, <1>5, <1>9 DEF FollowList, Stations, Answers, OwnPCs, Stays, Leads, At, Go, PCs, tables, guilds, matrix, others, history, IsRemote
  <2>2. Stations(s)'
    BY <1>1, <1>2, <1>2a, <1>3, <1>4, <1>5, <1>9 DEF FollowList, Stations, Answers, Used, OwnPCs, At, Go, PCs, tables, guilds, matrix, others, history, Inbound, Commands, Ending, IsRemote, IsLocal
  <2>3. told' = told \/ \E what \in {"follow", "undo"} : \E q : told' = [told EXCEPT ![q] = what]
    BY <1>9 DEF FollowList, At, Go, PCs, tables, guilds, matrix, others, history
  <2>4. seen' \in [Slots -> BOOLEAN] /\ \A t \in Slots \ {s} : seen'[t] = seen[t]
    BY <1>2, <1>9 DEF FollowList, At, Go, PCs, tables, guilds, matrix, others, history
  <2>5. place' = place \/ (pc'[s] = "left" /\ \E x \in Rooms : <<User(s), x>> \in inRoom /\ place' = [place EXCEPT ![s] = x])
    BY <1>2, <1>5, <1>9 DEF FollowList, At, Go, PCs, tables, guilds, matrix, others, history, Rooms
  <2>6. upset \subseteq upset' /\ upset' \subseteq upset \cup {Subject(s)} /\ faults' \in 0..MaxFaults
    BY <1>2, <1>9 DEF FollowList, At, Go, PCs, tables, guilds, matrix, others, history, Subject, Leaving
  <2> QED
    BY <1>1, <1>2, <1>5, <1>9, <2>1, <2>2, <2>3, <2>4, <2>5, <2>6 DEF FollowList, At, Go, PCs, tables, guilds, matrix, others, history, Stations, Effects
<1>10. ASSUME FollowAdd(s), UNCHANGED guilds PROVE Done
  BY <1>1, <1>2, <1>2a, <1>3, <1>4, <1>5, <1>10 DEF FollowAdd, Effects, Stays, Leads, Stations, OwnPCs, At, Go, PCs, Inbound, Commands, Ending,
     tables, guilds, matrix, others, history, Subject, Leaving, Rooms, RoomOf, IsRemote, IsLocal, Accounts
<1>11. ASSUME FollowAccept(s), UNCHANGED guilds PROVE Done
  <2>1. Stays(s) /\ Leads(s)
    BY <1>1, <1>2, <1>5, <1>11 DEF FollowAccept, Delivered, Failed, Upset, Stations, Answers, OwnPCs, Stays, Leads, At, Go, PCs, tables, guilds, matrix, others, history, IsRemote
  <2>2. Stations(s)'
    BY <1>1, <1>2, <1>2a, <1>3, <1>4, <1>5, <1>11 DEF FollowAccept, Delivered, Failed, Upset, Stations, Answers, Used, OwnPCs, At, Go, PCs, tables, guilds, matrix, others, history, Inbound, Commands, Ending, IsRemote, IsLocal
  <2>3. told' = told \/ \E what \in {"follow", "undo"} : \E q : told' = [told EXCEPT ![q] = what]
    BY <1>11 DEF FollowAccept, Delivered, Failed, Upset, At, Go, PCs, tables, guilds, matrix, others, history
  <2>4. seen' \in [Slots -> BOOLEAN] /\ \A t \in Slots \ {s} : seen'[t] = seen[t]
    BY <1>2, <1>11 DEF FollowAccept, Delivered, Failed, Upset, At, Go, PCs, tables, guilds, matrix, others, history
  <2>5. place' = place \/ (pc'[s] = "left" /\ \E x \in Rooms : <<User(s), x>> \in inRoom /\ place' = [place EXCEPT ![s] = x])
    BY <1>2, <1>5, <1>11 DEF FollowAccept, Delivered, Failed, Upset, At, Go, PCs, tables, guilds, matrix, others, history, Rooms
  <2>6. upset \subseteq upset' /\ upset' \subseteq upset \cup {Subject(s)} /\ faults' \in 0..MaxFaults
    BY <1>2, <1>11 DEF FollowAccept, Delivered, Failed, Upset, At, Go, PCs, tables, guilds, matrix, others, history, Subject, Leaving
  <2> QED
    BY <1>1, <1>2, <1>5, <1>11, <2>1, <2>2, <2>3, <2>4, <2>5, <2>6 DEF FollowAccept, Delivered, Failed, Upset, At, Go, PCs, tables, guilds, matrix, others, history, Stations, Effects
<1>12. ASSUME FollowAnnounce(s), UNCHANGED guilds PROVE Done
  <2>1. Stays(s) /\ Leads(s)
    BY <1>1, <1>2, <1>5, <1>12 DEF FollowAnnounce, Stations, Answers, OwnPCs, Stays, Leads, At, Go, PCs, tables, guilds, matrix, others, history, IsRemote
  <2>2. Stations(s)'
    BY <1>1, <1>2, <1>2a, <1>3, <1>4, <1>5, <1>12 DEF FollowAnnounce, Stations, Answers, Used, OwnPCs, At, Go, PCs, tables, guilds, matrix, others, history, Inbound, Commands, Ending, IsRemote, IsLocal
  <2>3. told' = told \/ \E what \in {"follow", "undo"} : \E q : told' = [told EXCEPT ![q] = what]
    BY <1>12 DEF FollowAnnounce, At, Go, PCs, tables, guilds, matrix, others, history
  <2>4. seen' \in [Slots -> BOOLEAN] /\ \A t \in Slots \ {s} : seen'[t] = seen[t]
    BY <1>2, <1>12 DEF FollowAnnounce, At, Go, PCs, tables, guilds, matrix, others, history
  <2>5. place' = place \/ (pc'[s] = "left" /\ \E x \in Rooms : <<User(s), x>> \in inRoom /\ place' = [place EXCEPT ![s] = x])
    BY <1>2, <1>5, <1>12 DEF FollowAnnounce, At, Go, PCs, tables, guilds, matrix, others, history, Rooms
  <2>6. upset \subseteq upset' /\ upset' \subseteq upset \cup {Subject(s)} /\ faults' \in 0..MaxFaults
    BY <1>2, <1>12 DEF FollowAnnounce, At, Go, PCs, tables, guilds, matrix, others, history, Subject, Leaving
  <2> QED
    BY <1>1, <1>2, <1>5, <1>12, <2>1, <2>2, <2>3, <2>4, <2>5, <2>6 DEF FollowAnnounce, At, Go, PCs, tables, guilds, matrix, others, history, Stations, Effects
<1>13. ASSUME DropFollower(s), UNCHANGED guilds PROVE Done
  BY <1>1, <1>2, <1>2a, <1>3, <1>4, <1>5, <1>13 DEF DropFollower, Effects, Stays, Leads, Stations, OwnPCs, At, Go, PCs, Inbound, Commands, Ending,
     tables, guilds, matrix, others, history, Subject, Leaving, Rooms, RoomOf, IsRemote, IsLocal, Accounts
<1>14. ASSUME Accepted(s), UNCHANGED guilds PROVE Done
  BY <1>1, <1>2, <1>2a, <1>3, <1>4, <1>5, <1>14 DEF Accepted, Upset, Effects, Stays, Leads, Stations, OwnPCs, At, Go, PCs, Inbound, Commands, Ending,
     tables, guilds, matrix, others, history, Subject, Leaving, Rooms, RoomOf, IsRemote, IsLocal, Accounts
<1>15. ASSUME AlreadyFollowing(s), UNCHANGED guilds PROVE Done
  BY <1>1, <1>2, <1>2a, <1>3, <1>4, <1>5, <1>15 DEF AlreadyFollowing, Invite, Effects, Stays, Leads, Stations, OwnPCs, At, Go, PCs, Inbound, Commands, Ending,
     tables, guilds, matrix, others, history, Subject, Leaving, Rooms, RoomOf, IsRemote, IsLocal, Accounts
<1>16. ASSUME FollowBegins(s), UNCHANGED guilds PROVE Done
  BY <1>1, <1>2, <1>2a, <1>3, <1>4, <1>5, <1>16 DEF FollowBegins, Invite, Effects, Stays, Leads, Stations, OwnPCs, At, Go, PCs, Inbound, Commands, Ending,
     tables, guilds, matrix, others, history, Subject, Leaving, Rooms, RoomOf, IsRemote, IsLocal, Accounts
<1>17. ASSUME FindRoom(s), UNCHANGED guilds PROVE Done
  BY <1>1, <1>2, <1>2a, <1>3, <1>4, <1>5, <1>17 DEF FindRoom, Invite, Effects, Stays, Leads, Stations, OwnPCs, At, Go, PCs, Inbound, Commands, Ending,
     tables, guilds, matrix, others, history, Subject, Leaving, Rooms, RoomOf, IsRemote, IsLocal, Accounts
<1>18. ASSUME MakeRoom(s), UNCHANGED guilds PROVE Done
  BY <1>1, <1>2, <1>2a, <1>3, <1>4, <1>5, <1>18 DEF MakeRoom, Invite, Effects, Stays, Leads, Stations, OwnPCs, At, Go, PCs, Inbound, Commands, Ending,
     tables, guilds, matrix, others, history, Subject, Leaving, Rooms, RoomOf, IsRemote, IsLocal, Accounts
<1>19. ASSUME TellFollow(s), UNCHANGED guilds PROVE Done
  <2>1. Stays(s) /\ Leads(s)
    BY <1>1, <1>2, <1>5, <1>19 DEF TellFollow, Tell, Delivered, Failed, Upset, Stations, Answers, OwnPCs, Stays, Leads, At, Go, PCs, tables, guilds, matrix, others, history, IsRemote
  <2>2. Stations(s)'
    BY <1>1, <1>2, <1>2a, <1>3, <1>4, <1>5, <1>19 DEF TellFollow, Tell, Delivered, Failed, Upset, Stations, Answers, Used, OwnPCs, At, Go, PCs, tables, guilds, matrix, others, history, Inbound, Commands, Ending, IsRemote, IsLocal
  <2>3. told' = told \/ \E what \in {"follow", "undo"} : \E q : told' = [told EXCEPT ![q] = what]
    BY <1>19 DEF TellFollow, Tell, Delivered, Failed, Upset, At, Go, PCs, tables, guilds, matrix, others, history
  <2>4. seen' \in [Slots -> BOOLEAN] /\ \A t \in Slots \ {s} : seen'[t] = seen[t]
    BY <1>2, <1>19 DEF TellFollow, Tell, Delivered, Failed, Upset, At, Go, PCs, tables, guilds, matrix, others, history
  <2>5. place' = place \/ (pc'[s] = "left" /\ \E x \in Rooms : <<User(s), x>> \in inRoom /\ place' = [place EXCEPT ![s] = x])
    BY <1>2, <1>5, <1>19 DEF TellFollow, Tell, Delivered, Failed, Upset, At, Go, PCs, tables, guilds, matrix, others, history, Rooms
  <2>6. upset \subseteq upset' /\ upset' \subseteq upset \cup {Subject(s)} /\ faults' \in 0..MaxFaults
    BY <1>2, <1>19 DEF TellFollow, Tell, Delivered, Failed, Upset, At, Go, PCs, tables, guilds, matrix, others, history, Subject, Leaving
  <2> QED
    BY <1>1, <1>2, <1>5, <1>19, <2>1, <2>2, <2>3, <2>4, <2>5, <2>6 DEF TellFollow, Tell, Delivered, Failed, Upset, At, Go, PCs, tables, guilds, matrix, others, history, Stations, Effects
<1>20. ASSUME RecordFollowing(s), UNCHANGED guilds PROVE Done
  BY <1>1, <1>2, <1>2a, <1>3, <1>4, <1>5, <1>20 DEF RecordFollowing, Effects, Stays, Leads, Stations, OwnPCs, At, Go, PCs, Inbound, Commands, Ending,
     tables, guilds, matrix, others, history, Subject, Leaving, Rooms, RoomOf, IsRemote, IsLocal, Accounts
<1>21. ASSUME RecordFollower(s), UNCHANGED guilds PROVE Done
  BY <1>1, <1>2, <1>2a, <1>3, <1>4, <1>5, <1>21 DEF RecordFollower, Effects, Stays, Leads, Stations, OwnPCs, At, Go, PCs, Inbound, Commands, Ending,
     tables, guilds, matrix, others, history, Subject, Leaving, Rooms, RoomOf, IsRemote, IsLocal, Accounts
<1>22. ASSUME Unfollow(s), UNCHANGED guilds PROVE Done
  <2>1. Stays(s) /\ Leads(s)
    BY <1>1, <1>2, <1>5, <1>22 DEF Unfollow, Kick, Stations, Answers, OwnPCs, Stays, Leads, At, Go, PCs, tables, guilds, matrix, others, history, IsRemote
  <2>2. Stations(s)'
    BY <1>1, <1>2, <1>2a, <1>3, <1>4, <1>5, <1>22 DEF Unfollow, Kick, Stations, Answers, Used, OwnPCs, At, Go, PCs, tables, guilds, matrix, others, history, Inbound, Commands, Ending, IsRemote, IsLocal
  <2>3. told' = told \/ \E what \in {"follow", "undo"} : \E q : told' = [told EXCEPT ![q] = what]
    BY <1>22 DEF Unfollow, Kick, At, Go, PCs, tables, guilds, matrix, others, history
  <2>4. seen' \in [Slots -> BOOLEAN] /\ \A t \in Slots \ {s} : seen'[t] = seen[t]
    BY <1>2, <1>22 DEF Unfollow, Kick, At, Go, PCs, tables, guilds, matrix, others, history
  <2>5. place' = place \/ (pc'[s] = "left" /\ \E x \in Rooms : <<User(s), x>> \in inRoom /\ place' = [place EXCEPT ![s] = x])
    BY <1>2, <1>5, <1>22 DEF Unfollow, Kick, At, Go, PCs, tables, guilds, matrix, others, history, Rooms
  <2>6. upset \subseteq upset' /\ upset' \subseteq upset \cup {Subject(s)} /\ faults' \in 0..MaxFaults
    BY <1>2, <1>22 DEF Unfollow, Kick, At, Go, PCs, tables, guilds, matrix, others, history, Subject, Leaving
  <2> QED
    BY <1>1, <1>2, <1>5, <1>22, <2>1, <2>2, <2>3, <2>4, <2>5, <2>6 DEF Unfollow, Kick, At, Go, PCs, tables, guilds, matrix, others, history, Stations, Effects
<1>23. ASSUME DropFollowing(s), UNCHANGED guilds PROVE Done
  BY <1>1, <1>2, <1>2a, <1>3, <1>4, <1>5, <1>23 DEF DropFollowing, Effects, Stays, Leads, Stations, OwnPCs, At, Go, PCs, Inbound, Commands, Ending,
     tables, guilds, matrix, others, history, Subject, Leaving, Rooms, RoomOf, IsRemote, IsLocal, Accounts
<1>24. ASSUME DropBack(s), UNCHANGED guilds PROVE Done
  BY <1>1, <1>2, <1>2a, <1>3, <1>4, <1>5, <1>24 DEF DropBack, Effects, Stays, Leads, Stations, OwnPCs, At, Go, PCs, Inbound, Commands, Ending,
     tables, guilds, matrix, others, history, Subject, Leaving, Rooms, RoomOf, IsRemote, IsLocal, Accounts
<1>25. ASSUME RoomLeft(s), UNCHANGED guilds PROVE Done
  BY <1>1, <1>2, <1>2a, <1>3, <1>4, <1>5, <1>25 DEF RoomLeft, Effects, Stays, Leads, Stations, OwnPCs, At, Go, PCs, Inbound, Commands, Ending,
     tables, guilds, matrix, others, history, Subject, Leaving, Rooms, RoomOf, IsRemote, IsLocal, Accounts
<1>26. ASSUME LeaveDrop(s), UNCHANGED guilds PROVE Done
  BY <1>1, <1>2, <1>2a, <1>3, <1>4, <1>5, <1>26 DEF LeaveDrop, Effects, Stays, Leads, Stations, OwnPCs, At, Go, PCs, Inbound, Commands, Ending,
     tables, guilds, matrix, others, history, Subject, Leaving, Rooms, RoomOf, IsRemote, IsLocal, Accounts
<1>27. ASSUME LeaveUndo(s), UNCHANGED guilds PROVE Done
  <2>1. Stays(s) /\ Leads(s)
    BY <1>1, <1>2, <1>5, <1>27 DEF LeaveUndo, TellUndo, Tell, Delivered, Failed, Upset, Stations, Answers, OwnPCs, Stays, Leads, At, Go, PCs, tables, guilds, matrix, others, history, IsRemote
  <2>2. Stations(s)'
    BY <1>1, <1>2, <1>2a, <1>3, <1>4, <1>5, <1>27 DEF LeaveUndo, TellUndo, Tell, Delivered, Failed, Upset, Stations, Answers, Used, OwnPCs, At, Go, PCs, tables, guilds, matrix, others, history, Inbound, Commands, Ending, IsRemote, IsLocal
  <2>3. told' = told \/ \E what \in {"follow", "undo"} : \E q : told' = [told EXCEPT ![q] = what]
    BY <1>27 DEF LeaveUndo, TellUndo, Tell, Delivered, Failed, Upset, At, Go, PCs, tables, guilds, matrix, others, history
  <2>4. seen' \in [Slots -> BOOLEAN] /\ \A t \in Slots \ {s} : seen'[t] = seen[t]
    BY <1>2, <1>27 DEF LeaveUndo, TellUndo, Tell, Delivered, Failed, Upset, At, Go, PCs, tables, guilds, matrix, others, history
  <2>5. place' = place \/ (pc'[s] = "left" /\ \E x \in Rooms : <<User(s), x>> \in inRoom /\ place' = [place EXCEPT ![s] = x])
    BY <1>2, <1>5, <1>27 DEF LeaveUndo, TellUndo, Tell, Delivered, Failed, Upset, At, Go, PCs, tables, guilds, matrix, others, history, Rooms
  <2>6. upset \subseteq upset' /\ upset' \subseteq upset \cup {Subject(s)} /\ faults' \in 0..MaxFaults
    BY <1>2, <1>27 DEF LeaveUndo, TellUndo, Tell, Delivered, Failed, Upset, At, Go, PCs, tables, guilds, matrix, others, history, Subject, Leaving
  <2> QED
    BY <1>1, <1>2, <1>5, <1>27, <2>1, <2>2, <2>3, <2>4, <2>5, <2>6 DEF LeaveUndo, TellUndo, Tell, Delivered, Failed, Upset, At, Go, PCs, tables, guilds, matrix, others, history, Stations, Effects
<1>28. ASSUME BlockCheck(s), UNCHANGED guilds PROVE Done
  BY <1>1, <1>2, <1>2a, <1>3, <1>4, <1>5, <1>28 DEF BlockCheck, Effects, Stays, Leads, Stations, OwnPCs, At, Go, PCs, Inbound, Commands, Ending,
     tables, guilds, matrix, others, history, Subject, Leaving, Rooms, RoomOf, IsRemote, IsLocal, Accounts
<1>29. ASSUME BlockFlag(s), UNCHANGED guilds PROVE Done
  BY <1>1, <1>2, <1>2a, <1>3, <1>4, <1>5, <1>29 DEF BlockFlag, Effects, Stays, Leads, Stations, OwnPCs, At, Go, PCs, Inbound, Commands, Ending,
     tables, guilds, matrix, others, history, Subject, Leaving, Rooms, RoomOf, IsRemote, IsLocal, Accounts
<1>30. ASSUME BlockExpel(s), UNCHANGED guilds PROVE Done
  BY <1>1, <1>2, <1>2a, <1>3, <1>4, <1>5, <1>30 DEF BlockExpel, Effects, Stays, Leads, Stations, OwnPCs, At, Go, PCs, Inbound, Commands, Ending,
     tables, guilds, matrix, others, history, Subject, Leaving, Rooms, RoomOf, IsRemote, IsLocal, Accounts
<1>31. ASSUME BlockCut(s), UNCHANGED guilds PROVE Done
  BY <1>1, <1>2, <1>2a, <1>3, <1>4, <1>5, <1>31 DEF BlockCut, Effects, Stays, Leads, Stations, OwnPCs, At, Go, PCs, Inbound, Commands, Ending,
     tables, guilds, matrix, others, history, Subject, Leaving, Rooms, RoomOf, IsRemote, IsLocal, Accounts
<1>32. ASSUME BlockUndo(s), UNCHANGED guilds PROVE Done
  <2>1. Stays(s) /\ Leads(s)
    BY <1>1, <1>2, <1>5, <1>32 DEF BlockUndo, TellUndo, Tell, Delivered, Failed, Upset, Stations, Answers, OwnPCs, Stays, Leads, At, Go, PCs, tables, guilds, matrix, others, history, IsRemote
  <2>2. Stations(s)'
    BY <1>1, <1>2, <1>2a, <1>3, <1>4, <1>5, <1>32 DEF BlockUndo, TellUndo, Tell, Delivered, Failed, Upset, Stations, Answers, Used, OwnPCs, At, Go, PCs, tables, guilds, matrix, others, history, Inbound, Commands, Ending, IsRemote, IsLocal
  <2>3. told' = told \/ \E what \in {"follow", "undo"} : \E q : told' = [told EXCEPT ![q] = what]
    BY <1>32 DEF BlockUndo, TellUndo, Tell, Delivered, Failed, Upset, At, Go, PCs, tables, guilds, matrix, others, history
  <2>4. seen' \in [Slots -> BOOLEAN] /\ \A t \in Slots \ {s} : seen'[t] = seen[t]
    BY <1>2, <1>32 DEF BlockUndo, TellUndo, Tell, Delivered, Failed, Upset, At, Go, PCs, tables, guilds, matrix, others, history
  <2>5. place' = place \/ (pc'[s] = "left" /\ \E x \in Rooms : <<User(s), x>> \in inRoom /\ place' = [place EXCEPT ![s] = x])
    BY <1>2, <1>5, <1>32 DEF BlockUndo, TellUndo, Tell, Delivered, Failed, Upset, At, Go, PCs, tables, guilds, matrix, others, history, Rooms
  <2>6. upset \subseteq upset' /\ upset' \subseteq upset \cup {Subject(s)} /\ faults' \in 0..MaxFaults
    BY <1>2, <1>32 DEF BlockUndo, TellUndo, Tell, Delivered, Failed, Upset, At, Go, PCs, tables, guilds, matrix, others, history, Subject, Leaving
  <2> QED
    BY <1>1, <1>2, <1>5, <1>32, <2>1, <2>2, <2>3, <2>4, <2>5, <2>6 DEF BlockUndo, TellUndo, Tell, Delivered, Failed, Upset, At, Go, PCs, tables, guilds, matrix, others, history, Stations, Effects
<1>33. ASSUME BlockKick(s), UNCHANGED guilds PROVE Done
  <2>1. Stays(s) /\ Leads(s)
    BY <1>1, <1>2, <1>5, <1>33 DEF BlockKick, Kick, Stations, Answers, OwnPCs, Stays, Leads, At, Go, PCs, tables, guilds, matrix, others, history, IsRemote
  <2>2. Stations(s)'
    BY <1>1, <1>2, <1>2a, <1>3, <1>4, <1>5, <1>33 DEF BlockKick, Kick, Stations, Answers, Used, OwnPCs, At, Go, PCs, tables, guilds, matrix, others, history, Inbound, Commands, Ending, IsRemote, IsLocal
  <2>3. told' = told \/ \E what \in {"follow", "undo"} : \E q : told' = [told EXCEPT ![q] = what]
    BY <1>33 DEF BlockKick, Kick, At, Go, PCs, tables, guilds, matrix, others, history
  <2>4. seen' \in [Slots -> BOOLEAN] /\ \A t \in Slots \ {s} : seen'[t] = seen[t]
    BY <1>2, <1>33 DEF BlockKick, Kick, At, Go, PCs, tables, guilds, matrix, others, history
  <2>5. place' = place \/ (pc'[s] = "left" /\ \E x \in Rooms : <<User(s), x>> \in inRoom /\ place' = [place EXCEPT ![s] = x])
    BY <1>2, <1>5, <1>33 DEF BlockKick, Kick, At, Go, PCs, tables, guilds, matrix, others, history, Rooms
  <2>6. upset \subseteq upset' /\ upset' \subseteq upset \cup {Subject(s)} /\ faults' \in 0..MaxFaults
    BY <1>2, <1>33 DEF BlockKick, Kick, At, Go, PCs, tables, guilds, matrix, others, history, Subject, Leaving
  <2> QED
    BY <1>1, <1>2, <1>5, <1>33, <2>1, <2>2, <2>3, <2>4, <2>5, <2>6 DEF BlockKick, Kick, At, Go, PCs, tables, guilds, matrix, others, history, Stations, Effects
<1>34. ASSUME Unblock(s), UNCHANGED guilds PROVE Done
  BY <1>1, <1>2, <1>2a, <1>3, <1>4, <1>5, <1>34 DEF Unblock, Effects, Stays, Leads, Stations, OwnPCs, At, Go, PCs, Inbound, Commands, Ending,
     tables, guilds, matrix, others, history, Subject, Leaving, Rooms, RoomOf, IsRemote, IsLocal, Accounts
<1>35. ASSUME JoinCheck(s) PROVE Done
  BY <1>1, <1>2, <1>2a, <1>3, <1>4, <1>5, <1>35 DEF JoinCheck, Effects, Stays, Leads, Stations, OwnPCs, At, Go, PCs, Inbound, Commands, Ending,
     tables, guilds, matrix, others, history, Subject, Leaving, Rooms, RoomOf, IsRemote, IsLocal, Accounts
<1>36. ASSUME JoinAsk(s) PROVE Done
  BY <1>1, <1>2, <1>2a, <1>3, <1>4, <1>5, <1>36 DEF JoinAsk, Effects, Stays, Leads, Stations, OwnPCs, At, Go, PCs, Inbound, Commands, Ending,
     tables, guilds, matrix, others, history, Subject, Leaving, Rooms, RoomOf, IsRemote, IsLocal, Accounts
<1>37. ASSUME JoinNote(s) PROVE Done
  BY <1>1, <1>2, <1>2a, <1>3, <1>4, <1>5, <1>37 DEF JoinNote, Effects, Stays, Leads, Stations, OwnPCs, At, Go, PCs, Inbound, Commands, Ending,
     tables, guilds, matrix, others, history, Subject, Leaving, Rooms, RoomOf, IsRemote, IsLocal, Accounts
<1>38. ASSUME JoinSend(s) PROVE Done
  <2>1. Stays(s) /\ Leads(s)
    BY <1>1, <1>2, <1>5, <1>38 DEF JoinSend, NoJoin, Tell, Delivered, Failed, Upset, Stations, Answers, OwnPCs, Stays, Leads, At, Go, PCs, tables, guilds, matrix, others, history, IsRemote
  <2>2. Stations(s)'
    BY <1>1, <1>2, <1>2a, <1>3, <1>4, <1>5, <1>38 DEF JoinSend, NoJoin, Tell, Delivered, Failed, Upset, Stations, Answers, Used, OwnPCs, At, Go, PCs, tables, guilds, matrix, others, history, Inbound, Commands, Ending, IsRemote, IsLocal
  <2>3. told' = told \/ \E what \in {"follow", "undo"} : \E q : told' = [told EXCEPT ![q] = what]
    BY <1>38 DEF JoinSend, NoJoin, Tell, Delivered, Failed, Upset, At, Go, PCs, tables, guilds, matrix, others, history
  <2>4. seen' \in [Slots -> BOOLEAN] /\ \A t \in Slots \ {s} : seen'[t] = seen[t]
    BY <1>2, <1>38 DEF JoinSend, NoJoin, Tell, Delivered, Failed, Upset, At, Go, PCs, tables, guilds, matrix, others, history
  <2>5. place' = place \/ (pc'[s] = "left" /\ \E x \in Rooms : <<User(s), x>> \in inRoom /\ place' = [place EXCEPT ![s] = x])
    BY <1>2, <1>5, <1>38 DEF JoinSend, NoJoin, Tell, Delivered, Failed, Upset, At, Go, PCs, tables, guilds, matrix, others, history, Rooms
  <2>6. upset \subseteq upset' /\ upset' \subseteq upset \cup {Subject(s)} /\ faults' \in 0..MaxFaults
    BY <1>2, <1>38 DEF JoinSend, NoJoin, Tell, Delivered, Failed, Upset, At, Go, PCs, tables, guilds, matrix, others, history, Subject, Leaving
  <2> QED
    BY <1>1, <1>2, <1>5, <1>38, <2>1, <2>2, <2>3, <2>4, <2>5, <2>6 DEF JoinSend, NoJoin, Tell, Delivered, Failed, Upset, At, Go, PCs, tables, guilds, matrix, others, history, Stations, Effects
<1>39. ASSUME JoinSent(s) PROVE Done
  BY <1>1, <1>2, <1>2a, <1>3, <1>4, <1>5, <1>39 DEF JoinSent, NoJoin, Delivered, Failed, Upset, Effects, Stays, Leads, Stations, OwnPCs, At, Go, PCs, Inbound, Commands, Ending,
     tables, guilds, matrix, others, history, Subject, Leaving, Rooms, RoomOf, IsRemote, IsLocal, Accounts
<1>40. ASSUME GuildAnswered(s) PROVE Done
  <2>1. Stays(s) /\ Leads(s)
    BY <1>1, <1>2, <1>5, <1>40 DEF GuildAnswered, Stations, Answers, OwnPCs, Stays, Leads, At, Go, PCs, tables, guilds, matrix, others, history, IsRemote
  <2>2. Stations(s)'
    BY <1>1, <1>2, <1>2a, <1>3, <1>4, <1>5, <1>40 DEF GuildAnswered, Stations, Answers, Used, OwnPCs, At, Go, PCs, tables, guilds, matrix, others, history, Inbound, Commands, Ending, IsRemote, IsLocal
  <2>3. told' = told \/ \E what \in {"follow", "undo"} : \E q : told' = [told EXCEPT ![q] = what]
    BY <1>40 DEF GuildAnswered, At, Go, PCs, tables, guilds, matrix, others, history
  <2>4. seen' \in [Slots -> BOOLEAN] /\ \A t \in Slots \ {s} : seen'[t] = seen[t]
    BY <1>2, <1>40 DEF GuildAnswered, At, Go, PCs, tables, guilds, matrix, others, history
  <2>5. place' = place \/ (pc'[s] = "left" /\ \E x \in Rooms : <<User(s), x>> \in inRoom /\ place' = [place EXCEPT ![s] = x])
    BY <1>2, <1>5, <1>40 DEF GuildAnswered, At, Go, PCs, tables, guilds, matrix, others, history, Rooms
  <2>6. upset \subseteq upset' /\ upset' \subseteq upset \cup {Subject(s)} /\ faults' \in 0..MaxFaults
    BY <1>2, <1>40 DEF GuildAnswered, At, Go, PCs, tables, guilds, matrix, others, history, Subject, Leaving
  <2> QED
    BY <1>1, <1>2, <1>5, <1>40, <2>1, <2>2, <2>3, <2>4, <2>5, <2>6 DEF GuildAnswered, At, Go, PCs, tables, guilds, matrix, others, history, Stations, Effects
<1>41. ASSUME NothingPending(s) PROVE Done
  BY <1>1, <1>2, <1>2a, <1>3, <1>4, <1>5, <1>41 DEF NothingPending, Effects, Stays, Leads, Stations, OwnPCs, At, Go, PCs, Inbound, Commands, Ending,
     tables, guilds, matrix, others, history, Subject, Leaving, Rooms, RoomOf, IsRemote, IsLocal, Accounts
<1>42. ASSUME GuildMember(s) PROVE Done
  <2>1. Stays(s) /\ Leads(s)
    BY <1>1, <1>2, <1>5, <1>42 DEF GuildMember, Upset, Stations, Answers, OwnPCs, Stays, Leads, At, Go, PCs, tables, guilds, matrix, others, history, IsRemote
  <2>2. Stations(s)'
    BY <1>1, <1>2, <1>2a, <1>3, <1>4, <1>5, <1>42 DEF GuildMember, Upset, Stations, Answers, Used, OwnPCs, At, Go, PCs, tables, guilds, matrix, others, history, Inbound, Commands, Ending, IsRemote, IsLocal
  <2>3. told' = told \/ \E what \in {"follow", "undo"} : \E q : told' = [told EXCEPT ![q] = what]
    BY <1>42 DEF GuildMember, Upset, At, Go, PCs, tables, guilds, matrix, others, history
  <2>4. seen' \in [Slots -> BOOLEAN] /\ \A t \in Slots \ {s} : seen'[t] = seen[t]
    BY <1>2, <1>42 DEF GuildMember, Upset, At, Go, PCs, tables, guilds, matrix, others, history
  <2>5. place' = place \/ (pc'[s] = "left" /\ \E x \in Rooms : <<User(s), x>> \in inRoom /\ place' = [place EXCEPT ![s] = x])
    BY <1>2, <1>5, <1>42 DEF GuildMember, Upset, At, Go, PCs, tables, guilds, matrix, others, history, Rooms
  <2>6. upset \subseteq upset' /\ upset' \subseteq upset \cup {Subject(s)} /\ faults' \in 0..MaxFaults
    BY <1>2, <1>42 DEF GuildMember, Upset, At, Go, PCs, tables, guilds, matrix, others, history, Subject, Leaving
  <2> QED
    BY <1>1, <1>2, <1>5, <1>42, <2>1, <2>2, <2>3, <2>4, <2>5, <2>6 DEF GuildMember, Upset, At, Go, PCs, tables, guilds, matrix, others, history, Stations, Effects
<1>43. ASSUME GuildRooms(s) PROVE Done
  <2>1. Stays(s) /\ Leads(s)
    BY <1>1, <1>2, <1>5, <1>43 DEF GuildRooms, Stations, Answers, OwnPCs, Stays, Leads, At, Go, PCs, tables, guilds, matrix, others, history, IsRemote
  <2>2. Stations(s)'
    BY <1>1, <1>2, <1>2a, <1>3, <1>4, <1>5, <1>43 DEF GuildRooms, Stations, Answers, Used, OwnPCs, At, Go, PCs, tables, guilds, matrix, others, history, Inbound, Commands, Ending, IsRemote, IsLocal
  <2>3. told' = told \/ \E what \in {"follow", "undo"} : \E q : told' = [told EXCEPT ![q] = what]
    BY <1>43 DEF GuildRooms, At, Go, PCs, tables, guilds, matrix, others, history
  <2>4. seen' \in [Slots -> BOOLEAN] /\ \A t \in Slots \ {s} : seen'[t] = seen[t]
    BY <1>2, <1>43 DEF GuildRooms, At, Go, PCs, tables, guilds, matrix, others, history
  <2>5. place' = place \/ (pc'[s] = "left" /\ \E x \in Rooms : <<User(s), x>> \in inRoom /\ place' = [place EXCEPT ![s] = x])
    BY <1>2, <1>5, <1>43 DEF GuildRooms, At, Go, PCs, tables, guilds, matrix, others, history, Rooms
  <2>6. upset \subseteq upset' /\ upset' \subseteq upset \cup {Subject(s)} /\ faults' \in 0..MaxFaults
    BY <1>2, <1>43 DEF GuildRooms, At, Go, PCs, tables, guilds, matrix, others, history, Subject, Leaving
  <2> QED
    BY <1>1, <1>2, <1>5, <1>43, <2>1, <2>2, <2>3, <2>4, <2>5, <2>6 DEF GuildRooms, At, Go, PCs, tables, guilds, matrix, others, history, Stations, Effects
<1>44. ASSUME GuildClear(s) PROVE Done
  <2>1. Stays(s) /\ Leads(s)
    BY <1>1, <1>2, <1>5, <1>44 DEF GuildClear, Stations, Answers, OwnPCs, Stays, Leads, At, Go, PCs, tables, guilds, matrix, others, history, IsRemote
  <2>2. Stations(s)'
    BY <1>1, <1>2, <1>2a, <1>3, <1>4, <1>5, <1>44 DEF GuildClear, Stations, Answers, Used, OwnPCs, At, Go, PCs, tables, guilds, matrix, others, history, Inbound, Commands, Ending, IsRemote, IsLocal
  <2>3. told' = told \/ \E what \in {"follow", "undo"} : \E q : told' = [told EXCEPT ![q] = what]
    BY <1>44 DEF GuildClear, At, Go, PCs, tables, guilds, matrix, others, history
  <2>4. seen' \in [Slots -> BOOLEAN] /\ \A t \in Slots \ {s} : seen'[t] = seen[t]
    BY <1>2, <1>44 DEF GuildClear, At, Go, PCs, tables, guilds, matrix, others, history
  <2>5. place' = place \/ (pc'[s] = "left" /\ \E x \in Rooms : <<User(s), x>> \in inRoom /\ place' = [place EXCEPT ![s] = x])
    BY <1>2, <1>5, <1>44 DEF GuildClear, At, Go, PCs, tables, guilds, matrix, others, history, Rooms
  <2>6. upset \subseteq upset' /\ upset' \subseteq upset \cup {Subject(s)} /\ faults' \in 0..MaxFaults
    BY <1>2, <1>44 DEF GuildClear, At, Go, PCs, tables, guilds, matrix, others, history, Subject, Leaving
  <2> QED
    BY <1>1, <1>2, <1>5, <1>44, <2>1, <2>2, <2>3, <2>4, <2>5, <2>6 DEF GuildClear, At, Go, PCs, tables, guilds, matrix, others, history, Stations, Effects
<1>45. ASSUME LeaveGuild(s) PROVE Done
  BY <1>1, <1>2, <1>2a, <1>3, <1>4, <1>5, <1>45 DEF LeaveGuild, Effects, Stays, Leads, Stations, OwnPCs, At, Go, PCs, Inbound, Commands, Ending,
     tables, guilds, matrix, others, history, Subject, Leaving, Rooms, RoomOf, IsRemote, IsLocal, Accounts
<1>46. ASSUME GuildUndo(s) PROVE Done
  <2>1. Stays(s) /\ Leads(s)
    BY <1>1, <1>2, <1>5, <1>46 DEF GuildUndo, TellUndo, Tell, Delivered, Failed, Upset, Stations, Answers, OwnPCs, Stays, Leads, At, Go, PCs, tables, guilds, matrix, others, history, IsRemote
  <2>2. Stations(s)'
    BY <1>1, <1>2, <1>2a, <1>3, <1>4, <1>5, <1>46 DEF GuildUndo, TellUndo, Tell, Delivered, Failed, Upset, Stations, Answers, Used, OwnPCs, At, Go, PCs, tables, guilds, matrix, others, history, Inbound, Commands, Ending, IsRemote, IsLocal
  <2>3. told' = told \/ \E what \in {"follow", "undo"} : \E q : told' = [told EXCEPT ![q] = what]
    BY <1>46 DEF GuildUndo, TellUndo, Tell, Delivered, Failed, Upset, At, Go, PCs, tables, guilds, matrix, others, history
  <2>4. seen' \in [Slots -> BOOLEAN] /\ \A t \in Slots \ {s} : seen'[t] = seen[t]
    BY <1>2, <1>46 DEF GuildUndo, TellUndo, Tell, Delivered, Failed, Upset, At, Go, PCs, tables, guilds, matrix, others, history
  <2>5. place' = place \/ (pc'[s] = "left" /\ \E x \in Rooms : <<User(s), x>> \in inRoom /\ place' = [place EXCEPT ![s] = x])
    BY <1>2, <1>5, <1>46 DEF GuildUndo, TellUndo, Tell, Delivered, Failed, Upset, At, Go, PCs, tables, guilds, matrix, others, history, Rooms
  <2>6. upset \subseteq upset' /\ upset' \subseteq upset \cup {Subject(s)} /\ faults' \in 0..MaxFaults
    BY <1>2, <1>46 DEF GuildUndo, TellUndo, Tell, Delivered, Failed, Upset, At, Go, PCs, tables, guilds, matrix, others, history, Subject, Leaving
  <2> QED
    BY <1>1, <1>2, <1>5, <1>46, <2>1, <2>2, <2>3, <2>4, <2>5, <2>6 DEF GuildUndo, TellUndo, Tell, Delivered, Failed, Upset, At, Go, PCs, tables, guilds, matrix, others, history, Stations, Effects
<1>47. ASSUME GuildLeft(s) PROVE Done
  BY <1>1, <1>2, <1>2a, <1>3, <1>4, <1>5, <1>47 DEF GuildLeft, Effects, Stays, Leads, Stations, OwnPCs, At, Go, PCs, Inbound, Commands, Ending,
     tables, guilds, matrix, others, history, Subject, Leaving, Rooms, RoomOf, IsRemote, IsLocal, Accounts
<1> QED
  BY <1>6, <1>7, <1>8, <1>9, <1>10, <1>11, <1>12, <1>13, <1>14, <1>15, <1>16, <1>17, <1>18, <1>19, <1>20, <1>21, <1>22, <1>23, <1>24, <1>25, <1>26,
     <1>27, <1>28, <1>29, <1>30, <1>31, <1>32, <1>33, <1>34, <1>35, <1>36, <1>37, <1>38, <1>39, <1>40, <1>41, <1>42, <1>43, <1>44, <1>45, <1>46, <1>47 DEF Step, FollowStep, GuildStep

\* What a step finds, and what it leaves alone.
LEMMA StepFacts ==
  ASSUME IInv, Agreement, NEW s \in Slots, Step(s)
  PROVE  /\ Effects(s) /\ Stays(s) /\ Leads(s) /\ Stations(s)' /\ Stations(s) /\ Places(s)
         /\ Used(s) /\ Running(s) /\ op[s] \in Wanted /\ op' = op /\ id' = id
         /\ \A t : Kind(t)' = Kind(t) /\ Me(t)' = Me(t) /\ Them(t)' = Them(t) /\ Pair(t)' = Pair(t)
         /\ \A t : User(t)' = User(t) /\ IsRemote(t)' = IsRemote(t) /\ IsLocal(t)' = IsLocal(t)
         /\ \A t : Leaver(t)' = Leaver(t) /\ Back(t)' = Back(t)
         /\ \A t \in Slots : t # s => /\ pc'[t] = pc[t] /\ seen'[t] = seen[t] /\ place'[t] = place[t]
                                      /\ Subject(t)' = Subject(t) /\ (Queued(t)' <=> Queued(t))
         /\ \A t \in Slots : (Used(t)' <=> Used(t)) /\ (Answers(t)' <=> Answers(t)) /\ (IsCommand(t)' <=> IsCommand(t))
<1>1. Used(s) /\ Running(s)
  BY StepsAt DEF Used, Running
<1>2. op[s] \in Wanted /\ Places(s) /\ Stations(s)
  BY <1>1 DEF IInv, Shape, PlacesSound, Agreement, StationsSound
<1>3. Effects(s) /\ Stays(s) /\ Leads(s) /\ Stations(s)'
  BY <1>1, <1>2, StepEffects DEF Agreement
<1>4. op' = op /\ id' = id /\ pc \in [Slots -> PCs] /\ place \in [Slots -> Rooms \cup {Nothing}]
  BY <1>3 DEF Effects, Agreement, TypeOK
<1>5. /\ \A t : Kind(t)' = Kind(t) /\ Me(t)' = Me(t) /\ Them(t)' = Them(t) /\ Pair(t)' = Pair(t)
      /\ \A t : User(t)' = User(t) /\ IsRemote(t)' = IsRemote(t) /\ IsLocal(t)' = IsLocal(t)
      /\ \A t : Leaver(t)' = Leaver(t) /\ Back(t)' = Back(t)
  BY <1>4 DEF Kind, Me, Them, Pair, User, IsRemote, IsLocal, Leaver, Back
<1>6. \A t \in Slots : t # s => pc'[t] = pc[t] /\ seen'[t] = seen[t] /\ place'[t] = place[t]
  BY <1>3, <1>4 DEF Effects
<1>7. \A t \in Slots : t # s => Subject(t)' = Subject(t) /\ (Queued(t)' <=> Queued(t))
  BY <1>5, <1>6 DEF Subject, Leaving, Queued
<1>8. \A t \in Slots : (Used(t)' <=> Used(t))
  BY <1>1, <1>3, <1>4, <1>6 DEF Used, Effects
<1>9. \A t \in Slots : (Answers(t)' <=> Answers(t)) /\ (IsCommand(t)' <=> IsCommand(t))
  BY <1>5, <1>8 DEF Answers, IsCommand
<1> QED
  BY <1>1, <1>2, <1>3, <1>4, <1>5, <1>6, <1>7, <1>8, <1>9

\* A command's subject is its user's.
LEMMA SubjectFacts ==
  ASSUME NEW s \in Slots, op[s] \in Wanted
  PROVE  /\ Kind(s) \notin {"Follow", "Undo", "Block"} =>
              /\ Subject(s) \in Profiles \X Accounts /\ OwnerOf[Subject(s)[1]] = User(s)
              /\ ~ IsLocal(s) => Subject(s)[2] = Them(s)
              /\ IsLocal(s) => Subject(s)[2] \in Profiles
              /\ Leaving(s) => Subject(s)[1] = OldestOf[User(s)]
         /\ Subject(s) \in Locals \X Accounts \/ Leaving(s)
<1>1. /\ Pair(s) = <<Me(s), Them(s)>> /\ Them(s) \in Accounts
      /\ Kind(s) \notin {"Follow", "Undo", "Block"} => Me(s) \in Profiles /\ Me(s) \in Locals /\ User(s) \in Users
      /\ Kind(s) \in {"Follow", "Undo", "Block"} => Me(s) \in Locals
  BY KindFacts
<1>2. ASSUME Kind(s) \notin {"Follow", "Undo", "Block"}
      PROVE  /\ OldestOf[User(s)] \in Profiles /\ OwnerOf[OldestOf[User(s)]] = User(s)
             /\ IsLocal(s) => OldestOf[OwnerOf[Them(s)]] \in Profiles
  BY <1>1, <1>2, PeopleAssumption DEF IsLocal
<1>3. \A p \in Profiles : p \in Accounts
  BY DEF Accounts
<1>4. CASE Leaving(s)
  BY <1>1, <1>2, <1>3, <1>4 DEF Subject, Leaver
<1>5. CASE ~ Leaving(s)
  BY <1>1, <1>5 DEF Subject, User, IsLocal
<1> QED
  BY <1>4, <1>5

LEMMA StepTypes ==
  ASSUME IInv, Agreement, NEW s \in Slots, Step(s), IInv'
  PROVE  TypeOK'
<1>1. /\ Effects(s) /\ Stays(s) /\ Stations(s) /\ Places(s) /\ op[s] \in Wanted /\ Used(s) /\ op' = op /\ id' = id /\ TypeOK
  BY StepFacts DEF Agreement
<1>2. /\ Pair(s) = <<Me(s), Them(s)>> /\ Them(s) \in Accounts /\ Me(s) \in Locals /\ Kind(s) \in Inbound \cup Commands
      /\ Kind(s) \notin {"Follow", "Undo", "Block"} => Me(s) \in Profiles /\ User(s) \in Users
  BY <1>1, KindFacts
<1>3. op' \in [Slots -> Wanted \cup {Nothing}] /\ id' \in [Slots -> Slots] /\ pc' \in [Slots -> PCs] /\ seen' \in [Slots -> BOOLEAN]
      /\ view' \in [Locals \X Remotes -> {"none", "asked", "yes", "refused"}] /\ announced' \subseteq Slots
      /\ blocked' \subseteq everBlocked' /\ everBlocked' \subseteq Profiles \X Accounts
  BY DEF IInv, Shape, RemotePairs
<1>4. place' \in [Slots -> Rooms \cup {Nothing}]
  BY <1>1 DEF Effects, TypeOK
<1>5. followers' \subseteq Locals \X Accounts
  <2>1. pc[s] = "recordBack" => Back(s) \in Locals \X Accounts
    BY <1>1, <1>2 DEF Stations, Back, IsLocal, Locals, Accounts
  <2> QED
    BY <1>1, <1>2, <2>1 DEF Effects, TypeOK
<1>6. following' \subseteq Profiles \X Accounts
  BY <1>1, <1>2 DEF Effects, Stays, TypeOK, Stations
<1>7. pending' \subseteq Slots /\ members' \subseteq Profiles \X Guilds
  BY <1>1, <1>2 DEF Effects, Stays, TypeOK, Stations, Answers
<1>8. room' \in [Remotes -> Slots \cup {Nothing}]
  BY <1>1 DEF Effects, TypeOK
<1>9. inRoom' \subseteq Users \X Rooms
  BY <1>1, <1>2 DEF Effects, TypeOK, Commands, Inbound
<1>10. told' \in [Profiles \X (Remotes \cup Boards \cup Guilds) -> {"nothing", "follow", "undo"}]
  <2>1. told \in [Profiles \X (Remotes \cup Boards \cup Guilds) -> {"nothing", "follow", "undo"}]
    BY <1>1 DEF TypeOK
  <2>2. ASSUME NEW what \in {"follow", "undo"}, NEW q, told' = [told EXCEPT ![q] = what]
        PROVE  told' \in [Profiles \X (Remotes \cup Boards \cup Guilds) -> {"nothing", "follow", "undo"}]
    BY <2>1, <2>2
  <2> QED
    BY <1>1, <2>1, <2>2 DEF Effects
<1>11. upset' \subseteq Locals \X Accounts
  <2>1. Kind(s) \in {"Follow", "Undo", "Block"} => ~ Leaving(s)
    BY <1>1 DEF Stations, Leaving
  <2>2. Subject(s) \in Locals \X Accounts
    <3>1. \A p \in Profiles : p \in Locals
      BY DEF Locals
    <3> QED
      BY <1>1, <2>1, <3>1, SubjectFacts
  <2> QED
    BY <1>1, <2>2 DEF Effects, TypeOK
<1>12. overtaken' \subseteq Profiles \X Accounts
  BY <1>1, <1>2 DEF Effects, TypeOK, Stations
<1>13. doubled' \subseteq Remotes
  BY <1>1, <1>2 DEF Effects, Stays, TypeOK, Stations, IsRemote
<1>14. faults' \in 0..MaxFaults
  BY <1>1 DEF Effects
<1> QED
  BY <1>3, <1>4, <1>5, <1>6, <1>7, <1>8, <1>9, <1>10, <1>11, <1>12, <1>13, <1>14 DEF TypeOK

LEMMA StepStations ==
  ASSUME IInv, Agreement, NEW s \in Slots, Step(s)
  PROVE  StationsSound'
<1> SUFFICES ASSUME NEW t \in Slots, Used(t)', t # s PROVE Stations(t)'
  BY StepFacts DEF StationsSound
<1>1. Stations(t) /\ (Answers(t)' <=> Answers(t))
  BY StepFacts DEF Agreement, StationsSound
<1>2. /\ Kind(t)' = Kind(t) /\ Pair(t)' = Pair(t) /\ IsRemote(t)' = IsRemote(t) /\ IsLocal(t)' = IsLocal(t)
      /\ pc'[t] = pc[t] /\ everBlocked \subseteq everBlocked'
  BY StepFacts DEF Effects
<1> QED
  BY <1>1, <1>2 DEF Stations

LEMMA StepOneAtATime ==
  ASSUME IInv, Agreement, NEW s \in Slots, Step(s)
  PROVE  OneAtATime'
<1> SUFFICES ASSUME NEW t \in Slots, NEW u \in Slots, IsCommand(t)', IsCommand(u)', User(t)' = User(u)', t < u
             PROVE  /\ Queued(t)' \/ Queued(u)'
                    /\ Kind(t)' \in {"joinguild", "leaveguild"} => pc'[t] = "over"
  BY DEF OneAtATime
<1>1. /\ IsCommand(t) /\ IsCommand(u) /\ User(t) = User(u) /\ Kind(t)' = Kind(t)
      /\ Queued(t) \/ Queued(u)
      /\ Kind(t) \in {"joinguild", "leaveguild"} => pc[t] = "over"
  BY StepFacts DEF Agreement, OneAtATime
<1>2. pc[s] # "over" /\ t # u /\ (Queued(s) => pc[s] = "left")
  BY StepsAt, SlotFacts DEF Queued
<1>3. pc[s] = "left" => ~ Busy(User(s))
  BY StepsAt DEF RoomLeft
<1>4. \A v \in Slots : v # s => pc'[v] = pc[v] /\ (Queued(v)' <=> Queued(v))
  BY StepFacts
<1>5. ASSUME Queued(s), NEW v \in Slots, IsCommand(v), User(v) = User(s) PROVE Queued(v)
  BY <1>2, <1>3, <1>5 DEF Busy, IsCommand
<1> QED
  BY <1>1, <1>2, <1>4, <1>5

LEMMA StepPlaces ==
  ASSUME IInv, Agreement, NEW s \in Slots, Step(s)
  PROVE  PlaceSound'
<1>1. /\ Effects(s) /\ Stays(s) /\ Leads(s) /\ Stations(s)' /\ Stations(s) /\ Used(s) /\ op' = op /\ id' = id /\ op[s] \in Wanted
      /\ \A t : Kind(t)' = Kind(t) /\ Them(t)' = Them(t)
      /\ \A t \in Slots : t # s => seen'[t] = seen[t] /\ place'[t] = place[t]
      /\ \A t \in Slots : (Used(t)' <=> Used(t)) /\ (Answers(t)' <=> Answers(t))
  BY StepFacts
<1>2. /\ PlaceSound /\ RoomSound /\ place \in [Slots -> Rooms \cup {Nothing}] /\ seen \in [Slots -> BOOLEAN]
      /\ id \in [Slots -> Slots] /\ inRoom \subseteq Users \X Rooms
  BY DEF Agreement, TypeOK
<1>3. \A t \in Slots : seen[t] /\ Kind(t) = "joinguild" => seen'[t]
  <2>1. pc[s] = "list" => Kind(s) = "Follow"
    BY <1>1 DEF Stations, OwnPCs
  <2> QED
    BY <1>1, <1>2, <2>1 DEF Stays
<1>4. ASSUME place' # place
      PROVE  /\ Kind(s) \notin {"follow", "Accept", "Reject"}
             /\ \A j \in Slots : place'[s] = j => Used(j) /\ Kind(j) = "follow"
  <2>1. pc'[s] = "left"
    BY <1>1, <1>4 DEF Effects
  <2>2. PICK x \in Rooms : <<User(s), x>> \in inRoom /\ place' = [place EXCEPT ![s] = x]
    BY <1>1, <1>4 DEF Effects
  <2>3. Kind(s) \notin {"follow", "Accept", "Reject"}
    BY <1>1, <2>1 DEF Stations
  <2>4. place'[s] = x /\ User(s) \in Users
    BY <1>2, <2>2
  <2>5. x \in Slots => \E r \in Remotes : IsRoomOf(x, r)
    BY <1>2, <2>2, <2>4 DEF RoomSound
  <2> QED
    BY <2>3, <2>4, <2>5 DEF IsRoomOf
<1>4a. ASSUME NEW t \in Slots, t # s \/ Kind(s) \in {"follow", "Accept", "Reject"} PROVE place'[t] = place[t]
  BY <1>1, <1>4, <1>4a
<1>4b. \A t \in Slots : ~ Used(t) => t # s
  BY <1>1
<1>5. \A u \in Slots : Answers(u) => place'[u] = place[u]
  BY <1>1, <1>4a DEF Answers
<1>6. ASSUME NEW t \in Slots, ~ Used(t)'
      PROVE  op'[t] = Nothing /\ place'[t] = Nothing /\ ~ seen'[t] /\ t \notin pending'
  <2>1. ~ Used(t) /\ t # s
    BY <1>1, <1>6
  <2>2. op[t] = Nothing /\ place[t] = Nothing /\ ~ seen[t] /\ t \notin pending
    BY <1>2, <2>1 DEF PlaceSound
  <2> QED
    BY <1>1, <2>1, <2>2 DEF Effects
<1>7. ASSUME NEW t \in Slots, NEW j \in Slots, place'[t] = j
      PROVE  Used(j)' /\ Kind(j)' \in {"follow", "joinguild"} /\ (Kind(j)' = "joinguild" => Answers(t)')
  <2>1. CASE t = s /\ place' # place
    BY <1>1, <1>4, <1>7, <2>1
  <2>2. CASE place'[t] = place[t]
    <3>1. Used(j) /\ Kind(j) \in {"follow", "joinguild"} /\ (Kind(j) = "joinguild" => Answers(t))
      BY <1>2, <1>7, <2>2 DEF PlaceSound
    <3> QED
      BY <1>1, <3>1
  <2> QED
    BY <1>1, <2>1, <2>2
<1>8. ASSUME NEW t \in Slots, Used(t)', Kind(t)' = "follow" PROVE place'[t] = Nothing
  <2>1. Used(t) /\ Kind(t) = "follow" /\ place'[t] = place[t]
    BY <1>1, <1>4a, <1>8
  <2> QED
    BY <1>2, <2>1 DEF PlaceSound
<1>9. ASSUME NEW t \in Slots, Used(t)', Kind(t)' = "Accept", Them(t)' \notin Guilds PROVE place'[t] = Nothing
  <2>1. Used(t) /\ Kind(t) = "Accept" /\ Them(t) \notin Guilds /\ place'[t] = place[t]
    BY <1>1, <1>4a, <1>9
  <2> QED
    BY <1>2, <2>1 DEF PlaceSound
<1>10. ASSUME NEW t \in Slots, Answers(t)'
       PROVE  /\ place'[t] \in Slots /\ op'[place'[t]] = [op'[t] EXCEPT !.kind = "joinguild"]
              /\ seen'[place'[t]]
              /\ place'[id'[t]] = place'[t] /\ op'[id'[t]] = op'[t]
              /\ \A u \in Slots : Answers(u)' /\ place'[u] = place'[t] => id'[u] = id'[t]
  <2>0. Answers(t)
    BY <1>1, <1>10
  <2>1. /\ place[t] \in Slots /\ op[place[t]] = [op[t] EXCEPT !.kind = "joinguild"] /\ seen[place[t]]
        /\ place[id[t]] = place[t] /\ op[id[t]] = op[t]
        /\ \A u \in Slots : Answers(u) /\ place[u] = place[t] => id[u] = id[t]
    BY <1>2, <2>0 DEF PlaceSound
  <2>2. Kind(place[t]) = "joinguild"
    <3>1. op[t] \in Operation
      BY <2>0, BoundsAssumption DEF Answers, IInv, Shape
    <3> QED
      BY <2>1, <3>1 DEF Kind, Operation
  <2>3. seen'[place[t]]
    BY <1>3, <2>1, <2>2
  <2>4. Answers(id[t])
    <3>1. id[t] \in Slots /\ Used(t) /\ id[t] <= t
      BY <1>2, <2>0 DEF Answers, IInv, CopiesSound
    <3>2. Used(id[t])
      <4>1. id[t] < t \/ id[t] = t
        <5>1. id[t] \in Nat /\ t \in Nat
          BY <3>1, SlotFacts
        <5> QED
          BY <3>1, <5>1
      <4> QED
        BY <3>1, <4>1 DEF IInv, Shape
    <3> QED
      BY <2>0, <2>1, <3>2 DEF Answers, Kind, Them
  <2>5. place'[t] = place[t] /\ place'[id[t]] = place[id[t]]
    BY <1>2, <1>5, <2>0, <2>4
  <2>6. \A u \in Slots : Answers(u)' /\ place'[u] = place'[t] => id'[u] = id'[t]
    BY <1>1, <1>5, <2>1, <2>5
  <2> QED
    BY <1>1, <2>1, <2>3, <2>5, <2>6
<1> QED
  BY <1>6, <1>7, <1>8, <1>9, <1>10 DEF PlaceSound

\* Of a user's other commands none is being handled.
LEMMA Alone ==
  ASSUME OneAtATime, NEW s \in Slots, NEW t \in Slots, s # t, IsCommand(s), IsCommand(t), User(s) = User(t), ~ Queued(s)
  PROVE  Queued(t)
<1>1. s < t \/ t < s
  BY SlotFacts
<1> QED
  BY <1>1 DEF OneAtATime

LEMMA StepsAtCheck ==
  ASSUME NEW s \in Slots, Step(s), pc[s] = "check"
  PROVE  \/ FollowCheck(s) \/ AlreadyFollowing(s) \/ FollowBegins(s) \/ Unfollow(s) \/ BlockCheck(s) \/ Unblock(s)
         \/ JoinCheck(s) \/ LeaveGuild(s)
BY DEF Step, FollowStep, GuildStep, At, Lock, FollowCheck, FollowReject, FollowList, FollowAdd,
   FollowAccept, FollowAnnounce, DropFollower, Accepted, AlreadyFollowing, FollowBegins, FindRoom,
   MakeRoom, TellFollow, RecordFollowing, RecordFollower, Unfollow, DropFollowing, DropBack, RoomLeft,
   LeaveDrop, LeaveUndo, TellUndo, BlockCheck, BlockFlag, BlockExpel, BlockCut, BlockUndo, BlockKick,
   Unblock, JoinCheck, JoinAsk, JoinNote, JoinSend, JoinSent, GuildAnswered, NothingPending,
   GuildMember, GuildRooms, GuildClear, LeaveGuild, GuildUndo, GuildLeft

\* What others are told, and when.
LEMMA ToldFacts ==
  ASSUME IInv, Agreement, NEW s \in Slots, Step(s), NEW q \in Profiles \X (Remotes \cup Boards)
  PROVE  /\ \/ told'[q] = told[q]
            \/ pc[s] = "tell" /\ q = Pair(s) /\ told'[q] = "follow" /\ (IsRemote(s) => q \notin following)
            \/ pc[s] \in {"undo", "leaveUndo"} /\ q = Subject(s) /\ told'[q] = "undo"
         /\ pc[s] = "tell" /\ q = Pair(s) =>
              \/ pc'[s] = "record" /\ told'[q] = "follow"
              \/ pc'[s] = "over" /\ (q \in upset' \/ (told' = told /\ q \in following))
         /\ pc[s] \in {"undo", "leaveUndo"} /\ q = Subject(s) => told'[q] = "undo" \/ q \in upset'
<1>1. /\ Stations(s) /\ Stays(s) /\ op[s] \in Wanted /\ Effects(s)
      /\ pc \in [Slots -> PCs]
  BY StepFacts DEF Agreement, TypeOK
<1>2. told \in [Profiles \X (Remotes \cup Boards \cup Guilds) -> {"nothing", "follow", "undo"}]
  BY DEF Agreement, TypeOK
<1>3. \A g \in Guilds : \A p : q # <<p, g>>
  BY KindsApartAssumption
<1>4. Pair(s) = <<Me(s), Them(s)>> /\ (Kind(s) \in {"joinguild", "leaveguild", "Reject"} <=> Them(s) \in Guilds /\ Kind(s) # "Accept")
  BY <1>1, KindFacts
<1>5. CASE pc[s] = "tell"
  BY <1>1, <1>2, <1>5, StepsAt DEF TellFollow, Tell, Delivered, Failed, Upset, Go, Subject, Leaving
<1>6. CASE pc[s] = "undo"
  BY <1>1, <1>2, <1>6, StepsAt DEF BlockUndo, TellUndo, Tell, Delivered, Failed, Upset, Subject, Leaving
<1>7. CASE pc[s] = "leaveUndo"
  BY <1>1, <1>2, <1>7, StepsAt DEF LeaveUndo, TellUndo, Tell, Delivered, Failed, Upset, Subject, Leaving
<1>8. CASE pc[s] = "send"
  <2>1. JoinSend(s) /\ Kind(s) = "joinguild"
    BY <1>1, <1>8, StepsAt DEF Stations
  <2>2. q # Pair(s)
    BY <1>3, <1>4, <2>1
  <2> QED
    BY <1>2, <1>8, <2>1, <2>2 DEF JoinSend, Tell
<1>9. CASE pc[s] = "guildUndo"
  <2>1. GuildUndo(s) /\ Kind(s) = "leaveguild"
    BY <1>1, <1>9, StepsAt DEF Stations
  <2>2. q # Pair(s)
    BY <1>3, <1>4, <2>1
  <2> QED
    BY <1>2, <1>9, <2>1, <2>2 DEF GuildUndo, TellUndo, Tell
<1> QED
  BY <1>1, <1>5, <1>6, <1>7, <1>8, <1>9 DEF Stays

\* Who leaves a room does so by a kick, which waits to be noticed.
LEMMA InRoomFacts ==
  ASSUME IInv, Agreement, NEW s \in Slots, Step(s), NEW e \in inRoom, e \notin inRoom'
  PROVE  /\ IsRemote(s) /\ e = <<User(s), room[Them(s)]>> /\ pc[s] \in {"check", "kick"} /\ Kind(s) \in {"unfollow", "block"}
         /\ pc'[s] = "left" /\ place'[s] = room[Them(s)] /\ room' = room /\ IsCommand(s) /\ ~ Queued(s)
         /\ UNCHANGED <<told, following, upset, doubled>>
<1>1. Stations(s) /\ Stays(s) /\ Used(s) /\ pc \in [Slots -> PCs] /\ place \in [Slots -> Rooms \cup {Nothing}]
  BY StepFacts DEF Agreement, TypeOK
<1>2. pc[s] \in {"check", "room", "make", "kick"}
  BY <1>1 DEF Stays
<1>3. ASSUME Kick(s, room[Them(s)]) PROVE e = <<User(s), room[Them(s)]>> /\ pc'[s] = "left" /\ place'[s] = room[Them(s)]
  BY <1>1, <1>3 DEF Kick, Go
<1>4. CASE pc[s] = "kick"
  BY <1>1, <1>3, <1>4, StepsAt DEF BlockKick, Stations, matrix, others, tables, history, IsCommand, Commands, Queued
<1>5. CASE pc[s] \in {"room", "make"}
  BY <1>5, StepsAt DEF FindRoom, MakeRoom, Invite
<1>6. CASE pc[s] = "check"
  <2>1. Unfollow(s)
    BY <1>6, StepsAtCheck DEF FollowCheck, AlreadyFollowing, FollowBegins, BlockCheck, Unblock, JoinCheck, LeaveGuild, Invite, matrix
  <2> QED
    BY <1>1, <1>3, <1>6, <2>1 DEF Unfollow, matrix, others, tables, history, IsCommand, Commands, Queued
<1> QED
  BY <1>2, <1>4, <1>5, <1>6

LEMMA StepRooms ==
  ASSUME IInv, Agreement, NEW s \in Slots, Step(s)
  PROVE  RoomSound'
<1>1. /\ Effects(s) /\ Stays(s) /\ Leads(s) /\ Stations(s) /\ Stations(s)' /\ Used(s) /\ op' = op /\ op[s] \in Wanted
      /\ \A t : Kind(t)' = Kind(t) /\ Them(t)' = Them(t) /\ User(t)' = User(t) /\ (IsRemote(t)' <=> IsRemote(t))
      /\ \A t \in Slots : t # s => pc'[t] = pc[t]
      /\ \A t \in Slots : (Used(t)' <=> Used(t))
  BY StepFacts
<1>2. /\ RoomSound /\ room \in [Remotes -> Slots \cup {Nothing}] /\ inRoom \subseteq Users \X Rooms
      /\ Nothing \notin Slots /\ Slots \cap Profiles = {} /\ OneAtATime
  BY BoundsAssumption DEF Agreement, TypeOK
<1>3. \A x, r : IsRoomOf(x, r)' <=> IsRoomOf(x, r)
  BY <1>1 DEF IsRoomOf
<1>4. pc[s] = "make" => IsRoomOf(s, Them(s)) /\ Them(s) \in Remotes
  BY <1>1 DEF Stations, IsRoomOf, IsRemote
<1>5. ASSUME NEW r \in Remotes PROVE room[r] # Nothing => room'[r] # Nothing
  BY <1>1, <1>2 DEF Effects
<1>6. ASSUME NEW r \in Remotes, NEW x \in Slots, room'[r] = x PROVE IsRoomOf(x, r)
  <2>1. CASE room'[r] = room[r]
    BY <1>2, <1>6, <2>1 DEF RoomSound
  <2>2. CASE pc[s] = "make" /\ r = Them(s) /\ x = s
    BY <1>4, <2>2
  <2> QED
    BY <1>1, <1>2, <1>6, <2>1, <2>2 DEF Effects
<1>7. ASSUME NEW u \in Users, NEW x \in Slots, <<u, x>> \in inRoom' PROVE \E r \in Remotes : IsRoomOf(x, r)
  <2>1. CASE <<u, x>> \in inRoom
    BY <1>2, <2>1 DEF RoomSound
  <2>2. CASE <<u, x>> \notin inRoom
    <3>1. PICK y \in Rooms : /\ inRoom' = inRoom \cup {<<User(s), y>>}
                             /\ y \in Profiles \/ (y = s /\ pc[s] = "make") \/ (IsRemote(s) /\ y = room[Them(s)])
      BY <1>1, <1>7, <2>2 DEF Effects
    <3>2. y = x
      BY <1>7, <2>2, <3>1
    <3> QED
      BY <1>2, <1>4, <3>1, <3>2 DEF IsRemote, RoomSound
  <2> QED
    BY <2>1, <2>2
<1>8. ASSUME NEW q \in Profiles \X Remotes, told'[q] = "follow" PROVE room'[q[2]] # Nothing
  <2>1. CASE told[q] = "follow"
    BY <1>2, <1>5, <2>1 DEF RoomSound
  <2>2. CASE told[q] # "follow"
    <3>1. pc[s] = "tell" /\ q = Pair(s)
      BY <1>8, <2>2, ToldFacts
    <3>2. q[2] = Them(s)
      BY <3>1 DEF Pair
    <3> QED
      BY <1>2, <1>5, <3>1, <3>2 DEF RoomSound, IsRemote
  <2> QED
    BY <2>1, <2>2
<1>9. ASSUME NEW t \in Slots, pc'[t] = "tell", IsRemote(t)
      PROVE  room'[Them(t)] # Nothing /\ (Them(t) \notin doubled' => <<User(t), room'[Them(t)]>> \in inRoom')
  <2>1. CASE t = s
    <3>1. FindRoom(s) \/ MakeRoom(s)
      BY <1>1, <1>9, <2>1, StepsAt DEF Leads
    <3> QED
      BY <1>1, <1>2, <1>9, <2>1, <3>1 DEF FindRoom, MakeRoom, Invite, IsRemote, Go, TypeOK, Agreement
  <2>2. CASE t # s
    <3>1. /\ pc[t] = "tell" /\ room[Them(t)] # Nothing /\ (Them(t) \notin doubled => <<User(t), room[Them(t)]>> \in inRoom)
          /\ Them(t) \in Remotes /\ Used(t)
      BY <1>1, <1>2, <1>9, <2>2 DEF RoomSound, IsRemote, Used
    <3>2. Them(t) \notin doubled' => Them(t) \notin doubled /\ room'[Them(t)] = room[Them(t)]
      <4>1. CASE pc[s] = "make"
        BY <1>1, <1>2, <3>1, <4>1, StepsAt DEF MakeRoom, Effects
      <4>2. CASE pc[s] # "make"
        BY <1>1, <4>2 DEF Stays
      <4> QED
        BY <4>1, <4>2
    <3>3. ASSUME <<User(t), room[Them(t)]>> \in inRoom, <<User(t), room[Them(t)]>> \notin inRoom' PROVE FALSE
      <4>1. User(s) = User(t) /\ IsCommand(s) /\ ~ Queued(s)
        BY <3>3, InRoomFacts
      <4>2. IsCommand(t) /\ ~ Queued(t)
        <5>1. Stations(t)
          BY <3>1 DEF Agreement, StationsSound
        <5> QED
          BY <3>1, <5>1 DEF Stations, IsCommand, Commands, Queued
      <4> QED
        BY <1>2, <2>2, <4>1, <4>2, Alone
    <3> QED
      BY <1>5, <3>1, <3>2, <3>3
  <2> QED
    BY <2>1, <2>2
<1> QED
  BY <1>1, <1>3, <1>6, <1>7, <1>8, <1>9 DEF RoomSound

\* While a command, or what became of a kick, goes on, no other one of the user is on its way.
LEMMA Exclusive ==
  ASSUME IInv, Agreement, NEW s \in Slots, Step(s), NEW t \in Slots, t # s, IsCommand(s), IsCommand(t), User(s) = User(t)
  PROVE  Queued(t)
<1>1. CASE Queued(s)
  <2>1. RoomLeft(s)
    BY <1>1, StepsAt DEF Queued
  <2> QED
    BY <2>1 DEF RoomLeft, Busy, IsCommand
<1>2. CASE ~ Queued(s)
  BY <1>2, Alone DEF Agreement
<1> QED
  BY <1>1, <1>2

\* What changes the two sides of a local follow.
LEMMA SideFacts ==
  ASSUME IInv, Agreement, NEW s \in Slots, Step(s), NEW p \in Profiles, NEW q \in Profiles,
         <<p, q>> \notin everBlocked, <<q, p>> \notin everBlocked
  PROVE  /\ ~ (<<p, q>> \in following' <=> <<p, q>> \in following) => pc'[s] \in HalfPCs /\ Subject(s)' = <<p, q>>
         /\ ~ (<<q, p>> \in followers' <=> <<q, p>> \in followers) => pc[s] \in HalfPCs /\ Subject(s) = <<p, q>>
         /\ pc'[s] \in HalfPCs /\ Subject(s)' = <<p, q>> => (<<p, q>> \in following' <=> pc'[s] = "recordBack") /\ IsCommand(s)
         /\ pc[s] \in HalfPCs => pc'[s] = "over" /\ following' = following
         /\ pc[s] \in HalfPCs /\ Subject(s) = <<p, q>> => (<<q, p>> \in followers' <=> pc[s] = "recordBack")
<1>1. /\ Stations(s) /\ Stays(s) /\ Leads(s) /\ op[s] \in Wanted /\ Used(s) /\ pc \in [Slots -> PCs]
      /\ Pair(s)' = Pair(s) /\ Leaver(s)' = Leaver(s)
  BY StepFacts DEF Agreement, TypeOK
<1>2. /\ Pair(s) = <<Me(s), Them(s)>> /\ ~ (IsLocal(s) /\ IsRemote(s))
      /\ Kind(s) \in {"Follow", "Undo", "Block"} => IsRemote(s) /\ ~ IsLocal(s)
      /\ Kind(s) = "Accept" => ~ IsLocal(s)
      /\ Kind(s) = "leave" => IsRemote(s) \/ IsLocal(s)
  BY <1>1, KindFacts
<1>3. Pair(s) = <<p, q>> \/ Pair(s) = <<q, p>> => IsLocal(s)
  BY <1>2 DEF IsLocal
<1>4. IsRemote(s) => Leaver(s) # <<p, q>> /\ Leaver(s) # <<q, p>>
  BY <1>2 DEF Leaver, IsLocal
<1>5. Back(s) = <<q, p>> <=> Pair(s) = <<p, q>>
  BY DEF Back, Pair
<1>6. Left(s) = <<q, p>> <=> Leaver(s) = <<p, q>>
  BY DEF Left, Leaver
<1>7. ASSUME pc[s] \in HalfPCs
      PROVE  /\ pc'[s] = "over" /\ following' = following
             /\ ~ (<<q, p>> \in followers' <=> <<q, p>> \in followers) => Subject(s) = <<p, q>>
             /\ Subject(s) = <<p, q>> => (<<q, p>> \in followers' <=> pc[s] = "recordBack")
  <2>1. \/ RecordFollower(s) /\ pc[s] = "recordBack"
        \/ DropBack(s) /\ pc[s] = "dropBack"
        \/ LeaveDrop(s) /\ pc[s] = "leaveDrop"
    BY <1>7, StepsAt DEF HalfPCs
  <2>2. Subject(s) = IF pc[s] = "leaveDrop" THEN Leaver(s) ELSE Pair(s)
    BY <1>7 DEF Subject, Leaving, HalfPCs
  <2> QED
    BY <1>1, <1>5, <1>6, <2>1, <2>2 DEF RecordFollower, DropBack, LeaveDrop, Go
<1>8. ASSUME pc[s] \notin HalfPCs PROVE <<q, p>> \in followers' <=> <<q, p>> \in followers
  <2>1. CASE pc[s] = "add"
    <3>1. FollowAdd(s) /\ Kind(s) = "Follow"
      BY <1>1, <2>1 DEF Stations, OwnPCs, Step, FollowStep, GuildStep, At, Lock, FollowCheck, FollowReject, FollowList, FollowAdd,
         FollowAccept, FollowAnnounce, DropFollower, Accepted, AlreadyFollowing, FollowBegins, FindRoom,
         MakeRoom, TellFollow, RecordFollowing, RecordFollower, Unfollow, DropFollowing, DropBack, RoomLeft,
         LeaveDrop, LeaveUndo, TellUndo, BlockCheck, BlockFlag, BlockExpel, BlockCut, BlockUndo, BlockKick,
         Unblock, JoinCheck, JoinAsk, JoinNote, JoinSend, JoinSent, GuildAnswered, NothingPending,
         GuildMember, GuildRooms, GuildClear, LeaveGuild, GuildUndo, GuildLeft
    <3> QED
      BY <1>2, <1>3, <3>1 DEF FollowAdd
  <2>2. CASE pc[s] = "drop"
    <3>1. DropFollower(s) \/ DropFollowing(s)
      BY <2>2, StepsAt
    <3> QED
      BY <1>2, <1>3, <3>1 DEF DropFollower, DropFollowing
  <2>3. CASE pc[s] = "expel"
    <3>1. Pair(s) \in everBlocked
      BY <1>1, <2>3 DEF Stations
    <3>2. followers' = followers \ {Pair(s)}
      BY <2>3 DEF Step, FollowStep, GuildStep, At, Lock, FollowCheck, FollowReject, FollowList, FollowAdd,
         FollowAccept, FollowAnnounce, DropFollower, Accepted, AlreadyFollowing, FollowBegins, FindRoom,
         MakeRoom, TellFollow, RecordFollowing, RecordFollower, Unfollow, DropFollowing, DropBack, RoomLeft,
         LeaveDrop, LeaveUndo, TellUndo, BlockCheck, BlockFlag, BlockExpel, BlockCut, BlockUndo, BlockKick,
         Unblock, JoinCheck, JoinAsk, JoinNote, JoinSend, JoinSent, GuildAnswered, NothingPending,
         GuildMember, GuildRooms, GuildClear, LeaveGuild, GuildUndo, GuildLeft
    <3> QED
      BY <3>1, <3>2
  <2> QED
    BY <1>1, <1>8, <2>1, <2>2, <2>3 DEF Stays, HalfPCs
<1>9. Subject(s)' = IF pc'[s] \in {"left", "leaveDrop", "leaveUndo"} THEN Leaver(s) ELSE Pair(s)
  BY <1>1 DEF Subject, Leaving
<1>10. CASE pc[s] = "record"
  <2>1. Accepted(s) \/ RecordFollowing(s) \/ GuildAnswered(s) \/ NothingPending(s)
    BY <1>10, StepsAt
  <2>2. CASE RecordFollowing(s)
    <3>1. /\ following' = following \cup {Pair(s)} /\ followers' = followers /\ IsCommand(s) /\ pc[s] \notin HalfPCs
          /\ pc'[s] = IF IsLocal(s) THEN "recordBack" ELSE "over"
      BY <1>1, <1>10, <2>2 DEF RecordFollowing, Go, HalfPCs, IsCommand, Commands
    <3>2. Subject(s)' = Pair(s)
      BY <1>9, <3>1
    <3> QED
      BY <1>3, <3>1, <3>2 DEF HalfPCs
  <2>3. CASE ~ RecordFollowing(s)
    BY <1>1, <1>2, <1>3, <1>7, <1>8, <1>10, <2>1, <2>3 DEF Accepted, GuildAnswered, NothingPending, Go, HalfPCs, tables
  <2> QED
    BY <2>2, <2>3
<1>11. CASE pc[s] = "drop"
  <2>1. DropFollower(s) \/ DropFollowing(s)
    BY <1>11, StepsAt
  <2>2. CASE DropFollowing(s)
    BY <1>1, <1>3, <1>9, <1>7, <1>8, <1>11, <2>2 DEF DropFollowing, Go, HalfPCs, IsCommand, Commands
  <2>3. CASE DropFollower(s)
    BY <1>1, <1>7, <1>8, <1>11, <2>3 DEF DropFollower, Go, HalfPCs
  <2> QED
    BY <2>1, <2>2, <2>3
<1>12. CASE pc[s] = "left"
  <2>1. RoomLeft(s) /\ Kind(s) \in {"unfollow", "leave", "block"}
    BY <1>1, <1>12, StepsAt DEF Stations
  <2>2. followers' = followers /\ IsCommand(s) /\ pc[s] \notin HalfPCs
    BY <1>1, <1>12, <2>1 DEF RoomLeft, HalfPCs, IsCommand, Commands
  <2>3. CASE following' = following \ {Leaver(s)} /\ pc'[s] = IF IsLocal(s) THEN "leaveDrop" ELSE "leaveUndo"
    <3>1. Subject(s)' = Leaver(s)
      BY <1>9, <2>3
    <3>2. IsLocal(s) \/ IsRemote(s)
      BY <1>1, <1>2, <1>12, <2>1 DEF Stations
    <3> QED
      BY <1>4, <2>2, <2>3, <3>1, <3>2 DEF HalfPCs
  <2>4. CASE following' = following /\ pc'[s] = "over"
    BY <2>2, <2>4 DEF HalfPCs
  <2> QED
    BY <1>1, <2>1, <2>3, <2>4 DEF RoomLeft, Go
<1>13. CASE pc[s] = "cut"
  <2>1. BlockCut(s) /\ Pair(s) \in everBlocked
    BY <1>1, <1>13, StepsAt DEF Stations
  <2> QED
    BY <1>1, <1>7, <1>8, <1>13, <2>1 DEF BlockCut, Go, HalfPCs
<1>14. CASE pc[s] \notin {"record", "drop", "left", "cut"}
  <2>1. following' = following /\ pc'[s] \notin HalfPCs
    BY <1>1, <1>14 DEF Stays, Leads, HalfPCs
  <2> QED
    BY <1>7, <1>8, <2>1
<1> QED
  BY <1>10, <1>11, <1>12, <1>13, <1>14

LEMMA StepSides ==
  ASSUME IInv, Agreement, NEW s \in Slots, Step(s)
  PROVE  SidesSound'
<1> SUFFICES ASSUME NEW p \in Profiles, NEW q \in Profiles,
                    <<p, q>> \notin upset' \cup everBlocked', <<q, p>> \notin everBlocked'
             PROVE  /\ Halfway(<<p, q>>)' \/ (<<p, q>> \in following' <=> <<q, p>> \in followers')
                    /\ \A t \in Slots : pc'[t] \in HalfPCs /\ Subject(t)' = <<p, q>> =>
                         (<<p, q>> \in following' <=> pc'[t] = "recordBack")
  BY DEF SidesSound
<1>1. <<p, q>> \notin upset \cup everBlocked /\ <<q, p>> \notin everBlocked
  BY StepFacts DEF Effects
<1>2. /\ Halfway(<<p, q>>) \/ (<<p, q>> \in following <=> <<q, p>> \in followers)
      /\ \A t \in Slots : pc[t] \in HalfPCs /\ Subject(t) = <<p, q>> => (<<p, q>> \in following <=> pc[t] = "recordBack")
  BY <1>1 DEF Agreement, SidesSound
<1>3. \A t \in Slots : t # s => pc'[t] = pc[t] /\ Subject(t)' = Subject(t)
  BY StepFacts
<1>4. /\ ~ (<<p, q>> \in following' <=> <<p, q>> \in following) => pc'[s] \in HalfPCs /\ Subject(s)' = <<p, q>>
      /\ ~ (<<q, p>> \in followers' <=> <<q, p>> \in followers) => pc[s] \in HalfPCs /\ Subject(s) = <<p, q>>
      /\ pc'[s] \in HalfPCs /\ Subject(s)' = <<p, q>> => (<<p, q>> \in following' <=> pc'[s] = "recordBack") /\ IsCommand(s)
      /\ pc[s] \in HalfPCs => pc'[s] = "over" /\ following' = following
      /\ pc[s] \in HalfPCs /\ Subject(s) = <<p, q>> => (<<q, p>> \in followers' <=> pc[s] = "recordBack")
  BY <1>1, SideFacts
<1>5. ASSUME NEW t \in Slots, t # s, pc[t] \in HalfPCs, Subject(t) = <<p, q>>, pc'[s] \in HalfPCs, Subject(s)' = <<p, q>>
      PROVE  FALSE
  <2>1. Stations(t) /\ op[t] \in Wanted /\ Used(t)
    BY <1>5 DEF Agreement, StationsSound, Used, HalfPCs, IInv, Shape
  <2>2. IsCommand(t) /\ ~ Queued(t) /\ Kind(t) \notin {"Follow", "Undo", "Block"}
    BY <1>5, <2>1 DEF Stations, HalfPCs, IsCommand, Commands, Queued
  <2>3. OwnerOf[p] = User(t)
    BY <1>5, <2>1, <2>2, SubjectFacts
  <2>4. IsCommand(s) /\ op'[s] \in Wanted /\ op' = op /\ User(s)' = User(s) /\ Kind(s)' = Kind(s)
    BY <1>4, <1>5, StepFacts
  <2>5. OwnerOf[p] = User(s)
    <3>1. Kind(s) \notin {"Follow", "Undo", "Block"} /\ Me(s) \in Profiles /\ User(s) \in Users
      BY <2>4, KindFacts DEF IsCommand, Commands
    <3>2. Subject(s)' = Leaver(s) \/ Subject(s)' = Pair(s)
      BY StepFacts DEF Subject
    <3> QED
      BY <1>5, <3>1, <3>2, PeopleAssumption DEF Leaver, Pair, User
  <2> QED
    BY <1>5, <2>2, <2>3, <2>4, <2>5, Exclusive
<1>6. ASSUME NEW t \in Slots, pc'[t] \in HalfPCs, Subject(t)' = <<p, q>>
      PROVE  <<p, q>> \in following' <=> pc'[t] = "recordBack"
  <2>1. CASE t = s
    BY <1>4, <1>6, <2>1
  <2>2. CASE t # s
    BY <1>2, <1>3, <1>4, <1>5, <1>6, <2>2
  <2> QED
    BY <2>1, <2>2
<1>7. Halfway(<<p, q>>)' \/ (<<p, q>> \in following' <=> <<q, p>> \in followers')
  <2>1. CASE \E t \in Slots : t # s /\ pc[t] \in HalfPCs /\ Subject(t) = <<p, q>>
    BY <1>3, <2>1 DEF Halfway
  <2>2. CASE pc'[s] \in HalfPCs /\ Subject(s)' = <<p, q>>
    BY <2>2 DEF Halfway
  <2>3. CASE pc[s] \in HalfPCs /\ Subject(s) = <<p, q>>
    BY <1>2, <1>4, <2>3
  <2>4. CASE /\ ~ (\E t \in Slots : t # s /\ pc[t] \in HalfPCs /\ Subject(t) = <<p, q>>)
             /\ ~ (pc'[s] \in HalfPCs /\ Subject(s)' = <<p, q>>) /\ ~ (pc[s] \in HalfPCs /\ Subject(s) = <<p, q>>)
    BY <1>2, <1>4, <2>4 DEF Halfway
  <2> QED
    BY <2>1, <2>2, <2>3, <2>4
<1> QED
  BY <1>6, <1>7

LEMMA StepTold ==
  ASSUME IInv, Agreement, NEW s \in Slots, Step(s)
  PROVE  ToldSound'
<1> SUFFICES ASSUME NEW q \in Profiles \X (Remotes \cup Boards), q \notin upset', q \in everBlocked' => q[2] \notin Boards
             PROVE  /\ q \in following' => told'[q] = "follow" /\ ~ Undoing(q)'
                    /\ told'[q] = "follow" => q \in following' \/ Recording(q)' \/ Undoing(q)'
                    /\ Recording(q)' => told'[q] = "follow"
  BY DEF ToldSound
<1>1. /\ Effects(s) /\ Stations(s) /\ Stays(s) /\ Leads(s) /\ op[s] \in Wanted /\ Used(s) /\ pc \in [Slots -> PCs]
      /\ Pair(s)' = Pair(s) /\ Leaver(s)' = Leaver(s) /\ Kind(s)' = Kind(s) /\ op' = op
      /\ \A t \in Slots : t # s => pc'[t] = pc[t] /\ Subject(t)' = Subject(t) /\ Kind(t)' = Kind(t) /\ Pair(t)' = Pair(t)
  BY StepFacts DEF Agreement, TypeOK
<1>2. q \notin upset /\ (q \in everBlocked => q[2] \notin Boards)
  BY <1>1 DEF Effects
<1>3. /\ q \in following => told[q] = "follow" /\ ~ Undoing(q)
      /\ told[q] = "follow" => q \in following \/ Recording(q) \/ Undoing(q)
      /\ Recording(q) => told[q] = "follow"
  BY <1>2 DEF Agreement, ToldSound
<1>4. /\ Pair(s) = <<Me(s), Them(s)>> /\ ~ (IsLocal(s) /\ IsRemote(s))
      /\ Kind(s) \in {"Follow", "Undo", "Block"} => IsRemote(s) /\ ~ IsLocal(s)
      /\ Kind(s) = "leave" => IsRemote(s) \/ IsLocal(s)
      /\ q[2] \notin Profiles /\ q = <<q[1], q[2]>> /\ q[1] \in Profiles /\ q[2] \in Remotes \cup Boards
      /\ q[2] \notin Guilds
  BY <1>1, KindFacts, KindsApartAssumption DEF Locals
<1>5. IsLocal(s) => Pair(s) # q /\ Leaver(s) # q
  <2>1. IsLocal(s) /\ op[s] \in Wanted => Pair(s)[2] \in Profiles
    BY <1>4 DEF IsLocal
  <2>2. ASSUME IsLocal(s), Leaver(s) = q PROVE FALSE
    <3>1. Kind(s) \notin {"Follow", "Undo", "Block"}
      BY <1>4, <2>2
    <3>2. OldestOf[OwnerOf[Them(s)]] \in Profiles
      BY <2>2, PeopleAssumption DEF IsLocal
    <3> QED
      BY <1>4, <2>2, <3>2 DEF Leaver
  <2> QED
    BY <1>1, <1>4, <2>1, <2>2
<1> DEFINE OthersRecord == \E t \in Slots : t # s /\ pc[t] = "record" /\ Kind(t) = "follow" /\ Pair(t) = q
           OthersUndo == \E t \in Slots : t # s /\ pc[t] \in {"undo", "leaveUndo"} /\ Subject(t) = q
<1>6. /\ Recording(q)' <=> OthersRecord \/ (pc'[s] = "record" /\ Kind(s) = "follow" /\ Pair(s) = q)
      /\ Recording(q) <=> OthersRecord \/ (pc[s] = "record" /\ Kind(s) = "follow" /\ Pair(s) = q)
      /\ Undoing(q)' <=> OthersUndo \/ (pc'[s] \in {"undo", "leaveUndo"} /\ Subject(s)' = q)
      /\ Undoing(q) <=> OthersUndo \/ (pc[s] \in {"undo", "leaveUndo"} /\ Subject(s) = q)
  BY <1>1 DEF Recording, Undoing
<1>7. Subject(s)' = IF pc'[s] \in {"left", "leaveDrop", "leaveUndo"} THEN Leaver(s) ELSE Pair(s)
  BY <1>1 DEF Subject, Leaving
<1>7a. Subject(s) = IF pc[s] \in {"left", "leaveDrop", "leaveUndo"} THEN Leaver(s) ELSE Pair(s)
  BY DEF Subject, Leaving
<1>8. ASSUME IsCommand(s), Pair(s) = q \/ Subject(s) = q PROVE ~ OthersRecord /\ ~ OthersUndo
  <2>1. SUFFICES ASSUME NEW t \in Slots, t # s,
                        (pc[t] = "record" /\ Kind(t) = "follow" /\ Pair(t) = q) \/ (pc[t] \in {"undo", "leaveUndo"} /\ Subject(t) = q)
                 PROVE  FALSE
    OBVIOUS
  <2>2. Stations(t) /\ op[t] \in Wanted /\ Used(t)
    BY <2>1 DEF Agreement, StationsSound, Used, IInv, Shape
  <2>3. IsCommand(t) /\ ~ Queued(t) /\ Kind(t) \notin {"Follow", "Undo", "Block"} /\ (pc[t] = "record" => ~ Leaving(t))
    BY <2>1, <2>2 DEF Stations, IsCommand, Commands, Queued, Leaving
  <2>4. Subject(t) = q
    BY <2>1, <2>3 DEF Subject
  <2>5. OwnerOf[q[1]] = User(t)
    BY <2>2, <2>3, <2>4, SubjectFacts
  <2>6. Kind(s) \notin {"Follow", "Undo", "Block"}
    BY <1>8 DEF IsCommand, Commands
  <2>7. OwnerOf[q[1]] = User(s)
    <3>1. CASE Pair(s) = q
      BY <3>1 DEF Pair, User
    <3>2. CASE Subject(s) = q
      BY <1>1, <2>6, <3>2, SubjectFacts
    <3> QED
      BY <1>8, <3>1, <3>2
  <2> QED
    BY <1>8, <2>1, <2>3, <2>5, <2>7, Exclusive
<1> HIDE DEF OthersRecord, OthersUndo
<1> DEFINE Goal == /\ q \in following' => told'[q] = "follow" /\ ~ Undoing(q)'
                   /\ told'[q] = "follow" => q \in following' \/ Recording(q)' \/ Undoing(q)'
                   /\ Recording(q)' => told'[q] = "follow"
<1>9. /\ pc'[s] = "record" /\ Kind(s) = "follow" /\ Pair(s) = q => pc[s] = "tell"
      /\ pc'[s] = "undo" => pc[s] = "cut"
      /\ pc'[s] = "leaveUndo" => pc[s] = "left"
  BY <1>1, <1>5 DEF Leads, Stations, Inbound
<1>10. CASE pc[s] = "record"
  <2>1. told' = told /\ pc'[s] \notin {"record", "undo", "leaveUndo"}
    BY <1>1, <1>9, <1>10 DEF Stays, Leads
  <2>2. CASE RecordFollowing(s)
    <3>1. following' = following \cup {Pair(s)} /\ Kind(s) = "follow" /\ IsCommand(s)
      BY <1>1, <2>2 DEF RecordFollowing, IsCommand, Commands
    <3>2. CASE Pair(s) = q
      BY <1>3, <1>6, <1>8, <1>10, <2>1, <3>1, <3>2
    <3>3. CASE Pair(s) # q
      BY <1>3, <1>6, <1>10, <2>1, <3>1, <3>3
    <3> QED
      BY <3>2, <3>3
  <2>3. CASE Accepted(s)
    <3>1. following' = following \cup {Pair(s)} /\ Kind(s) = "Accept"
      BY <2>3 DEF Accepted
    <3>2. CASE Pair(s) = q
      <4>1. told[q] = "follow" /\ ~ \E t \in Slots \ {s} : pc[t] \in {"undo", "leaveUndo"} /\ Them(t) = Them(s)
        BY <2>3, <3>2 DEF Accepted, TooLate, Upset
      <4>2. ASSUME NEW t \in Slots, t # s, pc[t] \in {"undo", "leaveUndo"}, Subject(t) = q PROVE FALSE
        <5>1. Stations(t) /\ op[t] \in Wanted
          BY <4>2 DEF Agreement, StationsSound, Used, IInv, Shape
        <5>2. IsRemote(t) /\ Kind(t) \notin {"Follow", "Undo", "Block"}
          BY <4>2, <5>1 DEF Stations
        <5>3. Subject(t)[2] = Them(t)
          BY <5>1, <5>2, SubjectFacts, KindFacts
        <5> QED
          BY <1>4, <3>2, <4>1, <4>2, <5>3
      <4>3. ~ OthersUndo
        BY <4>2 DEF OthersUndo
      <4> QED
        BY <1>3, <1>6, <1>10, <2>1, <3>1, <3>2, <4>1, <4>3
    <3>3. CASE Pair(s) # q
      BY <1>3, <1>6, <1>10, <2>1, <3>1, <3>3
    <3> QED
      BY <3>2, <3>3
  <2>4. CASE GuildAnswered(s) \/ NothingPending(s)
    <3>1. following' = following /\ Kind(s) # "follow"
      <4>1. following' = following
        BY <2>4 DEF GuildAnswered, NothingPending, tables
      <4>2. CASE NothingPending(s)
        BY <4>1, <4>2 DEF NothingPending
      <4>3. CASE GuildAnswered(s)
        <5>1. Nothing \notin pending
          BY BoundsAssumption DEF Agreement, TypeOK
        <5> QED
          BY <1>1, <4>1, <4>3, <5>1 DEF GuildAnswered, Agreement, PlaceSound
      <4> QED
        BY <2>4, <4>2, <4>3
    <3> QED
      BY <1>3, <1>6, <1>10, <2>1, <3>1
  <2> QED
    BY <1>10, <2>2, <2>3, <2>4, StepsAt
<1>11. CASE pc[s] = "left"
  <2>1. RoomLeft(s) /\ told' = told /\ pc'[s] \notin {"record", "undo"}
    BY <1>1, <1>9, <1>11, StepsAt DEF Stays, Leads
  <2>2. CASE following' = following /\ pc'[s] = "over"
    BY <1>3, <1>6, <1>11, <2>1, <2>2
  <2>3. CASE /\ following' = following \ {Leaver(s)} /\ Leaver(s) \in following
             /\ pc'[s] = IF IsLocal(s) THEN "leaveDrop" ELSE "leaveUndo"
    <3>1. CASE Leaver(s) = q
      <4>1. pc'[s] = "leaveUndo"
        BY <1>5, <2>3, <3>1
      <4> QED
        BY <1>3, <1>6, <1>7, <1>11, <2>1, <2>3, <3>1, <4>1
    <3>2. CASE Leaver(s) # q
      <4>1. Subject(s)' = Leaver(s)
        BY <1>7, <2>3
      <4> QED
        BY <1>3, <1>6, <1>11, <2>1, <2>3, <3>2, <4>1
    <3> QED
      BY <3>1, <3>2
  <2> QED
    BY <1>1, <2>1, <2>2, <2>3 DEF RoomLeft, Go
<1>12. CASE pc[s] = "cut"
  <2>1. BlockCut(s) /\ told' = told /\ pc'[s] \notin {"record", "leaveUndo"} /\ Pair(s) \in everBlocked
    BY <1>1, <1>9, <1>12, StepsAt DEF Stays, Leads, Stations
  <2>2. /\ following' = following \ {Pair(s)}
        /\ pc'[s] = IF Pair(s) \in following /\ IsRemote(s) /\ room[Them(s)] # Nothing THEN "undo" ELSE "kick"
    BY <1>1, <2>1 DEF BlockCut, Go
  <2>3. CASE Pair(s) # q
    <3>1. Subject(s)' = Pair(s) \/ pc'[s] # "undo"
      BY <1>7
    <3> QED
      BY <1>3, <1>6, <1>12, <2>1, <2>2, <2>3, <3>1
  <2>4. CASE Pair(s) = q /\ q \notin following
    BY <1>3, <1>6, <1>12, <2>1, <2>2, <2>4
  <2>5. CASE Pair(s) = q /\ q \in following
    <3>1. q[2] \in Remotes /\ Them(s) = q[2]
      BY <1>2, <1>4, <2>1, <2>5
    <3>2. told[q] = "follow"
      BY <1>3, <2>5
    <3>3. q \in Profiles \X Remotes
      BY <1>4, <3>1
    <3>4. room[q[2]] # Nothing
      BY <3>2, <3>3 DEF Agreement, RoomSound
    <3>5. pc'[s] = "undo"
      BY <2>2, <2>5, <3>1, <3>4 DEF IsRemote
    <3>6. Subject(s)' = q
      BY <1>7, <2>5, <3>5
    <3> QED
      BY <1>3, <1>6, <2>1, <2>2, <2>5, <3>2, <3>5, <3>6
  <2> QED
    BY <2>3, <2>4, <2>5
<1>13. CASE pc[s] = "tell"
  <2>1. following' = following /\ pc'[s] \notin {"undo", "leaveUndo"} /\ Kind(s) = "follow"
    BY <1>1, <1>9, <1>13 DEF Stays, Stations
  <2>2. /\ told'[q] = told[q] \/ (q = Pair(s) /\ told'[q] = "follow")
        /\ q = Pair(s) => \/ pc'[s] = "record" /\ told'[q] = "follow"
                          \/ pc'[s] = "over" /\ (q \in upset' \/ (told' = told /\ q \in following))
    BY <1>13, ToldFacts
  <2> QED
    BY <1>3, <1>6, <1>13, <2>1, <2>2
<1>14. CASE pc[s] \in {"undo", "leaveUndo"}
  <2>1. following' = following /\ pc'[s] \notin {"undo", "leaveUndo", "record"}
    BY <1>1, <1>9, <1>14 DEF Stays, Leads
  <2>2. IsCommand(s)
    BY <1>1, <1>14 DEF Stations, IsCommand, Commands
  <2>3. CASE Subject(s) = q
    <3>1. told'[q] = "undo"
      BY <1>14, <2>3, ToldFacts
    <3> QED
      BY <1>3, <1>6, <1>8, <1>14, <2>1, <2>2, <2>3, <3>1
  <2>4. CASE Subject(s) # q
    <3>1. told'[q] = told[q]
      BY <1>14, <2>4, ToldFacts
    <3> QED
      BY <1>3, <1>6, <1>14, <2>1, <2>4, <3>1
  <2> QED
    BY <2>3, <2>4
<1>15. CASE pc[s] \notin {"record", "left", "cut", "tell", "undo", "leaveUndo"}
  <2>1. told'[q] = told[q]
    BY <1>15, ToldFacts
  <2>2. q \in following' <=> q \in following
    <3>1. CASE pc[s] = "drop"
      <4>1. DropFollower(s) \/ DropFollowing(s)
        BY <3>1, StepsAt
      <4>2. DropFollowing(s) => Pair(s) # q
        BY <1>1, <1>5, <3>1 DEF Stations, DropFollowing, Ending
      <4> QED
        BY <4>1, <4>2 DEF DropFollower, DropFollowing
    <3> QED
      BY <1>1, <1>15, <3>1 DEF Stays
  <2> QED
    BY <1>3, <1>6, <1>9, <1>15, <2>1, <2>2
<1> QED
  BY <1>10, <1>11, <1>12, <1>13, <1>14, <1>15

LEMMA StepIn ==
  ASSUME IInv, Agreement, NEW s \in Slots, Step(s)
  PROVE  InSound'
<1> SUFFICES ASSUME NEW u \in Users, NEW r \in Remotes, r \notin doubled',
                    <<OldestOf[u], r>> \notin upset', told'[<<OldestOf[u], r>>] = "follow"
             PROVE  <<u, room'[r]>> \in inRoom' \/ LeftQueued(u, r)' \/ Undoing(<<OldestOf[u], r>>)'
  BY DEF InSound
<1> DEFINE q == <<OldestOf[u], r>>
<1>1. /\ Effects(s) /\ Stations(s) /\ Stays(s) /\ Leads(s) /\ op[s] \in Wanted /\ Used(s) /\ pc \in [Slots -> PCs] /\ op' = op
      /\ Pair(s)' = Pair(s) /\ Leaver(s)' = Leaver(s) /\ Them(s)' = Them(s) /\ User(s)' = User(s)
      /\ \A t \in Slots : t # s => pc'[t] = pc[t] /\ Subject(t)' = Subject(t) /\ Them(t)' = Them(t) /\ User(t)' = User(t)
                                   /\ place'[t] = place[t]
      /\ room \in [Remotes -> Slots \cup {Nothing}]
  BY StepFacts DEF Agreement, TypeOK
<1>2. r \notin doubled /\ q \notin upset
  BY <1>1 DEF Effects
<1>3. /\ OldestOf[u] \in Profiles /\ OwnerOf[OldestOf[u]] = u /\ q \in Profiles \X (Remotes \cup Boards)
      /\ q \in Profiles \X Remotes /\ r \notin Boards /\ r \notin Profiles
  BY PeopleAssumption, KindsApartAssumption DEF Locals
<1>4. CASE told[q] # "follow"
  <2>1. pc[s] = "tell" /\ q = Pair(s)
    BY <1>3, <1>4, ToldFacts
  <2>2. Them(s) = r /\ Me(s) = OldestOf[u]
    BY <2>1 DEF Pair
  <2>3. User(s) = u
    BY <1>3, <2>2 DEF User
  <2>4. <<u, room[r]>> \in inRoom
    BY <1>2, <2>1, <2>2, <2>3 DEF Agreement, RoomSound, IsRemote
  <2> QED
    BY <1>1, <2>1, <2>4 DEF Stays
<1>5. CASE told[q] = "follow"
  <2>1. <<u, room[r]>> \in inRoom \/ LeftQueued(u, r) \/ Undoing(q)
    BY <1>2, <1>5 DEF Agreement, InSound
  <2>2. room[r] # Nothing
    <3>1. told[q] = "follow" => room[q[2]] # Nothing
      BY <1>3 DEF Agreement, RoomSound
    <3> QED
      BY <1>5, <3>1
  <2>3. room'[r] = room[r]
    <3>1. CASE pc[s] = "make"
      <4>1. MakeRoom(s)
        BY <3>1, StepsAt
      <4>2. Them(s) # r
        BY <2>2, <4>1 DEF MakeRoom
      <4> QED
        BY <1>1, <4>1, <4>2 DEF MakeRoom
    <3>2. CASE pc[s] # "make"
      BY <1>1, <3>2 DEF Stays
    <3> QED
      BY <3>1, <3>2
  <2>4. CASE <<u, room[r]>> \in inRoom
    <3>1. CASE <<u, room[r]>> \in inRoom'
      BY <2>3, <3>1
    <3>2. CASE <<u, room[r]>> \notin inRoom'
      <4>1. IsRemote(s) /\ User(s) = u /\ room[Them(s)] = room[r] /\ pc'[s] = "left" /\ place'[s] = room[r]
        BY <2>4, <3>2, InRoomFacts
      <4>2. Them(s) = r
        <5>1. room[r] \in Slots /\ Them(s) \in Remotes
          BY <1>1, <2>2, <4>1 DEF IsRemote
        <5>2. IsRoomOf(room[r], r) /\ IsRoomOf(room[r], Them(s))
          BY <4>1, <5>1 DEF Agreement, RoomSound
        <5> QED
          BY <5>2 DEF IsRoomOf
      <4> QED
        BY <1>1, <2>3, <4>1, <4>2 DEF LeftQueued
    <3> QED
      BY <3>1, <3>2
  <2>5. CASE LeftQueued(u, r)
    <3>1. PICK t \in Slots : pc[t] = "left" /\ User(t) = u /\ Them(t) = r /\ place[t] = room[r]
      BY <2>5 DEF LeftQueued
    <3>2. CASE t # s
      BY <1>1, <2>3, <3>1, <3>2 DEF LeftQueued
    <3>3. CASE t = s
      <4>1. RoomLeft(s)
        BY <3>1, <3>3, StepsAt
      <4>2. Leaver(s) = q /\ ~ IsLocal(s) /\ RoomOf(Them(s)) = place[s]
        BY <1>3, <3>1, <3>3 DEF Leaver, IsLocal, RoomOf
      <4>3. ASSUME NEW v \in Slots, pc[v] \in {"record", "undo", "leaveUndo"},
                   (pc[v] = "record" /\ Kind(v) = "follow" /\ Pair(v) = q) \/ (pc[v] # "record" /\ Subject(v) = q)
            PROVE  FALSE
        <5>1. Stations(v) /\ op[v] \in Wanted /\ Used(v)
          BY <4>3 DEF Agreement, StationsSound, Used, IInv, Shape
        <5>2. IsCommand(v) /\ ~ Queued(v) /\ Kind(v) \notin {"Follow", "Undo", "Block"} /\ (pc[v] = "record" => ~ Leaving(v))
          BY <4>3, <5>1 DEF Stations, IsCommand, Commands, Queued, Leaving
        <5>3. Subject(v) = q
          BY <4>3, <5>2 DEF Subject
        <5>4. User(v) = u
          BY <1>3, <5>1, <5>2, <5>3, SubjectFacts
        <5> QED
          BY <3>1, <3>3, <4>1, <5>2, <5>4 DEF RoomLeft, Busy, IsCommand
      <4>4. ~ Recording(q) /\ ~ Undoing(q)
        BY <4>3 DEF Recording, Undoing
      <4>5. q \in following
        BY <1>2, <1>3, <1>5, <4>4 DEF Agreement, ToldSound
      <4>6. pc'[s] = "leaveUndo"
        BY <1>1, <4>1, <4>2, <4>5 DEF RoomLeft, Go
      <4>7. Subject(s)' = q
        BY <1>1, <4>2, <4>6 DEF Subject, Leaving
      <4> QED
        BY <4>6, <4>7 DEF Undoing
    <3> QED
      BY <3>2, <3>3
  <2>6. CASE Undoing(q)
    <3>1. PICK t \in Slots : pc[t] \in {"undo", "leaveUndo"} /\ Subject(t) = q
      BY <2>6 DEF Undoing
    <3>2. CASE t # s
      BY <1>1, <3>1, <3>2 DEF Undoing
    <3>3. CASE t = s
      BY <1>3, <3>1, <3>3, ToldFacts
    <3> QED
      BY <3>2, <3>3
  <2> QED
    BY <2>1, <2>4, <2>5, <2>6
<1> QED
  BY <1>4, <1>5

\* What an answer is to does not change.
LEMMA AnswerFacts ==
  ASSUME IInv, Agreement, NEW s \in Slots, Step(s), NEW t \in Slots, Answers(t)
  PROVE  place'[t] = place[t]
<1>1. Effects(s) /\ Stations(s)' /\ Used(s) /\ Kind(s)' = Kind(s) /\ (t # s => place'[t] = place[t])
  BY StepFacts
<1>2. Kind(s) \in {"Accept", "Reject"} => pc'[s] # "left"
  BY <1>1 DEF Stations
<1> QED
  BY <1>1, <1>2 DEF Effects, Answers

LEMMA StepPending ==
  ASSUME IInv, Agreement, NEW s \in Slots, Step(s)
  PROVE  PendingSound'
<1>1. /\ Effects(s) /\ Stations(s) /\ Stays(s) /\ Leads(s) /\ op[s] \in Wanted /\ Used(s) /\ pc \in [Slots -> PCs] /\ op' = op
      /\ \A t \in Slots : t # s => pc'[t] = pc[t] /\ seen'[t] = seen[t]
      /\ \A t : Kind(t)' = Kind(t) /\ Pair(t)' = Pair(t)
      /\ \A t \in Slots : (Used(t)' <=> Used(t)) /\ (Answers(t)' <=> Answers(t))
      /\ seen \in [Slots -> BOOLEAN]
  BY StepFacts DEF Agreement, TypeOK
<1>2. \A t \in Slots : Answers(t) => place'[t] = place[t]
  BY AnswerFacts
<1> SUFFICES ASSUME NEW j \in Slots, Used(j), Kind(j) = "joinguild", Pair(j) \notin upset'
             PROVE  /\ pc'[j] \in {"check", "ask", "note", "send"} => ~ seen'[j]
                    /\ j \in pending' <=> \/ pc'[j] = "send"
                                          \/ seen'[j] /\ \A t \in Slots : Answers(t)' /\ place'[t] = j => pc'[t] # "over"
  BY <1>1 DEF PendingSound
<1>3. Pair(j) \notin upset
  BY <1>1 DEF Effects
<1>4. /\ pc[j] \in {"check", "ask", "note", "send"} => ~ seen[j]
      /\ j \in pending <=> pc[j] = "send" \/ (seen[j] /\ \A t \in Slots : Answers(t) /\ place[t] = j => pc[t] # "over")
  BY <1>3 DEF Agreement, PendingSound
<1>5. \A t \in Slots : Answers(t) /\ place[t] = j => seen[j]
  <2>1. \A t \in Slots : Answers(t) => seen[place[t]]
    BY DEF Agreement, PlaceSound
  <2> QED
    BY <2>1
<1> DEFINE Handled == \E t \in Slots : Answers(t) /\ place[t] = j /\ pc[t] = "over"
           HandledNext == \E t \in Slots : Answers(t) /\ place[t] = j /\ pc'[t] = "over"
<1>6. /\ Handled <=> ~ \A t \in Slots : Answers(t) /\ place[t] = j => pc[t] # "over"
      /\ HandledNext <=> ~ \A t \in Slots : Answers(t)' /\ place'[t] = j => pc'[t] # "over"
  BY <1>1, <1>2
<1>7. Handled => HandledNext /\ seen[j]
  <2>1. ASSUME NEW t \in Slots, Answers(t), place[t] = j, pc[t] = "over" PROVE HandledNext
    BY <1>1, <2>1, StepsAt
  <2> QED
    BY <1>5, <2>1
<1>8. HandledNext /\ ~ Handled => Answers(s) /\ place[s] = j /\ pc'[s] = "over"
  BY <1>1
<1> HIDE DEF Handled, HandledNext
<1>9. CASE s = j
  <2>1. pc[s] \in {"check", "ask", "note", "send", "sent"}
    BY <1>1, <1>9, StepsAt DEF Stations, OwnPCs, PCs, Inbound, Ending, Answers, Used, Commands
  <2>2. ~ Answers(s)
    BY <1>9 DEF Answers
  <2>3. HandledNext <=> Handled
    BY <1>7, <1>8, <2>2
  <2>4. CASE pc[s] \in {"check", "ask"}
    <3>1. seen' = seen /\ pending' = pending
      BY <1>1, <2>4 DEF Stays
    <3>2. pc'[s] # "send"
      BY <1>1, <2>4 DEF Leads
    <3> QED
      BY <1>4, <1>9, <2>4, <3>1, <3>2
  <2>5. CASE pc[s] = "note"
    <3>1. JoinNote(s)
      BY <2>5, StepsAt
    <3> QED
      BY <1>1, <1>4, <1>9, <2>5, <3>1 DEF JoinNote, Go
  <2>6. CASE pc[s] = "send"
    <3>1. JoinSend(s)
      BY <2>6, StepsAt
    <3>2. pending' = pending /\ seen' = [seen EXCEPT ![s] = TRUE] /\ pc' = [pc EXCEPT ![s] = "sent"]
      BY <1>9, <3>1 DEF JoinSend, NoJoin, Failed, Upset, Go
    <3>3. ~ HandledNext
      BY <1>4, <1>7, <1>9, <2>3, <2>6
    <3> QED
      BY <1>1, <1>4, <1>6, <1>9, <2>6, <3>2, <3>3
  <2>7. CASE pc[s] = "sent"
    <3>1. JoinSent(s)
      BY <2>7, StepsAt
    <3>2. pending' = pending /\ seen' = seen /\ pc' = [pc EXCEPT ![s] = "over"]
      BY <1>9, <3>1 DEF JoinSent, NoJoin, Failed, Upset, Go
    <3> QED
      BY <1>1, <1>4, <1>6, <1>9, <2>3, <2>7, <3>2
  <2> QED
    BY <2>1, <2>4, <2>5, <2>6, <2>7
<1>10. CASE s # j
  <2>1. pc'[j] = pc[j] /\ seen'[j] = seen[j]
    BY <1>1, <1>10
  <2>2. CASE pc[s] = "clear"
    <3>1. GuildClear(s) /\ Answers(s)
      BY <1>1, <2>2, StepsAt DEF Stations
    <3>2. pending' = pending \ {place[s]} /\ pc'[s] = "over"
      BY <1>1, <3>1 DEF GuildClear, Go
    <3>3. CASE place[s] = j
      <4>1. HandledNext /\ seen[j]
        BY <1>5, <3>1, <3>2, <3>3 DEF HandledNext
      <4> QED
        BY <1>4, <1>6, <2>1, <3>2, <3>3, <4>1
    <3>4. CASE place[s] # j
      BY <1>4, <1>6, <1>7, <1>8, <2>1, <3>2, <3>4
    <3> QED
      BY <3>3, <3>4
  <2>3. CASE pc[s] # "clear"
    <3>1. j \in pending' <=> j \in pending
      <4>1. CASE pc[s] \in {"note", "send", "sent"}
        BY <1>10, <4>1, StepsAt DEF JoinNote, JoinSend, JoinSent, NoJoin
      <4> QED
        BY <1>1, <2>3, <4>1 DEF Stays
    <3>2. CASE HandledNext <=> Handled
      BY <1>4, <1>6, <2>1, <3>1, <3>2
    <3>3. CASE HandledNext /\ ~ Handled
      <4>1. Answers(s) /\ place[s] = j /\ pc'[s] = "over" /\ seen[j]
        BY <1>5, <1>8, <3>3
      <4>2. pc[s] = "record"
        BY <1>1, <2>3, <4>1 DEF Leads, Answers
      <4>3. j \notin pending
        BY <1>1, <4>1, <4>2, StepsAt DEF Accepted, RecordFollowing, GuildAnswered, NothingPending, Go, Answers
      <4> QED
        BY <1>4, <1>6, <3>3, <4>1, <4>3
    <3> QED
      BY <1>7, <3>2, <3>3
  <2> QED
    BY <2>2, <2>3
<1> QED
  BY <1>9, <1>10

LEMMA StepMembers ==
  ASSUME IInv, Agreement, NEW s \in Slots, Step(s)
  PROVE  MembersSound'
<1>1. /\ Effects(s) /\ Stations(s) /\ Stays(s) /\ Leads(s) /\ op[s] \in Wanted /\ Used(s) /\ pc \in [Slots -> PCs] /\ op' = op /\ id' = id
      /\ \A t \in Slots : t # s => pc'[t] = pc[t] /\ seen'[t] = seen[t]
      /\ \A t : Kind(t)' = Kind(t) /\ Pair(t)' = Pair(t)
      /\ \A t \in Slots : (Used(t)' <=> Used(t)) /\ (Answers(t)' <=> Answers(t))
      /\ seen \in [Slots -> BOOLEAN] /\ PlaceSound /\ members \subseteq Profiles \X Guilds
  BY StepFacts DEF Agreement, TypeOK
<1>2. \A t \in Slots : Answers(t) => place'[t] = place[t]
  BY AnswerFacts
<1> SUFFICES ASSUME NEW q \in Profiles \X Guilds, q \notin upset'
             PROVE  /\ q \in members' <=> \E t \in Slots : Past(t)' /\ Pair(t)' = q /\ Counts(t)'
                    /\ q \in following' => \E t \in Slots : Answers(t)' /\ Kind(t)' = "Accept" /\ Pair(t)' = q /\ id'[t] # t
  BY DEF MembersSound
<1>3. q \notin upset
  BY <1>1 DEF Effects
<1>4. /\ q \in members <=> \E t \in Slots : Past(t) /\ Pair(t) = q /\ Counts(t)
      /\ q \in following => \E t \in Slots : Answers(t) /\ Kind(t) = "Accept" /\ Pair(t) = q /\ id[t] # t
  BY <1>3 DEF Agreement, MembersSound
<1>5. \A t \in Slots : (t # s => (Past(t)' <=> Past(t))) /\ (Past(t) => Past(t)') /\ (Past(t) \/ Past(t)' => Answers(t))
  <2>1. \A t \in Slots : t # s => (Past(t)' <=> Past(t))
    BY <1>1 DEF Past
  <2>2. Past(s) => Past(s)'
    BY <1>1, StepsAt DEF Past, GuildRooms, GuildClear, Go
  <2>3. \A t \in Slots : Past(t) \/ Past(t)' => Answers(t)
    BY <1>1 DEF Past
  <2> QED
    BY <2>1, <2>2, <2>3
<1>6. ASSUME NEW t \in Slots, Answers(t)
      PROVE  /\ Counts(t)' <=> \A l \in Slots : Used(l) /\ Kind(l) = "leaveguild" /\ Pair(l) = Pair(t) /\ seen'[l] => l < place[t]
             /\ Counts(t)' => Counts(t)
             /\ pc[s] # "unmember" => (Counts(t)' <=> Counts(t))
  <2>1. Counts(t)' <=> \A l \in Slots : Used(l) /\ Kind(l) = "leaveguild" /\ Pair(l) = Pair(t) /\ seen'[l] => l < place[t]
    BY <1>1, <1>2, <1>6 DEF Counts
  <2>2. \A l \in Slots : Used(l) /\ Kind(l) = "leaveguild" => (seen[l] => seen'[l]) /\ (pc[s] # "unmember" => (seen'[l] <=> seen[l]))
    <3>1. Kind(s) = "leaveguild" => pc[s] \notin {"list", "send", "rooms"}
      BY <1>1 DEF Stations, OwnPCs
    <3>2. Kind(s) = "leaveguild" => (seen[s] => seen'[s]) /\ (pc[s] # "unmember" => seen' = seen)
      BY <1>1, <3>1 DEF Stays
    <3> QED
      BY <1>1, <3>2
  <2> QED
    BY <2>1, <2>2 DEF Counts
<1>7. q \in following' => \E t \in Slots : Answers(t)' /\ Kind(t)' = "Accept" /\ Pair(t)' = q /\ id'[t] # t
  <2>1. CASE q \in following
    BY <1>1, <1>4, <2>1
  <2>2. CASE q \notin following /\ q \in following'
    <3>1. pc[s] = "record" /\ Pair(s) = q
      BY <1>1, <2>2 DEF Stays, Effects
    <3>2. Them(s) \in Guilds
      BY <3>1 DEF Pair
    <3>3. Kind(s) # "follow"
      BY <1>1, <3>2, KindFacts
    <3>4. Accepted(s)
      BY <2>2, <3>1, <3>3, StepsAt DEF RecordFollowing, GuildAnswered, NothingPending, tables
    <3>5. Answers(s) /\ Kind(s) = "Accept" /\ place[s] \notin pending
      BY <1>1, <3>2, <3>4 DEF Accepted, Answers
    <3>6. PICK t \in Slots : Answers(t) /\ place[t] = place[s] /\ pc[t] = "over"
      <4>1. PICK j \in Slots : place[s] = j /\ op[j] = [op[s] EXCEPT !.kind = "joinguild"] /\ seen[j] /\ Used(j)
        BY <1>1, <3>5 DEF PlaceSound
      <4>2. Kind(j) = "joinguild" /\ Pair(j) = q
        BY <1>1, <3>1, <4>1, BoundsAssumption DEF Operation, Kind, Pair, Me, Them
      <4>3. j \notin pending /\ ~ \A t \in Slots : Answers(t) /\ place[t] = j => pc[t] # "over"
        BY <1>3, <3>5, <4>1, <4>2 DEF Agreement, PendingSound
      <4> QED
        BY <4>1, <4>3
    <3>7. id[t] = id[s] /\ t # s /\ op[id[t]] = op[t] /\ op[id[s]] = op[s]
      <4>1. PlaceSound
        BY <1>1
      <4>2. id[t] = id[s] /\ op[id[t]] = op[t]
        BY <3>5, <3>6, <4>1 DEF PlaceSound
      <4>3. op[id[s]] = op[s]
        BY <3>5, <4>1 DEF PlaceSound
      <4> QED
        BY <3>1, <3>6, <4>2, <4>3
    <3>8. Kind(t) = "Accept" /\ Pair(t) = q
      BY <3>1, <3>5, <3>7 DEF Kind, Pair, Me, Them
    <3> QED
      BY <1>1, <3>1, <3>5, <3>6, <3>7, <3>8
  <2> QED
    BY <2>1, <2>2
<1> SUFFICES q \in members' <=> \E t \in Slots : Past(t)' /\ Pair(t) = q /\ Counts(t)'
  BY <1>1, <1>7
<1>8. CASE pc[s] = "unmember"
  <2>1. GuildLeft(s) /\ Kind(s) = "leaveguild" /\ IsCommand(s)
    BY <1>1, <1>8, StepsAt DEF Stations, IsCommand, Commands
  <2>2. members' = members \ {Pair(s)} /\ seen'[s]
    BY <1>1, <2>1 DEF GuildLeft
  <2>3. \A t \in Slots : Past(t)' <=> Past(t)
    BY <1>5, <2>1 DEF Past, Answers
  <2>4. CASE Pair(s) = q
    <3>1. ASSUME NEW t \in Slots, Past(t)', Pair(t) = q, Counts(t)' PROVE FALSE
      <4>1. Answers(t) /\ s < place[t]
        BY <1>1, <1>5, <1>6, <2>1, <2>2, <2>4, <3>1
      <4>2. PICK j \in Slots : place[t] = j /\ op[j] = [op[t] EXCEPT !.kind = "joinguild"] /\ Used(j)
        BY <1>1, <4>1 DEF PlaceSound
      <4>3. op[t] \in Operation
        BY <4>1, BoundsAssumption DEF Answers, IInv, Shape
      <4>4. Kind(j) = "joinguild" /\ Pair(j) = q
        BY <3>1, <4>2, <4>3 DEF Operation, Kind, Pair, Me, Them
      <4>5. IsCommand(j) /\ User(j) = User(s)
        BY <2>4, <4>2, <4>4 DEF IsCommand, Commands, User, Pair
      <4> QED
        BY <1>8, <2>1, <4>1, <4>2, <4>5 DEF Agreement, OneAtATime
    <3> QED
      BY <2>2, <2>4, <3>1
  <2>5. CASE Pair(s) # q
    <3>1. ASSUME NEW t \in Slots, Past(t), Pair(t) = q PROVE Counts(t)' <=> Counts(t)
      <4>1. Answers(t)
        BY <1>5, <3>1
      <4>2. \A l \in Slots : Pair(l) = Pair(t) => seen'[l] = seen[l]
        BY <1>1, <2>5, <3>1
      <4> QED
        BY <1>6, <4>1, <4>2 DEF Counts
    <3> QED
      BY <1>4, <2>2, <2>3, <2>5, <3>1
  <2> QED
    BY <2>4, <2>5
<1>9. CASE pc[s] = "member"
  <2>1. GuildMember(s) /\ Answers(s) /\ Kind(s) = "Accept"
    BY <1>1, <1>9, StepsAt DEF Stations
  <2>2. members' = members \cup {Pair(s)} /\ pc'[s] = "rooms"
    BY <1>1, <2>1 DEF GuildMember, Go
  <2>3. \A t \in Slots : Answers(t) => (Counts(t)' <=> Counts(t))
    BY <1>6, <1>9
  <2>4. CASE Pair(s) = q
    <3>1. ~ LeftSince(s)
      BY <2>1, <2>4 DEF GuildMember, Upset
    <3>2. Past(s)'
      BY <1>1, <2>1, <2>2 DEF Past
    <3>3. ASSUME NEW l \in Slots, Used(l), Kind(l) = "leaveguild", Pair(l) = Pair(s), seen[l] PROVE l < place[s]
      <4>1. op[l] \in Operation /\ op[s] \in Operation
        BY <1>1, <3>3, BoundsAssumption DEF IInv, Shape
      <4>2. op[l] = [op[s] EXCEPT !.kind = "leaveguild"]
        BY <3>3, <4>1 DEF Operation, Kind, Pair, Me, Them
      <4>3. ~ (place[s] < l)
        BY <3>1, <3>3, <4>2 DEF LeftSince
      <4>4. PICK j \in Slots : place[s] = j /\ op[j] = [op[s] EXCEPT !.kind = "joinguild"]
        BY <1>1, <2>1 DEF PlaceSound
      <4>5. Kind(j) = "joinguild"
        BY <4>1, <4>4 DEF Operation, Kind
      <4>6. j # l
        BY <3>3, <4>5
      <4> QED
        BY <4>3, <4>4, <4>6, SlotFacts
    <3>4. Counts(s)
      BY <3>3 DEF Counts
    <3> QED
      BY <2>1, <2>2, <2>3, <2>4, <3>2, <3>4
  <2>5. CASE Pair(s) # q
    BY <1>4, <1>5, <2>2, <2>3, <2>5
  <2> QED
    BY <2>4, <2>5
<1>10. CASE pc[s] \notin {"unmember", "member"}
  <2>1. members' = members
    BY <1>1, <1>10 DEF Stays
  <2>2. \A t \in Slots : Answers(t) => (Counts(t)' <=> Counts(t))
    BY <1>6, <1>10
  <2>3. CASE Past(s)' <=> Past(s)
    BY <1>4, <1>5, <2>1, <2>2, <2>3
  <2>4. CASE ~ Past(s) /\ Past(s)' /\ Pair(s) = q
    <3>1. Answers(s) /\ Kind(s) = "Accept" /\ pc[s] = "record" /\ pc'[s] \in {"rooms", "clear", "over"}
      BY <1>1, <1>10, <2>4 DEF Past, Leads, PCs
    <3>2. Accepted(s)
      BY <1>1, <3>1, StepsAt DEF RecordFollowing, GuildAnswered, NothingPending, Go
    <3>3. place[s] \notin pending
      BY <3>2 DEF Accepted
    <3>4. PICK t \in Slots : Answers(t) /\ place[t] = place[s] /\ pc[t] = "over"
      <4>1. PICK j \in Slots : place[s] = j /\ op[j] = [op[s] EXCEPT !.kind = "joinguild"] /\ seen[j] /\ Used(j)
        BY <1>1, <3>1 DEF PlaceSound
      <4>2. Kind(j) = "joinguild" /\ Pair(j) = q
        BY <1>1, <2>4, <4>1, BoundsAssumption DEF Operation, Kind, Pair, Me, Them
      <4>3. j \notin pending /\ ~ \A t \in Slots : Answers(t) /\ place[t] = j => pc[t] # "over"
        BY <1>3, <3>3, <4>1, <4>2 DEF Agreement, PendingSound
      <4> QED
        BY <4>1, <4>3
    <3>5. id[t] = id[s] /\ t # s /\ op[id[t]] = op[t] /\ op[id[s]] = op[s]
      <4>1. t # s
        BY <3>1, <3>4
      <4>2. op[id[t]] = op[t] /\ op[id[s]] = op[s]
        BY <1>1, <3>1, <3>4 DEF PlaceSound
      <4>3. \A v \in Slots : Answers(v) /\ place[v] = place[s] => id[v] = id[s]
        BY <1>1, <3>1 DEF PlaceSound
      <4>4. id[t] = id[s]
        BY <3>4, <4>3
      <4> QED
        BY <4>1, <4>2, <4>4
    <3>6. Kind(t) = "Accept" /\ Pair(t) = q /\ Past(t)
      BY <2>4, <3>1, <3>4, <3>5 DEF Kind, Pair, Me, Them, Past
    <3>7. Counts(t) <=> Counts(s)
      BY <2>4, <3>4, <3>6 DEF Counts
    <3> QED
      BY <1>4, <1>5, <2>1, <2>2, <2>4, <3>1, <3>6, <3>7
  <2>5. CASE Pair(s) # q
    BY <1>4, <1>5, <2>1, <2>2, <2>5
  <2> QED
    BY <1>5, <2>3, <2>4, <2>5
<1> QED
  BY <1>8, <1>9, <1>10

LEMMA StepAgrees ==
  ASSUME IInv, Agreement, NEW s \in Slots, Step(s), IInv'
  PROVE  Agreement'
BY StepTypes, StepStations, StepOneAtATime, StepPlaces, StepRooms, StepSides, StepTold, StepIn, StepPending, StepMembers DEF Agreement

-----------------------------------------------------------------------------
(* What begins, and what it is about. *)

\* Slot s is taken for operation w, which is about room or join x.
Comes(s, w, i, p, x) ==
  /\ Arrives(s, w, i, p) /\ (p = "lock" <=> w.kind \in Inbound) /\ (p = "left" <=> w.kind = "leave")
  /\ place' = [place EXCEPT ![s] = x] /\ x \in Rooms \cup {Nothing}
  /\ UNCHANGED <<following, pending, members, room, told, doubled, faults>>
  /\ w.kind \in Commands => ~ Busy(OwnerOf[w.me])
  /\ IF w.kind = "leave"
     THEN /\ x \in Rooms /\ AccountOf(x) = w.them
          /\ inRoom' = inRoom \ {<<OwnerOf[w.me], x>>} /\ <<OwnerOf[w.me], x>> \in inRoom
     ELSE inRoom' = inRoom
  /\ IF w.kind \in {"Accept", "Reject"} /\ w.them \in Guilds
     THEN /\ x \in Slots /\ op[x] = [w EXCEPT !.kind = "joinguild"] /\ seen[x]
          /\ IF i = s THEN \A t \in Slots : place[t] # x
             ELSE Answers(i) /\ op[i] = w /\ place[i] = x /\ id[i] = i
     ELSE w.kind = "leave" \/ x = Nothing \/ (i # s /\ Used(i) /\ op[i] = w /\ place[i] = x /\ w.kind = "Follow")

LEMMA BeginComes ==
  ASSUME IInv, Agreement, NEW s \in Slots, NEW w \in Wanted, At(s, "unused"),
         \A t \in Slots : t < s => ~ At(t, "unused"), Begin(s, w)
  PROVE  \E x : Comes(s, w, s, FirstStep(w), x)
<1>1. /\ ~ Used(s) /\ (\A t \in Slots : t < s => Used(t)) /\ s <= s
      /\ op \in [Slots -> Wanted \cup {Nothing}] /\ id \in [Slots -> Slots] /\ id[s] = s
      /\ view \in [RemotePairs -> {"none", "asked", "yes", "refused"}]
      /\ place \in [Slots -> Rooms \cup {Nothing}] /\ place[s] = Nothing
  <2>1. /\ ~ Used(s) /\ (\A t \in Slots : t < s => Used(t)) /\ s <= s
        /\ op \in [Slots -> Wanted \cup {Nothing}] /\ id \in [Slots -> Slots] /\ id[s] = s
        /\ view \in [RemotePairs -> {"none", "asked", "yes", "refused"}]
    BY SlotFacts DEF IInv, Shape, At, Used
  <2>2. place[s] = Nothing
    BY <2>1 DEF Agreement, PlaceSound
  <2> QED
    BY <2>1, <2>2 DEF Agreement, TypeOK
<1>2. /\ op' = [op EXCEPT ![s] = w] /\ id' = id /\ pc' = [pc EXCEPT ![s] = FirstStep(w)]
      /\ UNCHANGED <<seen, followers, blocked, announced, upset, everBlocked, overtaken>>
      /\ UNCHANGED <<following, pending, members, room, told, doubled, faults>>
  BY DEF Begin, Go, tables, history, guilds
<1>3. id' = [id EXCEPT ![s] = s] /\ op'[s] = w
  BY <1>1, <1>2
<1>4. /\ FirstStep(w) \in {"lock", "check", "left"} /\ (FirstStep(w) = "lock" <=> w.kind \in Inbound)
      /\ (FirstStep(w) = "left" <=> w.kind = "leave")
  BY DEF FirstStep, Inbound
<1>5. /\ w.kind \in {"Follow", "Undo", "Block"} => <<w.me, w.them>> \in RemotePairs
      /\ w.kind \in {"joinguild", "leaveguild", "Reject"} <=> w.them \in Guilds /\ w.kind # "Accept"
  BY WantedFacts, WantedAssumption
<1>6. view' \in [RemotePairs -> {"none", "asked", "yes", "refused"}]
  BY <1>1, <1>5 DEF Begin, InboundComes, SetView
<1>7. Arrives(s, w, s, FirstStep(w))
  BY <1>1, <1>2, <1>3, <1>4, <1>6 DEF Arrives, Inbound
<1>8. place' = place => place' = [place EXCEPT ![s] = Nothing]
  BY <1>1
<1>9. CASE w.kind \in Inbound /\ InboundComes(w) /\ UNCHANGED <<inRoom, place>>
  <2>1. ~ (w.kind \in {"Accept", "Reject"} /\ w.them \in Guilds) /\ w.kind # "leave" /\ w.kind \notin Commands
    BY <1>9 DEF InboundComes, Inbound, Commands
  <2>2. Comes(s, w, s, FirstStep(w), Nothing)
    BY <1>2, <1>4, <1>7, <1>8, <1>9, <2>1 DEF Comes
  <2> QED
    BY <2>2
<1>10. CASE GuildAnswers(s, w) /\ UNCHANGED <<inRoom, view>>
  <2>1. PICK j \in Slots : /\ op[j] = [w EXCEPT !.kind = "joinguild"] /\ seen[j]
                           /\ \A t \in Slots : place[t] # j
                           /\ place' = [place EXCEPT ![s] = j]
    BY <1>10 DEF GuildAnswers
  <2>2. w.kind \in {"Accept", "Reject"} /\ w.them \in Guilds /\ w.kind # "leave" /\ w.kind \notin Commands
    BY <1>10 DEF GuildAnswers, Commands
  <2>3. Comes(s, w, s, FirstStep(w), j)
    BY <1>2, <1>4, <1>7, <1>10, <2>1, <2>2 DEF Comes, Rooms
  <2> QED
    BY <2>3
<1>11. CASE w.kind \in Commands /\ CommandComes(s, w) /\ UNCHANGED view
  <2>1. w.kind \notin {"Accept", "Reject"} /\ ~ Busy(OwnerOf[w.me])
    BY <1>11 DEF Commands, CommandComes
  <2>2. CASE w.kind = "leave"
    <3>1. PICK x \in Rooms : /\ <<OwnerOf[w.me], x>> \in inRoom /\ AccountOf(x) = w.them
                             /\ inRoom' = inRoom \ {<<OwnerOf[w.me], x>>}
                             /\ place' = [place EXCEPT ![s] = x]
      BY <1>11, <2>2 DEF CommandComes
    <3>2. Comes(s, w, s, FirstStep(w), x)
      BY <1>2, <1>4, <1>7, <2>1, <2>2, <3>1 DEF Comes
    <3> QED
      BY <3>2
  <2>3. CASE w.kind # "leave"
    <3>1. inRoom' = inRoom /\ place' = place
      BY <1>11, <2>3 DEF CommandComes
    <3>2. Comes(s, w, s, FirstStep(w), Nothing)
      BY <1>2, <1>4, <1>7, <1>8, <2>1, <2>3, <3>1 DEF Comes
    <3> QED
      BY <3>2
  <2> QED
    BY <2>2, <2>3
<1> QED
  BY <1>9, <1>10, <1>11 DEF Begin

LEMMA RedeliverComes ==
  ASSUME IInv, Agreement, NEW s \in Slots, NEW t \in Slots, At(s, "unused"),
         \A u \in Slots : u < s => ~ At(u, "unused"), Redeliver(s, t)
  PROVE  Comes(s, op[t], t, "lock", place[t])
<1>1. /\ ~ Used(s) /\ (\A u \in Slots : u < s => Used(u)) /\ t < s /\ Used(t) /\ op[t] \in Wanted /\ id[t] = t
      /\ op \in [Slots -> Wanted \cup {Nothing}] /\ id \in [Slots -> Slots]
      /\ view \in [RemotePairs -> {"none", "asked", "yes", "refused"}]
      /\ t <= s /\ t # s /\ place[t] \in Rooms \cup {Nothing}
  BY SlotFacts DEF IInv, Shape, At, Used, Redeliver, Agreement, TypeOK
<1>2. /\ op' = [op EXCEPT ![s] = op[t]] /\ id' = [id EXCEPT ![s] = t] /\ pc' = [pc EXCEPT ![s] = "lock"]
      /\ UNCHANGED <<seen, followers, blocked, announced, upset, everBlocked, overtaken>> /\ view' = view
      /\ UNCHANGED <<following, pending, members, room, told, doubled, faults>> /\ inRoom' = inRoom
      /\ place' = [place EXCEPT ![s] = place[t]]
      /\ Kind(t) = "Follow" \/ (Kind(t) \in {"Accept", "Reject"} /\ Them(t) \in Guilds)
  BY DEF Redeliver, Go, tables, history, others, guilds, matrix
<1>3. Arrives(s, op[t], t, "lock")
  BY <1>1, <1>2 DEF Arrives
<1>4. Kind(t) = op[t].kind /\ Them(t) = op[t].them
  BY DEF Kind, Them
<1>5. Answers(t) => place[t] \in Slots /\ op[place[t]] = [op[t] EXCEPT !.kind = "joinguild"] /\ seen[place[t]]
  BY DEF Agreement, PlaceSound
<1> QED
  BY <1>1, <1>2, <1>3, <1>4, <1>5 DEF Comes, Inbound, Commands, Answers

\* What an arrival finds, and what it leaves alone.
LEMMA ComeFacts ==
  ASSUME IInv, Agreement, NEW s \in Slots, NEW w, NEW i, NEW p, NEW x, Comes(s, w, i, p, x)
  PROVE  /\ w \in Wanted /\ i \in Slots /\ ~ Used(s) /\ Used(s)' /\ op'[s] = w /\ pc'[s] = p /\ place'[s] = x /\ id'[s] = i
         /\ Kind(s)' = w.kind /\ Pair(s)' = <<w.me, w.them>> /\ User(s)' = OwnerOf[w.me]
         /\ IsRemote(s)' = (w.them \in Remotes) /\ IsLocal(s)' = (w.them \in Profiles) /\ Them(s)' = w.them
         /\ (Answers(s)' <=> w.kind \in {"Accept", "Reject"} /\ w.them \in Guilds) /\ (IsCommand(s)' <=> w.kind \in Commands)
         /\ \A t \in Slots : t # s =>
              /\ op'[t] = op[t] /\ pc'[t] = pc[t] /\ id'[t] = id[t] /\ place'[t] = place[t]
              /\ Kind(t)' = Kind(t) /\ Me(t)' = Me(t) /\ Them(t)' = Them(t) /\ Pair(t)' = Pair(t)
              /\ User(t)' = User(t) /\ IsRemote(t)' = IsRemote(t) /\ IsLocal(t)' = IsLocal(t)
              /\ Subject(t)' = Subject(t) /\ (Queued(t)' <=> Queued(t))
              /\ (Used(t)' <=> Used(t)) /\ (Answers(t)' <=> Answers(t)) /\ (IsCommand(t)' <=> IsCommand(t))
         /\ \A t \in Slots : (Used(t) => t # s /\ t < s) /\ id[t] \in Slots /\ (Used(t) => id[t] # s /\ Used(id[t]))
         /\ UNCHANGED <<seen, followers, blocked, announced, upset, everBlocked, overtaken,
                        following, pending, members, room, told, doubled, faults>>
<1>1. /\ w \in Wanted /\ i \in Slots /\ ~ Used(s) /\ p \in {"lock", "check", "left"}
      /\ op \in [Slots -> Wanted \cup {Nothing}] /\ id \in [Slots -> Slots] /\ pc \in [Slots -> PCs]
      /\ place \in [Slots -> Rooms \cup {Nothing}]
      /\ op' = [op EXCEPT ![s] = w] /\ id' = [id EXCEPT ![s] = i] /\ pc' = [pc EXCEPT ![s] = p]
      /\ place' = [place EXCEPT ![s] = x]
      /\ UNCHANGED <<seen, followers, blocked, announced, upset, everBlocked, overtaken,
                     following, pending, members, room, told, doubled, faults>>
  BY DEF Comes, Arrives, Agreement, TypeOK
<1>2. /\ op'[s] = w /\ pc'[s] = p /\ place'[s] = x /\ id'[s] = i
      /\ \A t \in Slots : t # s => op'[t] = op[t] /\ pc'[t] = pc[t] /\ id'[t] = id[t] /\ place'[t] = place[t]
  BY <1>1
<1>3. /\ Kind(s)' = w.kind /\ Pair(s)' = <<w.me, w.them>> /\ User(s)' = OwnerOf[w.me] /\ Them(s)' = w.them
      /\ IsRemote(s)' = (w.them \in Remotes) /\ IsLocal(s)' = (w.them \in Profiles) /\ Used(s)'
  BY <1>1, <1>2 DEF Kind, Pair, Me, Them, User, IsRemote, IsLocal, Used
<1>4. (Answers(s)' <=> w.kind \in {"Accept", "Reject"} /\ w.them \in Guilds) /\ (IsCommand(s)' <=> w.kind \in Commands)
  BY <1>3 DEF Answers, IsCommand
<1>5. ASSUME NEW t \in Slots, t # s
      PROVE  /\ Kind(t)' = Kind(t) /\ Me(t)' = Me(t) /\ Them(t)' = Them(t) /\ Pair(t)' = Pair(t)
             /\ User(t)' = User(t) /\ IsRemote(t)' = IsRemote(t) /\ IsLocal(t)' = IsLocal(t)
             /\ Subject(t)' = Subject(t) /\ (Queued(t)' <=> Queued(t))
             /\ (Used(t)' <=> Used(t)) /\ (Answers(t)' <=> Answers(t)) /\ (IsCommand(t)' <=> IsCommand(t))
  <2>1. op'[t] = op[t] /\ pc'[t] = pc[t]
    BY <1>2, <1>5
  <2>2. /\ Kind(t)' = Kind(t) /\ Me(t)' = Me(t) /\ Them(t)' = Them(t) /\ Pair(t)' = Pair(t)
        /\ User(t)' = User(t) /\ IsRemote(t)' = IsRemote(t) /\ IsLocal(t)' = IsLocal(t) /\ Leaver(t)' = Leaver(t)
    BY <2>1 DEF Kind, Me, Them, Pair, User, IsRemote, IsLocal, Leaver
  <2>3. Subject(t)' = Subject(t) /\ (Queued(t)' <=> Queued(t)) /\ (Used(t)' <=> Used(t))
    BY <2>1, <2>2 DEF Subject, Leaving, Queued, Used
  <2>4. (Answers(t)' <=> Answers(t)) /\ (IsCommand(t)' <=> IsCommand(t))
    BY <2>2, <2>3 DEF Answers, IsCommand
  <2> QED
    BY <2>2, <2>3, <2>4
<1>6. \A t \in Slots : Used(t) => t # s /\ t < s
  <2>1. \A t \in Slots : s < t /\ Used(t) => Used(s)
    BY DEF IInv, Shape
  <2> QED
    BY <1>1, <2>1, SlotFacts
<1>7. ASSUME NEW t \in Slots PROVE id[t] \in Slots /\ (Used(t) => id[t] # s /\ Used(id[t]))
  <2>1. id[t] \in Slots
    BY <1>1
  <2>2. ASSUME Used(t) PROVE id[t] # s /\ Used(id[t])
    <3>1. id[t] <= t
      BY <2>2 DEF IInv, CopiesSound
    <3>2. t < s /\ t \in Nat /\ s \in Nat /\ id[t] \in Nat
      BY <1>6, <2>1, <2>2, SlotFacts
    <3>3. id[t] < t \/ id[t] = t
      BY <3>1, <3>2
    <3>4. Used(id[t])
      BY <2>1, <2>2, <3>3 DEF IInv, Shape
    <3> QED
      BY <1>1, <3>4
  <2> QED
    BY <2>1, <2>2
<1> QED
  BY <1>1, <1>2, <1>3, <1>4, <1>5, <1>6, <1>7

LEMMA ComesTypes ==
  ASSUME IInv, Agreement, NEW s \in Slots, NEW w, NEW i, NEW p, NEW x, Comes(s, w, i, p, x), IInv'
  PROVE  TypeOK'
<1>1. op' \in [Slots -> Wanted \cup {Nothing}] /\ id' \in [Slots -> Slots] /\ pc' \in [Slots -> PCs] /\ seen' \in [Slots -> BOOLEAN]
      /\ view' \in [Locals \X Remotes -> {"none", "asked", "yes", "refused"}] /\ announced' \subseteq Slots
      /\ blocked' \subseteq everBlocked' /\ everBlocked' \subseteq Profiles \X Accounts
  BY DEF IInv, Shape, RemotePairs
<1>2. /\ place' \in [Slots -> Rooms \cup {Nothing}] /\ inRoom' \subseteq inRoom
      /\ UNCHANGED <<followers, upset, overtaken, following, pending, members, room, told, doubled, faults>>
  BY DEF Comes, Arrives, Agreement, TypeOK
<1> QED
  BY <1>1, <1>2 DEF TypeOK, Agreement

LEMMA ComesStations ==
  ASSUME IInv, Agreement, NEW s \in Slots, NEW w, NEW i, NEW p, NEW x, Comes(s, w, i, p, x)
  PROVE  StationsSound'
<1> SUFFICES ASSUME NEW t \in Slots, Used(t)' PROVE Stations(t)'
  BY DEF StationsSound
<1>1. CASE t = s
  <2>1a. pc'[s] = p /\ Kind(s)' = w.kind /\ w \in Wanted
    BY ComeFacts
  <2>1b. p \in {"lock", "check", "left"}
    BY DEF Comes, Arrives
  <2>1c. (p = "lock" <=> w.kind \in Inbound) /\ (p = "left" <=> w.kind = "leave")
    BY DEF Comes
  <2>1. pc'[s] = p /\ Kind(s)' = w.kind /\ w \in Wanted /\ p \in {"lock", "check", "left"} /\ (p = "lock" <=> w.kind \in Inbound)
        /\ (p = "left" <=> w.kind = "leave")
    BY <2>1a, <2>1b, <2>1c
  <2>2. w.kind \in Inbound \cup Commands
    BY <2>1, WantedFacts
  <2> QED
    BY <1>1, <2>1, <2>2 DEF Stations, OwnPCs, Inbound, Commands
<1>2. CASE t # s
  <2>1. /\ Kind(t)' = Kind(t) /\ Pair(t)' = Pair(t) /\ IsRemote(t)' = IsRemote(t) /\ IsLocal(t)' = IsLocal(t)
        /\ pc'[t] = pc[t] /\ everBlocked' = everBlocked /\ (Answers(t)' <=> Answers(t)) /\ Used(t)
    BY <1>2, ComeFacts
  <2>2. Stations(t)
    BY <2>1 DEF Agreement, StationsSound
  <2> QED
    BY <2>1, <2>2 DEF Stations
<1> QED
  BY <1>1, <1>2

LEMMA ComesOneAtATime ==
  ASSUME IInv, Agreement, NEW s \in Slots, NEW w, NEW i, NEW p, NEW x, Comes(s, w, i, p, x)
  PROVE  OneAtATime'
<1> SUFFICES ASSUME NEW t \in Slots, NEW u \in Slots, IsCommand(t)', IsCommand(u)', User(t)' = User(u)', t < u
             PROVE  /\ Queued(t)' \/ Queued(u)'
                    /\ Kind(t)' \in {"joinguild", "leaveguild"} => pc'[t] = "over"
  BY DEF OneAtATime
<1>1. \A v \in Slots : Used(v) => v < s
  BY ComeFacts
<1>2. t # s
  <2>1. t = s => Used(u)
    <3>1. t = s => u # s
      BY SlotFacts
    <3> QED
      BY <3>1, ComeFacts DEF IsCommand
  <2> QED
    BY <1>1, <2>1, SlotFacts
<1>3. IsCommand(t) /\ Kind(t)' = Kind(t) /\ pc'[t] = pc[t] /\ (Queued(t)' <=> Queued(t)) /\ User(t)' = User(t)
  BY <1>2, ComeFacts
<1>4. CASE u # s
  <2>1. IsCommand(u) /\ User(u)' = User(u) /\ (Queued(u)' <=> Queued(u))
    BY <1>4, ComeFacts
  <2> QED
    BY <1>3, <2>1 DEF Agreement, OneAtATime
<1>5. CASE u = s
  <2>1. w.kind \in Commands /\ User(t) = OwnerOf[w.me]
    BY <1>3, <1>5, ComeFacts
  <2>2. ~ Busy(OwnerOf[w.me])
    BY <2>1 DEF Comes
  <2>3. Queued(t)
    BY <1>3, <2>1, <2>2 DEF Busy, IsCommand
  <2>4. Stations(t)
    BY <1>3 DEF Agreement, StationsSound, IsCommand
  <2> QED
    BY <1>3, <2>3, <2>4 DEF Queued, Stations, IsCommand, Used
<1> QED
  BY <1>4, <1>5

LEMMA ComesPlaces ==
  ASSUME IInv, Agreement, NEW s \in Slots, NEW w, NEW i, NEW p, NEW x, Comes(s, w, i, p, x), IInv'
  PROVE  PlaceSound'
<1>1. /\ w \in Wanted /\ i \in Slots /\ ~ Used(s) /\ Used(s)' /\ op'[s] = w /\ pc'[s] = p /\ place'[s] = x /\ id'[s] = i
      /\ Kind(s)' = w.kind /\ Them(s)' = w.them
      /\ (Answers(s)' <=> w.kind \in {"Accept", "Reject"} /\ w.them \in Guilds)
      /\ \A t \in Slots : t # s =>
           /\ op'[t] = op[t] /\ pc'[t] = pc[t] /\ id'[t] = id[t] /\ place'[t] = place[t]
           /\ Kind(t)' = Kind(t) /\ Them(t)' = Them(t) /\ (Used(t)' <=> Used(t)) /\ (Answers(t)' <=> Answers(t))
      /\ \A t \in Slots : (Used(t) => t # s /\ t < s) /\ id[t] \in Slots /\ (Used(t) => id[t] # s /\ Used(id[t]))
      /\ seen' = seen /\ pending' = pending
  BY ComeFacts
<1>2. PlaceSound /\ RoomSound /\ Nothing \notin Slots /\ w \in Operation
      /\ place \in [Slots -> Rooms \cup {Nothing}] /\ inRoom \subseteq Users \X Rooms
  BY <1>1, BoundsAssumption DEF Agreement, TypeOK
<1>3. ASSUME NEW j \in Slots, x = j
      PROVE  Used(j) /\ Kind(j) \in {"follow", "joinguild"} /\ (Kind(j) = "joinguild" => Answers(s)')
  <2>1. CASE w.kind = "leave"
    <3>1. <<OwnerOf[w.me], j>> \in inRoom
      BY <1>3, <2>1 DEF Comes
    <3>2. OwnerOf[w.me] \in Users
      BY <1>2, <3>1
    <3>3. \E r \in Remotes : IsRoomOf(j, r)
      BY <1>2, <3>1, <3>2 DEF RoomSound
    <3> QED
      BY <3>3 DEF IsRoomOf
  <2>2. CASE Answers(s)'
    <3>1. op[j] = [w EXCEPT !.kind = "joinguild"] /\ seen[j]
      BY <1>1, <1>3, <2>2 DEF Comes
    <3>2. Used(j)
      BY <1>2, <3>1 DEF PlaceSound
    <3>3. Kind(j) = "joinguild"
      BY <1>2, <3>1 DEF Operation, Kind
    <3> QED
      BY <2>2, <3>2, <3>3
  <2>3. CASE w.kind # "leave" /\ ~ Answers(s)'
    <3>1. i # s /\ Used(i) /\ op[i] = w /\ place[i] = j /\ w.kind = "Follow"
      BY <1>1, <1>2, <1>3, <2>3 DEF Comes
    <3>2. ~ Answers(i)
      BY <3>1 DEF Answers, Kind
    <3> QED
      BY <1>1, <1>2, <3>1, <3>2 DEF PlaceSound
  <2> QED
    BY <2>1, <2>2, <2>3
<1>4. ASSUME NEW t \in Slots, ~ Used(t)'
      PROVE  op'[t] = Nothing /\ place'[t] = Nothing /\ ~ seen'[t] /\ t \notin pending'
  BY <1>1, <1>2, <1>4 DEF PlaceSound
<1>5. ASSUME NEW t \in Slots, NEW j \in Slots, place'[t] = j
      PROVE  Used(j)' /\ Kind(j)' \in {"follow", "joinguild"} /\ (Kind(j)' = "joinguild" => Answers(t)')
  <2>1. Used(j) /\ Kind(j) \in {"follow", "joinguild"} /\ (Kind(j) = "joinguild" => Answers(t)')
    <3>1. CASE t = s
      BY <1>1, <1>3, <1>5, <3>1
    <3>2. CASE t # s
      <4>1. place[t] = j /\ (Answers(t)' <=> Answers(t))
        BY <1>1, <1>5, <3>2
      <4> QED
        BY <1>2, <4>1 DEF PlaceSound
    <3> QED
      BY <3>1, <3>2
  <2> QED
    BY <1>1, <2>1
<1>6. ASSUME NEW t \in Slots, Used(t)', Kind(t)' = "follow" \/ (Kind(t)' = "Accept" /\ Them(t)' \notin Guilds)
      PROVE  place'[t] = Nothing
  <2>1. CASE t = s
    <3>1. w.kind = "follow" \/ (w.kind = "Accept" /\ w.them \notin Guilds)
      BY <1>1, <1>6, <2>1
    <3> QED
      BY <1>1, <2>1, <3>1 DEF Comes
  <2>2. CASE t # s
    <3>1. Used(t) /\ (Kind(t) = "follow" \/ (Kind(t) = "Accept" /\ Them(t) \notin Guilds)) /\ place'[t] = place[t]
      BY <1>1, <1>6, <2>2
    <3> QED
      BY <1>2, <3>1 DEF PlaceSound
  <2> QED
    BY <2>1, <2>2
<1>7. ASSUME NEW t \in Slots, Answers(t), t # s
      PROVE  /\ place[t] \in Slots /\ op[place[t]] = [op[t] EXCEPT !.kind = "joinguild"] /\ seen[place[t]] /\ place[t] # s
             /\ place[id[t]] = place[t] /\ op[id[t]] = op[t] /\ id[t] # s /\ id[t] \in Slots
             /\ \A u \in Slots : Answers(u) /\ place[u] = place[t] => id[u] = id[t]
  <2>1. /\ place[t] \in Slots /\ op[place[t]] = [op[t] EXCEPT !.kind = "joinguild"] /\ seen[place[t]]
        /\ place[id[t]] = place[t] /\ op[id[t]] = op[t]
        /\ \A u \in Slots : Answers(u) /\ place[u] = place[t] => id[u] = id[t]
    BY <1>2, <1>7 DEF PlaceSound
  <2>2. ~ seen[s]
    BY <1>1, <1>2 DEF PlaceSound
  <2> QED
    BY <1>1, <1>7, <2>1, <2>2 DEF Answers
<1>8. ASSUME Answers(s)'
      PROVE  /\ x \in Slots /\ op[x] = [w EXCEPT !.kind = "joinguild"] /\ seen[x] /\ x # s
             /\ i = s => \A u \in Slots : place[u] # x
             /\ i # s => Answers(i) /\ op[i] = w /\ place[i] = x /\ id[i] = i
  <2>1. ~ seen[s]
    BY <1>1, <1>2 DEF PlaceSound
  <2> QED
    BY <1>1, <1>8, <2>1 DEF Comes
<1>9. ASSUME NEW t \in Slots, Answers(t)'
      PROVE  /\ place'[t] \in Slots /\ op'[place'[t]] = [op'[t] EXCEPT !.kind = "joinguild"]
             /\ seen'[place'[t]]
             /\ place'[id'[t]] = place'[t] /\ op'[id'[t]] = op'[t]
             /\ \A u \in Slots : Answers(u)' /\ place'[u] = place'[t] => id'[u] = id'[t]
  <2>1. CASE t = s
    <3>1. place'[s] \in Slots /\ op'[place'[s]] = [op'[s] EXCEPT !.kind = "joinguild"] /\ seen'[place'[s]]
      BY <1>1, <1>8, <1>9, <2>1
    <3>2. place'[id'[s]] = place'[s] /\ op'[id'[s]] = op'[s]
      BY <1>1, <1>8, <1>9, <2>1
    <3>3. ASSUME NEW u \in Slots, Answers(u)', place'[u] = place'[s] PROVE id'[u] = id'[s]
      <4>1. CASE u = s
        BY <4>1
      <4>2. CASE u # s
        <5>1. Answers(u) /\ place[u] = x /\ id'[u] = id[u]
          BY <1>1, <3>3, <4>2
        <5>2. i # s /\ Answers(i) /\ place[i] = x /\ id[i] = i
          BY <1>8, <1>9, <2>1, <5>1
        <5>3. \A v \in Slots : Answers(v) /\ place[v] = place[u] => id[v] = id[u]
          BY <1>7, <4>2, <5>1
        <5>4. id[u] = id[i]
          BY <1>1, <5>1, <5>2, <5>3
        <5> QED
          BY <1>1, <5>1, <5>2, <5>4
      <4> QED
        BY <4>1, <4>2
    <3> QED
      BY <2>1, <3>1, <3>2, <3>3
  <2>2. CASE t # s
    <3>1. Answers(t) /\ place'[t] = place[t] /\ op'[t] = op[t] /\ id'[t] = id[t]
      BY <1>1, <1>9, <2>2
    <3>2. /\ place[t] \in Slots /\ op[place[t]] = [op[t] EXCEPT !.kind = "joinguild"] /\ seen[place[t]] /\ place[t] # s
          /\ place[id[t]] = place[t] /\ op[id[t]] = op[t] /\ id[t] # s /\ id[t] \in Slots
          /\ \A u \in Slots : Answers(u) /\ place[u] = place[t] => id[u] = id[t]
      BY <1>7, <2>2, <3>1
    <3>3. ASSUME NEW u \in Slots, Answers(u)', place'[u] = place'[t] PROVE id'[u] = id'[t]
      <4>1. CASE u = s
        <5>1. i # s /\ Answers(i) /\ place[i] = x /\ id[i] = i
          BY <1>1, <1>8, <3>1, <3>3, <4>1
        <5>2. id[i] = id[t]
          BY <1>1, <3>1, <3>2, <3>3, <4>1, <5>1
        <5> QED
          BY <1>1, <3>1, <4>1, <5>1, <5>2
      <4>2. CASE u # s
        BY <1>1, <3>1, <3>2, <3>3, <4>2
      <4> QED
        BY <4>1, <4>2
    <3>4. place'[id'[t]] = place'[t] /\ op'[id'[t]] = op'[t]
      BY <1>1, <3>1, <3>2
    <3>5. place'[t] \in Slots /\ op'[place'[t]] = [op'[t] EXCEPT !.kind = "joinguild"] /\ seen'[place'[t]]
      BY <1>1, <3>1, <3>2
    <3> QED
      BY <3>3, <3>4, <3>5
  <2> QED
    BY <2>1, <2>2
<1> QED
  BY <1>4, <1>5, <1>6, <1>9 DEF PlaceSound

LEMMA ComesRooms ==
  ASSUME IInv, Agreement, NEW s \in Slots, NEW w, NEW i, NEW p, NEW x, Comes(s, w, i, p, x)
  PROVE  RoomSound' /\ InSound'
<1>1. /\ w \in Wanted /\ ~ Used(s) /\ pc'[s] = p /\ place'[s] = x /\ p \in {"lock", "check", "left"}
      /\ Them(s)' = w.them /\ User(s)' = OwnerOf[w.me]
      /\ \A t \in Slots : t # s =>
           /\ pc'[t] = pc[t] /\ Kind(t)' = Kind(t) /\ Them(t)' = Them(t) /\ User(t)' = User(t) /\ place'[t] = place[t]
           /\ IsRemote(t)' = IsRemote(t) /\ (Used(t)' <=> Used(t)) /\ Subject(t)' = Subject(t)
      /\ \A t \in Slots : Used(t) => t # s
      /\ UNCHANGED <<room, told, doubled, upset>> /\ inRoom' \subseteq inRoom
  <2>1. p \in {"lock", "check", "left"} /\ inRoom' \subseteq inRoom
    BY DEF Comes, Arrives
  <2>2. UNCHANGED <<room, told, doubled, upset>>
    BY ComeFacts
  <2>3. \A t \in Slots : t # s =>
           /\ pc'[t] = pc[t] /\ Kind(t)' = Kind(t) /\ Them(t)' = Them(t) /\ User(t)' = User(t) /\ place'[t] = place[t]
           /\ IsRemote(t)' = IsRemote(t) /\ (Used(t)' <=> Used(t)) /\ Subject(t)' = Subject(t)
    BY ComeFacts
  <2> QED
    BY <2>1, <2>2, <2>3, ComeFacts
<1>2. RoomSound /\ InSound /\ Nothing \notin Rooms /\ room \in [Remotes -> Slots \cup {Nothing}] /\ Slots \cap Profiles = {}
  BY BoundsAssumption DEF Agreement, TypeOK, Rooms
<1>3. ASSUME NEW y \in Slots, NEW r, IsRoomOf(y, r) PROVE IsRoomOf(y, r)'
  BY <1>1, <1>3 DEF IsRoomOf
<1>4. ASSUME NEW e \in inRoom, e \notin inRoom'
      PROVE  /\ w.kind = "leave" /\ e = <<OwnerOf[w.me], x>> /\ p = "left" /\ AccountOf(x) = w.them /\ x \in Rooms
             /\ ~ Busy(OwnerOf[w.me])
  BY <1>4 DEF Comes, Commands
<1>5. ASSUME NEW t \in Slots, pc'[t] = "tell", IsRemote(t)'
      PROVE  room'[Them(t)'] # Nothing /\ (Them(t)' \notin doubled' => <<User(t)', room'[Them(t)']>> \in inRoom')
  <2>1. t # s
    BY <1>1, <1>5
  <2>2. /\ pc[t] = "tell" /\ room[Them(t)] # Nothing /\ (Them(t) \notin doubled => <<User(t), room[Them(t)]>> \in inRoom)
        /\ Used(t)
    BY <1>1, <1>2, <1>5, <2>1 DEF RoomSound, Used
  <2>3. ASSUME <<User(t), room[Them(t)]>> \in inRoom, <<User(t), room[Them(t)]>> \notin inRoom' PROVE FALSE
    <3>1. User(t) = OwnerOf[w.me] /\ ~ Busy(OwnerOf[w.me])
      BY <1>4, <2>3
    <3>2. Stations(t)
      BY <2>2 DEF Agreement, StationsSound
    <3> QED
      BY <2>2, <3>1, <3>2 DEF Stations, Busy, Queued, Commands
  <2> QED
    BY <1>1, <2>1, <2>2, <2>3
<1>6. RoomSound'
  <2>1. \A r \in Remotes, y \in Slots : room'[r] = y => IsRoomOf(y, r)'
    BY <1>1, <1>2, <1>3 DEF RoomSound
  <2>2. \A u \in Users, y \in Slots : <<u, y>> \in inRoom' => \E r \in Remotes : IsRoomOf(y, r)'
    BY <1>1, <1>2, <1>3 DEF RoomSound
  <2>3. \A q \in Profiles \X Remotes : told'[q] = "follow" => room'[q[2]] # Nothing
    BY <1>1, <1>2 DEF RoomSound
  <2>4. \A t \in Slots : pc'[t] = "tell" /\ IsRemote(t)' =>
          room'[Them(t)'] # Nothing /\ (Them(t)' \notin doubled' => <<User(t)', room'[Them(t)']>> \in inRoom')
    BY <1>5
  <2> QED
    BY <2>1, <2>2, <2>3, <2>4 DEF RoomSound
<1>7. InSound'
  <2> SUFFICES ASSUME NEW u \in Users, NEW r \in Remotes, r \notin doubled',
                      <<OldestOf[u], r>> \notin upset', told'[<<OldestOf[u], r>>] = "follow"
               PROVE  <<u, room'[r]>> \in inRoom' \/ LeftQueued(u, r)' \/ Undoing(<<OldestOf[u], r>>)'
    BY DEF InSound
  <2>1. <<u, room[r]>> \in inRoom \/ LeftQueued(u, r) \/ Undoing(<<OldestOf[u], r>>)
    BY <1>1, <1>2 DEF InSound
  <2>2. CASE LeftQueued(u, r)
    <3>1. PICK t \in Slots : pc[t] = "left" /\ User(t) = u /\ Them(t) = r /\ place[t] = room[r]
      BY <2>2 DEF LeftQueued
    <3>2. t # s
      BY <1>1, <3>1 DEF Used
    <3> QED
      BY <1>1, <3>1, <3>2 DEF LeftQueued
  <2>3. CASE Undoing(<<OldestOf[u], r>>)
    <3>1. PICK t \in Slots : pc[t] \in {"undo", "leaveUndo"} /\ Subject(t) = <<OldestOf[u], r>>
      BY <2>3 DEF Undoing
    <3>2. t # s
      BY <1>1, <3>1 DEF Used
    <3> QED
      BY <1>1, <3>1, <3>2 DEF Undoing
  <2>4. CASE <<u, room[r]>> \in inRoom /\ <<u, room[r]>> \notin inRoom'
    <3>1. u = OwnerOf[w.me] /\ x = room[r] /\ p = "left" /\ AccountOf(x) = w.them /\ x \in Rooms
      BY <1>4, <2>4
    <3>2. x \in Slots /\ x \notin Profiles
      BY <1>2, <3>1
    <3>3. IsRoomOf(x, r)
      BY <1>2, <3>1, <3>2 DEF RoomSound
    <3>4. w.them = r
      BY <3>1, <3>2, <3>3 DEF AccountOf, IsRoomOf, Them
    <3>5. LeftQueued(u, r)'
      BY <1>1, <3>1, <3>4 DEF LeftQueued
    <3> QED
      BY <3>5
  <2> QED
    BY <1>1, <2>1, <2>2, <2>3, <2>4
<1> QED
  BY <1>6, <1>7

LEMMA ComesAside ==
  ASSUME IInv, Agreement, NEW s \in Slots, NEW w, NEW i, NEW p, NEW x, Comes(s, w, i, p, x)
  PROVE  SidesSound' /\ ToldSound' /\ PendingSound' /\ MembersSound'
<1>1. /\ ~ Used(s) /\ pc[s] = "unused" /\ pc'[s] = p /\ p \in {"lock", "check", "left"} /\ Kind(s)' = w.kind /\ id'[s] = i
      /\ (Answers(s)' => p = "lock")
      /\ \A t \in Slots : t # s =>
           /\ pc'[t] = pc[t] /\ Kind(t)' = Kind(t) /\ Pair(t)' = Pair(t) /\ place'[t] = place[t] /\ id'[t] = id[t]
           /\ Subject(t)' = Subject(t) /\ (Used(t)' <=> Used(t)) /\ (Answers(t)' <=> Answers(t))
      /\ \A t \in Slots : Used(t) => t # s
      /\ UNCHANGED <<seen, followers, following, everBlocked, pending, members, told, upset>>
  <2>1. Answers(s)' => p = "lock"
    BY ComeFacts DEF Comes, Inbound
  <2>2. p \in {"lock", "check", "left"}
    BY DEF Comes, Arrives
  <2>3. pc[s] = "unused"
    BY ComeFacts DEF Used
  <2>4. \A t \in Slots : t # s =>
           /\ pc'[t] = pc[t] /\ Kind(t)' = Kind(t) /\ Pair(t)' = Pair(t) /\ place'[t] = place[t] /\ id'[t] = id[t]
           /\ Subject(t)' = Subject(t) /\ (Used(t)' <=> Used(t)) /\ (Answers(t)' <=> Answers(t))
    BY ComeFacts
  <2>5. UNCHANGED <<seen, followers, following, everBlocked, pending, members, told, upset>>
    BY ComeFacts
  <2> QED
    BY <2>1, <2>2, <2>3, <2>4, <2>5, ComeFacts
<1>2. ~ seen[s] /\ s \notin pending
  BY <1>1 DEF Agreement, PlaceSound
<1>3. \A q : (Halfway(q)' <=> Halfway(q)) /\ (Recording(q)' <=> Recording(q)) /\ (Undoing(q)' <=> Undoing(q))
  BY <1>1 DEF Halfway, Recording, Undoing, HalfPCs
<1>4. SidesSound'
  <2>1. \A t \in Slots : \A q : pc'[t] \in HalfPCs /\ Subject(t)' = q => pc[t] \in HalfPCs /\ Subject(t) = q /\ pc'[t] = pc[t]
    BY <1>1 DEF HalfPCs
  <2> QED
    BY <1>1, <1>3, <2>1 DEF Agreement, SidesSound
<1>5. ToldSound'
  BY <1>1, <1>3 DEF Agreement, ToldSound
<1>6. PendingSound'
  <2> SUFFICES ASSUME NEW j \in Slots, Used(j)', Kind(j)' = "joinguild", Pair(j)' \notin upset'
      PROVE  /\ pc'[j] \in {"check", "ask", "note", "send"} => ~ seen'[j]
             /\ j \in pending' <=> \/ pc'[j] = "send"
                                   \/ seen'[j] /\ \A t \in Slots : Answers(t)' /\ place'[t] = j => pc'[t] # "over"
    BY DEF PendingSound
  <2>1. CASE j = s
    BY <1>1, <1>2, <2>1
  <2>2. CASE j # s
    <3>1. /\ pc[j] \in {"check", "ask", "note", "send"} => ~ seen[j]
          /\ j \in pending <=> pc[j] = "send" \/ (seen[j] /\ \A t \in Slots : Answers(t) /\ place[t] = j => pc[t] # "over")
      BY <1>1, <2>2 DEF Agreement, PendingSound
    <3>2. (\A t \in Slots : Answers(t) /\ place[t] = j => pc[t] # "over") <=> \A t \in Slots : Answers(t)' /\ place'[t] = j => pc'[t] # "over"
      <4>1. ~ Answers(s)
        BY <1>1 DEF Answers
      <4>2. Answers(s)' => pc'[s] # "over"
        BY <1>1
      <4> QED
        BY <1>1, <4>1, <4>2
    <3> QED
      BY <1>1, <2>2, <3>1, <3>2
  <2> QED
    BY <2>1, <2>2
<1>7. MembersSound'
  <2> SUFFICES ASSUME NEW q \in Profiles \X Guilds, q \notin upset'
      PROVE  /\ q \in members' <=> \E t \in Slots : Past(t)' /\ Pair(t)' = q /\ Counts(t)'
             /\ q \in following' => \E t \in Slots : Answers(t)' /\ Kind(t)' = "Accept" /\ Pair(t)' = q /\ id'[t] # t
    BY DEF MembersSound
  <2>1. /\ q \in members <=> \E t \in Slots : Past(t) /\ Pair(t) = q /\ Counts(t)
        /\ q \in following => \E t \in Slots : Answers(t) /\ Kind(t) = "Accept" /\ Pair(t) = q /\ id[t] # t
    BY <1>1 DEF Agreement, MembersSound
  <2>2. ~ Past(s) /\ ~ Past(s)' /\ ~ Answers(s)
    BY <1>1 DEF Past, Answers
  <2>3. \A t \in Slots : t # s => (Past(t)' <=> Past(t)) /\ (Counts(t)' <=> Counts(t))
    <3>1. \A t \in Slots : t # s => (Past(t)' <=> Past(t))
      BY <1>1 DEF Past
    <3>2. ASSUME NEW t \in Slots, t # s PROVE Counts(t)' <=> Counts(t)
      <4>1. \A l \in Slots : /\ (Used(l)' /\ Kind(l)' = "leaveguild" /\ Pair(l)' = Pair(t)' /\ seen'[l])
                                <=> (Used(l) /\ Kind(l) = "leaveguild" /\ Pair(l) = Pair(t) /\ seen[l])
        BY <1>1, <1>2, <3>2
      <4> QED
        BY <1>1, <3>2, <4>1 DEF Counts
    <3> QED
      BY <3>1, <3>2
  <2> QED
    BY <1>1, <2>1, <2>2, <2>3
<1> QED
  BY <1>4, <1>5, <1>6, <1>7

LEMMA ComesAgree ==
  ASSUME IInv, Agreement, NEW s \in Slots, NEW w, NEW i, NEW p, NEW x, Comes(s, w, i, p, x), IInv'
  PROVE  Agreement'
BY ComesTypes, ComesStations, ComesOneAtATime, ComesPlaces, ComesRooms, ComesAside DEF Agreement

-----------------------------------------------------------------------------
(* A restart, the second part. *)

LEMMA RestartFacts ==
  ASSUME IInv, Agreement, Restart
  PROVE  /\ UNCHANGED <<op, id, seen, place, followers, following, blocked, pending, members, room, inRoom, told, view,
                        announced, everBlocked, overtaken, doubled>>
         /\ upset \subseteq upset' /\ upset' \subseteq Locals \X Accounts /\ faults' \in 0..MaxFaults /\ pc' \in [Slots -> PCs]
         /\ \A t : Kind(t)' = Kind(t) /\ Me(t)' = Me(t) /\ Them(t)' = Them(t) /\ Pair(t)' = Pair(t)
         /\ \A t : User(t)' = User(t) /\ IsRemote(t)' = IsRemote(t) /\ IsLocal(t)' = IsLocal(t)
         /\ \A t \in Slots : (Used(t)' <=> Used(t)) /\ (Answers(t)' <=> Answers(t)) /\ (IsCommand(t)' <=> IsCommand(t))
                             /\ (Queued(t) => pc'[t] = pc[t] /\ Queued(t)')
         /\ \A t \in Slots : Running(t) /\ pc[t] # "left" => Subject(t) \in upset'
         /\ \A t \in Slots : \/ pc'[t] = pc[t] /\ (~ Running(t) \/ pc[t] = "left")
                             \/ Running(t) /\ pc[t] # "left" /\ pc'[t] = "over"
                             \/ /\ Running(t) /\ pc'[t] = "check" /\ ~ Leaving(t)
                                /\ Kind(t) \in Commands \ {"joinguild", "leave"}
<1>0. pc \in [Slots -> PCs] /\ upset \subseteq Locals \X Accounts /\ MaxFaults \in Nat /\ faults \in 0..MaxFaults
  BY BoundsAssumption DEF Agreement, TypeOK
<1>1. /\ UNCHANGED <<op, id, seen, place, followers, following, blocked, pending, members, room, inRoom, told, view,
                     announced, everBlocked, overtaken, doubled>>
      /\ faults' \in 0..MaxFaults
  BY <1>0 DEF Restart, tables, others, guilds, matrix
<1>2. /\ \A t : Kind(t)' = Kind(t) /\ Me(t)' = Me(t) /\ Them(t)' = Them(t) /\ Pair(t)' = Pair(t)
      /\ \A t : User(t)' = User(t) /\ IsRemote(t)' = IsRemote(t) /\ IsLocal(t)' = IsLocal(t)
  BY <1>1 DEF Kind, Pair, Me, Them, User, IsRemote, IsLocal
<1>3. upset' = upset \cup {Subject(t) : t \in {v \in Slots : Running(v) /\ pc[v] # "left"}}
  BY DEF Restart, At
<1>4. PICK again \in SUBSET {t \in Slots : Running(t) /\ pc[t] # "left" /\ Kind(t) \in Commands \ {"joinguild"} /\ ~ Leaving(t)} :
          pc' = [t \in Slots |-> IF t \in again THEN "check"
                                 ELSE IF Running(t) /\ pc[t] # "left" THEN "over" ELSE pc[t]]
  <2> DEFINE cutOff == {t \in Slots : Running(t) /\ ~At(t, "left")}
  <2>1. PICK again \in SUBSET {t \in cutOff : Kind(t) \in Commands \ {"joinguild"} /\ ~Leaving(t)} :
          pc' = [t \in Slots |-> IF t \in again THEN "check" ELSE IF t \in cutOff THEN "over" ELSE pc[t]]
    BY DEF Restart
  <2>2. again \in SUBSET {t \in Slots : Running(t) /\ pc[t] # "left" /\ Kind(t) \in Commands \ {"joinguild"} /\ ~ Leaving(t)}
    BY <2>1 DEF At
  <2>3. pc' = [t \in Slots |-> IF t \in again THEN "check"
                               ELSE IF Running(t) /\ pc[t] # "left" THEN "over" ELSE pc[t]]
    BY <2>1 DEF At
  <2> QED
    BY <2>2, <2>3
<1>5. ASSUME NEW t \in Slots, Running(t), Kind(t) = "leave" PROVE Leaving(t)
  <2>1. Stations(t) /\ pc[t] \in PCs /\ pc[t] \notin {"unused", "over"}
    BY <1>0, <1>5 DEF Agreement, StationsSound, Running, Used
  <2> QED
    BY <1>5, <2>1 DEF Stations, PCs, OwnPCs, Leaving, Inbound, Commands, Ending, Answers
<1>6. \A t \in Slots : \/ pc'[t] = pc[t] /\ (~ Running(t) \/ pc[t] = "left")
                       \/ Running(t) /\ pc[t] # "left" /\ pc'[t] = "over"
                       \/ /\ Running(t) /\ pc'[t] = "check" /\ ~ Leaving(t)
                          /\ Kind(t) \in Commands \ {"joinguild", "leave"}
  BY <1>4, <1>5
<1>7. pc' \in [Slots -> PCs]
  BY <1>0, <1>4 DEF PCs
<1>8. \A t \in Slots : Running(t) /\ pc[t] # "left" => Subject(t) \in upset'
  BY <1>3
<1>9. upset' \subseteq Locals \X Accounts
  <2>1. ASSUME NEW t \in Slots, Running(t) PROVE Subject(t) \in Locals \X Accounts
    <3>1. op[t] \in Wanted /\ Stations(t)
      BY <2>1 DEF Running, Used, IInv, Shape, Agreement, StationsSound
    <3>2. Kind(t) \in {"Follow", "Undo", "Block"} => ~ Leaving(t)
      BY <3>1 DEF Stations, Leaving
    <3>3. \A a \in Profiles : a \in Locals
      BY DEF Locals
    <3> QED
      BY <3>1, <3>2, <3>3, SubjectFacts
  <2> QED
    BY <1>0, <1>3, <2>1
<1>10. \A t \in Slots : (Used(t)' <=> Used(t)) /\ (Queued(t) => pc'[t] = pc[t] /\ Queued(t)')
  <2> SUFFICES ASSUME NEW t \in Slots PROVE (Used(t)' <=> Used(t)) /\ (Queued(t) => pc'[t] = pc[t] /\ Queued(t)')
    OBVIOUS
  <2>1. \/ pc'[t] = pc[t] /\ (~ Running(t) \/ pc[t] = "left")
        \/ Running(t) /\ pc[t] # "left" /\ pc'[t] = "over"
        \/ Running(t) /\ pc'[t] = "check" /\ ~ Leaving(t)
    BY <1>6
  <2>2. Used(t)' <=> Used(t)
    BY <2>1 DEF Used, Running
  <2>3. Queued(t) => pc'[t] = pc[t] /\ Queued(t)'
    BY <2>1 DEF Queued, Running, Leaving
  <2> QED
    BY <2>2, <2>3
<1>11. \A t \in Slots : (Answers(t)' <=> Answers(t)) /\ (IsCommand(t)' <=> IsCommand(t))
  BY <1>2, <1>10 DEF Answers, IsCommand
<1> QED
  BY <1>1, <1>2, <1>3, <1>6, <1>7, <1>8, <1>9, <1>10, <1>11

LEMMA RestartStands ==
  ASSUME IInv, Agreement, Restart, IInv'
  PROVE  TypeOK' /\ StationsSound' /\ OneAtATime' /\ PlaceSound' /\ RoomSound'
<1>1. TypeOK'
  <2>1. /\ op' = op /\ id' = id /\ seen' = seen /\ place' = place /\ followers' = followers /\ following' = following
        /\ blocked' = blocked /\ pending' = pending /\ members' = members /\ room' = room /\ inRoom' = inRoom
        /\ told' = told /\ view' = view /\ announced' = announced /\ everBlocked' = everBlocked
        /\ overtaken' = overtaken /\ doubled' = doubled
    BY RestartFacts
  <2>2. upset' \subseteq Locals \X Accounts /\ faults' \in 0..MaxFaults /\ pc' \in [Slots -> PCs]
    BY RestartFacts
  <2> QED
    BY <2>1, <2>2 DEF TypeOK, Agreement
<1>2. StationsSound'
  <2> SUFFICES ASSUME NEW t \in Slots, Used(t)' PROVE Stations(t)'
    BY DEF StationsSound
  <2>1. /\ Kind(t)' = Kind(t) /\ Pair(t)' = Pair(t) /\ IsRemote(t)' = IsRemote(t) /\ IsLocal(t)' = IsLocal(t)
        /\ everBlocked' = everBlocked /\ (Answers(t)' <=> Answers(t)) /\ Used(t)
    BY RestartFacts
  <2>2. \/ pc'[t] = pc[t] \/ pc'[t] = "over"
        \/ pc'[t] = "check" /\ Kind(t) \in Commands \ {"joinguild", "leave"}
    BY RestartFacts
  <2>3. Stations(t)
    BY <2>1 DEF Agreement, StationsSound
  <2> QED
    BY <2>1, <2>2, <2>3 DEF Stations, OwnPCs, Commands
<1>3. OneAtATime'
  <2> SUFFICES ASSUME NEW t \in Slots, NEW u \in Slots, IsCommand(t)', IsCommand(u)', User(t)' = User(u)', t < u
               PROVE  /\ Queued(t)' \/ Queued(u)'
                      /\ Kind(t)' \in {"joinguild", "leaveguild"} => pc'[t] = "over"
    BY DEF OneAtATime
  <2>1. IsCommand(t) /\ IsCommand(u) /\ User(t) = User(u) /\ Kind(t)' = Kind(t)
    BY RestartFacts
  <2>2. (Queued(t) => Queued(t)') /\ (Queued(u) => Queued(u)') /\ (pc[t] = "over" => pc'[t] = "over")
    BY RestartFacts DEF Queued
  <2> QED
    BY <2>1, <2>2 DEF Agreement, OneAtATime
<1>4. PlaceSound'
  <2>1. /\ op' = op /\ id' = id /\ seen' = seen /\ place' = place /\ pending' = pending
        /\ \A t : Kind(t)' = Kind(t) /\ Them(t)' = Them(t)
        /\ \A t \in Slots : (Used(t)' <=> Used(t)) /\ (Answers(t)' <=> Answers(t))
    BY RestartFacts
  <2>2. PlaceSound
    BY DEF Agreement
  <2> QED
    BY <2>1, <2>2 DEF PlaceSound
<1>5. RoomSound'
  <2>1. room' = room /\ inRoom' = inRoom /\ told' = told /\ RoomSound
    BY RestartFacts DEF Agreement
  <2>2. ASSUME NEW y \in Slots, NEW r PROVE IsRoomOf(y, r)' <=> IsRoomOf(y, r)
    <3>1. Kind(y)' = Kind(y) /\ Them(y)' = Them(y) /\ (Used(y)' <=> Used(y))
      BY RestartFacts
    <3> QED
      BY <3>1 DEF IsRoomOf
  <2>3. \A t \in Slots : pc'[t] # "tell"
    BY RestartFacts DEF Running
  <2> QED
    BY <2>1, <2>2, <2>3 DEF RoomSound
<1> QED
  BY <1>1, <1>2, <1>3, <1>4, <1>5

LEMMA RestartAgrees ==
  ASSUME IInv, Agreement, Restart
  PROVE  SidesSound' /\ ToldSound' /\ InSound' /\ PendingSound' /\ MembersSound'
<1>1. /\ op' = op /\ id' = id /\ seen' = seen /\ place' = place /\ followers' = followers /\ following' = following
      /\ pending' = pending /\ members' = members /\ room' = room /\ inRoom' = inRoom
      /\ told' = told /\ everBlocked' = everBlocked /\ doubled' = doubled /\ upset \subseteq upset'
      /\ \A t : Kind(t)' = Kind(t) /\ Them(t)' = Them(t) /\ Pair(t)' = Pair(t) /\ User(t)' = User(t)
      /\ \A t \in Slots : (Used(t)' <=> Used(t)) /\ (Answers(t)' <=> Answers(t))
  BY RestartFacts
<1>2. \A t \in Slots : \/ pc'[t] = pc[t] /\ (~ Running(t) \/ pc[t] = "left")
                       \/ pc'[t] \in {"over", "check"}
  BY RestartFacts
<1>3. \A t \in Slots : Running(t) /\ pc[t] # "left" => Subject(t) \in upset'
  BY RestartFacts
<1>4. ASSUME NEW q, q \notin upset' PROVE ~ Halfway(q) /\ ~ Recording(q) /\ ~ Undoing(q)
  BY <1>3, <1>4 DEF Halfway, Recording, Undoing, HalfPCs, Running, Subject, Leaving
<1>5. \A q : ~ Recording(q)' /\ ~ Undoing(q)'
  BY <1>2 DEF Recording, Undoing, Running
<1>6. \A t \in Slots : pc'[t] \notin HalfPCs
  BY <1>2 DEF HalfPCs, Running
<1>7. SidesSound'
  BY <1>1, <1>4, <1>6 DEF Agreement, SidesSound
<1>8. ToldSound'
  BY <1>1, <1>4, <1>5 DEF Agreement, ToldSound
<1>9. InSound'
  <2>1. ASSUME NEW u, NEW r, LeftQueued(u, r) PROVE LeftQueued(u, r)'
    <3>1. PICK t \in Slots : pc[t] = "left" /\ User(t) = u /\ Them(t) = r /\ place[t] = room[r]
      BY <2>1 DEF LeftQueued
    <3>2. pc'[t] = "left"
      BY <3>1, RestartFacts DEF Queued
    <3> QED
      BY <1>1, <3>1, <3>2 DEF LeftQueued
  <2> QED
    BY <1>1, <1>4, <2>1 DEF Agreement, InSound
<1>10. ASSUME NEW t \in Slots, Used(t), Kind(t) \in {"joinguild", "Accept", "Reject"}, Pair(t) \notin upset'
       PROVE  pc'[t] = pc[t] /\ pc[t] = "over"
  <2>1. Stations(t)
    BY <1>10 DEF Agreement, StationsSound
  <2>2. ~ Leaving(t)
    BY <1>10, <2>1 DEF Stations, Leaving
  <2>3. ~ Running(t)
    BY <1>3, <1>10, <2>2 DEF Subject, Leaving
  <2>4. pc[t] = "over"
    BY <1>10, <2>3 DEF Running, Used
  <2> QED
    BY <2>4, RestartFacts DEF Queued
<1>11. PendingSound'
  <2> SUFFICES ASSUME NEW j \in Slots, Used(j), Kind(j) = "joinguild", Pair(j) \notin upset'
      PROVE  /\ pc'[j] \in {"check", "ask", "note", "send"} => ~ seen'[j]
             /\ j \in pending' <=> \/ pc'[j] = "send"
                                   \/ seen'[j] /\ \A t \in Slots : Answers(t)' /\ place'[t] = j => pc'[t] # "over"
    BY <1>1 DEF PendingSound
  <2>1. pc'[j] = "over" /\ pc[j] = "over"
    BY <1>10
  <2>2. ASSUME NEW t \in Slots, Answers(t), place[t] = j PROVE pc'[t] = pc[t]
    <3>1. op[place[t]] = [op[t] EXCEPT !.kind = "joinguild"]
      BY <2>2 DEF Agreement, PlaceSound
    <3>2. op[t] \in Operation
      BY <2>2, BoundsAssumption DEF Answers, IInv, Shape
    <3>3. Pair(j) = Pair(t)
      BY <2>2, <3>1, <3>2 DEF Operation, Pair, Me, Them
    <3> QED
      BY <1>10, <2>2, <3>3 DEF Answers
  <2>3. j \in pending <=> pc[j] = "send" \/ (seen[j] /\ \A t \in Slots : Answers(t) /\ place[t] = j => pc[t] # "over")
    BY <1>1 DEF Agreement, PendingSound
  <2> QED
    BY <1>1, <2>1, <2>2, <2>3
<1>12. MembersSound'
  <2> SUFFICES ASSUME NEW q \in Profiles \X Guilds, q \notin upset'
      PROVE  /\ q \in members' <=> \E t \in Slots : Past(t)' /\ Pair(t)' = q /\ Counts(t)'
             /\ q \in following' => \E t \in Slots : Answers(t)' /\ Kind(t)' = "Accept" /\ Pair(t)' = q /\ id'[t] # t
    BY DEF MembersSound
  <2>1. /\ q \in members <=> \E t \in Slots : Past(t) /\ Pair(t) = q /\ Counts(t)
        /\ q \in following => \E t \in Slots : Answers(t) /\ Kind(t) = "Accept" /\ Pair(t) = q /\ id[t] # t
    BY <1>1 DEF Agreement, MembersSound
  <2>2. \A t \in Slots : Counts(t)' <=> Counts(t)
    BY <1>1 DEF Counts
  <2>3. \A t \in Slots : Pair(t) = q => (Past(t)' <=> Past(t))
    BY <1>1, <1>10 DEF Past, Answers
  <2> QED
    BY <1>1, <2>1, <2>2, <2>3
<1> QED
  BY <1>7, <1>8, <1>9, <1>11, <1>12

LEMMA InitAgreement == Init => Agreement
<1> SUFFICES ASSUME Init PROVE Agreement
  OBVIOUS
<1>1. \A s \in Slots : pc[s] = "unused" /\ ~ Used(s) /\ ~ Answers(s) /\ ~ Past(s)
  BY DEF Init, Used, Answers, Past
<1>2. TypeOK
  BY BoundsAssumption DEF Init, TypeOK, PCs
<1>3. StationsSound /\ OneAtATime
  BY <1>1 DEF StationsSound, OneAtATime, IsCommand
<1>4. PlaceSound
  BY <1>1, BoundsAssumption DEF Init, PlaceSound
<1>5. RoomSound
  BY <1>1, BoundsAssumption DEF Init, RoomSound
<1>6. SidesSound /\ ToldSound /\ InSound
  BY <1>1, PeopleAssumption DEF Init, SidesSound, ToldSound, InSound, HalfPCs, Recording, Undoing
<1>7. PendingSound /\ MembersSound
  BY <1>1 DEF Init, PendingSound, MembersSound
<1> QED
  BY <1>2, <1>3, <1>4, <1>5, <1>6, <1>7 DEF Agreement

LEMMA StutterAgrees ==
  ASSUME Agreement, UNCHANGED vars
  PROVE  Agreement'
<1>1. /\ UNCHANGED <<op, id, pc, seen, place, followers, following, blocked, pending, members>>
      /\ UNCHANGED <<room, inRoom, told, view, announced, upset, everBlocked, overtaken, doubled, faults>>
  BY DEF vars, tasks, tables, guilds, matrix, others, history
<1>2. /\ \A t : /\ Kind(t)' = Kind(t) /\ Me(t)' = Me(t) /\ Them(t)' = Them(t) /\ Pair(t)' = Pair(t) /\ User(t)' = User(t)
                /\ IsRemote(t)' = IsRemote(t) /\ IsLocal(t)' = IsLocal(t)
  BY <1>1 DEF Kind, Pair, Me, Them, User, IsRemote, IsLocal
<1>3. \A t : /\ Subject(t)' = Subject(t) /\ (Used(t)' <=> Used(t)) /\ (Queued(t)' <=> Queued(t))
             /\ (Answers(t)' <=> Answers(t)) /\ (IsCommand(t)' <=> IsCommand(t))
  BY <1>1, <1>2 DEF Subject, Leaving, Leaver, Used, Queued, Answers, IsCommand
<1>4. TypeOK'
  BY <1>1 DEF TypeOK, Agreement
<1>5. StationsSound' /\ OneAtATime'
  BY <1>1, <1>2, <1>3 DEF Agreement, StationsSound, OneAtATime, Stations
<1>6. PlaceSound'
  BY <1>1, <1>2, <1>3 DEF Agreement, PlaceSound
<1>7. RoomSound'
  BY <1>1, <1>2, <1>3 DEF Agreement, RoomSound, IsRoomOf
<1>8. SidesSound'
  BY <1>1, <1>2, <1>3 DEF Agreement, SidesSound, Halfway
<1>9. ToldSound' /\ InSound'
  BY <1>1, <1>2, <1>3 DEF Agreement, ToldSound, InSound, Recording, Undoing, LeftQueued
<1>10. PendingSound'
  BY <1>1, <1>2, <1>3 DEF Agreement, PendingSound
<1>11. MembersSound'
  BY <1>1, <1>2, <1>3 DEF Agreement, MembersSound, Past, Counts
<1> QED
  BY <1>4, <1>5, <1>6, <1>7, <1>8, <1>9, <1>10, <1>11 DEF Agreement

-----------------------------------------------------------------------------
(* The second part of the invariant, and what follows from it. *)

LEMMA NextAgrees == IInv /\ Agreement /\ [Next]_vars => Agreement'
<1> SUFFICES ASSUME IInv, Agreement, [Next]_vars PROVE Agreement'
  OBVIOUS
<1>0. IInv'
  BY NextKeeps
<1>1. ASSUME NEW s \in Slots, NEW W \in Workloads, Open(s, W), NEW w \in W, Begin(s, w) PROVE Agreement'
  <2>1. /\ w \in Wanted /\ At(s, "unused") /\ \A t \in Slots : t < s => ~ At(t, "unused")
    BY <1>1 DEF Open, Wanted
  <2>2. PICK x : Comes(s, w, s, FirstStep(w), x)
    BY <1>1, <2>1, BeginComes
  <2> QED
    BY <1>0, <2>2, ComesAgree
<1>2. ASSUME NEW s \in Slots, NEW W \in Workloads, Open(s, W), NEW t \in Slots, Redeliver(s, t) PROVE Agreement'
  <2>1. /\ At(s, "unused") /\ \A u \in Slots : u < s => ~ At(u, "unused")
    BY <1>2 DEF Open
  <2>2. Comes(s, op[t], t, "lock", place[t])
    BY <1>2, <2>1, RedeliverComes
  <2> QED
    BY <1>0, <2>2, ComesAgree
<1>3. ASSUME NEW s \in Slots, Step(s) PROVE Agreement'
  BY <1>0, <1>3, StepAgrees
<1>4. CASE Restart
  BY <1>0, <1>4, RestartStands, RestartAgrees DEF Agreement
<1>5. CASE UNCHANGED vars
  BY <1>5, StutterAgrees
<1> QED
  BY <1>1, <1>2, <1>3, <1>4, <1>5 DEF Next, Idle

LEMMA AgreementHolds == Spec => [](IInv /\ Agreement)
<1>1. Init => IInv /\ Agreement
  BY InitIInv, InitAgreement
<1>2. (IInv /\ Agreement) /\ [Next]_vars => (IInv /\ Agreement)'
  BY NextKeeps, NextAgrees
<1> QED
  BY <1>1, <1>2, PTL DEF Spec

\* What is between two writes about a pair is an operation about it.
LEMMA BetweenIsAbout ==
  ASSUME NEW q, Halfway(q) \/ Recording(q) \/ Undoing(q)
  PROVE  About(q) # {}
<1>1. PICK s \in Slots : Running(s) /\ Subject(s) = q
  BY DEF Halfway, HalfPCs, Recording, Undoing, Running, Subject, Leaving
<1> QED
  BY <1>1 DEF About

LEMMA SaysFollowingAgrees == IInv /\ Agreement => FollowingAgrees
<1> SUFFICES ASSUME Agreement, NEW p \in Profiles, NEW a \in Remotes \cup Boards, Calm(<<p, a>>),
                    <<p, a>> \in everBlocked => a \notin Boards
             PROVE  <<p, a>> \in following <=> told[<<p, a>>] = "follow"
  BY DEF FollowingAgrees
<1>1. ~ Recording(<<p, a>>) /\ ~ Undoing(<<p, a>>) /\ <<p, a>> \notin upset
  BY BetweenIsAbout DEF Calm
<1> QED
  BY <1>1 DEF Agreement, ToldSound

LEMMA SaysLocalSidesAgree == IInv /\ Agreement => LocalSidesAgree
<1> SUFFICES ASSUME Agreement, NEW p \in Profiles, NEW q \in Profiles, Calm(<<p, q>>),
                    <<p, q>> \notin everBlocked, <<q, p>> \notin everBlocked
             PROVE  <<p, q>> \in following <=> <<q, p>> \in followers
  BY DEF LocalSidesAgree
<1>1. ~ Halfway(<<p, q>>) /\ <<p, q>> \notin upset
  BY BetweenIsAbout DEF Calm
<1> QED
  BY <1>1 DEF Agreement, SidesSound

LEMMA SaysFollowersAreIn == IInv /\ Agreement => FollowersAreIn
<1> SUFFICES ASSUME Agreement, NEW u \in Users, NEW r \in Remotes \ doubled,
                    <<OldestOf[u], r>> \in following, <<OldestOf[u], r>> \notin upset, Resting(u)
             PROVE  \E x \in Slots : <<u, x>> \in inRoom /\ op[x].them = r
  BY DEF FollowersAreIn
<1>1. <<OldestOf[u], r>> \in Profiles \X Remotes /\ r \notin Boards
  BY PeopleAssumption, KindsApartAssumption
<1>2. told[<<OldestOf[u], r>>] = "follow" /\ ~ Undoing(<<OldestOf[u], r>>)
  BY <1>1 DEF Agreement, ToldSound
<1>3. ~ LeftQueued(u, r)
  <2> SUFFICES ASSUME NEW s \in Slots, pc[s] = "left", User(s) = u PROVE FALSE
    BY DEF LeftQueued
  <2>1. Running(s) /\ Used(s)
    BY DEF Running, Used
  <2>2. Kind(s) \in Commands
    BY <2>1 DEF Agreement, StationsSound, Stations, Commands
  <2> QED
    BY <2>1, <2>2 DEF Resting
<1>4. <<u, room[r]>> \in inRoom
  BY <1>2, <1>3 DEF Agreement, InSound
<1>5. room[r] \in Slots
  BY <1>1, <1>2 DEF Agreement, RoomSound, TypeOK
<1>6. op[room[r]].them = r
  BY <1>5 DEF Agreement, RoomSound, IsRoomOf, Them
<1> QED
  BY <1>4, <1>5, <1>6

LEMMA SaysMembersAgree == IInv /\ Agreement => MembersAgree
<1> SUFFICES ASSUME IInv, Agreement PROVE MembersAgree
  OBVIOUS
<1> SUFFICES ASSUME NEW p \in Profiles, NEW g \in Guilds, Calm(<<p, g>>)
             PROVE  LET pair == <<p, g>>
                        Of(kind) == {s \in Slots : op[s] # Nothing /\ Kind(s) = kind /\ Pair(s) = pair}
                        accepts == Of("Accept")
                    IN /\ pair \in members <=>
                             \E t \in accepts : \A l \in Of("leaveguild") : seen[l] => l < place[t]
                       /\ \A j \in Of("joinguild") :
                             j \in pending <=> seen[j] /\ \A t \in Slots : place[t] # j
                       /\ pair \in following => \E t \in accepts : id[t] # t
  BY DEF MembersAgree
<1> DEFINE pair == <<p, g>>
           Of(kind) == {s \in Slots : op[s] # Nothing /\ Kind(s) = kind /\ Pair(s) = pair}
<1>1. pair \in Profiles \X Guilds /\ pair \notin upset
  BY DEF Calm
<1>2. \A s \in Slots : op[s] # Nothing <=> Used(s)
  <2>1. \A s \in Slots : Used(s) => op[s] # Nothing
    BY BoundsAssumption DEF IInv, Shape
  <2>2. \A s \in Slots : ~ Used(s) => op[s] = Nothing
    BY DEF Agreement, PlaceSound
  <2> QED
    BY <2>1, <2>2
<1>3. ASSUME NEW s \in Slots, Used(s), Pair(s) = pair, Kind(s) \in {"Accept", "Reject", "joinguild"} PROVE pc[s] = "over"
  <2>1. Stations(s)
    BY <1>3 DEF Agreement, StationsSound
  <2>2. ~ Leaving(s)
    BY <1>3, <2>1 DEF Stations, Leaving
  <2>3. ~ Running(s)
    BY <1>3, <2>2 DEF Calm, About, Subject
  <2> QED
    BY <1>3, <2>3 DEF Running, Used
<1>4. ASSUME NEW t \in Slots
      PROVE  /\ t \in Of("Accept") <=> Answers(t) /\ Kind(t) = "Accept" /\ Pair(t) = pair
             /\ t \in Of("Accept") <=> Past(t) /\ Pair(t) = pair
  <2>1. Pair(t) = pair => Them(t) = g
    BY DEF Pair
  <2>2. t \in Of("Accept") <=> Answers(t) /\ Kind(t) = "Accept" /\ Pair(t) = pair
    BY <1>2, <2>1 DEF Answers
  <2>3. t \in Of("Accept") => pc[t] = "over"
    BY <1>2, <1>3
  <2> QED
    BY <2>2, <2>3 DEF Past
<1>5. ASSUME NEW t \in Slots, Pair(t) = pair
      PROVE  Counts(t) <=> \A l \in Of("leaveguild") : seen[l] => l < place[t]
  BY <1>2, <1>5 DEF Counts
<1>6. pair \in members <=> \E t \in Of("Accept") : \A l \in Of("leaveguild") : seen[l] => l < place[t]
  <2>1. pair \in members <=> \E t \in Slots : Past(t) /\ Pair(t) = pair /\ Counts(t)
    BY <1>1 DEF Agreement, MembersSound
  <2>2. \A t \in Slots : Past(t) /\ Pair(t) = pair /\ Counts(t) <=>
                           t \in Of("Accept") /\ \A l \in Of("leaveguild") : seen[l] => l < place[t]
    <3> SUFFICES ASSUME NEW t \in Slots
                 PROVE  Past(t) /\ Pair(t) = pair /\ Counts(t) <=>
                          t \in Of("Accept") /\ \A l \in Of("leaveguild") : seen[l] => l < place[t]
      OBVIOUS
    <3>1. t \in Of("Accept") => Pair(t) = pair
      OBVIOUS
    <3> HIDE DEF Of
    <3> QED
      BY <1>4, <1>5, <3>1
  <2>3. Of("Accept") \subseteq Slots
    OBVIOUS
  <2> HIDE DEF Of
  <2> QED
    BY <2>1, <2>2, <2>3
<1>7. ASSUME NEW j \in Of("joinguild") PROVE j \in pending <=> seen[j] /\ \A t \in Slots : place[t] # j
  <2>1. j \in Slots /\ Used(j) /\ Kind(j) = "joinguild" /\ Pair(j) = pair /\ pc[j] = "over"
    BY <1>2, <1>3
  <2>2. j \in pending <=> seen[j] /\ \A t \in Slots : Answers(t) /\ place[t] = j => pc[t] # "over"
    BY <1>1, <2>1 DEF Agreement, PendingSound
  <2>3. ASSUME NEW t \in Slots, place[t] = j PROVE Answers(t) /\ pc[t] = "over"
    <3>1. Answers(t)
      BY <2>1, <2>3 DEF Agreement, PlaceSound
    <3>2. op[j] = [op[t] EXCEPT !.kind = "joinguild"]
      BY <2>3, <3>1 DEF Agreement, PlaceSound
    <3>3. op[t] \in Operation
      BY <3>1, BoundsAssumption DEF Answers, IInv, Shape
    <3>4. Pair(t) = pair
      BY <2>1, <3>2, <3>3 DEF Operation, Pair, Me, Them
    <3> QED
      BY <1>3, <3>1, <3>4 DEF Answers
  <2> QED
    BY <2>2, <2>3
<1>8. pair \in following => \E t \in Of("Accept") : id[t] # t
  <2>1. pair \in following => \E t \in Slots : Answers(t) /\ Kind(t) = "Accept" /\ Pair(t) = pair /\ id[t] # t
    BY <1>1 DEF Agreement, MembersSound
  <2> HIDE DEF Of
  <2> QED
    BY <1>4, <2>1
<1> QED
  BY <1>6, <1>7, <1>8

\* Once a user rests, the following table says of every remote account what its
\* server was last told, whatever the order of commands, kicks, leave events,
\* Accepts and restarts was (_tell_follow, unfollow_remote_actor).
THEOREM FollowingIsAgreed == Spec => []FollowingAgrees
BY AgreementHolds, SaysFollowingAgrees, PTL

\* Of two local profiles that block nobody, the one's following row and the other's
\* follower row are there together once both rest (_follow_local_actor,
\* _unfollow_local_actor, maybe_handle_leave).
THEOREM LocalSidesAreAgreed == Spec => []LocalSidesAgree
BY AgreementHolds, SaysLocalSidesAgree, PTL

\* Whoever follows a remote account as their oldest identity, and rests, is in its
\* room or invited to it (maybe_handle_leave unfollows whoever left).
THEOREM FollowersAreInRooms == Spec => []FollowersAreIn
BY AgreementHolds, SaysFollowersAreIn, PTL

\* A membership of a guild is due to an Accept of a join that no ;leaveguild
\* followed, and a join is pending until its answer is handled (_handle_guild_accept,
\* send_guild_join_follow, _execute_leave_guild).
THEOREM MembersAreAgreed == Spec => []MembersAgree
BY AgreementHolds, SaysMembersAgree, PTL

\* All that a run checks of every state of the follow relation: its type, and that
\* the tables agree with each other, with the rooms and with the other servers.
THEOREM FollowsAreSound == Spec => []FollowsInv
<1>1. Spec => []TypeOK
  <2>1. IInv /\ Agreement => TypeOK
    BY DEF Agreement
  <2> QED
    BY <2>1, AgreementHolds, PTL
<1>2. TypeOK /\ AnnouncedOnce /\ FollowersAgree /\ FollowingAgrees /\ LocalSidesAgree /\ FollowersAreIn /\ MembersAgree
      => FollowsInv
  BY DEF FollowsInv
<1> QED
  BY <1>1, <1>2, FollowsAreAnnouncedOnce, FollowersAreAgreed, FollowingIsAgreed, LocalSidesAreAgreed,
     FollowersAreInRooms, MembersAreAgreed, PTL
=================================================================================
