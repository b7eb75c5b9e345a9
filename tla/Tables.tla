------------------------------- MODULE Tables -------------------------------
(* What the three stores are built from: the keys their tables hold, and    *)
(* dictionaries (or tables by primary key) as functions on the keys present. *)
EXTENDS Integers, Sequences, FiniteSets

CONSTANTS
    Actors,     \* remote actors (also guilds, channels, communities, groups)
    Users,      \* Matrix users
    Rooms,      \* Matrix rooms
    Names,      \* usernames of the identities and hosted actors of the bridge
    Events,     \* Matrix events
    Objects,    \* ActivityPub objects and activities
    Tracked,    \* _MAX_TRACKED_TRANSACTIONS
    Retention,  \* _TRANSACTION_RETENTION_SECONDS
    Nil         \* Python's None, SQL's missing row, an empty room_id

ASSUME TablesAssumption == Tracked \in Nat \ {0} /\ Retention \in Nat \ {0}

Kinds == {"channel", "community", "group"}
Relations == {"followers", "following", "blocked", "muted"}
Pairs == Actors \X Users

\* None is no value of any column and no row.
ASSUME NilAssumption ==
    /\ Nil \notin Actors \cup Users \cup Rooms \cup Names \cup Events \cup Objects
    /\ Nil \notin Pairs /\ Nil \notin {"full", "shadow", "banned"}
    /\ Nil \notin [room : Rooms, pending : BOOLEAN]

Empty == <<>>
PutAll(d, K, v) == [x \in DOMAIN d \cup K |-> IF x \in K THEN v ELSE d[x]]
Put(d, k, v) == PutAll(d, {k}, v)
Pop(d, K) == [k \in DOMAIN d \ K |-> d[k]]
Get(d, k) == IF k \in DOMAIN d THEN d[k] ELSE Nil
Field(d, k, f) == IF k \in DOMAIN d THEN d[k][f] ELSE Nil

\* One member of a set, or None.
OneOf(S) == IF S = {} THEN Nil ELSE CHOOSE x \in S : TRUE

\* The identities of a user, and the oldest of some (ORDER BY created_at).
OwnedBy(actors, u) == {n \in DOMAIN actors : actors[n].user = u}
Oldest(actors, S) ==
    IF S = {} THEN Nil ELSE CHOOSE n \in S : \A m \in S : actors[n].at <= actors[m].at

\* get_active_local_actor: the chosen identity, or the only one.
Active(actors, active, u) ==
    IF u \in DOMAIN active /\ active[u] \in DOMAIN actors THEN active[u]
    ELSE IF Cardinality(OwnedBy(actors, u)) = 1 THEN OneOf(OwnedBy(actors, u)) ELSE Nil
=============================================================================
