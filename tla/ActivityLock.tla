----------------------------- MODULE ActivityLock -----------------------------
(***************************************************************************)
(* bridge.note_mirroring.activity_lock: a dictionary of asyncio.Lock       *)
(* objects, one per key in use, cleaned up by a reference count.           *)
(*                                                                         *)
(* The bridge is one asyncio process, so everything between two awaits is  *)
(* one step.  A caller that finds the lock free runs from                  *)
(* `_activity_lock_waiters[key] = ...' into the body without suspending    *)
(* (EnterFree); one that finds it taken suspends inside Lock.acquire       *)
(* (EnterQueued) and goes on when the previous holder has woken it         *)
(* (Resume).  Leaving the body runs Lock.release and the `finally' of      *)
(* activity_lock without suspending (Exit).                                *)
(*                                                                         *)
(* The point of the algorithm is that the dictionary forgets a lock while  *)
(* callers may still be about to use it: a caller that picked up an old    *)
(* object and one that made a new one would both be inside.                *)
(***************************************************************************)
EXTENDS Naturals, Sequences, FiniteSets

CONSTANTS
    Tasks,      \* asyncio tasks
    Outer,      \* keys handle_activity locks: ids of inbound activities
    Inner,      \* keys locked under those: post ids, "lemmy-resync:<room>"
    LockObjects, \* identities asyncio.Lock objects can have
    NoLock,     \* "no lock object"
    NoHolder    \* "nobody is inside"

Keys == Outer \cup Inner

ASSUME TasksFinite == IsFiniteSet(Tasks)
ASSUME KeyKindsDisjoint == Outer \cap Inner = {}
ASSUME NoLockAssumption == NoLock \notin LockObjects
ASSUME NoHolderAssumption == NoHolder \notin Tasks

VARIABLES
    table,      \* _activity_locks: key -> lock object, NoLock when absent
    waiters,    \* _activity_lock_waiters: key -> count, 0 when absent
    locked,     \* Lock._locked of each object
    queue,      \* Lock._waiters of each object, in arrival order
    woken,      \* the future at the head of that deque has its result
    ref,        \* ref[t][k]: the local `lock' of t's activity_lock(k)
    inside      \* inside[t]: keys whose body t is running

lockVars == <<table, waiters, locked, queue, woken, ref, inside>>

LockTypeOK ==
    /\ table \in [Keys -> LockObjects \cup {NoLock}]
    /\ waiters \in [Keys -> Nat]
    /\ locked \in [LockObjects -> BOOLEAN]
    /\ queue \in [LockObjects -> Seq(Tasks)]
    /\ woken \in [LockObjects -> BOOLEAN]
    /\ ref \in [Tasks -> [Keys -> LockObjects \cup {NoLock}]]
    /\ inside \in [Tasks -> SUBSET Keys]

LockInit ==
    /\ table = [k \in Keys |-> NoLock]
    /\ waiters = [k \in Keys |-> 0]
    /\ locked = [l \in LockObjects |-> FALSE]
    /\ queue = [l \in LockObjects |-> <<>>]
    /\ woken = [l \in LockObjects |-> FALSE]
    /\ ref = [t \in Tasks |-> [k \in Keys |-> NoLock]]
    /\ inside = [t \in Tasks |-> {}]
-------------------------------------------------------------------------------
\* Tasks between the first and the last line of activity_lock(k).
Users(k) == {t \in Tasks : ref[t][k] # NoLock}

\* t is suspended in Lock.acquire for k.
Waiting(t, k) == ref[t][k] # NoLock /\ k \notin inside[t]

Suspended(t) == \E k \in Keys : Waiting(t, k)

\* No dictionary entry and no task's local variable mentions object l.
Garbage(l) ==
    /\ \A k \in Keys : table[k] # l
    /\ \A t \in Tasks, k \in Keys : ref[t][k] # l

-------------------------------------------------------------------------------
\* Variants a careless edit of activity_lock could produce.  They take no part
\* in LockNext: substituted for the definition they are named after, each breaks a
\* property below.

\* The count is not incremented on entry.
RegisterUncounted(t, k, l) ==
    /\ table' = [table EXCEPT ![k] = l]
    /\ ref' = [ref EXCEPT ![t] = [@ EXCEPT ![k] = l]]
    /\ UNCHANGED waiters

\* Leaving with `entry' as what stays in the dictionary and `wake' as whether
\* the first waiter is told.
ExitWith(t, k, entry, wake) ==
    /\ k \in inside[t]
    /\ ~Suspended(t)
    /\ k \in Outer => \A j \in Inner : ref[t][j] = NoLock
    /\ locked' = [locked EXCEPT ![ref[t][k]] = FALSE]
    /\ woken' = [woken EXCEPT ![ref[t][k]] = wake]
    /\ waiters' = [waiters EXCEPT ![k] = @ - 1]
    /\ table' = [table EXCEPT ![k] = entry]
    /\ ref' = [ref EXCEPT ![t] = [@ EXCEPT ![k] = NoLock]]
    /\ inside' = [inside EXCEPT ![t] = @ \ {k}]
    /\ UNCHANGED queue

\* The entry is popped without looking at the count.
ExitPopsAlways(t, k) == ExitWith(t, k, NoLock, queue[ref[t][k]] # <<>>)

\* The next waiter is only woken by the last user to leave.
ExitForgetsWakeup(t, k) ==
    ExitWith(t, k, IF waiters[k] = 1 THEN NoLock ELSE table[k], waiters[k] = 1)
-------------------------------------------------------------------------------
\* How the callers nest their locks: handle_activity locks the activity's id
\* first; import_note, import_question and the Lemmy resync lock one key of
\* their own, alone or inside that.
MayEnter(t, k) ==
    /\ ~Suspended(t)
    /\ IF k \in Outer THEN \A j \in Keys : ref[t][j] = NoLock
                      ELSE \A j \in Inner : ref[t][j] = NoLock

\* `_activity_locks.setdefault(key, asyncio.Lock())'
SetDefault(k, l) == IF table[k] = NoLock THEN Garbage(l) ELSE l = table[k]

\* Count the caller, look the lock up (or make it) and keep a reference.
Register(t, k, l) ==
    /\ waiters' = [waiters EXCEPT ![k] = @ + 1]
    /\ table' = [table EXCEPT ![k] = l]
    /\ ref' = [ref EXCEPT ![t] = [@ EXCEPT ![k] = l]]

\* A new object, or one nobody holds and nobody waits for.
Free(k, l) == table[k] = NoLock \/ (~locked[l] /\ queue[l] = <<>>)

EnterFree(t, k) ==
    /\ MayEnter(t, k)
    /\ \E l \in LockObjects :
        /\ SetDefault(k, l)
        /\ Free(k, l)
        /\ Register(t, k, l)
        /\ locked' = [locked EXCEPT ![l] = TRUE]
        /\ queue' = [queue EXCEPT ![l] = <<>>]
        /\ woken' = [woken EXCEPT ![l] = FALSE]
    /\ inside' = [inside EXCEPT ![t] = @ \cup {k}]

EnterQueued(t, k) ==
    /\ MayEnter(t, k)
    /\ \E l \in LockObjects :
        /\ SetDefault(k, l)
        /\ ~Free(k, l)
        /\ Register(t, k, l)
        /\ queue' = [queue EXCEPT ![l] = Append(@, t)]
    /\ UNCHANGED <<locked, woken, inside>>

\* The event loop runs the woken waiter: Lock.acquire takes its future off
\* the deque and sets _locked without looking at it again.
Resume(t, k) ==
    /\ Waiting(t, k)
    /\ LET l == ref[t][k] IN
        /\ woken[l]
        /\ queue[l] # <<>>
        /\ Head(queue[l]) = t
        /\ queue' = [queue EXCEPT ![l] = Tail(@)]
        /\ woken' = [woken EXCEPT ![l] = FALSE]
        /\ locked' = [locked EXCEPT ![l] = TRUE]
    /\ inside' = [inside EXCEPT ![t] = @ \cup {k}]
    /\ UNCHANGED <<table, waiters, ref>>

\* Blocks are left innermost first.
MayExit(t, k) ==
    /\ ~Suspended(t)
    /\ k \in inside[t]
    /\ k \in Outer => \A j \in Inner : ref[t][j] = NoLock

\* Lock.release wakes the first waiter; the last user takes the entry out.
Exit(t, k) ==
    /\ MayExit(t, k)
    /\ LET l == ref[t][k] IN
        /\ locked' = [locked EXCEPT ![l] = FALSE]
        /\ woken' = [woken EXCEPT ![l] = queue[l] # <<>>]
    /\ waiters' = [waiters EXCEPT ![k] = @ - 1]
    /\ table' = [table EXCEPT ![k] = IF waiters[k] = 1 THEN NoLock ELSE @]
    /\ ref' = [ref EXCEPT ![t] = [@ EXCEPT ![k] = NoLock]]
    /\ inside' = [inside EXCEPT ![t] = @ \ {k}]
    /\ UNCHANGED queue

LockNext ==
    \E t \in Tasks, k \in Keys :
        EnterFree(t, k) \/ EnterQueued(t, k) \/ Resume(t, k) \/ Exit(t, k)

\* The event loop runs every ready callback, and every body ends: a handler
\* takes a bounded number of locks under its own, and every request it awaits
\* has a timeout.  A body may take an inner lock between two chances to end,
\* which is why Exit has strong fairness.
LockFairness ==
    \A t \in Tasks, k \in Keys : WF_lockVars(Resume(t, k)) /\ SF_lockVars(Exit(t, k))

LockSpec == LockInit /\ [][LockNext]_lockVars /\ LockFairness
-------------------------------------------------------------------------------
\* Two handlers of one key are never inside together, although the lock object
\* behind the key is dropped and made anew while others still queue for it
\* (the race of note_mirroring.py:2453: both pass the "not tracked yet" check).
MutualExclusion ==
    \A t, u \in Tasks : t # u => inside[t] \cap inside[u] = {}

\* A task that is inside or queued uses the object the dictionary holds: no
\* caller is left on an object that newcomers cannot see.
OneObjectPerKey ==
    \A t \in Tasks, k \in Keys : ref[t][k] # NoLock => ref[t][k] = table[k]

\* "Self-cleaning": an entry, and a count, exist exactly while somebody is
\* inside or queued, so the dictionaries do not grow with the ids ever seen.
SelfCleaning ==
    \A k \in Keys :
        /\ waiters[k] = Cardinality(Users(k))
        /\ table[k] = NoLock <=> Users(k) = {}

\* No wake-up is lost: when the lock of a key is free but somebody queues for
\* it, the head of its deque has been told to run.
NoLostWakeup ==
    \A k \in Keys : table[k] # NoLock =>
        LET l == table[k] IN ~locked[l] /\ queue[l] # <<>> => woken[l]

\* What induction needs besides: no two keys share an object, whoever is inside
\* has registered and holds its object locked, and only a free object with a
\* queue has been told to wake somebody.
DistinctObjects ==
    \A j, k \in Keys : j # k /\ table[j] # NoLock => table[j] # table[k]

InsideHolds ==
    \A t \in Tasks : \A k \in inside[t] : ref[t][k] # NoLock /\ locked[ref[t][k]]

WokenIsFree == \A l \in LockObjects : woken[l] => ~locked[l] /\ queue[l] # <<>>

\* The inductive invariant of the lock table.
LockInv ==
    /\ LockTypeOK
    /\ MutualExclusion
    /\ OneObjectPerKey
    /\ SelfCleaning
    /\ NoLostWakeup
    /\ DistinctObjects
    /\ InsideHolds
    /\ WokenIsFree

\* Every handler that asks for a key gets in, nested locks included: the
\* hang of inbox_dispatch.py:2790 (a second acquisition under the first) is
\* what this rules out for the nesting MayEnter describes.
NoStarvation ==
    \A t \in Tasks, k \in Keys : Waiting(t, k) ~> k \in inside[t]
-------------------------------------------------------------------------------
\* Refinement: the holder of a key is the task inside its body.
Holder == [k \in Keys |->
             IF \E t \in Tasks : k \in inside[t]
             THEN CHOOSE t \in Tasks : k \in inside[t]
             ELSE NoHolder]

Mutex == INSTANCE KeyedMutex WITH NoTask <- NoHolder, holder <- Holder

\* The table of lock objects implements one mutual-exclusion region per key.
ImplementsKeyedMutex == Mutex!Spec
===============================================================================
