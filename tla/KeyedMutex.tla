------------------------------ MODULE KeyedMutex ------------------------------
(***************************************************************************)
(* What bridge.note_mirroring.activity_lock promises its callers: one      *)
(* mutual-exclusion region per string key, entered by at most one handler  *)
(* at a time, however the lock objects behind it come and go.              *)
(*                                                                         *)
(* `ActivityLock' shows that the refcounted table of asyncio.Lock objects  *)
(* implements this; `NoteMirror' takes its locking steps from here.        *)
(***************************************************************************)

CONSTANTS
    Tasks,      \* asyncio tasks that call activity_lock
    Keys,       \* the strings they pass: activity ids, post ids, resync keys
    NoTask      \* "nobody is inside"

VARIABLE holder \* key -> the task inside `async with activity_lock(key)'

TypeOK == holder \in [Keys -> Tasks \cup {NoTask}]

Init == holder = [k \in Keys |-> NoTask]

\* `async with activity_lock(key)' gets in.
Acquire(t, k) ==
    /\ holder[k] = NoTask
    /\ holder' = [holder EXCEPT ![k] = t]

\* The block is left, normally or by an exception.
Release(t, k) ==
    /\ holder[k] = t
    /\ holder' = [holder EXCEPT ![k] = NoTask]

\* Every lock a task still holds goes at once when its process dies.
ReleaseAll == holder' = [k \in Keys |-> NoTask]

Next == \E t \in Tasks, k \in Keys : Acquire(t, k) \/ Release(t, k)

Spec == Init /\ [][Next]_holder
===============================================================================
