--------------------------- MODULE NoteMirror_proofs ----------------------------
(***************************************************************************)
(* Theorems about bridge.note_mirroring.  About activity_lock, for any set *)
(* of tasks and keys: the lock table keeps its invariant, so two handlers  *)
(* of one key never overlap and the dictionaries hold exactly the keys in  *)
(* use; and it implements KeyedMutex, from which NoteMirror takes its      *)
(* locking steps.  About inbound posts and reposts, for any deliveries,    *)
(* copies, failing requests and restarts: what is visible is tracked or    *)
(* accounted for, the event the table names outlives every race, a post    *)
(* that comes in on one path has one mirror, and a deleted one does not    *)
(* come back.                                                              *)
(***************************************************************************)
EXTENDS ActivityLock, NoteMirror, TLAPS, FiniteSetTheorems, SequenceTheorems

-------------------------------------------------------------------------------
(* The lock table. *)

\* A waiter appended to a deque leaves a non-empty deque of tasks.
LEMMA AppendTask ==
  ASSUME NEW q \in Seq(Tasks), NEW t \in Tasks
  PROVE  Append(q, t) \in Seq(Tasks) /\ Append(q, t) # <<>>
  BY AppendProperties

\* Users(k) is a subset of the finite set of tasks.
LEMMA UsersFinite == ASSUME NEW k \in Keys PROVE IsFiniteSet(Users(k))
  BY TasksFinite, FS_Subset DEF Users

\* A task that may enter k is not one of its users, and is not inside it.
LEMMA MayEnterFresh ==
  ASSUME LockInv, NEW t \in Tasks, NEW k \in Keys, MayEnter(t, k)
  PROVE  /\ ref[t][k] = NoLock
         /\ k \notin inside[t]
         /\ t \notin Users(k)
  BY DEF MayEnter, Keys, LockInv, InsideHolds, Users

\* A key without users has no task inside it.
LEMMA NobodyInside ==
  ASSUME LockInv, NEW k \in Keys, table[k] = NoLock
  PROVE  \A t \in Tasks : ref[t][k] = NoLock /\ k \notin inside[t]
  BY DEF LockInv, SelfCleaning, Users, InsideHolds

\* Registering a task adds it to the users of its key and of no other.
LEMMA RegisterUsers ==
  ASSUME LockInv, NEW t \in Tasks, NEW k \in Keys, NEW l \in LockObjects,
         MayEnter(t, k), SetDefault(k, l), Register(t, k, l)
  PROVE  /\ waiters' \in [Keys -> Nat]
         /\ table' \in [Keys -> LockObjects \cup {NoLock}]
         /\ ref' \in [Tasks -> [Keys -> LockObjects \cup {NoLock}]]
         /\ OneObjectPerKey'
         /\ SelfCleaning'
         /\ DistinctObjects'
<1> USE NoLockAssumption DEF LockInv, LockTypeOK, Register
<1>1. waiters' \in [Keys -> Nat] OBVIOUS
<1>2. table' \in [Keys -> LockObjects \cup {NoLock}] OBVIOUS
<1>3. ref' \in [Tasks -> [Keys -> LockObjects \cup {NoLock}]] OBVIOUS
<1>4. OneObjectPerKey'
  <2> SUFFICES ASSUME NEW u \in Tasks, NEW j \in Keys, ref'[u][j] # NoLock
               PROVE  ref'[u][j] = table'[j]
    BY DEF OneObjectPerKey
  <2>1. CASE j = k /\ u = t BY <2>1
  <2>2. CASE j = k /\ u # t
    <3>1. ref[u][k] # NoLock BY <2>2
    <3>2. table[k] # NoLock BY <3>1, NobodyInside
    <3>3. l = table[k] BY <3>2 DEF SetDefault
    <3> QED BY <2>2, <3>1, <3>3 DEF OneObjectPerKey
  <2>3. CASE j # k BY <2>3 DEF OneObjectPerKey
  <2> QED BY <2>1, <2>2, <2>3
<1>5. SelfCleaning'
  <2>1. Users(k)' = Users(k) \cup {t} BY DEF Users
  <2>2. \A j \in Keys \ {k} : Users(j)' = Users(j) BY DEF Users
  <2>3. Cardinality(Users(k)') = Cardinality(Users(k)) + 1
    BY <2>1, UsersFinite, MayEnterFresh, FS_AddElement
  <2>4. t \in Users(k)' BY <2>1
  <2> QED BY <2>2, <2>3, <2>4 DEF SelfCleaning
<1>6. DistinctObjects'
  BY DEF DistinctObjects, SetDefault, Garbage
<1> QED BY <1>1, <1>2, <1>3, <1>4, <1>5, <1>6
-------------------------------------------------------------------------------
LEMMA LockInitInv == LockInit => LockInv
<1> SUFFICES ASSUME LockInit PROVE LockInv OBVIOUS
<1> USE DEF LockInit
<1>1. LockTypeOK BY DEF LockTypeOK
<1>2. \A k \in Keys : Users(k) = {} BY DEF Users
<1>3. SelfCleaning BY <1>2, FS_EmptySet DEF SelfCleaning
<1>4. QED
  BY <1>1, <1>3
  DEF LockInv, MutualExclusion, OneObjectPerKey, NoLostWakeup, DistinctObjects,
      InsideHolds, WokenIsFree

LEMMA EnterFreeInv ==
  ASSUME LockInv, NEW t \in Tasks, NEW k \in Keys, EnterFree(t, k)
  PROVE  LockInv'
<1> USE NoLockAssumption DEF LockInv, LockTypeOK
<1>1. MayEnter(t, k) BY DEF EnterFree
<1>2. PICK l \in LockObjects :
        /\ SetDefault(k, l)
        /\ Free(k, l)
        /\ Register(t, k, l)
        /\ locked' = [locked EXCEPT ![l] = TRUE]
        /\ queue' = [queue EXCEPT ![l] = <<>>]
        /\ woken' = [woken EXCEPT ![l] = FALSE]
  BY DEF EnterFree
<1>3. inside' = [inside EXCEPT ![t] = @ \cup {k}] BY DEF EnterFree
<1>4. /\ waiters' \in [Keys -> Nat]
      /\ table' \in [Keys -> LockObjects \cup {NoLock}]
      /\ ref' \in [Tasks -> [Keys -> LockObjects \cup {NoLock}]]
      /\ OneObjectPerKey'
      /\ SelfCleaning'
      /\ DistinctObjects'
  BY <1>1, <1>2, RegisterUsers
<1>5. \A u \in Tasks : k \notin inside[u]
  <2>1. CASE table[k] = NoLock BY <2>1, NobodyInside
  <2>2. CASE table[k] # NoLock
    <3>1. l = table[k] /\ ~locked[l] BY <2>2, <1>2 DEF SetDefault, Free
    <3> QED BY <3>1 DEF InsideHolds, OneObjectPerKey
  <2> QED BY <2>1, <2>2
<1>6. LockTypeOK'
  <2>1. <<>> \in Seq(Tasks) OBVIOUS
  <2>2. queue' \in [LockObjects -> Seq(Tasks)] BY <2>1, <1>2
  <2>3. inside' \in [Tasks -> SUBSET Keys] BY <1>3
  <2>4. locked' \in [LockObjects -> BOOLEAN] /\ woken' \in [LockObjects -> BOOLEAN] BY <1>2
  <2> QED BY <2>2, <2>3, <2>4, <1>4
<1>7. MutualExclusion' BY <1>3, <1>5 DEF MutualExclusion
<1>8. InsideHolds'
  <2> SUFFICES ASSUME NEW u \in Tasks, NEW j \in inside'[u]
               PROVE  ref'[u][j] # NoLock /\ locked'[ref'[u][j]]
    BY DEF InsideHolds
  <2>1. j \in Keys BY <1>6
  <2>2. CASE u = t /\ j = k BY <2>2, <1>2 DEF Register
  <2>3. CASE ~(u = t /\ j = k)
    <3>1. j \in inside[u] BY <2>3, <1>3
    <3>2. ref'[u][j] = ref[u][j] BY <2>1, <2>3, <1>2 DEF Register
    <3> QED BY <2>1, <3>1, <3>2, <1>2 DEF InsideHolds
  <2> QED BY <2>2, <2>3
<1>9. WokenIsFree' BY <1>2 DEF WokenIsFree
<1>10. NoLostWakeup'
  <2> SUFFICES ASSUME NEW j \in Keys, table'[j] # NoLock,
                      ~locked'[table'[j]], queue'[table'[j]] # <<>>
               PROVE  woken'[table'[j]]
    BY DEF NoLostWakeup
  <2>1. j # k /\ table'[j] = table[j] /\ table[j] # l
    BY <1>2 DEF Register
  <2> QED BY <2>1, <1>2 DEF NoLostWakeup
<1> QED BY <1>4, <1>6, <1>7, <1>8, <1>9, <1>10

LEMMA EnterQueuedInv ==
  ASSUME LockInv, NEW t \in Tasks, NEW k \in Keys, EnterQueued(t, k)
  PROVE  LockInv'
<1> USE NoLockAssumption DEF LockInv, LockTypeOK
<1>1. MayEnter(t, k) /\ UNCHANGED <<locked, woken, inside>> BY DEF EnterQueued
<1>2. PICK l \in LockObjects :
        /\ SetDefault(k, l)
        /\ ~Free(k, l)
        /\ Register(t, k, l)
        /\ queue' = [queue EXCEPT ![l] = Append(@, t)]
  BY DEF EnterQueued
<1>3. /\ waiters' \in [Keys -> Nat]
      /\ table' \in [Keys -> LockObjects \cup {NoLock}]
      /\ ref' \in [Tasks -> [Keys -> LockObjects \cup {NoLock}]]
      /\ OneObjectPerKey'
      /\ SelfCleaning'
      /\ DistinctObjects'
  BY <1>1, <1>2, RegisterUsers
<1>4. table' = table /\ l = table[k] BY <1>2 DEF SetDefault, Free, Register
<1>5. queue' \in [LockObjects -> Seq(Tasks)] /\ queue'[l] # <<>>
  <2>1. queue[l] \in Seq(Tasks) OBVIOUS
  <2>2. Append(queue[l], t) \in Seq(Tasks) /\ Append(queue[l], t) # <<>>
    BY <2>1, AppendTask
  <2> QED BY <2>2, <1>2
<1>6. LockTypeOK' BY <1>1, <1>3, <1>5
<1>7. MutualExclusion' BY <1>1 DEF MutualExclusion
<1>8. InsideHolds'
  <2> SUFFICES ASSUME NEW u \in Tasks, NEW j \in inside[u]
               PROVE  ref'[u][j] # NoLock /\ locked[ref'[u][j]]
    BY <1>1 DEF InsideHolds
  <2>1. ~(u = t /\ j = k) BY <1>1, MayEnterFresh
  <2>2. ref'[u][j] = ref[u][j] BY <2>1, <1>2 DEF Register
  <2> QED BY <2>2 DEF InsideHolds
<1>9. WokenIsFree' BY <1>1, <1>2, <1>5 DEF WokenIsFree
<1>10. NoLostWakeup'
  <2> SUFFICES ASSUME NEW j \in Keys, table[j] # NoLock,
                      ~locked[table[j]], queue'[table[j]] # <<>>
               PROVE  woken[table[j]]
    BY <1>1, <1>4 DEF NoLostWakeup
  <2>1. CASE table[j] = l
    <3>1. queue[l] # <<>> BY <2>1, <1>2, <1>4 DEF Free
    <3> QED BY <2>1, <3>1 DEF NoLostWakeup
  <2>2. CASE table[j] # l BY <2>2, <1>2 DEF NoLostWakeup
  <2> QED BY <2>1, <2>2
<1> QED BY <1>3, <1>6, <1>7, <1>8, <1>9, <1>10

LEMMA ResumeInv ==
  ASSUME LockInv, NEW t \in Tasks, NEW k \in Keys, Resume(t, k)
  PROVE  LockInv'
<1> USE NoLockAssumption DEF LockInv, LockTypeOK
<1> DEFINE l == ref[t][k]
<1>1. /\ l # NoLock /\ k \notin inside[t] /\ woken[l] /\ queue[l] # <<>>
      /\ queue' = [queue EXCEPT ![l] = Tail(@)]
      /\ woken' = [woken EXCEPT ![l] = FALSE]
      /\ locked' = [locked EXCEPT ![l] = TRUE]
      /\ inside' = [inside EXCEPT ![t] = @ \cup {k}]
      /\ UNCHANGED <<table, waiters, ref>>
  BY DEF Resume, Waiting
<1>2. l \in LockObjects BY <1>1
<1>3. l = table[k] BY <1>1 DEF OneObjectPerKey
<1>4. ~locked[l] BY <1>1, <1>2 DEF WokenIsFree
<1>5. \A u \in Tasks : k \notin inside[u]
  BY <1>3, <1>4 DEF InsideHolds, OneObjectPerKey
<1>6. queue' \in [LockObjects -> Seq(Tasks)] BY <1>1, <1>2
<1>7. LockTypeOK' BY <1>1, <1>2, <1>6
<1>8. MutualExclusion' BY <1>1, <1>5 DEF MutualExclusion
<1>9. OneObjectPerKey' /\ DistinctObjects'
  BY <1>1 DEF OneObjectPerKey, DistinctObjects
<1>10. \A j \in Keys : Users(j)' = Users(j) BY <1>1 DEF Users
<1>11. SelfCleaning' BY <1>1, <1>10 DEF SelfCleaning
<1>12. NoLostWakeup' BY <1>1, <1>2 DEF NoLostWakeup
<1>13. InsideHolds'
  <2> SUFFICES ASSUME NEW u \in Tasks, NEW j \in inside'[u]
               PROVE  ref[u][j] # NoLock /\ locked'[ref[u][j]]
    BY <1>1 DEF InsideHolds
  <2>1. CASE u = t /\ j = k BY <2>1, <1>1, <1>2
  <2>2. CASE ~(u = t /\ j = k)
    <3>1. j \in inside[u] BY <2>2, <1>1
    <3> QED BY <3>1, <1>1, <1>2 DEF InsideHolds
  <2> QED BY <2>1, <2>2
<1>14. WokenIsFree' BY <1>1, <1>2 DEF WokenIsFree
<1> QED BY <1>7, <1>8, <1>9, <1>11, <1>12, <1>13, <1>14

LEMMA ExitInv ==
  ASSUME LockInv, NEW t \in Tasks, NEW k \in Keys, Exit(t, k)
  PROVE  LockInv'
<1> USE NoLockAssumption DEF LockInv, LockTypeOK
<1> DEFINE l == ref[t][k]
<1>1. /\ k \in inside[t]
      /\ locked' = [locked EXCEPT ![l] = FALSE]
      /\ woken' = [woken EXCEPT ![l] = queue[l] # <<>>]
      /\ waiters' = [waiters EXCEPT ![k] = @ - 1]
      /\ table' = [table EXCEPT ![k] = IF waiters[k] = 1 THEN NoLock ELSE @]
      /\ ref' = [ref EXCEPT ![t] = [@ EXCEPT ![k] = NoLock]]
      /\ inside' = [inside EXCEPT ![t] = @ \ {k}]
      /\ queue' = queue
  BY DEF Exit, MayExit
<1>2. l \in LockObjects /\ l = table[k] BY <1>1 DEF InsideHolds, OneObjectPerKey
<1>3. t \in Users(k) BY <1>2 DEF Users
<1>4. Users(k)' = Users(k) \ {t} BY <1>1 DEF Users
<1>5. \A j \in Keys \ {k} : Users(j)' = Users(j) BY <1>1 DEF Users
<1>6. /\ Cardinality(Users(k)') = Cardinality(Users(k)) - 1
      /\ Cardinality(Users(k)) \in Nat
      /\ IsFiniteSet(Users(k)')
  BY <1>3, <1>4, UsersFinite, FS_RemoveElement, FS_CardinalityType
<1>7. waiters[k] = 1 <=> Users(k)' = {}
  BY <1>6, FS_EmptySet DEF SelfCleaning
<1>8. waiters[k] - 1 \in Nat
  BY <1>6, FS_CardinalityType DEF SelfCleaning
<1>9. LockTypeOK' BY <1>1, <1>2, <1>8
<1>10. SelfCleaning'
  <2>1. waiters'[k] = Cardinality(Users(k)') BY <1>1, <1>6 DEF SelfCleaning
  <2>2. table'[k] = NoLock <=> Users(k)' = {} BY <1>1, <1>2, <1>7
  <2>3. \A j \in Keys \ {k} : waiters'[j] = waiters[j] /\ table'[j] = table[j]
    BY <1>1
  <2> QED BY <2>1, <2>2, <2>3, <1>5 DEF SelfCleaning
<1>11. OneObjectPerKey'
  <2> SUFFICES ASSUME NEW u \in Tasks, NEW j \in Keys, ref'[u][j] # NoLock
               PROVE  ref'[u][j] = table'[j]
    BY DEF OneObjectPerKey
  <2>1. ref'[u][j] = ref[u][j] /\ ~(u = t /\ j = k) BY <1>1
  <2>2. CASE j = k
    <3>1. u \in Users(k)' BY <2>2, <2>1 DEF Users
    <3>2. waiters[k] # 1 BY <3>1, <1>7
    <3> QED BY <2>1, <2>2, <3>2, <1>1 DEF OneObjectPerKey
  <2>3. CASE j # k BY <2>1, <2>3, <1>1 DEF OneObjectPerKey
  <2> QED BY <2>2, <2>3
<1>12. DistinctObjects' BY <1>1 DEF DistinctObjects
<1>13. MutualExclusion' BY <1>1 DEF MutualExclusion
<1>14. NoLostWakeup'
  <2> SUFFICES ASSUME NEW j \in Keys, table'[j] # NoLock,
                      ~locked'[table'[j]], queue[table'[j]] # <<>>
               PROVE  woken'[table'[j]]
    BY <1>1 DEF NoLostWakeup
  <2>1. table'[j] = table[j] /\ table[j] \in LockObjects BY <1>1
  <2>2. CASE j = k BY <2>1, <2>2, <1>1, <1>2
  <2>3. CASE j # k
    <3>1. table[j] # l BY <2>1, <2>3, <1>2 DEF DistinctObjects
    <3> QED BY <2>1, <3>1, <1>1 DEF NoLostWakeup
  <2> QED BY <2>2, <2>3
<1>15. InsideHolds'
  <2> SUFFICES ASSUME NEW u \in Tasks, NEW j \in inside'[u]
               PROVE  ref'[u][j] # NoLock /\ locked'[ref'[u][j]]
    BY DEF InsideHolds
  <2>1. j \in inside[u] /\ j \in Keys /\ ~(u = t /\ j = k) BY <1>1
  <2>2. j # k BY <2>1, <1>1 DEF MutualExclusion
  <2>3. ref'[u][j] = ref[u][j] /\ ref[u][j] = table[j] /\ ref[u][j] # NoLock
    BY <2>1, <2>2, <1>1 DEF InsideHolds, OneObjectPerKey
  <2>4. ref[u][j] # l BY <2>1, <2>2, <2>3, <1>2 DEF DistinctObjects
  <2> QED BY <2>1, <2>3, <2>4, <1>1 DEF InsideHolds
<1>16. WokenIsFree' BY <1>1, <1>2 DEF WokenIsFree
<1> QED BY <1>9, <1>10, <1>11, <1>12, <1>13, <1>14, <1>15, <1>16
-------------------------------------------------------------------------------
LEMMA LockNextInv == LockInv /\ [LockNext]_lockVars => LockInv'
<1> SUFFICES ASSUME LockInv, [LockNext]_lockVars PROVE LockInv' OBVIOUS
<1>1. ASSUME NEW t \in Tasks, NEW k \in Keys, EnterFree(t, k) PROVE LockInv'
  BY <1>1, EnterFreeInv
<1>2. ASSUME NEW t \in Tasks, NEW k \in Keys, EnterQueued(t, k) PROVE LockInv'
  BY <1>2, EnterQueuedInv
<1>3. ASSUME NEW t \in Tasks, NEW k \in Keys, Resume(t, k) PROVE LockInv'
  BY <1>3, ResumeInv
<1>4. ASSUME NEW t \in Tasks, NEW k \in Keys, Exit(t, k) PROVE LockInv'
  BY <1>4, ExitInv
<1>5. CASE UNCHANGED lockVars
  <2> USE <1>5 DEF lockVars, LockInv
  <2>1. LockTypeOK' BY DEF LockTypeOK
  <2>2. MutualExclusion' /\ OneObjectPerKey' /\ DistinctObjects'
    BY DEF MutualExclusion, OneObjectPerKey, DistinctObjects
  <2>3. SelfCleaning'
    <3>1. \A k \in Keys : Users(k)' = Users(k) BY DEF Users
    <3> QED BY <3>1 DEF SelfCleaning
  <2>4. NoLostWakeup' /\ InsideHolds' /\ WokenIsFree'
    BY DEF NoLostWakeup, InsideHolds, WokenIsFree
  <2> QED BY <2>1, <2>2, <2>3, <2>4
<1>6. CASE LockNext BY <1>6, <1>1, <1>2, <1>3, <1>4 DEF LockNext
<1> QED BY <1>5, <1>6

\* The invariant of the lock table, for any tasks, keys and lock objects.
THEOREM LockInvariant == LockSpec => []LockInv
<1>1. LockInit => LockInv BY LockInitInv
<1>2. LockInv /\ [LockNext]_lockVars => LockInv' BY LockNextInv
<1> QED BY <1>1, <1>2, PTL DEF LockSpec

\* Two handlers of one activity id, or two imports of one post, never run
\* their guarded blocks at the same time.
THEOREM LockMutualExclusion == LockSpec => []MutualExclusion
<1>1. LockInv => MutualExclusion BY DEF LockInv
<1> QED BY <1>1, LockInvariant, PTL

\* The dictionaries hold an entry exactly for the keys in use, and every user
\* of a key uses the object of its entry.
THEOREM LockTableExact == LockSpec => [](SelfCleaning /\ OneObjectPerKey)
<1>1. LockInv => SelfCleaning /\ OneObjectPerKey BY DEF LockInv
<1> QED BY <1>1, LockInvariant, PTL

\* A waiter of a free lock has been told to run.
THEOREM LockWakesWaiters == LockSpec => []NoLostWakeup
<1>1. LockInv => NoLostWakeup BY DEF LockInv
<1> QED BY <1>1, LockInvariant, PTL
-------------------------------------------------------------------------------
\* What Holder is, once at most one task is inside a key.
HolderExact ==
  /\ Holder \in [Keys -> Tasks \cup {NoHolder}]
  /\ \A k \in Keys, t \in Tasks : Holder[k] = t <=> k \in inside[t]
  /\ \A k \in Keys : Holder[k] = NoHolder <=> \A t \in Tasks : k \notin inside[t]

LEMMA HolderIs == LockInv => HolderExact
<1> USE DEF LockInv, LockTypeOK
<1> SUFFICES ASSUME LockInv, NEW k \in Keys
             PROVE  /\ Holder[k] \in Tasks \cup {NoHolder}
                    /\ \A t \in Tasks : Holder[k] = t <=> k \in inside[t]
                    /\ Holder[k] = NoHolder <=> \A t \in Tasks : k \notin inside[t]
  BY DEF Holder, HolderExact
<1>1. CASE \E t \in Tasks : k \in inside[t]
  <2>1. Holder[k] = CHOOSE t \in Tasks : k \in inside[t] BY <1>1 DEF Holder
  <2>2. Holder[k] \in Tasks /\ k \in inside[Holder[k]] BY <1>1, <2>1
  <2>3. \A t \in Tasks : k \in inside[t] => t = Holder[k]
    BY <2>2 DEF MutualExclusion
  <2> QED BY <2>2, <2>3, NoHolderAssumption
<1>2. CASE ~\E t \in Tasks : k \in inside[t]
  <2>1. Holder[k] = NoHolder BY <1>2 DEF Holder
  <2> QED BY <1>2, <2>1, NoHolderAssumption
<1> QED BY <1>1, <1>2

LEMMA StepRefines == LockInv /\ LockInv' /\ [LockNext]_lockVars => [Mutex!Next]_Holder
<1> SUFFICES ASSUME LockInv, LockInv', [LockNext]_lockVars PROVE [Mutex!Next]_Holder
  OBVIOUS
<1>1. HolderExact BY HolderIs
<1>2. HolderExact' BY HolderIs, PTL
<1> USE DEF HolderExact
<1>3. CASE UNCHANGED inside BY <1>3 DEF Holder
<1>4. ASSUME NEW t \in Tasks, NEW k \in Keys,
             inside' = [inside EXCEPT ![t] = @ \cup {k}], k \notin inside[t]
      PROVE  Mutex!Next
  <2>1. \A u \in Tasks : k \notin inside[u]
    BY <1>4 DEF LockInv, LockTypeOK, MutualExclusion
  <2>2. Holder[k] = NoHolder BY <1>1, <2>1
  <2>3. Holder'[k] = t BY <1>2, <1>4 DEF LockInv, LockTypeOK
  <2>4. \A j \in Keys \ {k} : Holder'[j] = Holder[j]
    <3> SUFFICES ASSUME NEW j \in Keys \ {k} PROVE Holder'[j] = Holder[j]
      OBVIOUS
    <3>1. \A u \in Tasks : j \in inside'[u] <=> j \in inside[u]
      BY <1>4 DEF LockInv, LockTypeOK
    <3> QED BY <1>1, <1>2, <3>1
  <2>5. Holder' = [Holder EXCEPT ![k] = t] BY <1>1, <1>2, <2>3, <2>4
  <2> QED BY <2>2, <2>5 DEF Mutex!Next, Mutex!Acquire
<1>5. ASSUME NEW t \in Tasks, NEW k \in Keys,
             inside' = [inside EXCEPT ![t] = @ \ {k}], k \in inside[t]
      PROVE  Mutex!Next
  <2>1. \A u \in Tasks : k \notin inside'[u]
    BY <1>5 DEF LockInv, LockTypeOK, MutualExclusion
  <2>2. Holder[k] = t BY <1>1, <1>5
  <2>3. Holder'[k] = NoHolder BY <1>2, <2>1
  <2>4. \A j \in Keys \ {k} : Holder'[j] = Holder[j]
    <3> SUFFICES ASSUME NEW j \in Keys \ {k} PROVE Holder'[j] = Holder[j]
      OBVIOUS
    <3>1. \A u \in Tasks : j \in inside'[u] <=> j \in inside[u]
      BY <1>5 DEF LockInv, LockTypeOK
    <3> QED BY <1>1, <1>2, <3>1
  <2>5. Holder' = [Holder EXCEPT ![k] = NoHolder] BY <1>1, <1>2, <2>3, <2>4
  <2> QED BY <2>2, <2>5 DEF Mutex!Next, Mutex!Release
<1>6. ASSUME NEW t \in Tasks, NEW k \in Keys,
             EnterFree(t, k) \/ EnterQueued(t, k) \/ Resume(t, k) \/ Exit(t, k)
      PROVE  Mutex!Next \/ UNCHANGED Holder
  <2>1. CASE EnterFree(t, k)
    BY <2>1, <1>4, MayEnterFresh DEF EnterFree
  <2>2. CASE EnterQueued(t, k) BY <2>2, <1>3 DEF EnterQueued
  <2>3. CASE Resume(t, k) BY <2>3, <1>4 DEF Resume, Waiting
  <2>4. CASE Exit(t, k) BY <2>4, <1>5 DEF Exit, MayExit
  <2> QED BY <1>6, <2>1, <2>2, <2>3, <2>4
<1>7. CASE LockNext BY <1>6, <1>7 DEF LockNext
<1>8. CASE UNCHANGED lockVars BY <1>3, <1>8 DEF lockVars
<1> QED BY <1>7, <1>8

\* activity_lock implements one mutual-exclusion region per key: every step of
\* the lock table is a step of KeyedMutex or leaves the holders alone.
THEOREM LockRefinesMutex == LockSpec => ImplementsKeyedMutex
<1>1. LockInit => Mutex!Init BY DEF LockInit, Mutex!Init, Holder
<1>2. LockInv /\ LockInv' /\ [LockNext]_lockVars => [Mutex!Next]_Holder BY StepRefines
<1>3. LockSpec => []LockInv BY LockInvariant
<1> QED BY <1>1, <1>2, <1>3, PTL DEF LockSpec, ImplementsKeyedMutex, Mutex!Spec

-------------------------------------------------------------------------------
(* Posts and reposts. *)

Inside == {"import", "makeRoom", "mapRoom", "importSend", "importRecord",
           "dropDuplicate", "imported"}
Creating == {"create", "createSend", "createRecord"}
Reposting == {"react", "repostRoom", "importLock", "reactLate", "card", "cardRecord"} \cup Inside
Undoing == {"undo", "unreact", "undoCard"}
Sending == {"createSend", "createRecord", "makeRoom", "mapRoom", "importSend", "importRecord"}
Unrecorded == {"none", "accepted", "announce", "react", "repostRoom", "importLock"}
              \cup Creating \cup (Inside \ {"imported"})

\* What the task of d relies on: the locks it is in, what it has read, and that
\* nobody but d records what d sends.
Sound(d) ==
  /\ pc[d] \notin {"none", "accepted", "over"} => holder[Act(d)] = d
  /\ pc[d] \in Inside => holder[Note(d)] = d
  /\ pc[d] \in Creating => Kind[Act(d)] = "Create"
  /\ pc[d] \in Reposting \cup {"announce"} => Kind[Act(d)] = "Announce"
  /\ pc[d] = "delete" => Kind[Act(d)] = "Delete"
  /\ pc[d] \in Undoing => Kind[Act(d)] = "Undo"
  /\ pc[d] \in Unrecorded => row[Note(d)] # NoteEvent(d)
  /\ pc[d] \in Reposting => row[Act(d)] = NoEvent
  /\ pc[d] \in {"createRecord", "importRecord"} => NoteEvent(d) \in live
  /\ pc[d] = "cardRecord" => CardEvent(d) \in live
  /\ pc[d] = "react" => target[d] # NoEvent /\ target[d] = row[Note(d)]
  /\ import[d] # NoEvent => import[d] = row[Note(d)] \/ import[d] \in lost
  /\ pc[d] = "reactLate" => import[d] # NoEvent
  /\ pc[d] \in Sending /\ SinglePath(Note(d)) => row[Note(d)] = NoEvent
  /\ pc[d] = "dropDuplicate" => ~ SinglePath(Note(d))

RowsOwn == \A x \in Ids : row[x] # NoEvent => row[x].ap = x

ClashesCross == \A e \in clashed : ~ SinglePath(e.ap)

\* The inductive invariant.
IInv ==
  /\ MirrorInv /\ RowsOwn /\ ClashesCross
  /\ \A d \in Deliveries : Sound(d)

-------------------------------------------------------------------------------
\* What a step of d leaves as the others rely on it: their places, their locks,
\* every recorded row, and every visible event but one d sent and not recorded.
Writes(d, x) ==
  \/ x = Act(d) /\ holder[x] = d
  \/ x = Note(d) /\ holder[x] = d /\ Kind[Act(d)] = "Announce"
  \/ x = Note(d) /\ holder[Act(d)] = d /\ Kind[Act(d)] = "Create"

Frame(d) ==
  /\ act' = act
  /\ \A e \in Deliveries \ {d} : /\ pc'[e] = pc[e] /\ target'[e] = target[e]
                                 /\ import'[e] = import[e] /\ repost'[e] = repost[e]
  /\ \A k \in Ids, e \in Deliveries \ {d} : holder[k] = e => holder'[k] = e
  /\ \A x \in Ids : \/ row'[x] = row[x]
                    \/ row[x] = NoEvent /\ Writes(d, x) /\ row'[x] = [ap |-> x, by |-> d]
  /\ \A e \in live : e \in live' \/ e = NoteEvent(d) \/ \E x \in Ids : row[x] = e
  /\ lost \subseteq lost' /\ clashed \subseteq clashed'

\* What d has to see to itself.
Settled(d, e) == row'[e.ap] = e \/ e \in lost' \cup clashed' \/ e \in Unsettled(d)'

Removed(d, x) ==
  /\ pc'[d] = "finish" /\ ActorOf[Act(d)] = RowAuthor(x)
  /\ \/ Kind[Act(d)] = "Delete" /\ x = Note(d)
     \/ Kind[Act(d)] = "Undo" /\ x = AnnounceOf[Act(d)]

Due(d) ==
  /\ TypeOK' /\ Sound(d)'
  /\ \A e \in live' : e \notin live \/ e \in Unsettled(d) => Settled(d, e)
  /\ \A x \in Ids : row'[x] # NoEvent /\ row'[x] \notin live' =>
       (row'[x] = row[x] /\ row[x] \notin live) \/ Removed(d, x)
  /\ pc[d] # "over" /\ (pc[d] = "finish" => pc'[d] \in {"finish", "over"})
  /\ repost'[d] \in {repost[d], NoEvent, row'[Note(d)]} \cup lost'
  /\ \A r \in reactions' : r \in reactions \/ r[1] = row'[r[1].ap] \/ r[1] \in lost'
  /\ \A e \in clashed' : e \in clashed \/ ~ SinglePath(e.ap)

-------------------------------------------------------------------------------
LEMMA Names ==
  ASSUME TypeOK, NEW d \in Deliveries
  PROVE  /\ Act(d) \in Activities /\ Note(d) \in Notes /\ Note(d) # Act(d)
         /\ Act(d) \in Ids /\ Note(d) \in Ids /\ d # NoTask
         /\ NoteEvent(d) \in Events /\ NoteEvent(d).ap = Note(d) /\ NoteEvent(d).by = d
         /\ CardEvent(d) \in Events /\ CardEvent(d).ap = Act(d) /\ CardEvent(d).by = d
         /\ NoEvent \notin Events
BY ActivitiesAssumption, DistinguishedAssumption
   DEF TypeOK, Act, Note, NoteEvent, CardEvent, Events, Ids

LEMMA SamePath ==
  ASSUME act' = act
  PROVE  \A n : SinglePath(n)' <=> SinglePath(n)
BY DEF SinglePath, Note, Act

\* A task that does not move stays sound.
LEMMA OthersSound ==
  ASSUME IInv, NEW d \in Deliveries, Frame(d), NEW e \in Deliveries, e # d
  PROVE  Sound(e)'
<1> DEFINE n == Note(e)
<1>0. TypeOK /\ Sound(e) /\ RowsOwn BY DEF IInv, MirrorInv
<1>1. /\ Act(e) \in Activities /\ n \in Notes /\ n # Act(e) /\ Act(e) \in Ids /\ n \in Ids
      /\ NoteEvent(e) \in Events /\ NoteEvent(e).by = e /\ NoteEvent(e).ap = n
      /\ CardEvent(e).by = e /\ CardEvent(e).ap = Act(e) /\ CardEvent(e) \in Events
      /\ NoEvent \notin Events
      /\ Act(d) \in Activities /\ Note(d) \in Notes /\ NoteEvent(d).by = d
      /\ Activities \cap Notes = {}
  BY <1>0, Names, ActivitiesAssumption
<1>2. /\ act' = act /\ pc'[e] = pc[e] /\ target'[e] = target[e] /\ import'[e] = import[e]
      /\ lost \subseteq lost'
      /\ Act(e)' = Act(e) /\ Note(e)' = n /\ NoteEvent(e)' = NoteEvent(e) /\ CardEvent(e)' = CardEvent(e)
      /\ SinglePath(n)' <=> SinglePath(n)
  BY SamePath DEF Frame, Act, Note, NoteEvent, CardEvent
<1>3. \A k \in Ids : holder[k] = e => holder'[k] = e BY DEF Frame
<1>4. \A x \in Ids : row[x] # NoEvent => row'[x] = row[x] BY DEF Frame
<1>5. \A x \in Ids : row'[x] = row[x] \/ (Writes(d, x) /\ row'[x].by = d)
  <2> TAKE x \in Ids
  <2>1. row'[x] = row[x] \/ (Writes(d, x) /\ row'[x] = [ap |-> x, by |-> d]) BY DEF Frame
  <2> QED BY <2>1
<1>6. pc[e] \in Unrecorded => row'[n] # NoteEvent(e)
  BY <1>0, <1>1, <1>5 DEF Sound
<1>7. pc[e] \in Reposting => row'[Act(e)] = NoEvent
  <2> SUFFICES ASSUME pc[e] \in Reposting PROVE ~ Writes(d, Act(e))
    BY <1>0, <1>1, <1>5 DEF Sound
  <2>1. holder[Act(e)] = e BY <1>0 DEF Sound, Reposting, Inside
  <2> QED BY <1>1, <2>1 DEF Writes
<1>8. pc[e] \in Sending /\ SinglePath(n) => row'[n] = NoEvent
  <2> SUFFICES ASSUME pc[e] \in Sending, SinglePath(n) PROVE ~ Writes(d, n)
    BY <1>0, <1>1, <1>5 DEF Sound
  <2>1. holder[Act(e)] = e BY <1>0 DEF Sound, Sending
  <2>2. CASE pc[e] \in Creating
    <3>1. Kind[Act(e)] = "Create" BY <1>0, <2>2 DEF Sound
    <3>2. Note(d) = n /\ Kind[Act(d)] = "Create" => Act(d) = Act(e)
      BY <3>1 DEF SinglePath
    <3>3. Note(d) = n => Kind[Act(d)] # "Announce" BY <3>1 DEF SinglePath
    <3> QED BY <1>1, <2>1, <3>2, <3>3 DEF Writes
  <2>3. CASE pc[e] \in Inside
    <3>1. Kind[Act(e)] = "Announce" /\ holder[n] = e BY <1>0, <2>3 DEF Sound, Reposting
    <3>2. Note(d) = n => Kind[Act(d)] # "Create" BY <3>1 DEF SinglePath
    <3> QED BY <1>1, <3>1, <3>2 DEF Writes
  <2> QED BY <2>2, <2>3 DEF Sending, Creating, Inside
<1>9. pc[e] \in {"createRecord", "importRecord"} => NoteEvent(e) \in live'
  <2> SUFFICES ASSUME pc[e] \in {"createRecord", "importRecord"} PROVE NoteEvent(e) \in live'
    OBVIOUS
  <2>1. NoteEvent(e) \in live /\ row[n] # NoteEvent(e)
    BY <1>0 DEF Sound, Unrecorded, Creating, Inside
  <2>2. \A x \in Ids : row[x] # NoteEvent(e) BY <1>0, <1>1, <2>1 DEF RowsOwn
  <2> QED BY <1>1, <2>1, <2>2 DEF Frame
<1>10. pc[e] = "cardRecord" => CardEvent(e) \in live'
  <2> SUFFICES ASSUME pc[e] = "cardRecord" PROVE CardEvent(e) \in live'
    OBVIOUS
  <2>1. CardEvent(e) \in live /\ row[Act(e)] = NoEvent BY <1>0 DEF Sound, Reposting
  <2>2. \A x \in Ids : row[x] # CardEvent(e) BY <1>0, <1>1, <2>1 DEF RowsOwn
  <2> QED BY <1>1, <2>1, <2>2 DEF Frame
<1>11. import[e] # NoEvent => import[e] = row'[n] \/ import[e] \in lost'
  BY <1>0, <1>1, <1>2, <1>4 DEF Sound
<1>12. pc[e] = "react" => target[e] # NoEvent /\ target[e] = row'[n]
  BY <1>0, <1>1, <1>4 DEF Sound
<1> HIDE DEF n
<1> QED BY <1>0, <1>1, <1>2, <1>3, <1>6, <1>7, <1>8, <1>9, <1>10, <1>11, <1>12 DEF Sound, n

-------------------------------------------------------------------------------
\* A step of d that does what is due, and no more, keeps the invariant.
LEMMA TaskStep ==
  ASSUME IInv, NEW d \in Deliveries, Frame(d), Due(d)
  PROVE  IInv'
<1>0. /\ TypeOK /\ TypeOK' /\ RowsOwn /\ Accounted /\ WinnerSurvives /\ RepostsPointAtMirror
      /\ ClashesCross
  BY DEF IInv, MirrorInv, Due
<1>1. /\ act' = act /\ lost \subseteq lost' /\ clashed \subseteq clashed'
      /\ \A x \in Ids : row[x] # NoEvent => row'[x] = row[x]
      /\ \A e \in Deliveries \ {d} : pc'[e] = pc[e] /\ repost'[e] = repost[e]
      /\ \A e \in Deliveries : Act(e)' = Act(e) /\ Note(e)' = Note(e)
      /\ \A x \in Ids : row'[x] # row[x] => row'[x].ap = x
  <2>1. \A x \in Ids : row'[x] = row[x] \/ (row[x] = NoEvent /\ row'[x] = [ap |-> x, by |-> d])
    BY DEF Frame
  <2>2. \A x \in Ids : row'[x] # row[x] => row'[x].ap = x
    <3> TAKE x \in Ids
    <3>1. row'[x] = row[x] \/ row'[x] = [ap |-> x, by |-> d] BY <2>1
    <3> QED BY <3>1
  <2> QED BY <2>1, <2>2 DEF Frame, Act, Note
<1>2. \A e \in Deliveries : Sound(e)' BY OthersSound DEF Due
<1>3. RowsOwn' BY <1>0, <1>1 DEF RowsOwn
<1>4. Accounted'
  <2> SUFFICES ASSUME NEW e \in live'
               PROVE  \/ row'[e.ap] = e \/ e \in lost' \cup clashed'
                      \/ \E u \in Deliveries : e \in Unsettled(u)'
    BY DEF Accounted
  <2>1. CASE e \notin live \/ e \in Unsettled(d) BY <2>1 DEF Due, Settled
  <2>2. CASE e \in live /\ e \notin Unsettled(d)
    <3>1. e \in Events /\ e.ap \in Ids BY <1>0 DEF TypeOK, Events
    <3>2. CASE row[e.ap] = e
      <4>1. e # NoEvent BY <3>1, DistinguishedAssumption
      <4> QED BY <1>1, <3>1, <3>2, <4>1
    <3>3. CASE e \in lost \cup clashed BY <1>1, <3>3
    <3>4. CASE \E u \in Deliveries : e \in Unsettled(u)
      <4>1. PICK u \in Deliveries : e \in Unsettled(u) BY <3>4
      <4>2. u # d BY <2>2, <4>1
      <4>3. Unsettled(u)' = Unsettled(u)
        BY <1>1, <4>2 DEF Unsettled, NoteEvent, CardEvent
      <4> QED BY <4>1, <4>3
    <3> QED BY <1>0, <2>2, <3>2, <3>3, <3>4 DEF Accounted
  <2> QED BY <2>1, <2>2
<1>5. WinnerSurvives'
  <2> SUFFICES ASSUME NEW x \in Ids, row'[x] # NoEvent, row'[x] \notin live'
               PROVE  \E u \in Deliveries :
                        /\ pc'[u] \in {"finish", "over"}
                        /\ ActorOf[Act(u)] = RowAuthor(x)
                        /\ \/ Kind[Act(u)] = "Delete" /\ x = Note(u)
                           \/ Kind[Act(u)] = "Undo" /\ x = AnnounceOf[Act(u)]
    BY <1>1 DEF WinnerSurvives, RowAuthor
  <2>1. CASE Removed(d, x) BY <2>1 DEF Removed
  <2>2. CASE row'[x] = row[x] /\ row[x] \notin live
    <3>1. PICK u \in Deliveries :
                        /\ pc[u] \in {"finish", "over"}
                        /\ ActorOf[Act(u)] = RowAuthor(x)
                        /\ \/ Kind[Act(u)] = "Delete" /\ x = Note(u)
                           \/ Kind[Act(u)] = "Undo" /\ x = AnnounceOf[Act(u)]
      BY <1>0, <2>2 DEF WinnerSurvives
    <3>2. pc'[u] \in {"finish", "over"} BY <1>1, <3>1 DEF Due
    <3> QED BY <3>1, <3>2
  <2> QED BY <2>1, <2>2 DEF Due
<1>6. RepostsPointAtMirror'
  <2>1. \A e \in Deliveries : repost'[e] # NoEvent => repost'[e] = row'[Note(e)] \/ repost'[e] \in lost'
    <3> SUFFICES ASSUME NEW e \in Deliveries, repost'[e] # NoEvent
                 PROVE  repost'[e] = row'[Note(e)] \/ repost'[e] \in lost'
      OBVIOUS
    <3>1. Note(e) \in Ids BY <1>0, Names
    <3>2. repost[e] = repost'[e] => repost'[e] = row'[Note(e)] \/ repost'[e] \in lost'
      BY <1>0, <1>1, <3>1 DEF RepostsPointAtMirror
    <3> QED BY <1>1, <3>2 DEF Due
  <2>2. \A r \in reactions' : r[1] = row'[r[1].ap] \/ r[1] \in lost'
    <3> SUFFICES ASSUME NEW r \in reactions' PROVE r[1] = row'[r[1].ap] \/ r[1] \in lost'
      OBVIOUS
    <3>1. r[1] \in Events /\ r[1].ap \in Ids /\ r[1] # NoEvent
      BY <1>0, DistinguishedAssumption DEF TypeOK, Events
    <3>2. r \in reactions => r[1] = row[r[1].ap] \/ r[1] \in lost
      BY <1>0 DEF RepostsPointAtMirror
    <3> QED BY <1>1, <3>1, <3>2 DEF Due
  <2> QED BY <1>1, <2>1, <2>2 DEF RepostsPointAtMirror
<1>7. ClashesCross' BY <1>0, <1>1, SamePath DEF Due, ClashesCross
<1> QED BY <1>0, <1>2, <1>3, <1>4, <1>5, <1>6, <1>7 DEF IInv, MirrorInv

-------------------------------------------------------------------------------
\* What a step does to the locks.
Locks(d) ==
  \/ holder' = holder
  \/ \E k \in Ids : holder[k] = NoTask /\ holder' = [holder EXCEPT ![k] = d]
  \/ \E k \in Ids : holder[k] = d /\ holder' = [holder EXCEPT ![k] = NoTask]

LEMMA TakesLock ==
  ASSUME NEW d \in Deliveries, NEW k \in Ids,
         holder[k] = NoTask, holder' = [holder EXCEPT ![k] = d]
  PROVE  Locks(d)
<1>1. \E x \in Ids : holder[x] = NoTask /\ holder' = [holder EXCEPT ![x] = d] OBVIOUS
<1> QED BY <1>1 DEF Locks

LEMMA LeavesLock ==
  ASSUME NEW d \in Deliveries, NEW k \in Ids,
         holder[k] = d, holder' = [holder EXCEPT ![k] = NoTask]
  PROVE  Locks(d)
<1>1. \E x \in Ids : holder[x] = d /\ holder' = [holder EXCEPT ![x] = NoTask] OBVIOUS
<1> QED BY <1>1 DEF Locks

LEMMA LocksFrame ==
  ASSUME TypeOK, NEW d \in Deliveries, Locks(d)
  PROVE  /\ Lock!TypeOK'
         /\ \A k \in Ids, e \in Deliveries \ {d} : holder[k] = e => holder'[k] = e
BY DistinguishedAssumption DEF TypeOK, Locks, Lock!TypeOK

\* A step of d that sends, records and takes back nothing: it moves on, with
\* what it has read, and may put a reaction on the mirror or take one off.
Local(d, q, t, i, n) ==
  /\ q \in PCs /\ t \in Events \cup {NoEvent} /\ i \in Events \cup {NoEvent} /\ n \in Nat
  /\ pc' = [pc EXCEPT ![d] = q] /\ target' = [target EXCEPT ![d] = t]
  /\ import' = [import EXCEPT ![d] = i] /\ room' = [room EXCEPT ![d] = n]
  /\ pc[d] \notin {"createRecord", "importRecord", "dropDuplicate", "cardRecord", "over"}
  /\ pc[d] = "finish" => q = "over"
  /\ Locks(d)
  /\ UNCHANGED <<act, row, live, repost, lost, clashed>>
  /\ mapped' \in [Actors -> Nat] /\ rooms' \in [Actors -> Nat] /\ faults' \in 0..MaxFaults
  /\ reactions' \subseteq Events \X Actors
  /\ \A r \in reactions' : r \in reactions \/ r[1] = row[r[1].ap] \/ r[1] \in lost
  /\ Sound(d)'

LEMMA LocalStep ==
  ASSUME IInv, NEW d \in Deliveries, NEW q, NEW t, NEW i, NEW n, Local(d, q, t, i, n)
  PROVE  IInv'
<1>1. TypeOK BY DEF IInv, MirrorInv
<1>2. TypeOK' BY <1>1, LocksFrame DEF TypeOK, Local
<1>3. Frame(d)
  <2>1. \A e \in Deliveries \ {d} : /\ pc'[e] = pc[e] /\ target'[e] = target[e]
                                   /\ import'[e] = import[e] /\ repost'[e] = repost[e]
    BY <1>1 DEF TypeOK, Local
  <2> QED BY <1>1, <2>1, LocksFrame DEF Frame, Local
<1>4. Due(d)
  <2>1. pc'[d] = q BY <1>1 DEF TypeOK, Local
  <2>2. Unsettled(d) = {} BY DEF Unsettled, Local
  <2> QED BY <1>2, <2>1, <2>2 DEF Due, Local
<1> QED BY <1>3, <1>4, TaskStep

\* What is known of d before its step.
LEMMA Before ==
  ASSUME IInv, NEW d \in Deliveries
  PROVE  /\ TypeOK /\ RowsOwn /\ Sound(d)
         /\ pc[d] \in PCs /\ target[d] \in Events \cup {NoEvent}
         /\ import[d] \in Events \cup {NoEvent} /\ room[d] \in Nat
         /\ row[Note(d)] \in Events \cup {NoEvent} /\ row[Act(d)] \in Events \cup {NoEvent}
         /\ pc = [pc EXCEPT ![d] = pc[d]] /\ target = [target EXCEPT ![d] = target[d]]
         /\ import = [import EXCEPT ![d] = import[d]] /\ room = [room EXCEPT ![d] = room[d]]
         /\ mapped \in [Actors -> Nat] /\ rooms \in [Actors -> Nat] /\ faults \in 0..MaxFaults
         /\ reactions \subseteq Events \X Actors
         /\ Note(d) \in Notes /\ ActorOf[Act(d)] \in Actors /\ AuthorOf[Note(d)] \in Actors
<1>1. TypeOK /\ RowsOwn /\ Sound(d) BY DEF IInv, MirrorInv
<1>2. Note(d) \in Notes /\ Act(d) \in Activities /\ Note(d) \in Ids /\ Act(d) \in Ids BY <1>1, Names
<1> QED BY <1>1, <1>2, ActivitiesAssumption DEF TypeOK

LEMMA AcceptInv ==
  ASSUME IInv, NEW d \in Deliveries, Accept(d)
  PROVE  IInv'
<1>1. /\ pc[d] = "none" /\ pc' = [pc EXCEPT ![d] = "accepted"] /\ pc'[d] = "accepted"
      /\ UNCHANGED <<locals, holder, tables, matrix, history>>
  BY Before DEF Accept, At, Go, TypeOK
<1>2. Sound(d)'
  BY <1>1, Before
     DEF Sound, locals, tables, matrix, history, Inside, Creating, Reposting, Undoing, Sending,
         Unrecorded, NoteEvent, CardEvent, Note, Act
<1>3. Locks(d) BY <1>1 DEF Locks
<1>4. Local(d, "accepted", target[d], import[d], room[d])
  BY <1>1, <1>2, <1>3, Before DEF Local, PCs, locals, tables, matrix, history
<1> QED BY <1>4, LocalStep

LEMMA StartInv ==
  ASSUME IInv, NEW d \in Deliveries, Start(d)
  PROVE  IInv'
<1>0. Act(d) \in Ids /\ Act(d) \in Activities BY Before, Names
<1> DEFINE q == CASE Kind[Act(d)] = "Create" -> "create"
               [] Kind[Act(d)] = "Announce" -> "announce"
               [] Kind[Act(d)] = "Delete" -> "delete"
               [] Kind[Act(d)] = "Undo" -> "undo"
<1>1. /\ pc[d] = "accepted" /\ pc' = [pc EXCEPT ![d] = q] /\ pc'[d] = q
      /\ holder[Act(d)] = NoTask /\ holder' = [holder EXCEPT ![Act(d)] = d]
      /\ UNCHANGED <<locals, tables, matrix, history>>
  BY Before DEF Start, At, Go, TypeOK, Lock!Acquire
<1>2. Kind[Act(d)] \in {"Create", "Announce", "Delete", "Undo"} BY <1>0, ActivitiesAssumption
<1>3. q \in {"create", "announce", "delete", "undo"}
      /\ (q = "create" => Kind[Act(d)] = "Create") /\ (q = "announce" => Kind[Act(d)] = "Announce")
      /\ (q = "delete" => Kind[Act(d)] = "Delete") /\ (q = "undo" => Kind[Act(d)] = "Undo")
  BY <1>2
<1> HIDE DEF q
<1>4. holder'[Act(d)] = d BY <1>0, <1>1, Before DEF TypeOK, Lock!TypeOK
<1>5. Sound(d)'
  BY <1>1, <1>3, <1>4, Before
     DEF Sound, locals, tables, matrix, history, Inside, Creating, Reposting, Undoing, Sending,
         Unrecorded, NoteEvent, CardEvent, Note, Act
<1>6. Locks(d) BY <1>0, <1>1, TakesLock
<1>7. q \in PCs BY <1>3 DEF PCs
<1>8. Local(d, q, target[d], import[d], room[d])
  BY <1>1, <1>5, <1>6, <1>7, Before DEF Local, locals, tables, matrix, history
<1> QED BY <1>8, LocalStep

LEMMA FinishInv ==
  ASSUME IInv, NEW d \in Deliveries, Finish(d)
  PROVE  IInv'
<1>0. Act(d) \in Ids BY Before, Names
<1>1. /\ pc[d] = "finish" /\ pc' = [pc EXCEPT ![d] = "over"] /\ pc'[d] = "over"
      /\ holder[Act(d)] = d /\ holder' = [holder EXCEPT ![Act(d)] = NoTask]
      /\ target' = [target EXCEPT ![d] = NoEvent] /\ import' = [import EXCEPT ![d] = NoEvent]
      /\ room' = [room EXCEPT ![d] = 0] /\ import'[d] = NoEvent
      /\ UNCHANGED <<act, tables, matrix, history>>
  BY Before DEF Finish, At, Go, TypeOK, Lock!Release
<1>2. Sound(d)'
  BY <1>1, Before
     DEF Sound, tables, matrix, history, Inside, Creating, Reposting, Undoing, Sending,
         Unrecorded, NoteEvent, CardEvent, Note, Act
<1>3. Locks(d) BY <1>0, <1>1, LeavesLock
<1>4. "over" \in PCs BY DEF PCs
<1>5. Local(d, "over", NoEvent, NoEvent, 0)
  BY <1>1, <1>2, <1>3, <1>4, Before DEF Local, tables, matrix, history
<1> QED BY <1>5, LocalStep

LEMMA CreateCheckInv ==
  ASSUME IInv, NEW d \in Deliveries, CreateCheck(d)
  PROVE  IInv'
<1> DEFINE q == IF mapped[ActorOf[Act(d)]] # 0 /\ row[Note(d)] = NoEvent
               THEN "createSend" ELSE "finish"
<1>1. /\ pc[d] = "create" /\ pc' = [pc EXCEPT ![d] = q] /\ pc'[d] = q
      /\ room' = [room EXCEPT ![d] = mapped[ActorOf[Act(d)]]]
      /\ UNCHANGED <<act, target, import, holder, tables, matrix, history>>
  BY Before DEF CreateCheck, At, Go, TypeOK
<1>q. q \in {"createSend", "finish"} /\ (q = "createSend" => row[Note(d)] = NoEvent) OBVIOUS
<1> HIDE DEF q
<1>2. Sound(d)'
  BY <1>1, <1>q, Before
     DEF Sound, locals, tables, matrix, history, Inside, Creating, Reposting, Undoing, Sending,
         Unrecorded, NoteEvent, CardEvent, Note, Act
<1>3. Locks(d) BY <1>1 DEF Locks
<1>4. q \in PCs BY <1>q DEF PCs
<1>5. Local(d, q, target[d], import[d], mapped[ActorOf[Act(d)]])
  BY <1>1, <1>2, <1>3, <1>4, Before DEF Local, locals, tables, matrix, history
<1> QED BY <1>5, LocalStep

LEMMA AnnounceCheckInv ==
  ASSUME IInv, NEW d \in Deliveries, AnnounceCheck(d)
  PROVE  IInv'
<1> DEFINE q == IF row[Act(d)] # NoEvent THEN "finish"
               ELSE IF row[Note(d)] # NoEvent THEN "react" ELSE "repostRoom"
<1>1. /\ pc[d] = "announce" /\ pc' = [pc EXCEPT ![d] = q] /\ pc'[d] = q
      /\ target' = [target EXCEPT ![d] = row[Note(d)]] /\ target'[d] = row[Note(d)]
      /\ UNCHANGED <<act, import, room, holder, tables, matrix, history>>
  BY Before DEF AnnounceCheck, At, Go, TypeOK
<1>q. /\ q \in {"finish", "react", "repostRoom"}
      /\ q # "finish" => row[Act(d)] = NoEvent
      /\ q = "react" => row[Note(d)] # NoEvent
  OBVIOUS
<1> HIDE DEF q
<1>2. Sound(d)'
  BY <1>1, <1>q, Before
     DEF Sound, locals, tables, matrix, history, Inside, Creating, Reposting, Undoing, Sending,
         Unrecorded, NoteEvent, CardEvent, Note, Act
<1>3. Locks(d) BY <1>1 DEF Locks
<1>4. q \in PCs BY <1>q DEF PCs
<1>5. Local(d, q, row[Note(d)], import[d], room[d])
  BY <1>1, <1>2, <1>3, <1>4, Before DEF Local, locals, tables, matrix, history
<1> QED BY <1>5, LocalStep

LEMMA AnnounceReactInv ==
  ASSUME IInv, NEW d \in Deliveries, AnnounceReact(d)
  PROVE  IInv'
<1>1. /\ pc[d] = "react" /\ pc' = [pc EXCEPT ![d] = "repostRoom"] /\ pc'[d] = "repostRoom"
      /\ UNCHANGED <<locals, holder, tables, live, repost, rooms, lost, clashed>>
      /\ reactions' = reactions \/ reactions' = reactions \cup {<<target[d], ActorOf[Act(d)]>>}
      /\ faults' = faults \/ (faults < MaxFaults /\ faults' = faults + 1)
  BY Before DEF AnnounceReact, React, Refused, Answered, At, Go, TypeOK
<1>r. target[d] \in Events /\ (target[d] = row[target[d].ap] \/ target[d] \in lost)
  BY <1>1, Before, Names DEF Sound, RowsOwn
<1>f. faults' \in 0..MaxFaults BY <1>1, Before, FaultsAssumption
<1>s. /\ reactions' \subseteq Events \X Actors
      /\ \A r \in reactions' : r \in reactions \/ r[1] = row[r[1].ap] \/ r[1] \in lost
  BY <1>1, <1>r, Before
<1>2. Sound(d)'
  BY <1>1, Before
     DEF Sound, locals, tables, matrix, history, Inside, Creating, Reposting, Undoing, Sending,
         Unrecorded, NoteEvent, CardEvent, Note, Act
<1>3. Locks(d) BY <1>1 DEF Locks
<1>4. "repostRoom" \in PCs BY DEF PCs
<1>5. Local(d, "repostRoom", target[d], import[d], room[d])
  BY <1>1, <1>2, <1>3, <1>4, <1>f, <1>s, Before DEF Local, locals, tables, matrix, history
<1> QED BY <1>5, LocalStep

LEMMA ReactLateInv ==
  ASSUME IInv, NEW d \in Deliveries, ReactLate(d)
  PROVE  IInv'
<1>1. /\ pc[d] = "reactLate" /\ pc' = [pc EXCEPT ![d] = "card"] /\ pc'[d] = "card"
      /\ UNCHANGED <<locals, holder, tables, live, repost, rooms, lost, clashed>>
      /\ reactions' = reactions \/ reactions' = reactions \cup {<<import[d], ActorOf[Act(d)]>>}
      /\ faults' = faults \/ (faults < MaxFaults /\ faults' = faults + 1)
  BY Before DEF ReactLate, React, Refused, Answered, At, Go, TypeOK
<1>r. import[d] \in Events /\ (import[d] = row[import[d].ap] \/ import[d] \in lost)
  BY <1>1, Before, Names DEF Sound, RowsOwn
<1>f. faults' \in 0..MaxFaults BY <1>1, Before, FaultsAssumption
<1>s. /\ reactions' \subseteq Events \X Actors
      /\ \A r \in reactions' : r \in reactions \/ r[1] = row[r[1].ap] \/ r[1] \in lost
  BY <1>1, <1>r, Before
<1>2. Sound(d)'
  BY <1>1, Before
     DEF Sound, locals, tables, matrix, history, Inside, Creating, Reposting, Undoing, Sending,
         Unrecorded, NoteEvent, CardEvent, Note, Act
<1>3. Locks(d) BY <1>1 DEF Locks
<1>4. "card" \in PCs BY DEF PCs
<1>5. Local(d, "card", target[d], import[d], room[d])
  BY <1>1, <1>2, <1>3, <1>4, <1>f, <1>s, Before DEF Local, locals, tables, matrix, history
<1> QED BY <1>5, LocalStep

LEMMA UnreactInv ==
  ASSUME IInv, NEW d \in Deliveries, Unreact(d)
  PROVE  IInv'
<1> DEFINE q == IF target[d] # NoEvent THEN "undoCard" ELSE "finish"
<1>1. /\ pc[d] = "unreact" /\ pc' = [pc EXCEPT ![d] = q] /\ pc'[d] = q
      /\ UNCHANGED <<locals, holder, tables, live, repost, rooms, lost, clashed>>
      /\ reactions' \subseteq reactions
      /\ faults' = faults \/ (faults < MaxFaults /\ faults' = faults + 1)
  BY Before DEF Unreact, Refused, Answered, At, Go, TypeOK
<1>q. q \in {"undoCard", "finish"} OBVIOUS
<1> HIDE DEF q
<1>f. faults' \in 0..MaxFaults BY <1>1, Before, FaultsAssumption
<1>2. Sound(d)'
  BY <1>1, <1>q, Before
     DEF Sound, locals, tables, matrix, history, Inside, Creating, Reposting, Undoing, Sending,
         Unrecorded, NoteEvent, CardEvent, Note, Act
<1>3. Locks(d) BY <1>1 DEF Locks
<1>4. q \in PCs BY <1>q DEF PCs
<1>5. Local(d, q, target[d], import[d], room[d])
  BY <1>1, <1>2, <1>3, <1>4, <1>f, Before DEF Local, locals, tables, matrix, history
<1> QED BY <1>5, LocalStep

LEMMA RepostRoomInv ==
  ASSUME IInv, NEW d \in Deliveries, RepostRoom(d)
  PROVE  IInv'
<1> DEFINE q == IF mapped[ActorOf[Act(d)]] = 0 THEN "finish" ELSE "importLock"
<1>1. /\ pc[d] = "repostRoom" /\ pc' = [pc EXCEPT ![d] = q] /\ pc'[d] = q
      /\ UNCHANGED <<locals, holder, tables, matrix, history>>
  BY Before DEF RepostRoom, At, Go, TypeOK
<1>q. q \in {"finish", "importLock"} OBVIOUS
<1> HIDE DEF q
<1>2. Sound(d)'
  BY <1>1, <1>q, Before
     DEF Sound, locals, tables, matrix, history, Inside, Creating, Reposting, Undoing, Sending,
         Unrecorded, NoteEvent, CardEvent, Note, Act
<1>3. Locks(d) BY <1>1 DEF Locks
<1>4. q \in PCs BY <1>q DEF PCs
<1>5. Local(d, q, target[d], import[d], room[d])
  BY <1>1, <1>2, <1>3, <1>4, Before DEF Local, locals, tables, matrix, history
<1> QED BY <1>5, LocalStep

LEMMA ImportLockInv ==
  ASSUME IInv, NEW d \in Deliveries, ImportLock(d)
  PROVE  IInv'
<1>0. Act(d) \in Ids /\ Note(d) \in Ids /\ Note(d) # Act(d) BY Before, Names
<1>1. /\ pc[d] = "importLock" /\ pc' = [pc EXCEPT ![d] = "import"] /\ pc'[d] = "import"
      /\ holder[Note(d)] = NoTask /\ holder' = [holder EXCEPT ![Note(d)] = d]
      /\ UNCHANGED <<locals, tables, matrix, history>>
  BY Before DEF ImportLock, At, Go, TypeOK, Lock!Acquire
<1>h. holder'[Note(d)] = d /\ holder'[Act(d)] = holder[Act(d)]
  BY <1>0, <1>1, Before DEF TypeOK, Lock!TypeOK
<1>2. Sound(d)'
  BY <1>1, <1>h, Before
     DEF Sound, locals, tables, matrix, history, Inside, Creating, Reposting, Undoing, Sending,
         Unrecorded, NoteEvent, CardEvent, Note, Act
<1>3. Locks(d) BY <1>0, <1>1, TakesLock
<1>4. "import" \in PCs BY DEF PCs
<1>5. Local(d, "import", target[d], import[d], room[d])
  BY <1>1, <1>2, <1>3, <1>4, Before DEF Local, locals, tables, matrix, history
<1> QED BY <1>5, LocalStep

LEMMA ImportCheckInv ==
  ASSUME IInv, NEW d \in Deliveries, ImportCheck(d)
  PROVE  IInv'
<1> DEFINE q == IF row[Note(d)] # NoEvent THEN "imported"
               ELSE IF mapped[AuthorOf[Note(d)]] = 0 THEN "makeRoom" ELSE "importSend"
<1>1. /\ pc[d] = "import" /\ pc' = [pc EXCEPT ![d] = q] /\ pc'[d] = q
      /\ import' = [import EXCEPT ![d] = row[Note(d)]] /\ import'[d] = row[Note(d)]
      /\ room' = [room EXCEPT ![d] = mapped[AuthorOf[Note(d)]]]
      /\ UNCHANGED <<act, target, holder, tables, matrix, history>>
  BY Before DEF ImportCheck, At, Go, TypeOK
<1>q. /\ q \in {"imported", "makeRoom", "importSend"}
      /\ q # "imported" => row[Note(d)] = NoEvent
  OBVIOUS
<1> HIDE DEF q
<1>2. Sound(d)'
  BY <1>1, <1>q, Before
     DEF Sound, locals, tables, matrix, history, Inside, Creating, Reposting, Undoing, Sending,
         Unrecorded, NoteEvent, CardEvent, Note, Act
<1>3. Locks(d) BY <1>1 DEF Locks
<1>4. q \in PCs BY <1>q DEF PCs
<1>5. Local(d, q, target[d], row[Note(d)], mapped[AuthorOf[Note(d)]])
  BY <1>1, <1>2, <1>3, <1>4, Before DEF Local, locals, tables, matrix, history
<1> QED BY <1>5, LocalStep

LEMMA MakeRoomInv ==
  ASSUME IInv, NEW d \in Deliveries, MakeRoom(d)
  PROVE  IInv'
<1> DEFINE a == AuthorOf[Note(d)]
<1>0. Act(d) \in Ids /\ Note(d) \in Ids /\ Note(d) # Act(d) BY Before, Names
<1>1. /\ pc[d] = "makeRoom"
      /\ UNCHANGED <<act, target, import, tables, live, repost, reactions, lost, clashed>>
  BY DEF MakeRoom, At
<1>2. CASE /\ rooms' = [rooms EXCEPT ![a] = @ + 1] /\ room' = [room EXCEPT ![d] = rooms[a] + 1]
           /\ Go(d, "mapRoom") /\ Answered /\ UNCHANGED holder
  <2>1. pc' = [pc EXCEPT ![d] = "mapRoom"] /\ pc'[d] = "mapRoom" BY <1>2, Before DEF Go, TypeOK
  <2>2. Sound(d)'
    BY <1>1, <1>2, <2>1, Before, SamePath
       DEF Sound, tables, Inside, Creating, Reposting, Undoing, Sending,
           Unrecorded, NoteEvent, CardEvent, Note, Act
  <2>3. Locks(d) BY <1>2 DEF Locks
  <2>4. "mapRoom" \in PCs BY DEF PCs
  <2>5. rooms[a] + 1 \in Nat /\ rooms' \in [Actors -> Nat] BY <1>2, Before
  <2>6. Local(d, "mapRoom", target[d], import[d], rooms[a] + 1)
    BY <1>1, <1>2, <2>1, <2>2, <2>3, <2>4, <2>5, Before DEF Local, tables, Answered
  <2> QED BY <2>6, LocalStep
<1>3. CASE Refused /\ Lock!Release(d, Note(d)) /\ Go(d, "finish") /\ UNCHANGED <<rooms, room>>
  <2>1. /\ pc' = [pc EXCEPT ![d] = "finish"] /\ pc'[d] = "finish"
        /\ holder[Note(d)] = d /\ holder' = [holder EXCEPT ![Note(d)] = NoTask]
    BY <1>3, Before DEF Go, TypeOK, Lock!Release
  <2>2. holder'[Act(d)] = holder[Act(d)] BY <1>0, <2>1, Before DEF TypeOK, Lock!TypeOK
  <2>3. Sound(d)'
    BY <1>1, <1>3, <2>1, <2>2, Before
       DEF Sound, tables, Inside, Creating, Reposting, Undoing, Sending,
           Unrecorded, NoteEvent, CardEvent, Note, Act
  <2>4. Locks(d) BY <1>0, <2>1, LeavesLock
  <2>5. "finish" \in PCs BY DEF PCs
  <2>6. faults' \in 0..MaxFaults BY <1>3, Before, FaultsAssumption DEF Refused
  <2>7. Local(d, "finish", target[d], import[d], room[d])
    BY <1>1, <1>3, <2>1, <2>3, <2>4, <2>5, <2>6, Before DEF Local, tables
  <2> QED BY <2>7, LocalStep
<1> QED BY <1>2, <1>3 DEF MakeRoom

LEMMA MapRoomInv ==
  ASSUME IInv, NEW d \in Deliveries, MapRoom(d)
  PROVE  IInv'
<1>1. /\ pc[d] = "mapRoom" /\ pc' = [pc EXCEPT ![d] = "importSend"] /\ pc'[d] = "importSend"
      /\ mapped' = [mapped EXCEPT ![AuthorOf[Note(d)]] = room[d]] /\ mapped' \in [Actors -> Nat]
      /\ UNCHANGED <<locals, holder, row, matrix, history>>
  BY Before DEF MapRoom, At, Go, TypeOK
<1>2. Sound(d)'
  BY <1>1, Before, SamePath
     DEF Sound, locals, tables, matrix, history, Inside, Creating, Reposting, Undoing, Sending,
         Unrecorded, NoteEvent, CardEvent, Note, Act
<1>3. Locks(d) BY <1>1 DEF Locks
<1>4. "importSend" \in PCs BY DEF PCs
<1>5. Local(d, "importSend", target[d], import[d], room[d])
  BY <1>1, <1>2, <1>3, <1>4, Before DEF Local, locals, tables, matrix, history
<1> QED BY <1>5, LocalStep

LEMMA ImportedInv ==
  ASSUME IInv, NEW d \in Deliveries, Imported(d)
  PROVE  IInv'
<1> DEFINE q == IF import[d] # NoEvent /\ target[d] = NoEvent THEN "reactLate" ELSE "card"
<1>0. Act(d) \in Ids /\ Note(d) \in Ids /\ Note(d) # Act(d) BY Before, Names
<1>1. /\ pc[d] = "imported" /\ pc' = [pc EXCEPT ![d] = q] /\ pc'[d] = q
      /\ holder[Note(d)] = d /\ holder' = [holder EXCEPT ![Note(d)] = NoTask]
      /\ UNCHANGED <<locals, tables, matrix, history>>
  BY Before DEF Imported, At, Go, TypeOK, Lock!Release
<1>q. q \in {"reactLate", "card"} /\ (q = "reactLate" => import[d] # NoEvent) OBVIOUS
<1> HIDE DEF q
<1>h. holder'[Act(d)] = holder[Act(d)]
  BY <1>0, <1>1, Before DEF TypeOK, Lock!TypeOK
<1>2. Sound(d)'
  BY <1>1, <1>q, <1>h, Before
     DEF Sound, locals, tables, matrix, history, Inside, Creating, Reposting, Undoing, Sending,
         Unrecorded, NoteEvent, CardEvent, Note, Act
<1>3. Locks(d) BY <1>0, <1>1, LeavesLock
<1>4. q \in PCs BY <1>q DEF PCs
<1>5. Local(d, q, target[d], import[d], room[d])
  BY <1>1, <1>2, <1>3, <1>4, Before DEF Local, locals, tables, matrix, history
<1> QED BY <1>5, LocalStep

LEMMA UndoCheckInv ==
  ASSUME IInv, NEW d \in Deliveries, UndoCheck(d)
  PROVE  IInv'
<1> DEFINE t == row[AnnounceOf[Act(d)]]
<1>1. PICK q \in {"unreact", "finish"} : pc' = [pc EXCEPT ![d] = q] BY DEF UndoCheck, Go
<1>2. /\ pc[d] = "undo" /\ pc'[d] = q /\ target' = [target EXCEPT ![d] = t]
      /\ UNCHANGED <<act, import, room, holder, tables, matrix, history>>
  BY <1>1, Before DEF UndoCheck, At, TypeOK
<1>3. t \in Events \cup {NoEvent}
  <2>1. Act(d) \in Activities /\ Kind[Act(d)] = "Undo"
    BY <1>2, Before, ActivitiesAssumption DEF Sound, Undoing, Act, TypeOK
  <2>2. AnnounceOf[Act(d)] \in Ids BY <2>1, ActivitiesAssumption DEF Ids
  <2> QED BY <2>2, Before DEF TypeOK
<1>4. Sound(d)'
  BY <1>2, Before
     DEF Sound, tables, matrix, history, Inside, Creating, Reposting, Undoing, Sending,
         Unrecorded, NoteEvent, CardEvent, Note, Act
<1>5. Locks(d) BY <1>2 DEF Locks
<1>6. q \in PCs BY DEF PCs
<1> HIDE DEF t
<1>7. Local(d, q, t, import[d], room[d])
  BY <1>1, <1>2, <1>3, <1>4, <1>5, <1>6, Before DEF Local, tables, matrix, history
<1> QED BY <1>7, LocalStep

-------------------------------------------------------------------------------
\* A step of d that sends e: from here on e is d's to record.
Sends(d, q, e, r) ==
  /\ q \in PCs /\ e \in Events /\ r \in {repost[d], NoEvent, row[Note(d)]} \cup lost
  /\ pc' = [pc EXCEPT ![d] = q] /\ live' = live \cup {e} /\ repost' = [repost EXCEPT ![d] = r]
  /\ pc[d] \in {"createSend", "importSend", "card"}
  /\ UNCHANGED <<locals, holder, tables, reactions, rooms, lost, clashed, faults>>
  /\ e \in Unsettled(d)' /\ Sound(d)'

LEMMA SendStep ==
  ASSUME IInv, NEW d \in Deliveries, NEW q, NEW e, NEW r, Sends(d, q, e, r)
  PROVE  IInv'
<1>1. TypeOK /\ row[Note(d)] \in Events \cup {NoEvent} BY Before
<1>2. TypeOK'
  <2>1. r \in Events \cup {NoEvent} BY <1>1 DEF Sends, TypeOK
  <2> QED BY <1>1, <2>1 DEF TypeOK, Lock!TypeOK, Sends, locals, tables
<1>3. Frame(d)
  <2>1. \A u \in Deliveries \ {d} : pc'[u] = pc[u] /\ repost'[u] = repost[u]
    BY <1>1 DEF TypeOK, Sends
  <2> QED BY <1>1, <2>1 DEF Frame, Sends, locals, tables
<1>4. Due(d)
  <2>1. pc'[d] = q /\ repost'[d] = r BY <1>1 DEF TypeOK, Sends
  <2>2. Unsettled(d) = {} BY DEF Unsettled, Sends
  <2>3. \A u \in live' : u \notin live \/ u \in Unsettled(d) => Settled(d, u)
    BY <2>2 DEF Settled, Sends
  <2>4. \A x \in Ids : row'[x] # NoEvent /\ row'[x] \notin live' =>
          row'[x] = row[x] /\ row[x] \notin live
    BY DEF Sends, tables
  <2> QED BY <1>2, <2>1, <2>3, <2>4 DEF Due, Sends, locals, tables
<1> QED BY <1>3, <1>4, TaskStep

\* A request of d that Synapse refuses: nothing changes but d's place.
Gives(d, q) ==
  /\ q \in PCs /\ pc' = [pc EXCEPT ![d] = q] /\ Refused
  /\ pc[d] \in {"createSend", "importSend", "card", "delete", "undoCard"}
  /\ UNCHANGED <<locals, holder, tables, live, repost, reactions, rooms, lost, clashed>>
  /\ Sound(d)'

LEMMA RefusedStep ==
  ASSUME IInv, NEW d \in Deliveries, NEW q, Gives(d, q)
  PROVE  IInv'
<1>1. faults' \in 0..MaxFaults BY Before, FaultsAssumption DEF Gives, Refused
<1>2. Locks(d) BY DEF Locks, Gives
<1>3. Local(d, q, target[d], import[d], room[d])
  BY <1>1, <1>2, Before DEF Local, Gives, locals, tables
<1> QED BY <1>3, LocalStep

LEMMA CreateSendInv ==
  ASSUME IInv, NEW d \in Deliveries, CreateSend(d)
  PROVE  IInv'
<1>1. pc[d] = "createSend" /\ UNCHANGED <<locals, holder, tables, repost, reactions, rooms, lost, clashed>>
  BY DEF CreateSend, At
<1>2. CASE live' = live \cup {NoteEvent(d)} /\ Go(d, "createRecord") /\ Answered
  <2>1. pc' = [pc EXCEPT ![d] = "createRecord"] /\ pc'[d] = "createRecord" BY <1>2, Before DEF Go, TypeOK
  <2>r. repost = [repost EXCEPT ![d] = repost[d]] BY Before DEF TypeOK
  <2>2. Sound(d)'
    BY <1>1, <1>2, <2>1, Before, SamePath
       DEF Sound, locals, tables, Inside, Creating, Reposting, Undoing, Sending, Unrecorded,
         NoteEvent, CardEvent, Note, Act
  <2>3. NoteEvent(d) \in Unsettled(d)' BY <1>1, <2>1 DEF Unsettled, NoteEvent, Note, Act, locals
  <2>4. NoteEvent(d) \in Events BY Before, Names
  <2>5. Sends(d, "createRecord", NoteEvent(d), repost[d])
    BY <1>1, <1>2, <2>1, <2>r, <2>2, <2>3, <2>4 DEF Sends, PCs, Answered
  <2> QED BY <2>5, SendStep
<1>3. CASE Refused /\ Go(d, "finish") /\ UNCHANGED live
  <2>1. pc' = [pc EXCEPT ![d] = "finish"] /\ pc'[d] = "finish" BY <1>3, Before DEF Go, TypeOK
  <2>2. Sound(d)'
    BY <1>1, <1>3, <2>1, Before, SamePath
       DEF Sound, locals, tables, Inside, Creating, Reposting, Undoing, Sending, Unrecorded,
         NoteEvent, CardEvent, Note, Act
  <2>3. Gives(d, "finish") BY <1>1, <1>3, <2>1, <2>2 DEF Gives, PCs
  <2> QED BY <2>3, RefusedStep
<1> QED BY <1>2, <1>3 DEF CreateSend

LEMMA ImportSendInv ==
  ASSUME IInv, NEW d \in Deliveries, ImportSend(d)
  PROVE  IInv'
<1>1. pc[d] = "importSend" /\ UNCHANGED <<locals, holder, tables, repost, reactions, rooms, lost, clashed>>
  BY DEF ImportSend, At
<1>2. CASE live' = live \cup {NoteEvent(d)} /\ Go(d, "importRecord") /\ Answered
  <2>1. pc' = [pc EXCEPT ![d] = "importRecord"] /\ pc'[d] = "importRecord" BY <1>2, Before DEF Go, TypeOK
  <2>r. repost = [repost EXCEPT ![d] = repost[d]] BY Before DEF TypeOK
  <2>2. Sound(d)'
    BY <1>1, <1>2, <2>1, Before, SamePath
       DEF Sound, locals, tables, Inside, Creating, Reposting, Undoing, Sending, Unrecorded,
         NoteEvent, CardEvent, Note, Act
  <2>3. NoteEvent(d) \in Unsettled(d)' BY <1>1, <2>1 DEF Unsettled, NoteEvent, Note, Act, locals
  <2>4. NoteEvent(d) \in Events BY Before, Names
  <2>5. Sends(d, "importRecord", NoteEvent(d), repost[d])
    BY <1>1, <1>2, <2>1, <2>r, <2>2, <2>3, <2>4 DEF Sends, PCs, Answered
  <2> QED BY <2>5, SendStep
<1>3. CASE Refused /\ Go(d, "imported") /\ UNCHANGED live
  <2>1. pc' = [pc EXCEPT ![d] = "imported"] /\ pc'[d] = "imported" BY <1>3, Before DEF Go, TypeOK
  <2>2. Sound(d)'
    BY <1>1, <1>3, <2>1, Before, SamePath
       DEF Sound, locals, tables, Inside, Creating, Reposting, Undoing, Sending, Unrecorded,
         NoteEvent, CardEvent, Note, Act
  <2>3. Gives(d, "imported") BY <1>1, <1>3, <2>1, <2>2 DEF Gives, PCs
  <2> QED BY <2>3, RefusedStep
<1> QED BY <1>2, <1>3 DEF ImportSend

LEMMA SendCardInv ==
  ASSUME IInv, NEW d \in Deliveries, SendCard(d)
  PROVE  IInv'
<1>1. pc[d] = "card" /\ UNCHANGED <<locals, holder, tables, reactions, rooms, lost, clashed>>
  BY DEF SendCard, At
<1>2. CASE /\ live' = live \cup {CardEvent(d)} /\ Go(d, "cardRecord") /\ Answered
           /\ repost' = [repost EXCEPT ![d] = import[d]]
  <2>1. pc' = [pc EXCEPT ![d] = "cardRecord"] /\ pc'[d] = "cardRecord" BY <1>2, Before DEF Go, TypeOK
  <2>r. import[d] \in {NoEvent, row[Note(d)]} \cup lost BY Before DEF Sound
  <2>2. Sound(d)'
    BY <1>1, <1>2, <2>1, Before, SamePath
       DEF Sound, locals, tables, Inside, Creating, Reposting, Undoing, Sending, Unrecorded,
         NoteEvent, CardEvent, Note, Act
  <2>3. CardEvent(d) \in Unsettled(d)' BY <1>1, <2>1 DEF Unsettled, CardEvent, Note, Act, locals
  <2>4. CardEvent(d) \in Events BY Before, Names
  <2>5. Sends(d, "cardRecord", CardEvent(d), import[d])
    BY <1>1, <1>2, <2>1, <2>r, <2>2, <2>3, <2>4 DEF Sends, PCs, Answered
  <2> QED BY <2>5, SendStep
<1>3. CASE Refused /\ Go(d, "finish") /\ UNCHANGED <<live, repost>>
  <2>1. pc' = [pc EXCEPT ![d] = "finish"] /\ pc'[d] = "finish" BY <1>3, Before DEF Go, TypeOK
  <2>2. Sound(d)'
    BY <1>1, <1>3, <2>1, Before, SamePath
       DEF Sound, locals, tables, Inside, Creating, Reposting, Undoing, Sending, Unrecorded,
         NoteEvent, CardEvent, Note, Act
  <2>3. Gives(d, "finish") BY <1>1, <1>3, <2>1, <2>2 DEF Gives, PCs
  <2> QED BY <2>3, RefusedStep
<1> QED BY <1>2, <1>3 DEF SendCard

-------------------------------------------------------------------------------
\* A step of d that records under x the event it has sent.
Records(d, q, x, i) ==
  /\ q \in {"finish", "imported"} /\ x \in Ids /\ i \in Events \cup {NoEvent}
  /\ pc' = [pc EXCEPT ![d] = q] /\ import' = [import EXCEPT ![d] = i]
  /\ row[x] = NoEvent /\ Writes(d, x) /\ row' = [row EXCEPT ![x] = [ap |-> x, by |-> d]]
  /\ pc[d] \in {"createRecord", "importRecord", "cardRecord"}
  /\ Unsettled(d) = {[ap |-> x, by |-> d]} /\ [ap |-> x, by |-> d] \in live
  /\ UNCHANGED <<act, target, room, holder, mapped, matrix, history>>
  /\ Sound(d)'

LEMMA RecordStep ==
  ASSUME IInv, NEW d \in Deliveries, NEW q, NEW x, NEW i, Records(d, q, x, i)
  PROVE  IInv'
<1> DEFINE e == [ap |-> x, by |-> d]
<1>1. TypeOK BY Before
<1>2. /\ e \in Events /\ e.ap = x /\ e \in live /\ Unsettled(d) = {e}
      /\ row \in [Ids -> Events \cup {NoEvent}] /\ row' = [row EXCEPT ![x] = e] /\ x \in Ids
      /\ row[x] = NoEvent
  BY <1>1 DEF Records, Events, TypeOK
<1> HIDE DEF e
<1>3. row' \in [Ids -> Events \cup {NoEvent}] /\ row'[x] = e /\ \A y \in Ids \ {x} : row'[y] = row[y]
  BY <1>2
<1>4. TypeOK'
  <2>1. q \in PCs BY DEF Records, PCs
  <2> QED BY <1>1, <1>3, <2>1 DEF TypeOK, Lock!TypeOK, Records, matrix, history
<1>5. Frame(d)
  <2>1. \A u \in Deliveries \ {d} : pc'[u] = pc[u] /\ import'[u] = import[u]
    BY <1>1 DEF TypeOK, Records
  <2>2. \A y \in Ids :
          row'[y] = row[y] \/ (row[y] = NoEvent /\ Writes(d, y) /\ row'[y] = [ap |-> y, by |-> d])
    BY <1>2, <1>3 DEF Records, e
  <2> QED BY <2>1, <2>2 DEF Frame, Records, matrix, history
<1>6. Due(d)
  <2>1. pc'[d] = q BY <1>1 DEF TypeOK, Records
  <2>2. \A u \in live' : u \notin live \/ u \in Unsettled(d) => Settled(d, u)
    BY <1>2, <1>3 DEF Settled, Records, matrix
  <2>3. \A y \in Ids : row'[y] # NoEvent /\ row'[y] \notin live' =>
          row'[y] = row[y] /\ row[y] \notin live
    BY <1>2, <1>3 DEF Records, matrix
  <2> QED BY <1>4, <2>1, <2>2, <2>3 DEF Due, Records, matrix, history
<1> QED BY <1>5, <1>6, TaskStep

LEMMA CreateRecordInv ==
  ASSUME IInv, NEW d \in Deliveries, CreateRecord(d)
  PROVE  IInv'
<1>1. /\ pc[d] = "createRecord" /\ pc' = [pc EXCEPT ![d] = "finish"] /\ pc'[d] = "finish"
      /\ UNCHANGED <<locals, holder, mapped, matrix, lost, faults>>
  BY Before DEF CreateRecord, At, Go, TypeOK
<1>2. /\ NoteEvent(d) \in live /\ holder[Act(d)] = d /\ Kind[Act(d)] = "Create"
      /\ Unsettled(d) = {NoteEvent(d)} /\ NoteEvent(d) \in Events /\ NoteEvent(d).ap = Note(d)
      /\ Note(d) \in Ids
  BY <1>1, Before, Names DEF Sound, Creating, Unsettled
<1>3. CASE row[Note(d)] = NoEvent
  <2>1. row' = [row EXCEPT ![Note(d)] = NoteEvent(d)] /\ clashed' = clashed
    BY <1>3 DEF CreateRecord
  <2>2. import[d] # NoEvent => import[d] \in lost BY <1>3, Before DEF Sound
  <2>3. Sound(d)'
    BY <1>1, <1>2, <2>1, <2>2, Before
       DEF Sound, locals, Inside, Creating, Reposting, Undoing, Sending, Unrecorded,
           NoteEvent, CardEvent, Note, Act
  <2>4. Writes(d, Note(d)) BY <1>2 DEF Writes
  <2>5. Records(d, "finish", Note(d), import[d])
    BY <1>1, <1>2, <1>3, <2>1, <2>3, <2>4, Before DEF Records, locals, history, NoteEvent
  <2> QED BY <2>5, RecordStep
<1>4. CASE row[Note(d)] # NoEvent
  <2>1. row' = row /\ clashed' = clashed \cup {NoteEvent(d)} BY <1>4 DEF CreateRecord
  <2>2. ~ SinglePath(Note(d)) BY <1>1, <1>4, Before DEF Sound, Sending
  <2>3. Sound(d)'
    BY <1>1, <1>2, <2>1, Before
       DEF Sound, locals, Inside, Creating, Reposting, Undoing, Sending, Unrecorded,
           NoteEvent, CardEvent, Note, Act
  <2>4. TypeOK'
    BY <1>1, <1>2, <2>1, Before DEF TypeOK, Lock!TypeOK, locals, matrix, PCs
  <2>5. Frame(d)
    <3>1. \A u \in Deliveries \ {d} : pc'[u] = pc[u] BY <1>1, Before DEF TypeOK
    <3> QED BY <1>1, <2>1, <3>1 DEF Frame, locals, matrix
  <2>6. Due(d)
    BY <1>1, <1>2, <2>1, <2>2, <2>3, <2>4 DEF Due, Settled, matrix
  <2> QED BY <2>5, <2>6, TaskStep
<1> QED BY <1>3, <1>4

LEMMA ImportRecordInv ==
  ASSUME IInv, NEW d \in Deliveries, ImportRecord(d)
  PROVE  IInv'
<1>1. /\ pc[d] = "importRecord"
      /\ UNCHANGED <<act, target, room, holder, mapped, matrix, clashed>>
  BY DEF ImportRecord, At
<1>2. /\ NoteEvent(d) \in live /\ holder[Act(d)] = d /\ holder[Note(d)] = d
      /\ Kind[Act(d)] = "Announce" /\ row[Act(d)] = NoEvent /\ row[Note(d)] # NoteEvent(d)
      /\ Unsettled(d) = {NoteEvent(d)} /\ NoteEvent(d) \in Events /\ NoteEvent(d).ap = Note(d)
      /\ Note(d) \in Ids /\ Act(d) \in Ids /\ Act(d) # Note(d)
  BY <1>1, Before, Names DEF Sound, Inside, Reposting, Unrecorded, Unsettled
<1>3. CASE /\ row[Note(d)] = NoEvent /\ row' = [row EXCEPT ![Note(d)] = NoteEvent(d)]
           /\ import' = [import EXCEPT ![d] = NoteEvent(d)] /\ Go(d, "imported")
           /\ UNCHANGED <<lost, faults>>
  <2>1. /\ pc' = [pc EXCEPT ![d] = "imported"] /\ pc'[d] = "imported" /\ import'[d] = NoteEvent(d)
        /\ row'[Note(d)] = NoteEvent(d) /\ row'[Act(d)] = NoEvent
    BY <1>2, <1>3, Before DEF Go, TypeOK
  <2>2. Sound(d)'
    BY <1>1, <1>2, <1>3, <2>1, Before
       DEF Sound, locals, Inside, Creating, Reposting, Undoing, Sending, Unrecorded,
           NoteEvent, CardEvent, Note, Act
  <2>3. Writes(d, Note(d)) BY <1>2 DEF Writes
  <2>4. Records(d, "imported", Note(d), NoteEvent(d))
    BY <1>1, <1>2, <1>3, <2>1, <2>2, <2>3 DEF Records, history, NoteEvent
  <2> QED BY <2>4, RecordStep
<1>4. CASE /\ row[Note(d)] # NoEvent /\ import' = [import EXCEPT ![d] = row[Note(d)]]
           /\ Go(d, "dropDuplicate") /\ UNCHANGED <<row, lost, faults>>
  <2>1. /\ pc' = [pc EXCEPT ![d] = "dropDuplicate"] /\ pc'[d] = "dropDuplicate"
        /\ import'[d] = row[Note(d)] /\ ~ SinglePath(Note(d))
    BY <1>1, <1>4, Before DEF Go, TypeOK, Sound, Sending
  <2>2. Sound(d)'
    BY <1>1, <1>2, <1>4, <2>1, Before, SamePath
       DEF Sound, locals, Inside, Creating, Reposting, Undoing, Sending, Unrecorded,
           NoteEvent, CardEvent, Note, Act
  <2>3. TypeOK'
    BY <1>1, <1>4, <2>1, Before DEF TypeOK, Lock!TypeOK, matrix, PCs
  <2>4. Frame(d)
    <3>1. \A u \in Deliveries \ {d} : pc'[u] = pc[u] /\ import'[u] = import[u]
      BY <1>4, <2>1, Before DEF TypeOK
    <3> QED BY <1>1, <1>4, <3>1 DEF Frame, matrix
  <2>5. Unsettled(d)' = {NoteEvent(d)} BY <1>1, <2>1 DEF Unsettled, NoteEvent, Note, Act
  <2>6. Due(d)
    BY <1>1, <1>2, <1>4, <2>1, <2>2, <2>3, <2>5 DEF Due, Settled, matrix
  <2> QED BY <2>4, <2>6, TaskStep
<1>5. CASE /\ row[Note(d)] = NoEvent /\ Refused /\ import' = [import EXCEPT ![d] = NoteEvent(d)]
           /\ lost' = lost \cup {NoteEvent(d)} /\ Go(d, "imported") /\ UNCHANGED row
  <2>1. /\ pc' = [pc EXCEPT ![d] = "imported"] /\ pc'[d] = "imported" /\ import'[d] = NoteEvent(d)
        /\ NoteEvent(d) \in lost'
    BY <1>5, Before DEF Go, TypeOK
  <2>2. Sound(d)'
    BY <1>1, <1>2, <1>5, <2>1, Before
       DEF Sound, locals, Inside, Creating, Reposting, Undoing, Sending, Unrecorded,
           NoteEvent, CardEvent, Note, Act
  <2>3. TypeOK'
    <3>1. faults' \in 0..MaxFaults BY <1>5, Before, FaultsAssumption DEF Refused
    <3> QED BY <1>1, <1>2, <1>5, <2>1, <3>1, Before DEF TypeOK, Lock!TypeOK, matrix, PCs
  <2>4. Frame(d)
    <3>1. \A u \in Deliveries \ {d} : pc'[u] = pc[u] /\ import'[u] = import[u]
      BY <1>5, <2>1, Before DEF TypeOK
    <3> QED BY <1>1, <1>5, <3>1 DEF Frame, matrix
  <2>5. Due(d)
    BY <1>1, <1>2, <1>5, <2>1, <2>2, <2>3 DEF Due, Settled, matrix
  <2> QED BY <2>4, <2>5, TaskStep
<1> QED BY <1>3, <1>4, <1>5 DEF ImportRecord

LEMMA CardRecordInv ==
  ASSUME IInv, NEW d \in Deliveries, CardRecord(d)
  PROVE  IInv'
<1>1. /\ pc[d] = "cardRecord" /\ pc' = [pc EXCEPT ![d] = "finish"] /\ pc'[d] = "finish"
      /\ row' = [row EXCEPT ![Act(d)] = CardEvent(d)]
      /\ UNCHANGED <<locals, holder, mapped, matrix, history>>
  BY Before DEF CardRecord, At, Go, TypeOK
<1>2. /\ CardEvent(d) \in live /\ holder[Act(d)] = d /\ row[Act(d)] = NoEvent
      /\ Unsettled(d) = {CardEvent(d)} /\ Act(d) \in Ids /\ Note(d) \in Ids /\ Note(d) # Act(d)
  BY <1>1, Before, Names DEF Sound, Reposting, Unsettled
<1>3. row'[Note(d)] = row[Note(d)] BY <1>1, <1>2, Before DEF TypeOK
<1>4. Sound(d)'
  BY <1>1, <1>2, <1>3, Before
     DEF Sound, locals, matrix, history, Inside, Creating, Reposting, Undoing, Sending, Unrecorded,
         NoteEvent, CardEvent, Note, Act
<1>5. Writes(d, Act(d)) BY <1>2 DEF Writes
<1>6. Records(d, "finish", Act(d), import[d])
  BY <1>1, <1>2, <1>4, <1>5, Before DEF Records, locals, CardEvent
<1> QED BY <1>6, RecordStep

-------------------------------------------------------------------------------
LEMMA DropDuplicateInv ==
  ASSUME IInv, NEW d \in Deliveries, DropDuplicate(d)
  PROVE  IInv'
<1> DEFINE e == NoteEvent(d)
<1>1. /\ pc[d] = "dropDuplicate" /\ pc' = [pc EXCEPT ![d] = "imported"] /\ pc'[d] = "imported"
      /\ UNCHANGED <<locals, holder, tables, repost, reactions, rooms, clashed>>
      /\ \/ live' = live \ {e} /\ Answered /\ UNCHANGED lost
         \/ Refused /\ lost' = lost \cup {e} /\ UNCHANGED live
  BY Before DEF DropDuplicate, At, Go, TypeOK
<1>2. /\ Unsettled(d) = {e} /\ e \in Events /\ e.ap = Note(d) /\ row[Note(d)] # e /\ NoEvent # e
  BY <1>1, Before, Names DEF Unsettled, Sound, Unrecorded, Inside
<1>3. \A x \in Ids : row[x] # e BY <1>2, Before DEF RowsOwn
<1> HIDE DEF e
<1>4. Sound(d)'
  BY <1>1, Before
     DEF Sound, locals, tables, Inside, Creating, Reposting, Undoing, Sending, Unrecorded,
           NoteEvent, CardEvent, Note, Act
<1>5. TypeOK'
  <2>1. faults' \in 0..MaxFaults BY <1>1, Before, FaultsAssumption DEF Refused, Answered
  <2> QED BY <1>1, <1>2, <2>1, Before DEF TypeOK, Lock!TypeOK, locals, tables, PCs
<1>6. Frame(d)
  <2>1. \A u \in Deliveries \ {d} : pc'[u] = pc[u] BY <1>1, Before DEF TypeOK
  <2> QED BY <1>1, <2>1 DEF Frame, locals, tables, e
<1>7. Due(d)
  <2>1. \A u \in live' : u \notin live \/ u \in Unsettled(d) => Settled(d, u)
    BY <1>1, <1>2 DEF Settled
  <2>2. \A x \in Ids : row'[x] # NoEvent /\ row'[x] \notin live' =>
          row'[x] = row[x] /\ row[x] \notin live
    BY <1>1, <1>3 DEF tables
  <2> QED BY <1>1, <1>4, <1>5, <2>1, <2>2 DEF Due, locals, tables
<1> QED BY <1>6, <1>7, TaskStep

\* The event x is tracked by disappears, at its author's request.
LEMMA RedactStep ==
  ASSUME IInv, NEW d \in Deliveries, NEW x \in Ids, Redact(d, x), Go(d, "finish"),
         UNCHANGED <<locals, holder, tables, repost, reactions, rooms, lost, clashed>>,
         pc[d] \in {"delete", "undoCard"},
         \/ Kind[Act(d)] = "Delete" /\ x = Note(d)
         \/ Kind[Act(d)] = "Undo" /\ x = AnnounceOf[Act(d)]
  PROVE  IInv'
<1>1. pc' = [pc EXCEPT ![d] = "finish"] /\ pc'[d] = "finish" BY Before DEF Go, TypeOK
<1>2. Sound(d)'
  BY <1>1, Before
     DEF Sound, locals, tables, Inside, Creating, Reposting, Undoing, Sending, Unrecorded,
           NoteEvent, CardEvent, Note, Act
<1>3. CASE Refused /\ UNCHANGED live
  <2>1. Gives(d, "finish") BY <1>1, <1>2, <1>3 DEF Gives, PCs
  <2> QED BY <2>1, RefusedStep
<1>4. CASE Answered /\ UNCHANGED live
  <2>1. Locks(d) BY DEF Locks
  <2>2. "finish" \in PCs BY DEF PCs
  <2>3. Local(d, "finish", target[d], import[d], room[d])
    BY <1>1, <1>2, <1>4, <2>1, <2>2, Before DEF Local, Answered, locals, tables
  <2> QED BY <2>3, LocalStep
<1>5. CASE row[x] # NoEvent /\ RowAuthor(x) = ActorOf[Act(d)] /\ live' = live \ {row[x]} /\ Answered
  <2>1. TypeOK'
    BY <1>1, <1>5, Before DEF TypeOK, Lock!TypeOK, locals, tables, PCs, Answered
  <2>2. Frame(d)
    <3>1. \A u \in Deliveries \ {d} : pc'[u] = pc[u] BY <1>1, Before DEF TypeOK
    <3> QED BY <1>5, <3>1 DEF Frame, locals, tables
  <2>3. Due(d)
    <3>1. Unsettled(d) = {} BY DEF Unsettled
    <3>2. \A y \in Ids : row'[y] # NoEvent /\ row'[y] \notin live' =>
            (row'[y] = row[y] /\ row[y] \notin live) \/ Removed(d, y)
      <4> SUFFICES ASSUME NEW y \in Ids, row[y] # NoEvent, row[y] \notin live', row[y] \in live
                   PROVE  Removed(d, y)
        BY DEF tables
      <4>1. row[y] = row[x] BY <1>5
      <4>2. y = x BY <1>5, <4>1, Before DEF RowsOwn
      <4> QED BY <1>1, <1>5, <4>2 DEF Removed
    <3> QED BY <1>1, <1>2, <1>5, <2>1, <3>1, <3>2 DEF Due, locals, tables
  <2> QED BY <2>2, <2>3, TaskStep
<1> QED BY <1>3, <1>4, <1>5 DEF Redact

LEMMA DeleteInv ==
  ASSUME IInv, NEW d \in Deliveries, Delete(d)
  PROVE  IInv'
<1>1. Kind[Act(d)] = "Delete" /\ Note(d) \in Ids /\ pc[d] = "delete"
  BY Before, Names DEF Delete, At, Sound
<1> QED BY <1>1, RedactStep DEF Delete

LEMMA UndoCardInv ==
  ASSUME IInv, NEW d \in Deliveries, UndoCard(d)
  PROVE  IInv'
<1>1. Kind[Act(d)] = "Undo" /\ Act(d) \in Activities /\ pc[d] = "undoCard"
  BY Before, Names DEF UndoCard, At, Sound, Undoing
<1>2. AnnounceOf[Act(d)] \in Ids BY <1>1, ActivitiesAssumption DEF Ids
<1> QED BY <1>1, <1>2, RedactStep DEF UndoCard

LEMMA AbortInv ==
  ASSUME IInv, NEW d \in Deliveries, Abort(d)
  PROVE  IInv'
<1>1. /\ pc[d] \in CallsSynapse /\ pc' = [pc EXCEPT ![d] = "finish"] /\ pc'[d] = "finish" /\ Refused
      /\ holder' = IF holder[Note(d)] = d THEN [holder EXCEPT ![Note(d)] = NoTask] ELSE holder
      /\ UNCHANGED <<locals, tables, repost, reactions, rooms, clashed>>
  BY Before DEF Abort, Go, TypeOK
<1>2. PICK landed \in {{}, InFlight(d)} : live' = live \cup landed /\ lost' = lost \cup landed \cup Unsettled(d)
  BY DEF Abort
<1>3. InFlight(d) \subseteq Events /\ Unsettled(d) \subseteq Events
  BY Before, Names DEF InFlight, Unsettled
<1>4. Act(d) \in Ids /\ Note(d) \in Ids /\ Note(d) # Act(d) BY Before, Names
<1>5. Locks(d)
  <2>1. CASE holder[Note(d)] = d BY <1>1, <1>4, <2>1, LeavesLock
  <2>2. CASE holder[Note(d)] # d BY <1>1, <2>2 DEF Locks
  <2> QED BY <2>1, <2>2
<1>6. holder'[Act(d)] = holder[Act(d)] BY <1>1, <1>4, Before DEF TypeOK, Lock!TypeOK
<1>7. Sound(d)'
  BY <1>1, <1>2, <1>6, Before
     DEF CallsSynapse, Sound, locals, tables, Inside, Creating, Reposting, Undoing, Sending, Unrecorded,
           NoteEvent, CardEvent, Note, Act
<1>8. TypeOK'
  <2>1. faults' \in 0..MaxFaults BY <1>1, Before, FaultsAssumption DEF Refused
  <2>2. Lock!TypeOK' BY <1>5, Before, LocksFrame
  <2>3. live' \subseteq Events /\ lost' \subseteq Events BY <1>2, <1>3, Before DEF TypeOK
  <2> QED BY <1>1, <2>1, <2>2, <2>3, Before DEF TypeOK, locals, tables, PCs
<1>9. Frame(d)
  <2>1. \A u \in Deliveries \ {d} : pc'[u] = pc[u] BY <1>1, Before DEF TypeOK
  <2> QED BY <1>1, <1>2, <1>5, <2>1, LocksFrame, Before DEF Frame, locals, tables
<1>10. Due(d)
  <2>1. pc[d] # "over" /\ pc[d] # "finish" BY <1>1 DEF CallsSynapse
  <2> QED BY <1>1, <1>2, <1>7, <1>8, <2>1 DEF Due, Settled, locals, tables
<1> QED BY <1>9, <1>10, TaskStep

-------------------------------------------------------------------------------
LEMMA CrashInv ==
  ASSUME IInv, Crash
  PROVE  IInv'
<1>1. /\ lost' = lost \cup UNION {Unsettled(d) : d \in Deliveries}
      /\ pc' = [d \in Deliveries |-> IF pc[d] = "none" THEN "none" ELSE "over"]
      /\ holder' = [k \in Ids |-> NoTask]
      /\ target' = [d \in Deliveries |-> NoEvent] /\ import' = [d \in Deliveries |-> NoEvent]
      /\ room' = [d \in Deliveries |-> 0]
      /\ UNCHANGED <<act, tables, matrix, clashed>>
  BY DEF Crash, Lock!ReleaseAll
<1>2. /\ TypeOK /\ RowsOwn /\ Accounted /\ WinnerSurvives /\ RepostsPointAtMirror /\ ClashesCross
      /\ \A d \in Deliveries : Sound(d)
  BY DEF IInv, MirrorInv
<1>3. /\ \A d \in Deliveries : Act(d)' = Act(d) /\ Note(d)' = Note(d) /\ NoteEvent(d)' = NoteEvent(d)
      /\ \A n : SinglePath(n)' <=> SinglePath(n)
  BY <1>1, SamePath DEF Act, Note, NoteEvent
<1>4. \A d \in Deliveries : Unsettled(d) \subseteq lost' BY <1>1
<1>5. TypeOK'
  <2>1. \A d \in Deliveries : Unsettled(d) \subseteq Events BY <1>2, Names DEF Unsettled
  <2>2. lost' \subseteq Events BY <1>1, <1>2, <2>1 DEF TypeOK
  <2>3. faults' \in 0..MaxFaults BY <1>2, FaultsAssumption DEF Crash, Refused, TypeOK
  <2> QED BY <1>1, <1>2, <2>2, <2>3 DEF TypeOK, Lock!TypeOK, PCs, tables, matrix
<1>6. Accounted' BY <1>1, <1>2, <1>4 DEF Accounted, tables, matrix
<1>7. WinnerSurvives'
  <2>1. \A d \in Deliveries : pc[d] \in {"finish", "over"} => pc'[d] = "over" BY <1>1
  <2> QED BY <1>1, <1>2, <1>3, <2>1 DEF WinnerSurvives, RowAuthor, tables, matrix
<1>8. RepostsPointAtMirror' BY <1>1, <1>2, <1>3 DEF RepostsPointAtMirror, tables, matrix
<1>9. RowsOwn' /\ ClashesCross' BY <1>1, <1>2, <1>3 DEF RowsOwn, ClashesCross, tables
<1>10. ASSUME NEW d \in Deliveries PROVE Sound(d)'
  <2>1. pc'[d] \in {"none", "over"} /\ (pc'[d] = "none" => pc[d] = "none") /\ import'[d] = NoEvent
    BY <1>1
  <2> QED BY <1>1, <1>2, <1>3, <2>1
          DEF Sound, tables, Inside, Creating, Reposting, Undoing, Sending, Unrecorded
<1> QED BY <1>5, <1>6, <1>7, <1>8, <1>9, <1>10 DEF IInv, MirrorInv

LEMMA InitInv ==
  ASSUME Init
  PROVE  IInv
<1>1. TypeOK
  BY ArrivalsAssumption, FaultsAssumption DEF Init, TypeOK, Lock!Init, Lock!TypeOK, PCs
<1>2. RowsOwn /\ ClashesCross /\ Accounted /\ WinnerSurvives /\ RepostsPointAtMirror
  BY DEF Init, RowsOwn, ClashesCross, Accounted, WinnerSurvives, RepostsPointAtMirror
<1>3. ASSUME NEW d \in Deliveries PROVE Sound(d)
  <2>1. /\ pc[d] = "none" /\ import[d] = NoEvent /\ row[Note(d)] = NoEvent /\ NoteEvent(d) # NoEvent
    BY <1>1, Names DEF Init
  <2> QED BY <2>1 DEF Sound, Inside, Creating, Reposting, Undoing, Sending, Unrecorded
<1> QED BY <1>1, <1>2, <1>3 DEF IInv, MirrorInv

LEMMA StutterInv ==
  ASSUME IInv, UNCHANGED vars
  PROVE  IInv'
<1>1. /\ UNCHANGED <<pc, act, target, import, room, holder, row, mapped, live, repost, reactions, rooms>>
      /\ UNCHANGED <<lost, clashed, faults>>
  BY DEF vars, locals, tables, matrix, history
<1>2. TypeOK' /\ RowsOwn' /\ ClashesCross'
  BY <1>1, SamePath DEF IInv, MirrorInv, TypeOK, Lock!TypeOK, RowsOwn, ClashesCross
<1>3. Accounted' /\ WinnerSurvives' /\ RepostsPointAtMirror'
  BY <1>1 DEF IInv, MirrorInv, Accounted, WinnerSurvives, RepostsPointAtMirror,
              Unsettled, NoteEvent, CardEvent, Note, Act, RowAuthor
<1>4. ASSUME NEW d \in Deliveries PROVE Sound(d)'
  BY <1>1, SamePath DEF IInv, Sound, NoteEvent, CardEvent, Note, Act
<1> QED BY <1>2, <1>3, <1>4 DEF IInv, MirrorInv

LEMMA NextInv ==
  ASSUME IInv, [Next]_vars
  PROVE  IInv'
<1>1. ASSUME NEW d \in Deliveries, Step(d) PROVE IInv'
  BY <1>1, FinishInv, CreateCheckInv, CreateSendInv, CreateRecordInv, AnnounceCheckInv,
     AnnounceReactInv, RepostRoomInv, ImportCheckInv, MakeRoomInv, MapRoomInv, ImportSendInv,
     ImportRecordInv, DropDuplicateInv, ImportedInv, ReactLateInv, SendCardInv, CardRecordInv,
     DeleteInv, UndoCheckInv, UnreactInv, UndoCardInv DEF Step
<1> QED BY <1>1, AcceptInv, StartInv, ImportLockInv, AbortInv, CrashInv, StutterInv DEF Next, Idle

LEMMA Inductive == Spec => []IInv
<1> QED BY InitInv, NextInv, PTL DEF Spec

-------------------------------------------------------------------------------
\* Under one path, a post whose event is still to be recorded has no row yet,
\* and one task is at it.
LEMMA OnePending ==
  ASSUME IInv, NEW u \in Deliveries, SinglePath(Note(u)), NEW e \in Unsettled(u), e.ap = Note(u)
  PROVE  /\ e = NoteEvent(u) /\ row[Note(u)] = NoEvent
         /\ \A v \in Deliveries : NoteEvent(v) \in Unsettled(v) /\ Note(v) = Note(u) => v = u
<1>1. e = NoteEvent(u) BY Before, Names DEF Unsettled
<1>2. ASSUME NEW v \in Deliveries, NoteEvent(v) \in Unsettled(v), Note(v) = Note(u)
      PROVE  /\ pc[v] \in {"createRecord", "importRecord"} /\ row[Note(u)] = NoEvent
             /\ holder[Act(v)] = v /\ (pc[v] = "importRecord" => holder[Note(u)] = v)
             /\ Kind[Act(v)] = IF pc[v] = "createRecord" THEN "Create" ELSE "Announce"
  <2>1. NoteEvent(v) # CardEvent(v) BY Before, Names
  <2>2. pc[v] \in {"createRecord", "importRecord", "dropDuplicate"} BY <1>2, <2>1 DEF Unsettled
  <2>3. pc[v] # "dropDuplicate" BY <1>2, Before DEF Sound
  <2> QED BY <1>2, <2>2, <2>3, Before DEF Sound, Creating, Reposting, Inside, Sending
<1>3. ASSUME NEW v \in Deliveries, NoteEvent(v) \in Unsettled(v), Note(v) = Note(u)
      PROVE  v = u
  <2>1. pc[u] = pc[v] BY <1>1, <1>2, <1>3 DEF SinglePath
  <2>2. pc[u] = "createRecord" => Act(u) = Act(v) BY <1>1, <1>2, <1>3, <2>1 DEF SinglePath
  <2> QED BY <1>1, <1>2, <1>3, <2>1, <2>2
<1> QED BY <1>1, <1>2, <1>3

LEMMA OneMirror ==
  ASSUME IInv
  PROVE  MirroredOnce
<1> SUFFICES ASSUME NEW n \in Notes, SinglePath(n) PROVE Cardinality(Mirrors(n) \ lost) <= 1
  BY DEF MirroredOnce
<1> DEFINE S == Mirrors(n) \ lost
<1>1. n \in Ids BY DEF Ids
<1>2. ASSUME NEW e \in S
      PROVE  row[n] = e \/ \E u \in Deliveries : Note(u) = n /\ e = NoteEvent(u) /\ e \in Unsettled(u)
                                              /\ row[n] = NoEvent
  <2>1. e \in live /\ e.ap = n /\ e \notin lost BY DEF Mirrors
  <2>2. e \notin clashed BY <2>1 DEF IInv, ClashesCross
  <2>3. row[n] = e \/ \E u \in Deliveries : e \in Unsettled(u)
    BY <2>1, <2>2 DEF IInv, MirrorInv, Accounted
  <2>4. ASSUME NEW u \in Deliveries, e \in Unsettled(u)
        PROVE  Note(u) = n /\ e = NoteEvent(u) /\ row[n] = NoEvent
    <3>1. e = NoteEvent(u) \/ e = CardEvent(u) BY <2>4 DEF Unsettled
    <3>2. Note(u) = n BY <2>1, <3>1, Before, Names, ActivitiesAssumption
    <3> QED BY <2>1, <2>4, <3>2, OnePending
  <2> QED BY <2>3, <2>4
<1>3. \A e, f \in S : e = f
  <2> SUFFICES ASSUME NEW e \in S, NEW f \in S PROVE e = f
    OBVIOUS
  <2>0. e # NoEvent /\ f # NoEvent BY Before, DistinguishedAssumption DEF Mirrors, IInv, MirrorInv, TypeOK
  <2>1. CASE row[n] = e BY <1>2, <2>0, <2>1
  <2>2. CASE row[n] # e
    <3>1. PICK u \in Deliveries : Note(u) = n /\ e = NoteEvent(u) /\ e \in Unsettled(u) /\ row[n] = NoEvent
      BY <1>2, <2>2
    <3>2. PICK v \in Deliveries : Note(v) = n /\ f = NoteEvent(v) /\ f \in Unsettled(v)
      BY <1>2, <2>0, <3>1
    <3>3. e.ap = n BY DEF Mirrors
    <3>4. v = u BY <3>1, <3>2, <3>3, OnePending
    <3> QED BY <3>1, <3>2, <3>4
  <2> QED BY <2>1, <2>2
<1>4. CASE S = {} BY <1>4, FS_EmptySet
<1>5. CASE S # {}
  <2>1. PICK e : e \in S BY <1>5
  <2>2. S = {e} BY <1>3, <2>1
  <2>3. Cardinality({e}) = 1 BY FS_Singleton
  <2> QED BY <2>2, <2>3
<1> QED BY <1>4, <1>5

\* An event appears because a task sends it, or because a request it sent and
\* got no answer to had its effect.
LEMMA NewEvents ==
  ASSUME IInv, [Next]_vars, NEW e \in live' \ live
  PROVE  \E d \in Deliveries :
           e = CardEvent(d) \/ (e = NoteEvent(d) /\ pc[d] \in {"createSend", "importSend"})
<1>1. ASSUME NEW d \in Deliveries, Step(d)
      PROVE  e = CardEvent(d) \/ (e = NoteEvent(d) /\ pc[d] \in {"createSend", "importSend"})
  <2>1. CreateSend(d) \/ ImportSend(d) \/ SendCard(d) \/ live' \subseteq live
    <3>1. ASSUME NEW x, Redact(d, x) PROVE live' \subseteq live BY <3>1 DEF Redact
    <3> QED BY <1>1, <3>1
            DEF Step, Finish, CreateCheck, CreateRecord, AnnounceCheck, AnnounceReact, RepostRoom,
                ImportCheck, MakeRoom, MapRoom, ImportRecord, DropDuplicate, Imported, ReactLate,
                CardRecord, Delete, UndoCheck, Unreact, UndoCard, matrix, tables
  <2>2. CASE CreateSend(d) \/ ImportSend(d) \/ SendCard(d)
    BY <2>2 DEF CreateSend, ImportSend, SendCard, At
  <2> QED BY <2>1, <2>2
<1>2. ASSUME NEW d \in Deliveries, Abort(d)
      PROVE  e = CardEvent(d) \/ (e = NoteEvent(d) /\ pc[d] \in {"createSend", "importSend"})
  BY <1>2 DEF Abort, InFlight
<1>3. ASSUME NEW d \in Deliveries, Accept(d) \/ Start(d) \/ ImportLock(d) PROVE FALSE
  BY <1>3 DEF Accept, Start, ImportLock, matrix
<1>4. ~ Crash /\ ~ UNCHANGED vars BY DEF Crash, vars, matrix
<1> QED BY <1>1, <1>2, <1>3, <1>4 DEF Next, Idle

LEMMA StaysDeleted ==
  ASSUME IInv, [Next]_vars, NEW n \in Notes, SinglePath(n), row[n] # NoEvent
  PROVE  {e \in live' : e.ap = n} \subseteq Mirrors(n)
<1> SUFFICES ASSUME NEW e \in live' \ live, e.ap = n PROVE FALSE
  BY DEF Mirrors
<1>1. PICK d \in Deliveries :
           e = CardEvent(d) \/ (e = NoteEvent(d) /\ pc[d] \in {"createSend", "importSend"})
  BY NewEvents
<1>2. e # CardEvent(d) BY Before, Names, ActivitiesAssumption
<1>3. Note(d) = n BY <1>1, <1>2, Before, Names
<1> QED BY <1>1, <1>2, <1>3, Before DEF Sound, Sending

-------------------------------------------------------------------------------
\* For any deliveries, copies, failing requests and restarts, every visible
\* event is tracked, about to be recorded, or one of those that slip through
\* (its task ended too early, or its record was rejected); the event the table
\* names only disappears at its author's request; reposts are on the mirror
\* that is tracked (handle_activity, import_note, _redact_for_ap_object).
THEOREM MirrorsAccounted == Spec => []MirrorInv
<1>1. IInv => MirrorInv BY DEF IInv
<1> QED BY <1>1, Inductive, PTL

\* A post that comes in by Announces only, or by one Create activity only, has
\* at most one visible mirror that no failure left behind: the lock of the post
\* (import_note) and that of the activity (handle_activity) suffice for it.
THEOREM OneMirrorPerPost == Spec => []MirroredOnce
<1> QED BY OneMirror, Inductive, PTL

\* Such a post, once its author deleted the mirror, is not mirrored again by a
\* copy however late: the row of federated_events outlives the event.
THEOREM DeletedStaysDeleted == Spec => NoResurrection
<1> DEFINE Stays == \A n \in Notes :
              (SinglePath(n) /\ row[n] # NoEvent /\ row[n] \notin live)
                 => {e \in live' : e.ap = n} \subseteq Mirrors(n)
<1>1. IInv /\ [Next]_vars => [Stays]_vars BY StaysDeleted
<1> QED BY <1>1, Inductive, PTL DEF Spec, NoResurrection
================================================================================
