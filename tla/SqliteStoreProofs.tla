------------------------- MODULE SqliteStoreProofs -------------------------
(***************************************************************************)
(* Proofs about SqliteStore, for every set of threads and keys and every   *)
(* value of the bounds.                                                    *)
(***************************************************************************)
EXTENDS SqliteStore, FiniteSetTheorems, TLAPS

(* The points inside the with-block on _lock. *)
Inside == {"insert", "byage", "byrows", "empty", "commit", "select", "bloat",
           "optimize"}

(* Only the holder of the lock is inside a locked section. *)
MutualExclusion == \A t \in Thread : pc[t] \in Inside => lock = t

(* Which operation a thread can be in. *)
RolesOK ==
  /\ call[Maintenance] = "maintain"
  /\ \A t \in Caller : /\ pc[t] = "acquire" => call[t] \in {"put", "get"}
                       /\ pc[t] \notin {"closing", "disconnect", "exit"}
  /\ pc[Main] = "acquire" => call[Main] \in {"prune", "clear"}
  /\ pc[Maintenance] \notin {"closing", "disconnect"}

(* Once close() has begun, the main thread does not take the lock again for  *)
(* a statement, and the connection is only gone when it has ended.           *)
CloseOrder ==
  /\ closed <=> pc[Main] \in {"disconnect", "exit"}
  /\ ~open => pc[Main] = "exit"

(* A thread about to commit has pruned the rows it commits. *)
PrunedBeforeCommit ==
  \A t \in Thread : pc[t] = "commit" /\ MaxRows > 0 => Cardinality(DOMAIN rows) <= MaxRows

IInv == /\ TypeOK /\ MutualExclusion /\ RolesOK /\ CloseOrder
        /\ PrunedBeforeCommit /\ CommittedRowsBounded /\ ClosedStoreUntouched

-----------------------------------------------------------------------------
LEMMA ThreadFacts ==
  /\ Main \in Thread /\ Maintenance \in Thread /\ Caller \subseteq Thread
  /\ Main # Maintenance /\ Main \notin Caller /\ Maintenance \notin Caller
  /\ Nobody \notin Thread
BY ThreadsAssumption DEF Thread

LEMMA ConstantFacts ==
  /\ MaxAge \in Nat /\ MaxRows \in Nat /\ MaxTime \in Nat
  /\ Faults \in BOOLEAN /\ Drained \in BOOLEAN /\ ClockSteps \in BOOLEAN
BY NumbersAssumption

(* Binding a key and removing keys keep a table a table. *)
LEMMA WithTable ==
  ASSUME NEW f, IsTable(f), NEW k \in Key, NEW n \in Nat
  PROVE  IsTable(With(f, k, n))
BY DEF IsTable, With

LEMMA WithoutTable ==
  ASSUME NEW f, IsTable(f), NEW ks
  PROVE  /\ IsTable(Without(f, ks))
         /\ DOMAIN Without(f, ks) = DOMAIN f \ ks
BY DEF IsTable, Without

LEMMA NoKeysTable == IsTable(NoKeys) /\ DOMAIN NoKeys = {}
BY DEF IsTable, NoKeys

LEMMA NoKeysBounded == Cardinality(DOMAIN NoKeys) = 0
BY NoKeysTable, FS_EmptySet

(* Keeping the newest rows of a table bounds it. *)
LEMMA NewestBounded ==
  ASSUME NEW f, IsTable(f), NEW S \in SUBSET DOMAIN f, IsNewest(S, f)
  PROVE  /\ IsTable(Without(f, DOMAIN f \ S))
         /\ Cardinality(DOMAIN Without(f, DOMAIN f \ S)) <= MaxRows
<1>1. DOMAIN Without(f, DOMAIN f \ S) = S
  BY WithoutTable
<1> QED BY <1>1, WithoutTable DEF IsNewest

(* A process that opens the file prunes what it finds there. *)
LEMMA OpenedBounded ==
  ASSUME IsTable(disk), Opened
  PROVE  /\ IsTable(rows')
         /\ MaxRows > 0 => Cardinality(DOMAIN rows') <= MaxRows
<1> DEFINE young == Without(disk, Old(disk))
<1>1. IsTable(young)
  BY WithoutTable
<1>2. CASE MaxRows = 0
  BY <1>1, <1>2 DEF Opened
<1>3. CASE MaxRows # 0
  <2>1. PICK S \in SUBSET DOMAIN young :
               IsNewest(S, young) /\ rows' = Without(young, DOMAIN young \ S)
    BY <1>3 DEF Opened
  <2> HIDE DEF young
  <2> QED BY <1>1, <2>1, NewestBounded
<1> QED BY <1>2, <1>3

-----------------------------------------------------------------------------
LEMMA InitIInv == Init => IInv
<1> SUFFICES ASSUME Init PROVE IInv
  OBVIOUS
<1> USE ThreadFacts DEF Init, Started
<1>1. TypeOK
  BY NoKeysTable DEF TypeOK, Points, Calls
<1>2. MutualExclusion /\ RolesOK /\ CloseOrder /\ PrunedBeforeCommit
  BY DEF MutualExclusion, Inside, RolesOK, CloseOrder, PrunedBeforeCommit
<1>3. CommittedRowsBounded /\ ClosedStoreUntouched
  BY NoKeysBounded, ConstantFacts DEF CommittedRowsBounded, ClosedStoreUntouched
<1> QED BY <1>1, <1>2, <1>3 DEF IInv

(* Each step keeps the types. *)
LEMMA TypeStep ==
  ASSUME IInv, [Next]_vars
  PROVE  TypeOK'
<1> USE ThreadFacts, ConstantFacts DEF IInv, TypeOK, Points, Calls, Go, At, stored, control
<1>1. CASE Maintain
  BY <1>1 DEF Maintain, Wake, CheckBloat, Optimize, Leave, After
<1>2. CASE End
  <2>1. ASSUME NEW c \in {"prune", "clear"}, Shutdown(c) PROVE TypeOK'
    BY <2>1 DEF Shutdown
  <2>2. CASE MarkClosed
    BY <2>2 DEF MarkClosed
  <2>3. CASE Disconnect
    BY <2>3 DEF Disconnect
  <2> QED BY <1>2, <2>1, <2>2, <2>3 DEF End
<1>3. ASSUME NEW t \in Thread, Enter(t) PROVE TypeOK'
  <2>1. ASSUME NEW c \in {"put", "get"}, NEW k \in Key, Begin(t, c, k) PROVE TypeOK'
    BY <2>1 DEF Begin
  <2>2. ASSUME Acquire(t) PROVE TypeOK'
    <3>1. pc' \in [Thread -> Points]
      BY <2>2 DEF Acquire, Refused, First, RolesOK, Thread
    <3>2. lock' \in Thread \cup {Nobody}
      BY <2>2 DEF Acquire, Refused
    <3> QED BY <2>2, <3>1, <3>2 DEF Acquire
  <2> QED BY <1>3, <2>1, <2>2 DEF Enter
<1>4. ASSUME NEW t \in Thread, Insert(t) PROVE TypeOK'
  <2>1. IsTable(rows')
    BY <1>4, WithTable DEF Insert, CreatedAt, AfterInsert
  <2> QED BY <1>4, <2>1 DEF Insert, CreatedAt, AfterInsert
<1>5. ASSUME NEW t \in Thread, PruneByAge(t) PROVE TypeOK'
  <2>1. IsTable(rows')
    BY <1>5, WithoutTable DEF PruneByAge
  <2> QED BY <1>5, <2>1 DEF PruneByAge
<1>6. ASSUME NEW t \in Thread, PruneByRows(t) PROVE TypeOK'
  <2>1. IsTable(rows')
    <3>1. CASE UNCHANGED rows
      BY <3>1
    <3>2. CASE \E S \in SUBSET DOMAIN rows : rows' = Without(rows, DOMAIN rows \ S)
      BY <3>2, WithoutTable
    <3> QED BY <1>6, <3>1, <3>2 DEF PruneByRows
  <2>2. inTx' \in BOOLEAN
    BY <1>6 DEF PruneByRows
  <2>3. pc' \in [Thread -> Points] /\ UNCHANGED <<disk, lock, call, key, closed, open, now>>
    BY <1>6 DEF PruneByRows
  <2> QED BY <2>1, <2>2, <2>3
<1>7. ASSUME NEW t \in Thread, Empty(t) PROVE TypeOK'
  BY <1>7, NoKeysTable DEF Empty
<1>8. ASSUME NEW t \in Thread, Commit(t) PROVE TypeOK'
  BY <1>8 DEF Commit, Committed, Leave, After
<1>9. ASSUME NEW t \in Thread, Select(t) \/ ReturnHit(t) PROVE TypeOK'
  BY <1>9 DEF Select, ReturnHit, Leave, After
<1>10. ASSUME NEW t \in Thread, Fail(t) PROVE TypeOK'
  BY <1>10 DEF Fail, Leave, After
<1>11. CASE Reopen \/ Kill
  <2>1. Opened
    BY <1>11 DEF Reopen, Kill
  <2>2. IsTable(rows')
    BY <2>1, OpenedBounded
  <2> QED BY <2>1, <2>2 DEF Opened, Started
<1>12. CASE ClearByOtherProcess
  BY <1>12, NoKeysTable DEF ClearByOtherProcess
<1>13. CASE Tick
  BY <1>13 DEF Tick
<1>14. CASE StepClockBack
  BY <1>14 DEF StepClockBack
<1>15. CASE UNCHANGED vars
  BY <1>15 DEF vars
<1> QED BY <1>1, <1>2, <1>3, <1>4, <1>5, <1>6, <1>7, <1>8, <1>9, <1>10, <1>11,
           <1>12, <1>13, <1>14, <1>15 DEF Next, Statement, Environment

(* The lock, the roles of the threads and the order of close().              *)
LEMMA ControlStep ==
  ASSUME IInv, [Next]_vars
  PROVE  (MutualExclusion /\ RolesOK /\ CloseOrder /\ ClosedStoreUntouched)'
<1> USE ThreadFacts DEF IInv, TypeOK, MutualExclusion, RolesOK, CloseOrder,
        ClosedStoreUntouched, Inside, Points, Calls, Go, At, stored, control
<1> DEFINE Goal == (MutualExclusion /\ RolesOK /\ CloseOrder /\ ClosedStoreUntouched)'
<1>1. CASE Maintain
  BY <1>1 DEF Maintain, Wake, CheckBloat, Optimize, Leave, After
<1>2. CASE End
  BY <1>2 DEF End, Shutdown, MarkClosed, Disconnect
<1>3. ASSUME NEW t \in Thread, Enter(t) PROVE Goal
  <2>1. CASE Acquire(t)
    BY <2>1 DEF Acquire, Refused, First, Thread
  <2>2. CASE \E c \in {"put", "get"}, k \in Key : Begin(t, c, k)
    BY <2>2 DEF Begin
  <2> QED BY <1>3, <2>1, <2>2 DEF Enter
<1>4. ASSUME NEW t \in Thread, Insert(t) \/ PruneByAge(t) \/ PruneByRows(t) \/ Empty(t)
      PROVE  Goal
  BY <1>4 DEF Insert, CreatedAt, AfterInsert, PruneByAge, PruneByRows, Empty
<1>5. ASSUME NEW t \in Thread, Commit(t) PROVE Goal
  BY <1>5 DEF Commit, Committed, Leave, After, Thread
<1>6. ASSUME NEW t \in Thread, Select(t) \/ ReturnHit(t) PROVE Goal
  BY <1>6 DEF Select, ReturnHit, Leave, After, Thread
<1>7. ASSUME NEW t \in Thread, Fail(t) PROVE Goal
  BY <1>7 DEF Fail, Leave, After, Thread
<1>8. CASE Reopen \/ Kill
  BY <1>8 DEF Reopen, Kill, Opened, Started
<1>9. CASE ClearByOtherProcess \/ Tick \/ StepClockBack
  BY <1>9 DEF ClearByOtherProcess, Tick, StepClockBack
<1>10. CASE UNCHANGED vars
  BY <1>10 DEF vars
<1> QED BY <1>1, <1>2, <1>3, <1>4, <1>5, <1>6, <1>7, <1>8, <1>9, <1>10
        DEF Next, Statement, Environment

(* What is about to be committed, and what is committed, is bounded.         *)
LEMMA RowsStep ==
  ASSUME IInv, [Next]_vars
  PROVE  (PrunedBeforeCommit /\ CommittedRowsBounded)'
<1> USE ThreadFacts, ConstantFacts DEF IInv, TypeOK, PrunedBeforeCommit, CommittedRowsBounded,
        MutualExclusion, Inside, Points, Calls, Go, At, stored, control
<1> DEFINE Goal == (PrunedBeforeCommit /\ CommittedRowsBounded)'
<1>1. CASE Maintain
  BY <1>1 DEF Maintain, Wake, CheckBloat, Optimize, Leave, After
<1>2. CASE End
  BY <1>2 DEF End, Shutdown, MarkClosed, Disconnect
<1>3. ASSUME NEW t \in Thread, Enter(t) PROVE Goal
  <2>1. UNCHANGED <<rows, disk>> /\ \A s \in Thread : pc'[s] = "commit" => pc[s] = "commit"
    BY <1>3 DEF Enter, Begin, Acquire, Refused, First, RolesOK, Thread
  <2> QED BY <2>1
<1>4. ASSUME NEW t \in Thread, Insert(t) \/ PruneByAge(t) PROVE Goal
  BY <1>4 DEF Insert, CreatedAt, AfterInsert, PruneByAge
<1>5. ASSUME NEW t \in Thread, PruneByRows(t) PROVE Goal
  <2>1. MaxRows > 0 => Cardinality(DOMAIN rows') <= MaxRows
    BY <1>5, NewestBounded DEF PruneByRows
  <2> QED BY <1>5, <2>1 DEF PruneByRows
<1>6. ASSUME NEW t \in Thread, Empty(t) PROVE Goal
  BY <1>6, NoKeysBounded DEF Empty
<1>7. ASSUME NEW t \in Thread, Commit(t) PROVE Goal
  BY <1>7 DEF Commit, Committed, Leave, After
<1>8. ASSUME NEW t \in Thread, Select(t) \/ ReturnHit(t) PROVE Goal
  BY <1>8 DEF Select, ReturnHit, Leave, After
<1>9. ASSUME NEW t \in Thread, Fail(t) PROVE Goal
  BY <1>9 DEF Fail, Leave, After
<1>10. CASE Reopen \/ Kill
  <2>1. Opened
    BY <1>10 DEF Reopen, Kill
  <2>2. MaxRows > 0 => Cardinality(DOMAIN rows') <= MaxRows
    BY <2>1, OpenedBounded
  <2>3. disk' = rows' /\ \A t \in Thread : pc'[t] # "commit"
    BY <2>1 DEF Opened, Started
  <2> QED BY <2>2, <2>3
<1>11. CASE ClearByOtherProcess
  BY <1>11, NoKeysBounded DEF ClearByOtherProcess
<1>12. CASE Tick \/ StepClockBack
  BY <1>12 DEF Tick, StepClockBack
<1>13. CASE UNCHANGED vars
  BY <1>13 DEF vars
<1> QED BY <1>1, <1>2, <1>3, <1>4, <1>5, <1>6, <1>7, <1>8, <1>9, <1>10, <1>11,
           <1>12, <1>13 DEF Next, Statement, Environment

(* The inductive invariant of the store. *)
THEOREM Invariance == Spec => []IInv
<1>1. IInv /\ [Next]_vars => IInv'
  BY TypeStep, ControlStep, RowsStep DEF IInv
<1> QED BY InitIInv, <1>1, PTL DEF Spec

(* The table, the lock and the threads' positions keep their types. *)
THEOREM TypeCorrect == Spec => []TypeOK
BY Invariance, PTL DEF IInv

(* Committed rows never exceed max_rows, whatever statements fail, whenever  *)
(* the process is killed and however the clock moves.                        *)
THEOREM CommittedBounded == Spec => []CommittedRowsBounded
BY Invariance, PTL DEF IInv

(* No thread is ever inside a locked section of a disconnected store. *)
THEOREM NeverUsedAfterClose == Spec => []ClosedStoreUntouched
BY Invariance, PTL DEF IInv

-----------------------------------------------------------------------------
(* The two action properties: what is visible when the connection is closed, *)
(* and which rows a put prunes.                                              *)

(* An orderly shutdown begins when the callers have ended and none begins    *)
(* after it; the maintenance thread never inserts, the main thread never     *)
(* reads.                                                                    *)
CallersEnded == Drained /\ pc[Main] # "idle" => \A t \in Caller : pc[t] = "idle"
OwnPaths == pc[Maintenance] # "insert" /\ pc[Main] # "select"

(* What the connection still shows once close() has begun is committed.      *)
Within(f, g) == \A k \in DOMAIN f : k \in DOMAIN g /\ g[k] = f[k]
SavedAtClose == Drained /\ pc[Main] \in {"closing", "disconnect"} => Within(rows, disk)

(* A row was created before the present, and that of a put that has not yet  *)
(* pruned after every other.                                                 *)
Past(f) == \A k \in DOMAIN f : f[k] < now
RowsPast == ~ClockSteps => Past(rows) /\ Past(disk)

Newest(k, f) == k \in DOMAIN f => \A l \in DOMAIN f \ {k} : f[l] < f[k]
OwnIsNewest ==
  ~ClockSteps => \A t \in Caller : pc[t] \in {"byage", "byrows"} => Newest(key[t], rows)

AInv == CallersEnded /\ OwnPaths /\ SavedAtClose /\ RowsPast /\ OwnIsNewest

LEMMA WithoutWithin ==
  ASSUME NEW f, NEW ks
  PROVE  Within(Without(f, ks), f)
BY DEF Within, Without

LEMMA NoKeysWithin == ASSUME NEW f PROVE Within(NoKeys, f)
BY DEF Within, NoKeys

LEMMA WithinTransitive ==
  ASSUME NEW f, NEW g, NEW h, Within(f, g), Within(g, h)
  PROVE  Within(f, h)
BY DEF Within

LEMMA WithinKeeps ==
  ASSUME NEW f, NEW g, Within(f, g)
  PROVE  /\ Past(g) => Past(f)
         /\ \A k : Newest(k, g) => Newest(k, f)
BY DEF Within, Past, Newest

(* Pruning and emptying keep what they keep as it was.                       *)
LEMMA ShrinkStep ==
  ASSUME NEW t \in Thread, PruneByAge(t) \/ PruneByRows(t) \/ Empty(t)
  PROVE  Within(rows', rows)
<1>1. Within(rows, rows)
  BY DEF Within
<1>2. CASE PruneByAge(t)
  BY <1>2, WithoutWithin DEF PruneByAge
<1>3. CASE PruneByRows(t)
  BY <1>1, <1>3, WithoutWithin DEF PruneByRows
<1>4. CASE Empty(t)
  BY <1>4, NoKeysWithin DEF Empty
<1> QED BY <1>2, <1>3, <1>4

LEMMA OpenedWithin ==
  ASSUME Opened
  PROVE  Within(rows', disk)
<1> DEFINE young == Without(disk, Old(disk))
<1>1. Within(young, disk)
  BY WithoutWithin
<1>2. rows' = young \/ \E S : rows' = Without(young, DOMAIN young \ S)
  BY DEF Opened
<1> HIDE DEF young
<1>3. rows' = young \/ Within(rows', young)
  BY <1>2, WithoutWithin
<1> QED BY <1>1, <1>3, WithinTransitive

LEMMA AInvInit == Init => AInv
<1> SUFFICES ASSUME Init PROVE AInv
  OBVIOUS
<1>1. DOMAIN rows = {} /\ DOMAIN disk = {}
  BY NoKeysTable DEF Init
<1>2. \A t \in Thread : pc[t] = IF t = Maintenance THEN "sleep" ELSE "idle"
  BY DEF Init, Started
<1> QED BY <1>1, <1>2, ThreadFacts
        DEF AInv, CallersEnded, OwnPaths, SavedAtClose, RowsPast, OwnIsNewest, Past

(* Who is where.                                                             *)
LEMMA EndedStep ==
  ASSUME IInv, CallersEnded, OwnPaths, [Next]_vars
  PROVE  CallersEnded' /\ OwnPaths'
<1> USE ThreadFacts DEF CallersEnded, OwnPaths, IInv, TypeOK, RolesOK, Go, At, stored, control
<1>1. CASE Maintain
  BY <1>1 DEF Maintain, Wake, CheckBloat, Optimize, Leave, After
<1>2. CASE End
  BY <1>2 DEF End, Shutdown, MarkClosed, Disconnect
<1>3. ASSUME NEW t \in Thread, Enter(t) PROVE CallersEnded' /\ OwnPaths'
  <2>1. CASE Acquire(t)
    BY <1>3, <2>1 DEF Acquire, Refused, First
  <2>2. ASSUME NEW c \in {"put", "get"}, NEW k \in Key, Begin(t, c, k)
        PROVE  CallersEnded' /\ OwnPaths'
    BY <2>2 DEF Begin
  <2> QED BY <1>3, <2>1, <2>2 DEF Enter
<1>4. ASSUME NEW t \in Thread, Insert(t) \/ PruneByAge(t) \/ PruneByRows(t) \/ Empty(t)
      PROVE  CallersEnded' /\ OwnPaths'
  BY <1>4 DEF Insert, AfterInsert, PruneByAge, PruneByRows, Empty
<1>5. ASSUME NEW t \in Thread, Commit(t) \/ Select(t) \/ ReturnHit(t) \/ Fail(t)
      PROVE  CallersEnded' /\ OwnPaths'
  BY <1>5 DEF Commit, Select, ReturnHit, Fail, Leave, After
<1>6. CASE Reopen \/ Kill
  BY <1>6 DEF Reopen, Kill, Opened, Started
<1>7. CASE ClearByOtherProcess \/ Tick \/ StepClockBack \/ UNCHANGED vars
  BY <1>7 DEF ClearByOtherProcess, Tick, StepClockBack, vars
<1> QED BY <1>1, <1>2, <1>3, <1>4, <1>5, <1>6, <1>7 DEF Next, Statement, Environment

(* What is visible when the main thread closes has been committed.           *)
LEMMA SavedStep ==
  ASSUME IInv, AInv, [Next]_vars
  PROVE  SavedAtClose'
<1> USE ThreadFacts DEF AInv, SavedAtClose, CallersEnded, OwnPaths, IInv, TypeOK, Go, At,
                        stored, control
<1>0. Within(rows, rows) /\ Within(disk, disk)
  BY DEF Within
<1>1. CASE Maintain
  BY <1>1 DEF Maintain, Wake, CheckBloat, Optimize, Leave, After
<1>2. CASE End
  BY <1>0, <1>2 DEF End, Shutdown, MarkClosed, Disconnect
<1>3. ASSUME NEW t \in Thread, Enter(t) PROVE SavedAtClose'
  BY <1>3 DEF Enter, Acquire, Refused, First, Begin, RolesOK
<1>4. ASSUME NEW t \in Thread, Insert(t) PROVE SavedAtClose'
  BY <1>4 DEF Insert, AfterInsert, Thread
<1>5. ASSUME NEW t \in Thread, PruneByAge(t) \/ PruneByRows(t) \/ Empty(t)
      PROVE  SavedAtClose'
  <2>1. Within(rows', rows) /\ disk' = disk
    BY <1>5, ShrinkStep DEF PruneByAge, PruneByRows, Empty
  <2>2. pc'[Main] \in {"closing", "disconnect"} => pc[Main] \in {"closing", "disconnect"}
    BY <1>5 DEF PruneByAge, PruneByRows, Empty
  <2> QED BY <2>1, <2>2, WithinTransitive
<1>6. ASSUME NEW t \in Thread, Commit(t) PROVE SavedAtClose'
  BY <1>0, <1>6 DEF Commit, Committed
<1>7. ASSUME NEW t \in Thread, Select(t) \/ ReturnHit(t) PROVE SavedAtClose'
  BY <1>7 DEF Select, ReturnHit, Leave, After
<1>8. ASSUME NEW t \in Thread, Fail(t) PROVE SavedAtClose'
  BY <1>8 DEF Fail, Leave, After
<1>9. CASE Reopen \/ Kill
  BY <1>9 DEF Reopen, Kill, Opened, Started
<1>10. CASE ClearByOtherProcess
  BY <1>10, NoKeysWithin DEF ClearByOtherProcess
<1>11. CASE Tick \/ StepClockBack \/ UNCHANGED vars
  BY <1>11 DEF Tick, StepClockBack, vars
<1> QED BY <1>1, <1>2, <1>3, <1>4, <1>5, <1>6, <1>7, <1>8, <1>9, <1>10, <1>11
        DEF Next, Statement, Environment

(* The time of a row, while nobody sets the clock back.                      *)
LEMMA TimeStep ==
  ASSUME IInv, AInv, ~ClockSteps, [Next]_vars
  PROVE  /\ now <= now'
         /\ (Past(rows) /\ Past(disk))'
<1> USE ConstantFacts DEF AInv, RowsPast, IInv, TypeOK, stored, control
<1> DEFINE Goal == now <= now' /\ (Past(rows) /\ Past(disk))'
<1>0. Past(rows) /\ Past(disk) /\ IsTable(rows) /\ IsTable(disk)
  OBVIOUS
<1>1. ASSUME UNCHANGED now, Within(rows', rows) \/ Within(rows', disk),
             Within(disk', disk) \/ disk' = rows'
      PROVE  Goal
  <2>1. Past(rows') /\ Past(disk')
    BY <1>0, <1>1, WithinKeeps
  <2> QED BY <1>1, <2>1 DEF Past
<1>2. Within(rows, rows) /\ Within(disk, disk)
  BY DEF Within
<1>3. CASE Maintain \/ UNCHANGED vars
  BY <1>1, <1>2, <1>3 DEF Maintain, Wake, CheckBloat, Optimize, vars
<1>4. CASE End
  BY <1>1, <1>2, <1>4 DEF End, Shutdown, MarkClosed, Disconnect
<1>5. ASSUME NEW t \in Thread, Enter(t) PROVE Goal
  BY <1>1, <1>2, <1>5 DEF Enter, Acquire, Begin
<1>6. ASSUME NEW t \in Thread, Insert(t) PROVE Goal
  <2>1. /\ rows' = With(rows, key[t], now) /\ now' = now + 1 /\ disk' = disk /\ now \in Nat
    BY <1>6 DEF Insert, CreatedAt
  <2>2. \A k \in DOMAIN rows' : rows'[k] = now \/ (k \in DOMAIN rows /\ rows'[k] = rows[k])
    BY <2>1 DEF With
  <2>3. \A k \in DOMAIN rows : rows[k] \in Nat /\ rows[k] < now
    BY <1>0 DEF IsTable, Past
  <2>4. \A k \in DOMAIN disk : disk[k] \in Nat /\ disk[k] < now
    BY <1>0 DEF IsTable, Past
  <2> QED BY <2>1, <2>2, <2>3, <2>4 DEF Past
<1>7. ASSUME NEW t \in Thread, PruneByAge(t) \/ PruneByRows(t) \/ Empty(t) PROVE Goal
  <2>1. Within(rows', rows) /\ disk' = disk /\ now' = now
    BY <1>7, ShrinkStep DEF PruneByAge, PruneByRows, Empty
  <2> QED BY <1>1, <1>2, <2>1
<1>8. ASSUME NEW t \in Thread, Commit(t) \/ Select(t) \/ ReturnHit(t) \/ Fail(t) PROVE Goal
  BY <1>1, <1>2, <1>8 DEF Commit, Committed, Select, ReturnHit, Fail
<1>9. CASE Reopen \/ Kill
  <2>1. Opened
    BY <1>9 DEF Reopen, Kill
  <2> QED BY <1>1, <2>1, OpenedWithin DEF Opened
<1>10. CASE ClearByOtherProcess
  BY <1>1, <1>10, NoKeysWithin DEF ClearByOtherProcess
<1>11. CASE Tick
  <2>1. now \in Nat /\ now' = now + 1 /\ UNCHANGED <<rows, disk>>
    BY <1>11 DEF Tick
  <2>2. \A k \in DOMAIN rows : rows[k] \in Nat /\ rows[k] < now
    BY <1>0 DEF IsTable, Past
  <2>3. \A k \in DOMAIN disk : disk[k] \in Nat /\ disk[k] < now
    BY <1>0 DEF IsTable, Past
  <2> QED BY <2>1, <2>2, <2>3 DEF Past
<1>12. CASE StepClockBack
  BY <1>12 DEF StepClockBack
<1> QED BY <1>3, <1>4, <1>5, <1>6, <1>7, <1>8, <1>9, <1>10, <1>11, <1>12
        DEF Next, Statement, Environment

(* A put that has inserted holds the lock until it has pruned: no row newer  *)
(* than its own appears.                                                     *)
LEMMA OwnStep ==
  ASSUME IInv, AInv, [Next]_vars
  PROVE  OwnIsNewest'
<1> SUFFICES ASSUME ~ClockSteps, NEW t \in Caller, pc'[t] \in {"byage", "byrows"}
             PROVE  Newest(key[t], rows)'
  BY DEF OwnIsNewest
<1> USE ThreadFacts DEF IInv, TypeOK, MutualExclusion, Inside, Go, At, stored, control
<1>0. ASSUME pc[t] \in {"byage", "byrows"}, key'[t] = key[t], Within(rows', rows)
      PROVE  Newest(key[t], rows)'
  <2>1. Newest(key[t], rows)
    BY <1>0 DEF AInv, OwnIsNewest
  <2>2. Newest(key[t], rows')
    BY <1>0, <2>1, WithinKeeps
  <2> QED BY <1>0, <2>2 DEF Newest
<1>1. Within(rows, rows)
  BY DEF Within
<1>2. CASE Maintain
  BY <1>0, <1>1, <1>2 DEF Maintain, Wake, CheckBloat, Optimize, Leave, After
<1>3. CASE End
  <2>1. pc'[t] = pc[t] /\ key' = key
    BY <1>3 DEF End, Shutdown, MarkClosed, Disconnect
  <2>2. lock = t
    BY <2>1
  <2>3. rows' = rows
    BY <1>3, <2>2 DEF End, Shutdown, MarkClosed, Disconnect
  <2> QED BY <1>0, <1>1, <2>1, <2>3
<1>4. ASSUME NEW s \in Thread, Enter(s) PROVE Newest(key[t], rows)'
  <2>1. rows' = rows /\ pc[t] \in {"byage", "byrows"} /\ key'[t] = key[t]
    BY <1>4 DEF Enter, Acquire, Refused, First, Begin, RolesOK
  <2> QED BY <1>0, <1>1, <2>1
<1>5. ASSUME NEW s \in Thread, Insert(s) PROVE Newest(key[t], rows)'
  <2>1. s = t
    <3>1. pc[s] = "insert" /\ lock = s
      BY <1>5 DEF Insert
    <3>2. CASE s # t
      <4>1. pc[t] \in {"byage", "byrows"}
        BY <1>5, <3>2 DEF Insert
      <4> QED BY <3>1, <3>2, <4>1
    <3> QED BY <3>2
  <2>2. rows' = With(rows, key[t], now) /\ key' = key
    BY <1>5, <2>1 DEF Insert, CreatedAt
  <2>3. Past(rows)
    BY DEF AInv, RowsPast
  <2> QED BY <2>2, <2>3 DEF Newest, Past, With
<1>6. ASSUME NEW s \in Thread, PruneByAge(s) \/ PruneByRows(s) \/ Empty(s)
      PROVE  Newest(key[t], rows)'
  <2>1. Within(rows', rows)
    BY <1>6, ShrinkStep
  <2>2. pc[t] \in {"byage", "byrows"} /\ key' = key
    BY <1>6 DEF PruneByAge, PruneByRows, Empty
  <2> QED BY <1>0, <2>1, <2>2
<1>7. ASSUME NEW s \in Thread, Commit(s) \/ Select(s) \/ ReturnHit(s) \/ Fail(s)
      PROVE  Newest(key[t], rows)'
  BY <1>0, <1>1, <1>7 DEF Commit, Committed, Select, ReturnHit, Fail, Leave, After
<1>8. CASE Reopen \/ Kill
  BY <1>8 DEF Reopen, Kill, Opened, Started
<1>9. CASE ClearByOtherProcess
  BY <1>0, <1>9, NoKeysWithin DEF ClearByOtherProcess
<1>10. CASE Tick \/ StepClockBack \/ UNCHANGED vars
  BY <1>0, <1>1, <1>10 DEF Tick, StepClockBack, vars
<1> QED BY <1>2, <1>3, <1>4, <1>5, <1>6, <1>7, <1>8, <1>9, <1>10
        DEF Next, Statement, Environment

(* The invariant of the two action properties, inductive under IInv. *)
THEOREM ActionInvariance == Spec => []AInv
<1>1. IInv /\ AInv /\ [Next]_vars => AInv'
  <2> SUFFICES ASSUME IInv, AInv, [Next]_vars PROVE AInv'
    OBVIOUS
  <2>1. RowsPast'
    BY TimeStep DEF RowsPast
  <2> QED BY <2>1, EndedStep, SavedStep, OwnStep DEF AInv
<1> QED BY Invariance, AInvInit, <1>1, PTL DEF Spec

(* What is kept of a table that holds a newest row holds this row.           *)
LEMMA NewestKept ==
  ASSUME NEW f, IsTable(f), NEW S \in SUBSET DOMAIN f, IsNewest(S, f), MaxRows > 0,
         NEW k \in DOMAIN f, Newest(k, f)
  PROVE  k \in S
<1> SUFFICES ASSUME k \notin S PROVE FALSE
  OBVIOUS
<1>1. IsFiniteSet(S) /\ Cardinality(S) \in Nat
  BY FiniteAssumption, FS_Subset, FS_CardinalityType DEF IsTable
<1>2. Cardinality(S) # 0
  BY <1>1, ConstantFacts DEF IsNewest
<1>3. PICK l \in S : TRUE
  BY <1>2, FS_EmptySet
<1>4. f[l] >= f[k] /\ f[l] < f[k] /\ f[l] \in Nat /\ f[k] \in Nat
  BY <1>3 DEF IsNewest, Newest, IsTable
<1> QED BY <1>4

(* The prune at the end of a put keeps the put's own row, whatever rows of   *)
(* failed puts are in the table, as long as the clock is monotone (put,      *)
(* _prune_locked).                                                           *)
THEOREM PutsSurvive == Spec => PutSurvivesItsPrune
<1> DEFINE A == ~ClockSteps =>
                  \A t \in Caller : PruneByRows(t) /\ key[t] \in DOMAIN rows
                                       => key[t] \in DOMAIN rows'
<1>1. IInv /\ AInv => A
  <2> SUFFICES ASSUME IInv, AInv, ~ClockSteps, NEW t \in Caller, PruneByRows(t),
                      key[t] \in DOMAIN rows
               PROVE  key[t] \in DOMAIN rows'
    OBVIOUS
  <2>1. Newest(key[t], rows) /\ IsTable(rows)
    BY DEF PruneByRows, At, IInv, TypeOK, AInv, OwnIsNewest
  <2>2. CASE MaxRows > 0
    <3>1. PICK S \in SUBSET DOMAIN rows :
                 IsNewest(S, rows) /\ rows' = Without(rows, DOMAIN rows \ S)
      BY <2>2 DEF PruneByRows
    <3>2. key[t] \in S
      BY <2>1, <2>2, <3>1, NewestKept
    <3> QED BY <3>1, <3>2 DEF Without
  <2>3. CASE ~(MaxRows > 0)
    BY <2>3 DEF PruneByRows
  <2> QED BY <2>2, <2>3
<1>2. IInv /\ AInv /\ [Next]_vars => [A]_vars
  BY <1>1
<1> HIDE DEF A
<1>3. Spec => [][A]_vars
  BY Invariance, ActionInvariance, <1>2, PTL DEF Spec
<1> QED BY <1>3 DEF A, PutSurvivesItsPrune

(* An orderly shutdown loses no row that get() would have returned, failed   *)
(* commits before it included (close, the finally-block of cli.main).        *)
THEOREM ShutdownKeepsRows == Spec => ShutdownKeepsVisibleRows
<1> DEFINE A == Drained /\ Disconnect =>
                  \A k \in DOMAIN rows : k \in DOMAIN disk' /\ disk'[k] = rows[k]
<1>1. IInv /\ AInv => A
  BY DEF AInv, SavedAtClose, Within, Disconnect, At
<1>2. IInv /\ AInv /\ [Next]_vars => [A]_vars
  BY <1>1
<1> HIDE DEF A
<1>3. Spec => [][A]_vars
  BY Invariance, ActionInvariance, <1>2, PTL DEF Spec
<1> QED BY <1>3 DEF A, ShutdownKeepsVisibleRows
=============================================================================
