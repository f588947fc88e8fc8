---------------------------- MODULE SqliteStore ----------------------------
(***************************************************************************)
(* The reasoning cache of one bridge process (reasoning_store.py, class    *)
(* ReasoningStore): a SQLite table behind one connection that the request  *)
(* threads, the maintenance thread and the main thread share under a lock. *)
(*                                                                         *)
(* The connection opens a transaction at the first INSERT or DELETE and    *)
(* commit() ends it.  put() swallows an exception without rolling back, so *)
(* its INSERT can stay visible to get() and be committed by whoever        *)
(* commits next, or be lost when the process ends.                         *)
(***************************************************************************)
EXTENDS Naturals, FiniteSets, PartialFunctions

CONSTANTS
  Caller,     \* the threads that serve requests
  Main,       \* the thread of cli.main, which shuts the store down
  Maintenance,\* the db-maintenance thread
  Key,        \* cache keys
  MaxAge,     \* max_age_seconds in clock ticks; 0: rows do not age
  MaxRows,    \* max_rows; 0: no bound
  Faults,     \* may statements fail and the process be killed?
  Drained,    \* have all requests ended when cli.main shuts the store down?
  ClockSteps, \* may time.time() be set back?
  MaxTime     \* bound on the clock

Thread == Caller \cup {Main, Maintenance}
Nobody == "nobody"

ASSUME ThreadsAssumption ==
  /\ Main # Maintenance /\ {Main, Maintenance} \cap Caller = {}
  /\ Nobody \notin Thread
ASSUME FiniteAssumption  == IsFiniteSet(Key)
ASSUME NumbersAssumption == /\ {MaxAge, MaxRows, MaxTime} \subseteq Nat
                            /\ {Faults, Drained, ClockSteps} \subseteq BOOLEAN

VARIABLES
  rows,     \* the table as the connection sees it: key -> created_at
  disk,     \* the table as last committed
  inTx,     \* is a transaction open on the connection?
  lock,     \* holder of _lock
  pc,       \* where each thread is
  call,     \* the operation each thread is in
  key,      \* the key of each thread's put or get
  closed,   \* _closed
  open,     \* is the connection open?
  now       \* time.time()

vars == <<rows, disk, inTx, lock, pc, call, key, closed, open, now>>
stored == <<rows, disk, inTx>>
control == <<call, key, closed, open>>

Points == {"idle", "acquire", "insert", "byage", "byrows", "empty", "commit",
           "select", "hit", "sleep", "bloat", "optimize", "exit",
           "closing", "disconnect"}
Calls == {"none", "put", "get", "clear", "prune", "close", "maintain"}

Go(t, p) == pc' = [pc EXCEPT ![t] = p]
At(t, p) == pc[t] = p

(* Leaving the with-block: the lock is released whatever happened in it.     *)
(* The main thread goes on to close(), the maintenance thread to its sleep.  *)
After(t) == IF t = Maintenance THEN "sleep"
            ELSE IF t = Main THEN "closing" ELSE "idle"
(* Mutant: the maintenance loop keeps the lock while it sleeps. *)
SleepWithLock(t) == Go(t, After(t)) /\ lock' = IF t = Maintenance THEN lock ELSE Nobody

Leave(t) == Go(t, After(t)) /\ lock' = Nobody

-----------------------------------------------------------------------------
(* Entering an operation of the store.  MaxTime leaves room for one reading  *)
(* of the clock in each put that has begun.                                  *)

Unread == Cardinality({t \in Caller : call[t] = "put" /\ pc[t] \in {"acquire", "insert"}})

Begin(t, c, k) ==
  /\ t \in Caller /\ At(t, "idle")
  /\ Drained => At(Main, "idle")
  /\ c \in {"get", "put"} /\ (c = "put" => now + Unread < MaxTime)
  /\ call' = [call EXCEPT ![t] = c]
  /\ key' = [key EXCEPT ![t] = k]
  /\ Go(t, "acquire")
  /\ UNCHANGED <<stored, lock, closed, open, now>>

(* Under the lock put() and get() find a closed store and return at once,    *)
(* the maintenance loop ends; clear() and prune() do not look at _closed.    *)
First(c) == CASE c = "put" -> "insert" [] c = "get" -> "select"
              [] c = "clear" -> "empty" [] c = "prune" -> "byage"
              [] c = "maintain" -> "bloat"

(* Mutant: the maintenance loop relies on its test outside the lock. *)
OuterTestOnly(t) == closed /\ call[t] \in {"put", "get"}

Refused(t) == closed /\ call[t] \in {"put", "get", "maintain"}

Acquire(t) ==
  /\ At(t, "acquire") /\ lock = Nobody
  /\ IF Refused(t)
       THEN Go(t, IF t = Maintenance THEN "exit" ELSE "idle") /\ UNCHANGED lock
       ELSE Go(t, First(call[t])) /\ lock' = t
  /\ UNCHANGED <<stored, control, now>>

-----------------------------------------------------------------------------
(* The statements, each in the thread that holds the lock.                   *)

(* INSERT ... ON CONFLICT DO UPDATE with the time read now.  Two reads of    *)
(* the clock differ.  put() prunes only under a positive max_rows.           *)
(* Mutants: the cutoff is taken for the present; put() leaves pruning to      *)
(* prune().                                                                  *)
CutoffAsCreated == now - MaxAge
NeverPruneOnPut == "commit"

CreatedAt == now
AfterInsert == IF MaxRows > 0 THEN "byage" ELSE "commit"

Insert(t) ==
  /\ At(t, "insert")
  /\ rows' = With(rows, key[t], CreatedAt)
  /\ now' = now + 1
  /\ inTx' = TRUE
  /\ Go(t, AfterInsert)
  /\ UNCHANGED <<disk, lock, control>>

(* _prune_locked: rows that are too old, then all but the newest max_rows.   *)
Old(table) == {k \in DOMAIN table : MaxAge > 0 /\ table[k] + MaxAge < now}

PruneByAge(t) ==
  /\ At(t, "byage")
  /\ rows' = Without(rows, Old(rows))
  /\ inTx' = (inTx \/ MaxAge > 0)
  /\ Go(t, "byrows")
  /\ UNCHANGED <<disk, lock, control, now>>

(* Mutant: ORDER BY created_at without DESC. *)
IsOldest(S, table) ==
  /\ S \subseteq DOMAIN table
  /\ Cardinality(S) <= MaxRows
  /\ Cardinality(S) < MaxRows => S = DOMAIN table
  /\ \A k \in S, l \in DOMAIN table \ S : table[k] <= table[l]

(* ORDER BY created_at DESC LIMIT max_rows.                                  *)
IsNewest(S, table) ==
  /\ S \subseteq DOMAIN table
  /\ Cardinality(S) <= MaxRows
  /\ Cardinality(S) < MaxRows => S = DOMAIN table
  /\ \A k \in S, l \in DOMAIN table \ S : table[k] >= table[l]

PruneByRows(t) ==
  /\ At(t, "byrows")
  /\ IF MaxRows > 0
       THEN /\ \E S \in SUBSET DOMAIN rows :
                 IsNewest(S, rows) /\ rows' = Without(rows, DOMAIN rows \ S)
            /\ inTx' = TRUE
       ELSE UNCHANGED <<rows, inTx>>
  /\ Go(t, "commit")
  /\ UNCHANGED <<disk, lock, control, now>>

Empty(t) ==
  /\ At(t, "empty")
  /\ rows' = NoKeys
  /\ inTx' = TRUE
  /\ Go(t, "commit")
  /\ UNCHANGED <<disk, lock, control, now>>

(* commit() ends every transaction that is open, also one of a failed put.   *)
(* Mutant: prune() does not commit. *)
PruneLeftOpen(t) == IF call[t] = "prune" THEN UNCHANGED <<disk, inTx>>
                                         ELSE disk' = rows /\ inTx' = FALSE

Committed(t) == disk' = rows /\ inTx' = FALSE

Commit(t) ==
  /\ At(t, "commit")
  /\ Committed(t)
  /\ IF t = Maintenance THEN Go(t, "optimize") /\ UNCHANGED lock ELSE Leave(t)
  /\ UNCHANGED <<rows, control, now>>

(* get() looks at the key only, never at the row's age.                      *)
Select(t) ==
  /\ At(t, "select")
  /\ IF key[t] \in DOMAIN rows THEN Go(t, "hit") /\ lock' = Nobody ELSE Leave(t)
  /\ UNCHANGED <<stored, control, now>>

ReturnHit(t) ==
  /\ At(t, "hit")
  /\ Go(t, "idle")
  /\ UNCHANGED <<stored, lock, control, now>>

(* A statement raises: put(), get() and the maintenance loop swallow it,     *)
(* clear() and prune() raise it; nobody rolls back.  A prune() that raises   *)
(* in cli.main's finally skips close() and ends the process: see Kill.       *)
Fail(t) ==
  /\ Faults /\ lock = t /\ t # Main
  /\ \/ UNCHANGED inTx
     \/ pc[t] \in {"insert", "byage", "byrows", "empty"} /\ inTx' = TRUE
  /\ Leave(t)
  /\ UNCHANGED <<rows, disk, control, now>>

-----------------------------------------------------------------------------
(* The maintenance thread: sleep, test _closed without the lock, take the    *)
(* lock, test _closed again.  How many pages are free is left open.          *)

Wake ==
  /\ At(Maintenance, "sleep")
  /\ Go(Maintenance, IF closed THEN "exit" ELSE "acquire")
  /\ UNCHANGED <<stored, lock, control, now>>

CheckBloat ==
  /\ At(Maintenance, "bloat")
  /\ \E p \in {"empty", "optimize"} : Go(Maintenance, p)
  /\ UNCHANGED <<stored, lock, control, now>>

Optimize ==
  /\ At(Maintenance, "optimize")
  /\ Leave(Maintenance)
  /\ UNCHANGED <<stored, control, now>>

-----------------------------------------------------------------------------
(* Shutdown: cli.main prunes and closes after serving; a process started     *)
(* with --clear-reasoning-cache clears and closes instead of serving.        *)

Shutdown(c) ==
  /\ c \in {"prune", "clear"}
  /\ At(Main, "idle")
  /\ Drained => \A t \in Caller : At(t, "idle")
  /\ call' = [call EXCEPT ![Main] = c]
  /\ Go(Main, "acquire")
  /\ UNCHANGED <<stored, lock, key, closed, open, now>>

MarkClosed ==
  /\ At(Main, "closing") /\ lock = Nobody
  /\ closed' = TRUE
  /\ call' = [call EXCEPT ![Main] = "close"]
  /\ Go(Main, "disconnect")
  /\ UNCHANGED <<stored, lock, key, open, now>>

(* VACUUM changes no row; closing the connection rolls an open transaction   *)
(* back.  The lock is taken and released in this step.                       *)
Disconnect ==
  /\ At(Main, "disconnect") /\ lock = Nobody
  /\ open' = FALSE
  /\ rows' = disk
  /\ inTx' = FALSE
  /\ Go(Main, "exit")
  /\ UNCHANGED <<disk, lock, call, key, closed, now>>

Started(maintenance, others) ==
  [t \in Thread |-> IF t = Maintenance THEN maintenance ELSE others]

(* A process opens the file: __init__ prunes and commits.                    *)
Opened ==
  /\ LET young == Without(disk, Old(disk))
     IN  IF MaxRows = 0 THEN rows' = young
         ELSE \E S \in SUBSET DOMAIN young :
                IsNewest(S, young) /\ rows' = Without(young, DOMAIN young \ S)
  /\ disk' = rows'
  /\ inTx' = FALSE
  /\ lock' = Nobody
  /\ pc' = Started("sleep", "idle")
  /\ call' = Started("maintain", "none")
  /\ closed' = FALSE
  /\ open' = TRUE
  /\ UNCHANGED <<key, now>>

Reopen == At(Main, "exit") /\ Opened

(* The process is killed, or dies of an exception, and starts again: what    *)
(* was not committed is gone.                                                *)
Kill == Faults /\ open /\ Opened

(* deepseek-bridge --clear-reasoning-cache, in a process of its own: it can  *)
(* write when no transaction is open on the server's connection.             *)
ClearByOtherProcess ==
  /\ Faults /\ open /\ ~inTx
  /\ rows' = NoKeys
  /\ disk' = NoKeys
  /\ UNCHANGED <<inTx, lock, pc, control, now>>

Tick ==
  /\ now + Unread < MaxTime
  /\ now' = now + 1
  /\ UNCHANGED <<stored, lock, pc, control>>

StepClockBack ==
  /\ ClockSteps /\ now > 0
  /\ now' = now - 1
  /\ UNCHANGED <<stored, lock, pc, control>>

Init ==
  /\ rows = NoKeys /\ disk = NoKeys /\ inTx = FALSE
  /\ lock = Nobody
  /\ pc = Started("sleep", "idle")
  /\ call = Started("maintain", "none")
  /\ \E k \in Key : key = [t \in Thread |-> k]
  /\ closed = FALSE /\ open = TRUE
  /\ now = 0

Statement(t) == \/ Insert(t) \/ PruneByAge(t) \/ PruneByRows(t) \/ Empty(t)
                \/ Commit(t) \/ Select(t) \/ ReturnHit(t)
Enter(t)     == (\E c \in {"put", "get"}, k \in Key : Begin(t, c, k)) \/ Acquire(t)
Maintain     == Wake \/ CheckBloat \/ Optimize
End          == (\E c \in {"prune", "clear"} : Shutdown(c)) \/ MarkClosed \/ Disconnect
Environment  == Reopen \/ Kill \/ ClearByOtherProcess \/ Tick \/ StepClockBack

Next == \/ Maintain \/ End \/ Environment
        \/ \E t \in Thread : Enter(t) \/ Statement(t) \/ Fail(t)

Spec == Init /\ [][Next]_vars

(* Every thread that runs goes on with its statements, and a lock that is    *)
(* free again and again is acquired: threading locks promise no order, but   *)
(* its rival, the maintenance thread, sleeps between two acquisitions.       *)
Fairness ==
  /\ \A t \in Thread : WF_vars(Statement(t)) /\ SF_vars(Acquire(t))
  /\ WF_vars(Maintain) /\ SF_vars(MarkClosed) /\ SF_vars(Disconnect)

FairSpec == Spec /\ Fairness

-----------------------------------------------------------------------------
IsTable(f) == DOMAIN f \subseteq Key /\ f \in [DOMAIN f -> Nat]

(* The types of the table, the lock and the threads' positions.              *)
TypeOK ==
  /\ IsTable(rows) /\ IsTable(disk) /\ inTx \in BOOLEAN
  /\ lock \in Thread \cup {Nobody}
  /\ pc \in [Thread -> Points] /\ call \in [Thread -> Calls]
  /\ key \in [Thread -> Key]
  /\ closed \in BOOLEAN /\ open \in BOOLEAN /\ now \in Nat

(* No thread is inside a locked section of a disconnected store: close()     *)
(* may run between any two steps of a put, a get or the maintenance loop,    *)
(* whose test of _closed outside the lock proves nothing.                    *)
ClosedStoreUntouched == lock # Nobody => open

(* What is committed never exceeds max_rows, although a failed put leaves    *)
(* its INSERT in the open transaction and anyone may commit it later.        *)
CommittedRowsBounded == MaxRows > 0 => Cardinality(DOMAIN disk) <= MaxRows

(* While the clock is monotone, the pruning of rows at the end of a put      *)
(* keeps the row the put has inserted, also next to rows of failed puts.     *)
PutSurvivesItsPrune ==
  [][~ClockSteps =>
       \A t \in Caller : PruneByRows(t) /\ key[t] \in DOMAIN rows
                            => key[t] \in DOMAIN rows']_vars

(* An orderly shutdown loses no row that get() would return: the prune       *)
(* before close() commits what failed puts have left open.                   *)
ShutdownKeepsVisibleRows ==
  [][Drained /\ Disconnect =>
       \A k \in DOMAIN rows : k \in DOMAIN disk' /\ disk'[k] = rows[k]]_vars

(* Shutting down ends although the maintenance thread competes for the lock. *)
ShutdownEnds == \A c \in {"prune", "clear"} :
  (call[Main] = c) ~> (At(Main, "exit") \/ call[Main] = "none")
=============================================================================
