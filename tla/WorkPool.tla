------------------------------ MODULE WorkPool ------------------------------
(***************************************************************************)
(* What a bounded pool of workers promises: at most `workers' jobs are     *)
(* worked on, at most MaxQueue wait, in the order of their arrival; a job  *)
(* is refused only while the queue is full; every other job is worked on   *)
(* to its end, those that wait when the pool is closed included, and only  *)
(* then is the pool closed.                                                *)
(***************************************************************************)
EXTENDS Naturals, Sequences, FiniteSets

CONSTANTS Job, Workers, MaxQueue

VARIABLES
  workers, \* how many there are, one of Workers
  stage,   \* new, waiting, working, done or refused
  queue,   \* the jobs that wait, the first comes first
  pool     \* open, closing or closed

vars == <<workers, stage, queue, pool>>

Init ==
  /\ workers \in Workers
  /\ stage = [j \in Job |-> "new"] /\ queue = <<>> /\ pool = "open"

Working == {j \in Job : stage[j] = "working"}

Submit(j) ==
  /\ pool = "open" /\ stage[j] = "new" /\ Len(queue) < MaxQueue
  /\ stage' = [stage EXCEPT ![j] = "waiting"] /\ queue' = Append(queue, j)
  /\ UNCHANGED <<workers, pool>>

Refuse(j) ==
  /\ pool = "open" /\ stage[j] = "new" /\ Len(queue) >= MaxQueue
  /\ stage' = [stage EXCEPT ![j] = "refused"]
  /\ UNCHANGED <<workers, queue, pool>>

Start ==
  /\ queue # <<>> /\ Cardinality(Working) < workers
  /\ stage' = [stage EXCEPT ![Head(queue)] = "working"] /\ queue' = Tail(queue)
  /\ UNCHANGED <<workers, pool>>

Finish(j) ==
  /\ stage[j] = "working" /\ stage' = [stage EXCEPT ![j] = "done"]
  /\ UNCHANGED <<workers, queue, pool>>

Close == pool = "open" /\ pool' = "closing" /\ UNCHANGED <<workers, stage, queue>>

Closed ==
  /\ pool = "closing" /\ queue = <<>> /\ Working = {}
  /\ pool' = "closed" /\ UNCHANGED <<workers, stage, queue>>

Next ==
  \/ \E j \in Job : Submit(j) \/ Refuse(j) \/ Finish(j)
  \/ Start \/ Close \/ Closed

SafeSpec == Init /\ [][Next]_vars

Spec == /\ SafeSpec
        /\ WF_vars(Start) /\ WF_vars(Closed) /\ \A j \in Job : WF_vars(Finish(j))
=============================================================================
