---------------------------- MODULE LegacyServer ----------------------------
(***************************************************************************)
(* The threaded server that deepseek_bridge.server exports                 *)
(* (server_infrastructure.py, handler/): one thread accepts connections    *)
(* and puts them into the queue of a thread pool, or answers them itself   *)
(* while the queue is full; a worker runs the handler of a connection to   *)
(* its end, over a pool of upstream connections whose waiting has no       *)
(* timeout.                                                                *)
(*                                                                         *)
(* Handlers share the queue, the upstream pool and the metrics, which are  *)
(* locked, so a step is what a handler does between two of its waits.  A   *)
(* handler's own state goes with the handler.                              *)
(***************************************************************************)
EXTENDS Naturals, Sequences, FiniteSets

CONSTANTS
  Request,
  Workers,    \* the settings of max_workers
  MaxQueue,   \* max_queue_size
  PoolSize,   \* max_pool_connections
  MaxRetries, \* max_retries of _send_upstream_with_retry: 2 in the code
  MaxLines    \* bound on the lines of a streamed answer

ASSUME FiniteAssumption  == IsFiniteSet(Request)
ASSUME NumbersAssumption == {MaxQueue, PoolSize, MaxRetries, MaxLines} \cup Workers \subseteq Nat

VARIABLES
  workers, \* max_workers of the executor
  server,  \* serving, closing or closed
  flag,    \* _shutdown_requested
  queue,   \* _work_queue of the executor
  pc,      \* where each connection is
  here,    \* is its client still there, and reading?
  handler, \* the locals of its handler
  holds,   \* the requests that hold an upstream connection
  active,  \* _active_worker_count
  streams  \* _streams_active

vars == <<workers, server, flag, queue, pc, here, handler, holds, active, streams>>
outside == <<workers, server, flag, queue>>

Kinds == {"none", "live", "get", "show", "embeddings", "chat", "stream"}
Handling == {"request", "pool", "asked", "sleep", "reading", "ending", "failing"}
Positions == {"new", "full", "room", "queued", "taken", "done", "refused", "probed"} \cup Handling

Words == {"none", "open", "rejected", "aborted", "upstream_error", "completed",
          "client_disconnected"}
Codes == {200, 204, 400, 401, 404, 409, 413, 429, 500, 503, 504}

NoHandler == [kind |-> "none", word |-> "none", code |-> 0, status |-> 0,
              tries |-> 0, lines |-> 0, reasoning |-> "none"]
Handlers == [kind : Kinds, word : Words, code : {0} \cup Codes,
             status : {0} \cup Codes, tries : Nat, lines : Nat,
             reasoning : {"none", "received", "kept"}]

Go(r, p) == pc' = [pc EXCEPT ![r] = p]
Set(r, h) == handler' = [handler EXCEPT ![r] = h]
Kind(r) == handler[r].kind

Init ==
  /\ workers \in Workers
  /\ server = "serving" /\ flag = FALSE /\ queue = <<>>
  /\ pc = [r \in Request |-> "new"] /\ here = [r \in Request |-> TRUE]
  /\ handler = [r \in Request |-> NoHandler]
  /\ holds = {} /\ active = 0 /\ streams = 0

-----------------------------------------------------------------------------
(* The accepting thread and the workers of the executor.                     *)

LateFull == Len(queue) > MaxQueue
Full == Len(queue) >= MaxQueue

(* The connection the accepting thread is busy with, of which it has read    *)
(* whether the queue was full.                                               *)
Accepting == {r \in Request : pc[r] \in {"full", "room"}}

Accept(r) ==
  /\ server = "serving" /\ pc[r] = "new" /\ Accepting = {}
  /\ Go(r, IF Full THEN "full" ELSE "room")
  /\ UNCHANGED <<outside, here, handler, holds, active, streams>>

(* Refused, though a worker may have made room since; a liveness probe is    *)
(* answered if its request line arrives within the time of the peek.         *)
TurnAway(r) ==
  /\ pc[r] = "full" /\ \E p \in {"probed", "refused"} : Go(r, p)
  /\ UNCHANGED <<outside, here, handler, holds, active, streams>>

Submit(r, k) ==
  /\ pc[r] = "room" /\ Go(r, "queued") /\ queue' = Append(queue, r)
  /\ Set(r, [NoHandler EXCEPT !.kind = k])
  /\ UNCHANGED <<workers, server, flag, here, holds, active, streams>>

Busy == {r \in Request : pc[r] \in {"taken"} \cup Handling}

Take ==
  /\ queue # <<>> /\ Cardinality(Busy) < workers
  /\ Go(Head(queue), "taken") /\ queue' = Tail(queue)
  /\ UNCHANGED <<workers, server, flag, here, handler, holds, active, streams>>

Track(r) ==
  /\ pc[r] = "taken" /\ Go(r, "request") /\ active' = active + 1
  /\ UNCHANGED <<outside, here, handler, holds, streams>>

(* The handler is gone: its metrics are recorded and its socket is closed.   *)
Untrack(r) ==
  /\ pc[r] \in {"ending", "failing"} /\ Go(r, "done") /\ Set(r, NoHandler)
  /\ here' = [here EXCEPT ![r] = TRUE]
  /\ active' = IF active > 0 THEN active - 1 ELSE 0
  /\ UNCHANGED <<outside, holds, streams>>

-----------------------------------------------------------------------------
(* Answers and traces.                                                       *)

(* Writing to a client that is gone may go unnoticed, raise an error that    *)
(* _write_to_client turns into FALSE, or time out, which passes the handler. *)
Sendings(r) == IF here[r] THEN {"sent"} ELSE {"sent", "broken", "stuck"}

Finished(h, word, code) ==
  IF h.word = "open" THEN [h EXCEPT !.word = word, !.code = code] ELSE h

(* The handler's trace is finished and it returns.                           *)
End(r, h, word, code) == Go(r, "ending") /\ Set(r, Finished(h, word, code))

(* An exception passes the handler.                                          *)
Fail(r, h) == Go(r, "failing") /\ Set(r, h)

(* Headers that are sent set the status the metrics will record.             *)
WithStatus(h, sending, code) ==
  IF sending = "sent" /\ h.status = 0 THEN [h EXCEPT !.status = code] ELSE h

(* An error is sent, as JSON or as the last line of a stream, and the trace  *)
(* finished, whether or not the client got it.                               *)
Reply(r, h, word, code) ==
  \E sending \in Sendings(r) :
    IF sending = "stuck" THEN Fail(r, h)
    ELSE End(r, WithStatus(h, sending, code), word, code)

(* The finally-blocks of do_POST and _dispatch_response.                     *)
KeepConnection(r) == UNCHANGED holds
Release(r) == holds' = holds \ {r}
StreamForgotten(r) == UNCHANGED streams
StreamFinished(r) ==
  streams' = IF Kind(r) = "stream" /\ streams > 0 THEN streams - 1 ELSE streams

Kept(h) == IF h.reasoning = "received" THEN [h EXCEPT !.reasoning = "kept"] ELSE h

-----------------------------------------------------------------------------
(* Requests that are answered without upstream.                              *)

Serving(r) == pc[r] = "request" /\ UNCHANGED <<outside, here, holds, active>>

Get(r) ==
  /\ Serving(r) /\ Kind(r) \in {"live", "get"}
  /\ \E code \in {200, 204, 404, 503} : Reply(r, handler[r], "none", code)
  /\ UNCHANGED streams

TracedHandler(r) == [handler[r] EXCEPT !.word = "open"]

(* A trace of these is finished as completed whatever was answered.          *)
Show(r) ==
  /\ Serving(r) /\ Kind(r) = "show"
  /\ IF flag THEN Reply(r, handler[r], "none", 503)
     ELSE \E code \in {200, 400} :
            \E sending \in Sendings(r) :
              IF sending = "stuck" THEN Fail(r, TracedHandler(r))
              ELSE End(r, WithStatus(TracedHandler(r), sending, code), "completed", 0)
  /\ UNCHANGED streams

(* What a chat is refused for: 503 when the server is paused, 400 also when  *)
(* its body does not arrive.                                                 *)
Refuse(r) ==
  /\ Serving(r) /\ Kind(r) \in {"embeddings", "chat"}
  /\ IF flag THEN Reply(r, handler[r], "none", 503)
     ELSE IF Kind(r) = "chat"
     THEN \E code \in {400, 401, 404, 409, 413, 503} :
            Reply(r, TracedHandler(r), "rejected", code)
     ELSE \E code \in {400, 401, 413} : Reply(r, TracedHandler(r), "completed", code)
  /\ UNCHANGED streams

Admitted(r) == Serving(r) /\ ~flag

AbortedUntraced(r) ==
  /\ Admitted(r) /\ Kind(r) = "chat" /\ ~here[r]
  /\ Go(r, "ending") /\ Set(r, TracedHandler(r)) /\ UNCHANGED streams

(* The client is found dead before the request is prepared.                  *)
Aborted(r) ==
  /\ Admitted(r) /\ Kind(r) = "chat" /\ ~here[r]
  /\ End(r, TracedHandler(r), "aborted", 0) /\ UNCHANGED streams

PrepareRaises(r) ==
  /\ Admitted(r) /\ Kind(r) = "chat" /\ Fail(r, TracedHandler(r))
  /\ UNCHANGED streams

Forward(r) ==
  /\ Admitted(r) /\ Kind(r) \in {"embeddings", "chat"} /\ Go(r, "pool")
  /\ Set(r, TracedHandler(r)) /\ UNCHANGED streams

(* The headers of a stream are sent before upstream is asked.                *)
StartStream(r) ==
  /\ Admitted(r) /\ Kind(r) = "chat"
  /\ \E sending \in Sendings(r) :
       CASE sending = "sent" ->
              /\ Go(r, "pool") /\ streams' = streams + 1
              /\ Set(r, [TracedHandler(r) EXCEPT !.kind = "stream", !.status = 200])
         [] sending = "broken" ->
              End(r, TracedHandler(r), "aborted", 0) /\ UNCHANGED streams
         [] OTHER -> Fail(r, TracedHandler(r)) /\ UNCHANGED streams

-----------------------------------------------------------------------------
(* Upstream.                                                                 *)

Connect(r) ==
  /\ pc[r] = "pool" /\ Cardinality(holds) < PoolSize
  /\ Go(r, "asked") /\ holds' = holds \cup {r}
  /\ UNCHANGED <<outside, here, handler, active, streams>>

Asked(r) == pc[r] = "asked" /\ UNCHANGED <<outside, here, active>>

FailureWord(r) == IF Kind(r) = "embeddings" THEN "completed" ELSE "upstream_error"

RetriesOnceMore(r) == Kind(r) # "embeddings" /\ handler[r].tries <= MaxRetries
MayRetry(r) == Kind(r) # "embeddings" /\ handler[r].tries < MaxRetries

(* Only a chat is sent again, and only for a client that is alive.           *)
TransportError(r) ==
  /\ Asked(r) /\ Release(r)
  /\ IF MayRetry(r)
     THEN \/ /\ Go(r, "sleep") /\ Set(r, [handler[r] EXCEPT !.tries = @ + 1])
             /\ UNCHANGED streams
          \/ ~here[r] /\ End(r, handler[r], "aborted", 0) /\ StreamFinished(r)
     ELSE Reply(r, handler[r], FailureWord(r), 500) /\ StreamFinished(r)

Retry(r) ==
  /\ pc[r] = "sleep" /\ Go(r, "pool")
  /\ UNCHANGED <<outside, here, handler, holds, active, streams>>

HardError(r) ==
  /\ Asked(r) /\ Release(r) /\ StreamFinished(r)
  /\ \E code \in {429, 500, 504} : Reply(r, handler[r], FailureWord(r), code)

(* A complete answer is recorded and sent.  An answer to embeddings that     *)
(* could not be written in time is followed by an error.                     *)
AnswerRead(r) ==
  LET h == IF Kind(r) = "chat" THEN [handler[r] EXCEPT !.reasoning = "kept"] ELSE handler[r]
  IN /\ Asked(r) /\ Kind(r) # "stream" /\ Release(r)
     /\ \E sending \in Sendings(r) :
          CASE sending = "sent"   -> End(r, WithStatus(h, sending, 200), "completed", 200)
            [] sending = "broken" ->
                 End(r, h, IF Kind(r) = "chat" THEN "client_disconnected" ELSE "completed", 200)
            [] OTHER              -> IF Kind(r) = "chat" THEN Fail(r, h)
                                     ELSE Reply(r, h, "completed", 500)
     /\ UNCHANGED streams

StreamOpens(r) ==
  /\ Asked(r) /\ Kind(r) = "stream" /\ Go(r, "reading")
  /\ UNCHANGED <<handler, holds, streams>>

(* The answer cannot be recorded, or a stream's stream_options is null.      *)
AnswerRaises(r) ==
  /\ Asked(r) /\ Kind(r) # "embeddings" /\ Fail(r, handler[r])
  /\ Release(r) /\ StreamFinished(r)

-----------------------------------------------------------------------------
(* The loop of _proxy_streaming_response.                                    *)

Reading(r) == pc[r] = "reading" /\ UNCHANGED <<outside, here, active>>

LoseUnfinished(h) == h
KeepUnfinished(h) == Kept(h)

(* It returns with everything recorded; what it did not send, because the    *)
(* client is gone or upstream has failed, is traced as a disconnect.         *)
Return(r, h, word) ==
  /\ End(r, KeepUnfinished(h), word, 200) /\ Release(r) /\ StreamFinished(r)

Line(r) ==
  \E text \in {handler[r].reasoning, "received"}, sending \in Sendings(r) :
    LET h == [handler[r] EXCEPT !.reasoning = text, !.lines = @ + 1]
    IN /\ Reading(r) /\ handler[r].lines < MaxLines
       /\ IF sending = "sent"
          THEN Set(r, h) /\ UNCHANGED <<pc, holds, streams>>
          ELSE Return(r, h, "client_disconnected")

DoneLine(r) ==
  \E sending \in Sendings(r) :
    /\ Reading(r)
    /\ Return(r, Kept(handler[r]),
              IF sending = "sent" THEN "completed" ELSE "client_disconnected")

EndOfStream(r) == Reading(r) /\ Return(r, handler[r], "completed")

(* Upstream breaks off or is silent for too long, or the client is found dead. *)
Broken(r) == Reading(r) /\ Return(r, handler[r], "client_disconnected")

(* The answer was sent and recorded, but its usage cannot be counted.        *)
UsageRaises(r) ==
  /\ Release(r) /\ StreamFinished(r)
  /\ \/ /\ Asked(r) /\ Kind(r) = "chat"
        /\ Fail(r, WithStatus([handler[r] EXCEPT !.reasoning = "kept"], "sent", 200))
     \/ Reading(r) /\ Fail(r, KeepUnfinished(handler[r]))

-----------------------------------------------------------------------------
(* Clients and shutdown.                                                     *)

Leave(r) ==
  /\ pc[r] \in {"queued", "taken", "request", "pool", "asked", "sleep", "reading"}
  /\ here[r] /\ here' = [here EXCEPT ![r] = FALSE]
  /\ UNCHANGED <<outside, pc, handler, holds, active, streams>>

Signal ==
  /\ ~flag /\ flag' = TRUE
  /\ UNCHANGED <<workers, server, queue, pc, here, handler, holds, active, streams>>

(* shutdown() lets the accepting thread finish; server_close() waits for the executor,     *)
(* which does not cancel what is queued.                                     *)
Shutdown ==
  /\ server = "serving" /\ Accepting = {} /\ server' = "closing"
  /\ UNCHANGED <<workers, flag, queue, pc, here, handler, holds, active, streams>>

Drained == queue = <<>> /\ Busy = {}

ServerClose ==
  /\ server = "closing" /\ Drained /\ server' = "closed"
  /\ UNCHANGED <<workers, flag, queue, pc, here, handler, holds, active, streams>>

Handle(r) ==
  \/ Track(r) \/ Untrack(r) \/ Get(r) \/ Show(r) \/ Refuse(r) \/ Aborted(r)
  \/ PrepareRaises(r) \/ Forward(r) \/ StartStream(r) \/ Connect(r)
  \/ TransportError(r) \/ Retry(r) \/ HardError(r) \/ AnswerRead(r)
  \/ StreamOpens(r) \/ AnswerRaises(r) \/ Line(r) \/ DoneLine(r)
  \/ EndOfStream(r) \/ Broken(r) \/ UsageRaises(r)

Next ==
  \/ \E r \in Request :
       \/ Accept(r) \/ TurnAway(r)
       \/ \E k \in Kinds \ {"none", "stream"} : Submit(r, k)
       \/ Handle(r) \/ Leave(r)
  \/ Take \/ Signal \/ Shutdown \/ ServerClose

Spec == Init /\ [][Next]_vars

(* Workers take what is queued and run; upstream answers, fails or times     *)
(* out.  A worker that waits for an upstream connection gets one if one is   *)
(* free again and again: urllib3 wakes those that wait in their order.       *)
FairSpec ==
  /\ Spec /\ WF_vars(Take) /\ WF_vars(ServerClose)
  /\ \A r \in Request : WF_vars(Handle(r)) /\ SF_vars(Connect(r))

-----------------------------------------------------------------------------

(* Types of the variables.                                                   *)
TypeOK ==
  /\ workers \in Workers
  /\ server \in {"serving", "closing", "closed"} /\ flag \in BOOLEAN
  /\ queue \in Seq(Request)
  /\ pc \in [Request -> Positions] /\ here \in [Request -> BOOLEAN]
  /\ handler \in [Request -> Handlers]
  /\ \A r \in Request : handler[r].tries <= MaxRetries /\ handler[r].lines <= MaxLines
  /\ holds \subseteq Request /\ {active, streams} \subseteq Nat

(* The gauges count what they name on every path, exceptions and failed      *)
(* writes included: the workers that have begun with a connection, and the   *)
(* streams whose headers were sent and whose handler has not ended.          *)
GaugesExact ==
  /\ active = Cardinality({r \in Request : pc[r] \in Handling})
  /\ streams = Cardinality({r \in Request :
                 Kind(r) = "stream" /\ pc[r] \in {"pool", "asked", "sleep", "reading"}})

(* Waiting for an upstream connection has no timeout, so one that is not     *)
(* returned would be missing for good: only a handler that waits for         *)
(* upstream or reads a stream holds one.                                     *)
ConnectionsReturned ==
  /\ Cardinality(holds) <= PoolSize
  /\ \A r \in holds : pc[r] \in {"asked", "reading"}

(* When the handler of a chat returns (when no exception has passed it), its *)
(* trace is finished: with the status that was sent if one was, unless the   *)
(* headers of a stream had gone before; as completed only if a 200 was sent, *)
(* as aborted only if the client is gone.                                    *)
TraceTellsAnswer ==
  \A r \in Request : Kind(r) \in {"chat", "stream"} /\ pc[r] = "ending" =>
    LET h == handler[r] IN
    /\ h.word # "open"
    /\ h.word \in {"rejected", "upstream_error"} =>
         Kind(r) = "stream" \/ h.status \in {h.code, 0}
    /\ h.word = "completed" => h.status = 200
    /\ h.word = "aborted" => ~here[r]

(* What was read of a stream's reasoning is recorded before the handler is   *)
(* gone, whether the stream ended, broke, timed out, lost its client or an   *)
(* exception passes the handler.                                             *)
ReasoningRecorded ==
  \A r \in Request : pc[r] \in {"ending", "failing"} => handler[r].reasoning # "received"

Stage(r) ==
  IF pc[r] \in {"taken"} \cup Handling THEN "working"
  ELSE IF pc[r] = "queued" THEN "waiting"
  ELSE IF pc[r] \in {"full", "probed"} THEN "refused"
  ELSE IF pc[r] = "room" THEN "new" ELSE pc[r]

Pool == INSTANCE WorkPool WITH
  Job <- Request, stage <- [r \in Request |-> Stage(r)],
  pool <- IF server = "serving" THEN "open" ELSE server

(* The server is a bounded pool of workers: whatever handlers meet, each     *)
(* connection that was queued is handled in its turn and to its end, none is *)
(* refused unless the queue was full when it was accepted, the queue stays   *)
(* within its bound although workers empty it between the look at its length *)
(* and the submit, and shutdown serves what is queued.                       *)
IsWorkPool == Pool!Spec
=============================================================================
