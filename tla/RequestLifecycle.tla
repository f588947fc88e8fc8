-------------------------- MODULE RequestLifecycle --------------------------
(***************************************************************************)
(* The life of the requests of one bridge process (asgi.py): the metrics   *)
(* middleware with its gauges, the handlers, the retries and connections   *)
(* of the upstream client, the trace of each request, the client that may  *)
(* leave at any time, and the shutdown of cli.main.                        *)
(*                                                                         *)
(* asyncio runs a handler without interruption from one await to the next, *)
(* so a step is what happens between two awaits of a request.  What        *)
(* happens inside a stream is StreamSession's; here a streaming response   *)
(* is an asynchronous generator that may never start, run to its end, be   *)
(* cancelled where it awaits, or be dropped where it has yielded.          *)
(***************************************************************************)
EXTENDS Integers, FiniteSets

CONSTANTS
  Request,
  MaxRetries, \* upstream_retry_attempts
  PoolSize,   \* max_pool_connections
  MaxLines,   \* bound on the lines of a streamed answer
  Traced,     \* the settings of trace_dir: is there one?
  Paused      \* the settings of runtime.paused

ASSUME FiniteAssumption  == IsFiniteSet(Request)
ASSUME NumbersAssumption == /\ {MaxRetries, PoolSize, MaxLines} \subseteq Nat
                            /\ Traced \cup Paused \subseteq BOOLEAN

VARIABLES
  server,    \* serving, draining, closing or ended
  forced,    \* has a second signal ended the draining?
  flag,      \* _shutdown_requested
  store,     \* is the reasoning store open?
  client,    \* is the upstream client open?
  pc,        \* where each request is
  kind,      \* what it asks for
  gen,       \* its generator
  here,      \* is its client still connected?
  status,    \* the middleware's status
  counted,   \* the status finish_once has recorded; 0: none
  trace,     \* its trace
  reasoning, \* the reasoning of its answer
  tries,     \* retries made
  lines,     \* lines streamed
  holds,     \* the requests that hold an upstream connection
  active,    \* _active_request_count
  streams,   \* _streams_active
  traced, paused

settings == <<traced, paused>>
bridge == <<server, forced, flag, store, client>>
answer == <<status, counted, trace>>
upstream == <<tries, lines, holds>>
vars == <<bridge, pc, kind, gen, here, answer, reasoning, upstream, active,
          streams, settings>>

Kinds == {"none", "get", "ready", "show", "embeddings", "chat", "stream"}
Awaiting == {"waiting", "asked", "pause", "reading"}
Underway == {"body", "opening", "yielded", "closing", "answer"} \cup Awaiting
Ended == {"done", "raised", "left"}
Generators == {"none", "created", "running", "ending", "failing", "ended",
               "lost", "closed"}
Codes == {200, 400, 401, 404, 409, 413, 429, 500, 503, 504}

NoTrace == [word |-> "none", code |-> 0]
OpenTrace == [word |-> "open", code |-> 0]
Trace(word, code) == [word |-> word, code |-> code]
Traces == [word: {"none", "open", "rejected", "upstream_error", "completed",
                  "client_disconnected"}, code: {0} \cup Codes]

Open(r) == pc[r] \in Underway
Go(r, p) == pc' = [pc EXCEPT ![r] = p]

Init ==
  /\ server = "serving" /\ forced = FALSE /\ flag = FALSE
  /\ store = "open" /\ client = "open"
  /\ pc = [r \in Request |-> "new"] /\ kind = [r \in Request |-> "none"]
  /\ gen = [r \in Request |-> "none"] /\ here = [r \in Request |-> TRUE]
  /\ status = [r \in Request |-> 500] /\ counted = [r \in Request |-> 0]
  /\ trace = [r \in Request |-> NoTrace]
  /\ reasoning = [r \in Request |-> "none"]
  /\ tries = [r \in Request |-> 0] /\ lines = [r \in Request |-> 0]
  /\ holds = {} /\ active = 0 /\ streams = 0
  /\ traced \in Traced /\ paused \in Paused

-----------------------------------------------------------------------------
(* Answers, traces and the end of a generator.                               *)

Answer(r, code) == Go(r, "answer") /\ status' = [status EXCEPT ![r] = code]

(* TraceRequest.finish writes a trace once.                                  *)
Written(t, word, code) == IF t.word = "open" THEN Trace(word, code) ELSE t

Finish(r, word, code) == trace' = [trace EXCEPT ![r] = Written(@, word, code)]

(* The gauges never go below zero.                                           *)
Lowered(gauge, n) == IF gauge > n THEN gauge - n ELSE 0

FinishOnce(r) ==
  /\ counted' = [counted EXCEPT ![r] = status[r]]
  /\ active' = Lowered(active, 1)

RaiseUncounted(r) ==
  Go(r, "raised") /\ UNCHANGED <<kind, here, status, trace, counted, active>>

(* An exception passes the handler: the middleware counts the request.       *)
Raise(r) == FinishOnce(r) /\ Go(r, "raised") /\ UNCHANGED <<kind, here, status, trace>>

Kept(r) == IF reasoning[r] = "received"
           THEN IF store = "open" THEN "kept" ELSE "lost"
           ELSE reasoning[r]

LostFlush(rs) == UNCHANGED reasoning
Flush(rs) ==
  reasoning' = [r \in Request |-> IF r \in rs THEN Kept(r) ELSE reasoning[r]]

NoRelease(rs) == UNCHANGED holds
Release(rs) == holds' = holds \ rs

(* The finally-block of the generators of the requests rs.                   *)
Finally(rs) == Flush(rs) /\ Release(rs) /\ streams' = Lowered(streams, Cardinality(rs))

-----------------------------------------------------------------------------
(* Requests arrive and their bodies are read.                                *)

Accept(r, k) ==
  /\ server = "serving" /\ pc[r] = "new"
  /\ kind' = [kind EXCEPT ![r] = k] /\ active' = active + 1
  /\ UNCHANGED <<bridge, gen, here, counted, reasoning, upstream, streams, settings>>

Get(r) ==
  /\ Accept(r, "get")
  /\ \E code \in {200, 404} : Answer(r, code)
  /\ UNCHANGED trace

Readiness(healthy) ==
  IF ~flag /\ ~paused /\ client = "open" /\ store = "open" /\ healthy
  THEN 200 ELSE 503

Ready(r) ==
  /\ Accept(r, "ready")
  /\ \E healthy \in BOOLEAN : Answer(r, Readiness(healthy))
  /\ UNCHANGED trace

(* What is refused before the body is read.                                  *)
Refusals(k) == [show |-> {400}, embeddings |-> {400, 401, 413},
                chat |-> {400, 401, 404, 413}][k]

StartTrace(k) == IF traced /\ k = "chat" THEN OpenTrace ELSE NoTrace

Post(r, k) ==
  /\ Accept(r, k)
  /\ IF flag
     THEN Answer(r, 503) /\ UNCHANGED trace
     ELSE \/ /\ Go(r, "body") /\ trace' = [trace EXCEPT ![r] = StartTrace(k)]
             /\ UNCHANGED status
          \/ \E code \in Refusals(k) :
               /\ Answer(r, code)
               /\ trace' = [trace EXCEPT ![r] = Written(StartTrace(k), "rejected", code)]

ReadingBody(r) ==
  /\ pc[r] = "body"
  /\ UNCHANGED <<bridge, here, reasoning, upstream, settings>>

(* The client leaves before its body is complete.                            *)
BodyLost(r) ==
  /\ ReadingBody(r) /\ ~here[r] /\ Raise(r)
  /\ UNCHANGED <<gen, streams>>

RefuseUntraced(r, code) == Answer(r, code) /\ UNCHANGED trace
Refuse(r, code) == Answer(r, code) /\ Finish(r, "rejected", code)

(* 400 and 413; a chat is also refused while the bridge is paused and, in    *)
(* strict mode, when reasoning is missing.                                   *)
BodyRefused(r) ==
  LET late == IF kind[r] # "chat" THEN {}
              ELSE IF paused THEN {503} ELSE {409}
  IN /\ ReadingBody(r)
     /\ \E code \in {400} \cup (IF kind[r] = "show" THEN {} ELSE {413}) \cup late :
          Refuse(r, code)
     /\ UNCHANGED <<kind, gen, counted, active, streams>>

Show(r) ==
  /\ ReadingBody(r) /\ kind[r] = "show" /\ Answer(r, 200)
  /\ UNCHANGED <<kind, gen, counted, trace, active, streams>>

Prepared(r) == ReadingBody(r) /\ (kind[r] = "chat" => ~paused)

Forward(r) ==
  /\ Prepared(r) /\ kind[r] \in {"embeddings", "chat"} /\ Go(r, "waiting")
  /\ UNCHANGED <<kind, gen, answer, active, streams>>

StartStream(r) ==
  /\ Prepared(r) /\ kind[r] = "chat" /\ Go(r, "opening")
  /\ kind' = [kind EXCEPT ![r] = "stream"] /\ gen' = [gen EXCEPT ![r] = "created"]
  /\ streams' = streams + 1
  /\ UNCHANGED <<answer, active>>

(* A payload the transformation does not expect.                             *)
PrepareRaises(r) ==
  /\ Prepared(r) /\ kind[r] = "chat" /\ Raise(r)
  /\ UNCHANGED <<gen, streams>>

-----------------------------------------------------------------------------
(* The request to upstream, for streams from within the generator.           *)

Begin(r) ==
  /\ pc[r] = "opening" /\ Go(r, "waiting")
  /\ gen' = [gen EXCEPT ![r] = "running"] /\ status' = [status EXCEPT ![r] = 200]
  /\ UNCHANGED <<bridge, kind, here, counted, trace, reasoning, upstream,
                 active, streams, settings>>

Handling == UNCHANGED <<bridge, kind, here, lines, settings>>

Connect(r) ==
  /\ pc[r] = "waiting" /\ Cardinality(holds) < PoolSize
  /\ Go(r, "asked") /\ holds' = holds \cup {r}
  /\ Handling /\ UNCHANGED <<gen, answer, reasoning, tries, active, streams>>

(* A failure before the first line: an answer of its own, or the last line   *)
(* of a stream whose status has been sent.                                   *)
Failed(r, code) ==
  /\ Finish(r, "upstream_error", code)
  /\ IF kind[r] = "stream"
     THEN /\ Go(r, "yielded") /\ gen' = [gen EXCEPT ![r] = "failing"]
          /\ UNCHANGED status
     ELSE Answer(r, code) /\ UNCHANGED gen

RetriesOnceMore(r) == tries[r] <= MaxRetries
MayRetry(r) == tries[r] < MaxRetries

UncountedRetry(r) == UNCHANGED tries
CountRetry(r) == tries' = [tries EXCEPT ![r] = @ + 1]

(* RETRYABLE_UPSTREAM_ERRORS; a wait for a connection ends with one as well. *)
TransportError(r) ==
  /\ pc[r] \in {"waiting", "asked"} /\ holds' = holds \ {r}
  /\ IF MayRetry(r)
     THEN /\ Go(r, "pause") /\ CountRetry(r)
          /\ UNCHANGED <<gen, status, trace>>
     ELSE Failed(r, 500) /\ UNCHANGED tries
  /\ Handling /\ UNCHANGED <<counted, reasoning, active, streams>>

Retry(r) ==
  /\ pc[r] = "pause" /\ Go(r, "waiting")
  /\ Handling /\ UNCHANGED <<gen, answer, reasoning, tries, holds, active, streams>>

(* A silent or a broken upstream: no retry.                                  *)
HardError(r) ==
  /\ pc[r] = "asked" /\ holds' = holds \ {r}
  /\ \E code \in {500, 504} : Failed(r, code)
  /\ Handling /\ UNCHANGED <<counted, reasoning, tries, active, streams>>

(* Upstream answers with an error status; a stream's response stays open.    *)
ErrorStatus(r) ==
  /\ pc[r] = "asked" /\ Failed(r, 429)
  /\ holds' = IF kind[r] = "stream" THEN holds ELSE holds \ {r}
  /\ Handling /\ UNCHANGED <<counted, reasoning, tries, active, streams>>

Recorded(r) ==
  reasoning' = [reasoning EXCEPT ![r] = IF store = "open" THEN "kept" ELSE "lost"]

(* A complete answer has been read; a chat's is rewritten and recorded.      *)
AnswerRead(r) ==
  /\ pc[r] = "asked" /\ kind[r] # "stream" /\ Answer(r, 200)
  /\ holds' = holds \ {r}
  /\ Finish(r, "completed", 200)
  /\ IF kind[r] = "chat" THEN Recorded(r) ELSE UNCHANGED reasoning
  /\ Handling /\ UNCHANGED <<gen, counted, tries, active, streams>>

(* Its usage is not made of numbers, which shows after it is recorded.       *)
AnswerRaises(r) ==
  /\ pc[r] = "asked" /\ kind[r] = "chat" /\ Raise(r)
  /\ holds' = holds \ {r} /\ Recorded(r)
  /\ UNCHANGED <<bridge, lines, settings, gen, tries, streams>>

StreamOpens(r) ==
  /\ pc[r] = "asked" /\ kind[r] = "stream" /\ Go(r, "reading")
  /\ Handling /\ UNCHANGED <<gen, answer, reasoning, tries, holds, active, streams>>

(* The request's stream_options is null, or the stream has ended, with or    *)
(* without [DONE], and its usage is not made of numbers.                     *)
StreamRaises(r) ==
  /\ kind[r] = "stream"
  /\ pc[r] \in {"asked", "reading"} \/ (pc[r] = "yielded" /\ gen[r] = "ending")
  /\ Raise(r) /\ Finally({r}) /\ gen' = [gen EXCEPT ![r] = "ended"]
  /\ UNCHANGED <<bridge, settings, tries, lines>>

-----------------------------------------------------------------------------
(* A stream.                                                                 *)

Reading(r) ==
  /\ pc[r] = "reading"
  /\ UNCHANGED <<bridge, kind, here, status, counted, tries, active, settings>>

Line(r) ==
  /\ Reading(r) /\ lines[r] < MaxLines /\ Go(r, "yielded")
  /\ lines' = [lines EXCEPT ![r] = @ + 1]
  /\ \E text \in {reasoning[r], "received"} : reasoning' = [reasoning EXCEPT ![r] = text]
  /\ UNCHANGED <<gen, trace, holds, streams>>

(* [DONE] has everything recorded before the line is yielded.                *)
DoneLine(r) ==
  /\ Reading(r) /\ Go(r, "yielded") /\ gen' = [gen EXCEPT ![r] = "ending"]
  /\ reasoning' = [reasoning EXCEPT ![r] = Kept(r)]
  /\ UNCHANGED <<lines, trace, holds, streams>>

Broken(r) ==
  /\ Reading(r) /\ Go(r, "yielded") /\ gen' = [gen EXCEPT ![r] = "failing"]
  /\ \E code \in {500, 504} : Finish(r, "upstream_error", code)
  /\ UNCHANGED <<lines, reasoning, holds, streams>>

EndOfStream(r) ==
  /\ Reading(r) /\ Go(r, "closing") /\ gen' = [gen EXCEPT ![r] = "ended"]
  /\ Finish(r, "completed", 200) /\ Finally({r})
  /\ UNCHANGED lines

(* The yielded line is sent, and the generator goes on.                      *)
LineSent(r) ==
  /\ pc[r] = "yielded"
  /\ IF gen[r] = "running"
     THEN /\ Go(r, "reading") /\ UNCHANGED <<gen, trace, reasoning, holds, streams>>
     ELSE /\ Go(r, "closing") /\ gen' = [gen EXCEPT ![r] = "ended"]
          /\ IF gen[r] = "ending" THEN Finish(r, "completed", 200) ELSE UNCHANGED trace
          /\ Finally({r})
  /\ Handling /\ UNCHANGED <<status, counted, tries, active>>

(* The last body message of a response has been sent.                        *)
Sent(r) ==
  /\ pc[r] \in {"answer", "closing"} /\ FinishOnce(r) /\ Go(r, "done")
  /\ UNCHANGED <<bridge, kind, gen, here, status, trace, reasoning, upstream,
                 streams, settings>>

-----------------------------------------------------------------------------
(* Clients leave.  Only the reading of a body and the sending of a stream    *)
(* look for it: a handler that waits for upstream is left alone.             *)

Leave(r) ==
  /\ pc[r] = "body" \/ (kind[r] = "stream" /\ Open(r))
  /\ here[r] /\ here' = [here EXCEPT ![r] = FALSE]
  /\ UNCHANGED <<bridge, pc, kind, gen, answer, reasoning, upstream, active,
                 streams, settings>>

(* Starlette cancels the sending of a streaming response, and with it the    *)
(* generator where it awaits; one that has yielded is dropped, one that has  *)
(* not begun never does.                                                     *)
Cancel(r) ==
  /\ kind[r] = "stream" /\ Open(r) /\ ~here[r] /\ Go(r, "left")
  /\ IF pc[r] \in Awaiting
     THEN /\ gen' = [gen EXCEPT ![r] = "ended"]
          /\ Finish(r, "client_disconnected", 0) /\ Finally({r})
     ELSE /\ gen' = [gen EXCEPT ![r] = IF pc[r] = "yielded" THEN "lost" ELSE @]
          /\ UNCHANGED <<trace, reasoning, holds, streams>>
  /\ Handling /\ UNCHANGED <<status, counted, tries, active>>

(* The event loop closes a dropped generator: GeneratorExit at its yield.    *)
Collect(r) ==
  /\ gen[r] = "lost" /\ server \in {"serving", "draining"}
  /\ gen' = [gen EXCEPT ![r] = "closed"] /\ Finally({r})
  /\ Handling /\ UNCHANGED <<pc, answer, tries, active>>

-----------------------------------------------------------------------------
(* Shutdown.                                                                 *)

Shutting == UNCHANGED <<kind, here, status, counted, tries, lines, active, settings>>
Resting == UNCHANGED <<pc, gen, trace, reasoning, holds, streams>>

Signal ==
  /\ \/ server = "serving" /\ server' = "draining" /\ UNCHANGED forced
     \/ server = "draining" /\ ~forced /\ forced' = TRUE /\ UNCHANGED server
  /\ Shutting /\ Resting /\ UNCHANGED <<flag, store, client>>

(* uvicorn has no request left, or is forced to end without the lifespan's   *)
(* end; asyncio.run then cancels what is under way and closes the generators,*)
(* and the finally-block of cli.main sets the flag.                          *)
Halt ==
  LET cancelled == {r \in Request : Open(r)}
      awaiting == {r \in cancelled : kind[r] = "stream" /\ pc[r] \in Awaiting}
      dropped == {r \in Request : gen[r] = "lost" \/ pc[r] = "yielded"}
  IN /\ server = "draining" /\ (forced \/ cancelled = {})
     /\ server' = "closing" /\ flag' = TRUE
     /\ client' = IF forced THEN client ELSE "closed"
     /\ pc' = [r \in Request |-> IF r \in cancelled THEN "left" ELSE pc[r]]
     /\ gen' = [r \in Request |-> IF r \in awaiting THEN "ended"
                                  ELSE IF r \in dropped THEN "closed" ELSE gen[r]]
     /\ trace' = [r \in Request |->
                    IF r \in awaiting THEN Written(trace[r], "client_disconnected", 0)
                    ELSE trace[r]]
     /\ Flush(awaiting \cup dropped) /\ Release(cancelled \cup dropped)
     /\ streams' = Lowered(streams, Cardinality(awaiting \cup dropped))
     /\ Shutting /\ UNCHANGED <<forced, store>>

(* It prunes and closes the store and clears the flag.                       *)
CloseStore ==
  /\ server = "closing" /\ server' = "ended" /\ flag' = FALSE /\ store' = "closed"
  /\ Shutting /\ Resting /\ UNCHANGED <<forced, client>>

-----------------------------------------------------------------------------

Receive(r) ==
  \/ Get(r) \/ Ready(r)
  \/ \E k \in {"show", "embeddings", "chat"} : Post(r, k)

Handle(r) ==
  \/ BodyLost(r) \/ BodyRefused(r) \/ Show(r) \/ Forward(r) \/ StartStream(r)
  \/ PrepareRaises(r) \/ Begin(r) \/ Connect(r) \/ TransportError(r) \/ Retry(r)
  \/ HardError(r) \/ ErrorStatus(r) \/ AnswerRead(r) \/ AnswerRaises(r)
  \/ StreamOpens(r) \/ StreamRaises(r) \/ Line(r) \/ DoneLine(r) \/ Broken(r)
  \/ EndOfStream(r) \/ LineSent(r) \/ Sent(r) \/ Cancel(r)

Next ==
  \/ \E r \in Request : Receive(r) \/ Handle(r) \/ Leave(r) \/ Collect(r)
  \/ Signal \/ Halt \/ CloseStore

Spec == Init /\ [][Next]_vars

(* Requests go on: upstream answers, breaks or times out; bodies and answers *)
(* get through or their clients leave.  uvicorn ends when nothing is left,   *)
(* and cli.main's finally-block runs.  Nothing makes a client leave, a       *)
(* second signal come, or a dropped generator be collected.                  *)
Fairness == /\ \A r \in Request : WF_vars(Handle(r))
            /\ WF_vars(Halt) /\ WF_vars(CloseStore)

FairSpec == Spec /\ Fairness

-----------------------------------------------------------------------------

(* Types of the variables.                                                   *)
TypeOK ==
  /\ server \in {"serving", "draining", "closing", "ended"}
  /\ {forced, flag, traced, paused} \subseteq BOOLEAN
  /\ {store, client} \subseteq {"open", "closed"}
  /\ pc \in [Request -> {"new"} \cup Underway \cup Ended]
  /\ kind \in [Request -> Kinds] /\ gen \in [Request -> Generators]
  /\ here \in [Request -> BOOLEAN]
  /\ status \in [Request -> Codes] /\ counted \in [Request -> {0} \cup Codes]
  /\ trace \in [Request -> Traces]
  /\ reasoning \in [Request -> {"none", "received", "kept", "lost"}]
  /\ tries \in [Request -> 0..MaxRetries] /\ lines \in [Request -> 0..MaxLines]
  /\ holds \subseteq Request /\ {active, streams} \subseteq Nat

Alive(r) == gen[r] \in {"created", "running", "ending", "failing", "lost"}

(* The gauges are off by exactly the streams whose client has left: the      *)
(* middleware never sees their last body message, so asgi_requests_active    *)
(* keeps counting them, and streams_active keeps those that never began.  No *)
(* other path through the handlers, error or not, loses or doubles a count.  *)
GaugesLeakOnlyLeavers ==
  /\ active = Cardinality({r \in Request : Open(r) \/ pc[r] = "left"})
  /\ streams = Cardinality({r \in Request : Alive(r)})
  /\ \A r \in Request : pc[r] = "left" => forced \/ (kind[r] = "stream" /\ ~here[r])
  /\ \A r \in Request : Alive(r) => Open(r) \/ pc[r] = "left"

(* What the trace of a chat says is what happened to its request: an answer  *)
(* sent to its end has a finished trace, with the status the client was sent *)
(* unless that was the 200 of a stream that broke later; a completed trace   *)
(* means that nothing of the reasoning is missing from the cache; and only   *)
(* an exception or a generator that was never resumed leaves a trace open.   *)
TraceTellsAnswer ==
  \A r \in Request :
    LET t == trace[r] IN
    /\ pc[r] = "done" => t.word # "open"
    /\ t.word = "rejected" => status[r] = t.code /\ tries[r] = 0 /\ reasoning[r] = "none"
    /\ t.word = "upstream_error" =>
         IF kind[r] = "stream" THEN gen[r] # "running" ELSE status[r] = t.code
    /\ t.word = "completed" => status[r] = 200 /\ reasoning[r] # "received"
    /\ t.word = "client_disconnected" =>
         pc[r] = "left" /\ (~here[r] \/ forced) /\ r \notin holds
    /\ pc[r] = "left" /\ t.word = "open" =>
         forced \/ gen[r] \in {"created", "lost", "closed"}

(* No request keeps a connection of the pool after its end, whatever ended   *)
(* it, except through a generator that waits to be collected; and none is    *)
(* held when the process has stopped.                                        *)
ConnectionsReturned ==
  /\ Cardinality(holds) <= PoolSize
  /\ \A r \in holds : pc[r] \in {"asked", "reading", "yielded"} \/ gen[r] = "lost"
  /\ server \notin {"serving", "draining"} => holds = {}

(* The store is closed, and the shutdown flag set, only when no request is   *)
(* under way and everything received has been recorded, in generators that   *)
(* were dropped and after a forced end as well: no request ever finds the    *)
(* store closed or the flag set.                                             *)
NothingLostAtShutdown ==
  server \in {"closing", "ended"} =>
    \A r \in Request : ~Open(r) /\ reasoning[r] \notin {"received", "lost"}

(* A signal ends the process whatever requests are under way: each of them   *)
(* gets its answer, fails for good or finds its client gone.                 *)
ShutdownEnds == server = "draining" ~> server = "ended"
=============================================================================
