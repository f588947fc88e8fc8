----------------------- MODULE RequestLifecycleProofs -----------------------
(***************************************************************************)
(* Proofs about RequestLifecycle, for any requests, retries, connections   *)
(* and lines, with clients that leave and a second signal at any time.     *)
(***************************************************************************)
EXTENDS RequestLifecycle, FiniteSetTheorems, TLAPS

(* Where a request can be, given what it asks for, and what its generator    *)
(* is then: only a streaming response has one.                               *)
Shape(r) ==
  /\ pc[r] = "new" => kind[r] = "none"
  /\ kind[r] = "stream" =>
       \/ pc[r] = "opening" /\ gen[r] = "created"
       \/ pc[r] \in Awaiting /\ gen[r] = "running"
       \/ pc[r] = "yielded" /\ gen[r] \in {"running", "ending", "failing"}
       \/ pc[r] \in {"closing", "done", "raised"} /\ gen[r] = "ended"
       \/ pc[r] = "left" /\ gen[r] \in {"created", "ended", "lost", "closed"}
  /\ kind[r] # "stream" =>
       /\ gen[r] = "none"
       /\ pc[r] \in {"new", "body", "waiting", "asked", "pause", "answer"} \cup Ended

(* A request that upstream has not been asked for has nothing of an answer,  *)
(* and a stream that has begun has sent its status.                          *)
Begun(r) ==
  /\ pc[r] \in {"new", "body"} => tries[r] = 0 /\ reasoning[r] = "none"
  /\ kind[r] = "stream" /\ pc[r] \in Awaiting \cup {"yielded"} => status[r] = 200

(* Unfinished traces are those of requests under way, finished ones say how  *)
(* their requests ended.                                                     *)
Unfinished(r) == trace[r].word \in {"none", "open"}
Telling(r) ==
  /\ ~Unfinished(r) => kind[r] \in {"chat", "stream"}
  /\ trace[r].word = "open" => kind[r] \in {"chat", "stream"}
  /\ pc[r] \in {"new", "body", "opening"} \cup Awaiting => Unfinished(r)
  /\ pc[r] = "yielded" /\ gen[r] # "failing" => Unfinished(r)
  /\ pc[r] \in {"answer", "closing", "done"} \/ gen[r] = "failing" => trace[r].word # "open"
  /\ trace[r].word = "rejected" =>
       status[r] = trace[r].code /\ tries[r] = 0 /\ reasoning[r] = "none"
       /\ pc[r] \in {"answer", "done", "left"} /\ kind[r] = "chat"
  /\ trace[r].word = "upstream_error" => kind[r] = "stream" \/ status[r] = trace[r].code
  /\ trace[r].word = "completed" => status[r] = 200 /\ reasoning[r] # "received"
  /\ trace[r].word = "client_disconnected" =>
       pc[r] = "left" /\ (~here[r] \/ forced) /\ r \notin holds
  /\ pc[r] = "left" /\ trace[r].word = "open" =>
       forced \/ gen[r] \in {"created", "lost", "closed"}

(* What a request still has to give back or to record is known to a handler  *)
(* that runs or to a generator that waits to be collected.                   *)
Owing(r) ==
  /\ r \in holds => pc[r] \in {"asked", "reading", "yielded"} \/ gen[r] = "lost"
  /\ reasoning[r] = "received" => pc[r] \in {"reading", "yielded"} \/ gen[r] = "lost"
  /\ reasoning[r] # "lost"

(* Nobody is lost without a reason, and the end of the loop ends everybody.  *)
Leaving(r) ==
  /\ pc[r] = "left" => forced \/ (kind[r] = "stream" /\ ~here[r])
  /\ server \in {"closing", "ended"} => ~Open(r) /\ gen[r] # "lost"

RequestInv(r) == Shape(r) /\ Begun(r) /\ Telling(r) /\ Owing(r) /\ Leaving(r)

StoreOpen == store = "closed" => server = "ended"

Counted == {r \in Request : Open(r) \/ pc[r] = "left"}
Living == {r \in Request : Alive(r)}
GaugesExact == active = Cardinality(Counted) /\ streams = Cardinality(Living)

IInv == /\ TypeOK /\ StoreOpen /\ (\A r \in Request : RequestInv(r))
        /\ Cardinality(holds) <= PoolSize /\ GaugesExact

-----------------------------------------------------------------------------
(* What a step of one request leaves alone.                                  *)

Only(r) ==
  /\ \A q \in Request \ {r} :
       /\ pc'[q] = pc[q] /\ kind'[q] = kind[q] /\ gen'[q] = gen[q] /\ here'[q] = here[q]
       /\ status'[q] = status[q] /\ trace'[q] = trace[q] /\ reasoning'[q] = reasoning[q]
       /\ tries'[q] = tries[q] /\ (q \in holds' <=> q \in holds)
  /\ UNCHANGED <<bridge, settings>>

(* A gauge follows the requests it counts.                                   *)
Follows(gauge, new, was, is) ==
  \/ new = gauge /\ (was <=> is)
  \/ new = gauge + 1 /\ ~was /\ is
  \/ new = Lowered(gauge, 1) /\ was /\ ~is

Counts(r) == Open(r) \/ pc[r] = "left"

Gauged(r) ==
  /\ Follows(active, active', Counts(r), Counts(r)')
  /\ Follows(streams, streams', Alive(r), Alive(r)')

Moves(r) == TypeOK' /\ Only(r) /\ RequestInv(r)' /\ Gauged(r)

LEMMA Numbers ==
  /\ MaxRetries \in Nat /\ PoolSize \in Nat /\ MaxLines \in Nat
  /\ Traced \subseteq BOOLEAN /\ Paused \subseteq BOOLEAN
BY NumbersAssumption

LEMMA WrittenTrace ==
  ASSUME NEW t \in Traces, NEW c \in {0} \cup Codes,
         NEW w \in {"rejected", "upstream_error", "completed", "client_disconnected"}
  PROVE  /\ Written(t, w, c) \in Traces
         /\ Written(t, w, c).word # "open"
         /\ t.word # "open" => Written(t, w, c) = t
         /\ t.word = "open" => Written(t, w, c).word = w /\ Written(t, w, c).code = c
BY DEF Written, Trace, Traces

LEMMA LoweredOnce == ASSUME NEW n \in Nat PROVE Lowered(n, 1) \in Nat
BY DEF Lowered

(* What finishing a trace and ending a generator do.                         *)
FinishedAs(r, w, c) ==
  /\ trace' \in [Request -> Traces]
  /\ \A q \in Request \ {r} : trace'[q] = trace[q]
  /\ trace'[r].word # "open"
  /\ trace[r].word # "open" => trace'[r] = trace[r]
  /\ trace[r].word = "open" => trace'[r].word = w /\ trace'[r].code = c

GeneratorEnded(r) ==
  /\ reasoning' \in [Request -> {"none", "received", "kept", "lost"}]
  /\ \A q \in Request \ {r} : reasoning'[q] = reasoning[q]
  /\ reasoning'[r] = IF reasoning[r] = "received" THEN "kept" ELSE reasoning[r]
  /\ holds' = holds \ {r} /\ holds' \subseteq Request
  /\ streams' = Lowered(streams, 1) /\ streams' \in Nat

LEMMA Finishes ==
  ASSUME TypeOK, NEW r \in Request, NEW c \in {0} \cup Codes,
         NEW w \in {"rejected", "upstream_error", "completed", "client_disconnected"},
         Finish(r, w, c)
  PROVE  FinishedAs(r, w, c)
BY WrittenTrace DEF Finish, FinishedAs, TypeOK

(* The finally-block of one generator.                                       *)
LEMMA FinallyOfOne ==
  ASSUME IInv, NEW r \in Request, server # "ended", Finally({r})
  PROVE  GeneratorEnded(r)
<1>1. store = "open"
  BY DEF IInv, StoreOpen, TypeOK
<1>2. streams' = Lowered(streams, 1) /\ streams \in Nat
  BY FS_Singleton DEF Finally, IInv, TypeOK
<1>3. streams' \in Nat
  BY <1>2, LoweredOnce
<1> QED BY <1>1, <1>2, <1>3 DEF GeneratorEnded, Finally, Flush, Release, Kept, IInv, TypeOK

LEMMA RequestsInv == ASSUME IInv, NEW r \in Request PROVE RequestInv(r)
BY DEF IInv

LEMMA ArrivalStep ==
  ASSUME IInv, NEW r \in Request, Receive(r)
  PROVE  Moves(r)
<1>1. RequestInv(r) /\ TypeOK
  BY DEF IInv
<1> USE DEF Moves, TypeOK, RequestInv, Shape, Begun, Telling, Unfinished, Owing, Leaving, Only, Gauged,
        Follows, Counts, Alive, Open, Underway, Awaiting, Ended, bridge, upstream, settings,
        Kinds, Codes, Accept, Answer, Go
<1>2. CASE Get(r)
  BY <1>1, <1>2 DEF Get
<1>3. CASE Ready(r)
  BY <1>1, <1>3 DEF Ready, Readiness
<1>4. ASSUME NEW k \in {"show", "embeddings", "chat"}, Post(r, k) PROVE Moves(r)
  <2>1. /\ StartTrace(k) \in Traces /\ StartTrace(k).word \in {"none", "open"}
        /\ StartTrace(k).word = "open" => k = "chat"
    BY DEF StartTrace, NoTrace, OpenTrace, Traces
  <2>2. CASE flag
    BY <1>1, <1>4, <2>2 DEF Post
  <2>3. CASE Go(r, "body") /\ trace' = [trace EXCEPT ![r] = StartTrace(k)] /\ UNCHANGED status
    BY <1>1, <1>4, <2>1, <2>3 DEF Post
  <2>4. ASSUME NEW code \in Refusals(k), Answer(r, code),
               trace' = [trace EXCEPT ![r] = Written(StartTrace(k), "rejected", code)]
        PROVE  Moves(r)
    <3>1. code \in Codes
      BY <2>4 DEF Refusals
    <3>2. Written(StartTrace(k), "rejected", code) \in Traces
      BY <2>1, <3>1, WrittenTrace
    <3> DEFINE t == Written(StartTrace(k), "rejected", code)
    <3>3. /\ t.word \in {"none", "rejected"}
          /\ t.word = "rejected" => t.code = code /\ k = "chat"
      BY <2>1, <3>1, WrittenTrace
    <3> HIDE DEF t
    <3>4. trace' = [trace EXCEPT ![r] = t] /\ t \in Traces
      BY <2>4, <3>2 DEF t
    <3> QED BY <1>1, <1>4, <2>4, <3>1, <3>3, <3>4 DEF Post
  <2> QED BY <1>4, <2>2, <2>3, <2>4 DEF Post
<1> QED BY <1>2, <1>3, <1>4 DEF Receive

LEMMA BodyStep ==
  ASSUME IInv, NEW r \in Request,
         \/ BodyLost(r) \/ BodyRefused(r) \/ Show(r) \/ Forward(r) \/ StartStream(r)
         \/ PrepareRaises(r)
  PROVE  Moves(r)
<1>1. RequestInv(r) /\ TypeOK
  BY DEF IInv
<1>0. Lowered(active, 1) \in Nat
  BY <1>1, LoweredOnce DEF TypeOK
<1> USE DEF Moves, TypeOK, RequestInv, Shape, Begun, Telling, Unfinished, Owing, Leaving, Only, Gauged,
        Follows, Counts, Alive, Open, Underway, Awaiting, Ended, bridge, upstream, settings, answer,
        Kinds, Codes, Answer, Go, ReadingBody, Prepared, Raise, FinishOnce, Finish, Refuse
<1>2. CASE BodyLost(r)
  BY <1>0, <1>1, <1>2, SMTT(30) DEF BodyLost
<1>3. CASE BodyRefused(r)
  BY <1>1, <1>3, WrittenTrace, SMTT(30) DEF BodyRefused
<1>4. CASE Show(r)
  BY <1>1, <1>4 DEF Show
<1>5. CASE Forward(r)
  BY <1>1, <1>5 DEF Forward
<1>6. CASE StartStream(r)
  BY <1>1, <1>6, SMTT(30) DEF StartStream, Generators
<1>7. CASE PrepareRaises(r)
  BY <1>0, <1>1, <1>7 DEF PrepareRaises
<1> QED BY <1>2, <1>3, <1>4, <1>5, <1>6, <1>7

LEMMA ForwardingStep ==
  ASSUME IInv, NEW r \in Request, Begin(r) \/ Connect(r) \/ Retry(r) \/ StreamOpens(r)
  PROVE  Moves(r)
<1>1. RequestInv(r) /\ TypeOK
  BY DEF IInv
<1> USE DEF Moves, TypeOK, RequestInv, Shape, Begun, Telling, Unfinished, Owing, Leaving, Only, Gauged,
        Follows, Counts, Alive, Open, Underway, Awaiting, Ended, Generators, bridge, upstream,
        settings, answer, Codes, Answer, Go, Handling
<1>2. CASE Begin(r)
  BY Numbers, <1>1, <1>2, WrittenTrace DEF Begin
<1>3. CASE Connect(r)
  BY Numbers, <1>1, <1>3, WrittenTrace DEF Connect
<1>4. CASE Retry(r)
  BY Numbers, <1>1, <1>4, WrittenTrace DEF Retry
<1>5. CASE StreamOpens(r)
  BY Numbers, <1>1, <1>5, WrittenTrace DEF StreamOpens
<1> QED BY <1>2, <1>3, <1>4, <1>5

LEMMA FailureStep ==
  ASSUME IInv, NEW r \in Request, TransportError(r) \/ HardError(r) \/ ErrorStatus(r)
  PROVE  Moves(r)
<1>1. RequestInv(r) /\ TypeOK
  BY DEF IInv
<1> USE DEF Moves, TypeOK, RequestInv, Shape, Begun, Telling, Unfinished, Owing, Leaving, Only, Gauged,
        Follows, Counts, Alive, Open, Underway, Awaiting, Ended, Generators, bridge, upstream,
        settings, answer, Codes, Answer, Go, Handling, Failed, Finish, MayRetry, CountRetry
<1>2. CASE TransportError(r)
  BY Numbers, <1>1, <1>2, WrittenTrace, SMTT(30) DEF TransportError
<1>3. CASE HardError(r)
  BY Numbers, <1>1, <1>3, WrittenTrace, SMTT(30) DEF HardError
<1>4. CASE ErrorStatus(r)
  BY Numbers, <1>1, <1>4, WrittenTrace, SMTT(30) DEF ErrorStatus
<1> QED BY <1>2, <1>3, <1>4

LEMMA AnswerStep ==
  ASSUME IInv, NEW r \in Request, AnswerRead(r) \/ AnswerRaises(r) \/ Sent(r)
  PROVE  Moves(r)
<1>1. RequestInv(r) /\ TypeOK /\ StoreOpen
  BY DEF IInv
<1>2. Lowered(active, 1) \in Nat
  BY <1>1, LoweredOnce DEF TypeOK
<1> USE DEF Moves, TypeOK, RequestInv, Shape, Begun, Telling, Unfinished, Owing, Leaving, Only, Gauged,
        Follows, Counts, Alive, Open, Underway, Awaiting, Ended, Generators, bridge, upstream,
        settings, answer, Codes, Answer, Go, Handling, Raise, FinishOnce, Recorded, StoreOpen
<1>3. CASE AnswerRead(r)
  <2>1. Finish(r, "completed", 200)
    BY <1>3 DEF AnswerRead
  <2> QED BY <1>1, <1>3, <2>1, Finishes, SMTT(30) DEF AnswerRead, FinishedAs
<1>4. CASE AnswerRaises(r)
  BY <1>1, <1>2, <1>4 DEF AnswerRaises
<1>5. CASE Sent(r)
  BY <1>1, <1>2, <1>5 DEF Sent
<1> QED BY <1>3, <1>4, <1>5

LEMMA LineStep ==
  ASSUME IInv, NEW r \in Request, Line(r) \/ DoneLine(r) \/ Broken(r)
  PROVE  Moves(r)
<1>1. RequestInv(r) /\ TypeOK /\ StoreOpen
  BY DEF IInv
<1> USE DEF Moves, TypeOK, RequestInv, Shape, Begun, Telling, Unfinished, Owing, Leaving, Only, Gauged,
        Follows, Counts, Alive, Open, Underway, Awaiting, Ended, Generators, bridge, upstream,
        settings, answer, Codes, Answer, Go, Handling, Reading, StoreOpen
<1>2. CASE Line(r)
  BY Numbers, <1>1, <1>2 DEF Line
<1>3. CASE DoneLine(r)
  BY <1>1, <1>3 DEF DoneLine, Kept
<1>4. CASE Broken(r)
  <2>1. PICK code \in {500, 504} : Finish(r, "upstream_error", code)
    BY <1>4 DEF Broken
  <2> QED BY <1>1, <1>4, <2>1, Finishes, SMTT(30) DEF Broken, FinishedAs
<1> QED BY <1>2, <1>3, <1>4

LEMMA EndStep ==
  ASSUME IInv, NEW r \in Request,
         StreamRaises(r) \/ EndOfStream(r) \/ LineSent(r) \/ Cancel(r) \/ Collect(r) \/ Leave(r)
  PROVE  Moves(r)
<1>1. RequestInv(r) /\ TypeOK
  BY DEF IInv
<1>2. Lowered(active, 1) \in Nat
  BY <1>1, LoweredOnce DEF TypeOK
<1>3. Finally({r}) /\ server # "ended" => GeneratorEnded(r)
  BY FinallyOfOne
<1>4. \A w \in {"completed", "client_disconnected"}, c \in {0, 200} :
        Finish(r, w, c) => FinishedAs(r, w, c)
  BY <1>1, Finishes DEF Codes
<1>5. Open(r) => server # "ended"
  BY <1>1 DEF RequestInv, Leaving
<1> USE DEF Moves, TypeOK, RequestInv, Shape, Begun, Telling, Unfinished, Owing, Leaving, Only, Gauged,
        Follows, Counts, Alive, Open, Underway, Awaiting, Ended, bridge, upstream,
        settings, answer, Codes, Go, Handling, Reading, GeneratorEnded, FinishedAs
<1>6. CASE StreamRaises(r)
  <2>1. GeneratorEnded(r)
    BY <1>3, <1>5, <1>6 DEF StreamRaises
  <2>2. gen' \in [Request -> Generators]
    BY <1>1, <1>6 DEF StreamRaises, Generators
  <2> QED BY <1>1, <1>2, <1>6, <2>1, <2>2 DEF StreamRaises, Raise, FinishOnce
<1>7. CASE EndOfStream(r)
  <2>1. GeneratorEnded(r) /\ FinishedAs(r, "completed", 200)
    BY <1>3, <1>4, <1>5, <1>7 DEF EndOfStream
  <2>2. gen' \in [Request -> Generators]
    BY <1>1, <1>7 DEF EndOfStream, Generators
  <2> QED BY <1>1, <1>7, <2>1, <2>2 DEF EndOfStream
<1>8. CASE LineSent(r)
  <2>1. CASE gen[r] = "running"
    BY <1>1, <1>8, <2>1 DEF LineSent
  <2>2. CASE gen[r] # "running"
    <3>1. GeneratorEnded(r)
      BY <1>3, <1>5, <1>8, <2>2 DEF LineSent
    <3>2. CASE gen[r] = "ending"
      <4>1. FinishedAs(r, "completed", 200)
        BY <1>4, <1>8, <3>2 DEF LineSent
      <4>2. gen' \in [Request -> Generators]
        BY <1>1, <1>8, <3>2 DEF LineSent, Generators
      <4> QED BY <1>1, <1>8, <3>1, <3>2, <4>1, <4>2 DEF LineSent
    <3>3. CASE gen[r] # "ending"
      <4>1. gen' \in [Request -> Generators]
        BY <1>1, <1>8, <2>2, <3>3 DEF LineSent, Generators
      <4> QED BY <1>1, <1>8, <2>2, <3>1, <3>3, <4>1 DEF LineSent
    <3> QED BY <3>2, <3>3
  <2> QED BY <2>1, <2>2
<1>9. CASE Cancel(r)
  <2>1. CASE pc[r] \in Awaiting
    <3>1. GeneratorEnded(r) /\ FinishedAs(r, "client_disconnected", 0)
      BY <1>3, <1>4, <1>5, <1>9, <2>1 DEF Cancel
    <3>2. gen' \in [Request -> Generators]
      BY <1>1, <1>9, <2>1 DEF Cancel, Generators
    <3> QED BY <1>1, <1>9, <2>1, <3>1, <3>2 DEF Cancel
  <2>2. CASE pc[r] \notin Awaiting
    <3>1. gen' \in [Request -> Generators]
      BY <1>1, <1>9, <2>2 DEF Cancel, Generators
    <3>2. UNCHANGED <<trace, reasoning, holds, streams>>
      BY <1>9, <2>2 DEF Cancel
    <3>3. TypeOK'
      BY <1>1, <1>9, <3>1, <3>2 DEF Cancel
    <3>4. Only(r)
      BY <1>1, <1>9, <2>2, <3>2 DEF Cancel
    <3>5. RequestInv(r)'
      BY <1>1, <1>9, <2>2, <3>2 DEF Cancel
    <3>6. Gauged(r)
      BY <1>1, <1>9, <2>2, <3>2 DEF Cancel
    <3> QED BY <3>3, <3>4, <3>5, <3>6
  <2> QED BY <2>1, <2>2
<1>10. CASE Collect(r)
  <2>1. GeneratorEnded(r)
    BY <1>3, <1>10 DEF Collect
  <2>2. gen' \in [Request -> Generators]
    BY <1>1, <1>10 DEF Collect, Generators
  <2>3. TypeOK'
    <3>1. holds' \subseteq Request /\ streams' \in Nat
      BY <2>1
    <3> QED BY <1>1, <1>10, <2>1, <2>2, <3>1 DEF Collect
  <2>4. Only(r)
    BY <1>1, <1>10, <2>1 DEF Collect
  <2>5. RequestInv(r)'
    BY <1>1, <1>10, <2>1 DEF Collect
  <2>6. Gauged(r)
    BY <1>1, <1>10, <2>1 DEF Collect
  <2> QED BY <2>3, <2>4, <2>5, <2>6
<1>11. CASE Leave(r)
  BY <1>1, <1>11 DEF Leave
<1> QED BY <1>6, <1>7, <1>8, <1>9, <1>10, <1>11

-----------------------------------------------------------------------------
(* What the steps of one request do to the connections, to the gauges and to *)
(* the others.                                                               *)

LEMMA SetsFinite ==
  ASSUME TypeOK
  PROVE  /\ IsFiniteSet(holds) /\ Cardinality(holds) \in Nat
         /\ IsFiniteSet(Counted) /\ IsFiniteSet(Living)
<1>1. holds \subseteq Request /\ Counted \subseteq Request /\ Living \subseteq Request
  BY DEF TypeOK, Counted, Living
<1> QED BY <1>1, FiniteAssumption, FS_Subset, FS_CardinalityType

(* Only Connect takes a connection.                                          *)
LEMMA OnlyConnectTakes ==
  ASSUME NEW r \in Request,
         Receive(r) \/ (Handle(r) /\ ~Connect(r)) \/ Leave(r) \/ Collect(r)
  PROVE  holds' \subseteq holds
<1> USE DEF Handling, upstream, Release, Finally
<1>1. CASE Receive(r)
  BY <1>1 DEF Receive, Get, Ready, Post, Accept
<1>2. CASE \/ BodyLost(r) \/ BodyRefused(r) \/ Show(r) \/ Forward(r) \/ StartStream(r)
           \/ PrepareRaises(r)
  BY <1>2 DEF BodyLost, BodyRefused, Show, Forward, StartStream, PrepareRaises, Prepared,
             ReadingBody
<1>3. CASE \/ Begin(r) \/ TransportError(r) \/ Retry(r) \/ HardError(r) \/ ErrorStatus(r)
           \/ AnswerRead(r) \/ AnswerRaises(r) \/ StreamOpens(r) \/ Sent(r) \/ StreamRaises(r)
  BY <1>3 DEF Begin, TransportError, Retry, HardError, ErrorStatus, AnswerRead,
             AnswerRaises, StreamOpens, Sent, StreamRaises
<1>4. CASE Line(r) \/ DoneLine(r) \/ Broken(r) \/ EndOfStream(r)
  BY <1>4 DEF Line, DoneLine, Broken, EndOfStream
<1>5. CASE LineSent(r)
  BY <1>5 DEF LineSent
<1>6. CASE Cancel(r)
  BY <1>6 DEF Cancel
<1>7. CASE Leave(r) \/ Collect(r)
  BY <1>7 DEF Leave, Collect
<1> QED BY <1>1, <1>2, <1>3, <1>4, <1>5, <1>6, <1>7 DEF Handle

LEMMA PoolKept ==
  ASSUME IInv, holds' \subseteq holds
  PROVE  Cardinality(holds') <= PoolSize
<1>1. IsFiniteSet(holds) /\ Cardinality(holds) \in Nat /\ Cardinality(holds) <= PoolSize
  BY SetsFinite DEF IInv
<1>2. Cardinality(holds') <= Cardinality(holds) /\ Cardinality(holds') \in Nat
  BY <1>1, FS_Subset, FS_CardinalityType
<1> QED BY <1>1, <1>2, Numbers

LEMMA PoolStep ==
  ASSUME IInv, NEW r \in Request, Receive(r) \/ Handle(r) \/ Leave(r) \/ Collect(r)
  PROVE  Cardinality(holds') <= PoolSize
<1>1. CASE Connect(r)
  <2>1. /\ IsFiniteSet(holds) /\ Cardinality(holds) \in Nat
        /\ Cardinality(holds) < PoolSize /\ holds' = holds \cup {r}
    BY <1>1, SetsFinite DEF Connect, IInv
  <2>2. \/ Cardinality(holds') = Cardinality(holds)
        \/ Cardinality(holds') = Cardinality(holds) + 1
    BY <2>1, FS_AddElement
  <2> QED BY <2>1, <2>2, Numbers
<1>2. CASE ~Connect(r)
  BY <1>2, OnlyConnectTakes, PoolKept
<1> QED BY <1>1, <1>2

(* A gauge that follows one request keeps the size of the set it counts.     *)
LEMMA GaugeStep ==
  ASSUME NEW S, IsFiniteSet(S), NEW T, NEW r, S \ {r} = T \ {r},
         NEW gauge, gauge = Cardinality(S), NEW new, Follows(gauge, new, r \in S, r \in T)
  PROVE  new = Cardinality(T)
<1>1. Cardinality(S) \in Nat
  BY FS_CardinalityType
<1>2. CASE new = gauge /\ (r \in S <=> r \in T)
  <2>1. S = T
    BY <1>2
  <2> QED BY <1>2, <2>1
<1>3. CASE new = gauge + 1 /\ r \notin S /\ r \in T
  <2>1. T = S \cup {r}
    BY <1>3
  <2> QED BY <1>3, <2>1, FS_AddElement
<1>4. CASE new = Lowered(gauge, 1) /\ r \in S /\ r \notin T
  <2>1. T = S \ {r}
    BY <1>4
  <2>2. Cardinality(T) = Cardinality(S) - 1 /\ Cardinality(S) # 0
    BY <1>4, <2>1, FS_RemoveElement, FS_EmptySet
  <2> QED BY <1>1, <1>4, <2>2 DEF Lowered
<1> QED BY <1>2, <1>3, <1>4 DEF Follows

LEMMA GaugesFollow ==
  ASSUME IInv, NEW r \in Request, Only(r), Gauged(r)
  PROVE  GaugesExact'
<1> DEFINE T == {q \in Request : Open(q)' \/ pc'[q] = "left"}
           U == {q \in Request : Alive(q)'}
<1>1. Counted' = T /\ Living' = U
  BY DEF Counted, Living
<1>2. Counted \ {r} = T \ {r} /\ Living \ {r} = U \ {r}
  BY DEF Counted, Living, Only, Open, Alive
<1>3. /\ Follows(active, active', r \in Counted, r \in T)
      /\ Follows(streams, streams', r \in Living, r \in U)
  BY DEF Gauged, Follows, Counts, Counted, Living
<1> HIDE DEF T, U
<1>4. /\ IsFiniteSet(Counted) /\ IsFiniteSet(Living)
      /\ active = Cardinality(Counted) /\ streams = Cardinality(Living)
  BY SetsFinite DEF IInv, GaugesExact
<1>5. active' = Cardinality(T)
  BY <1>2, <1>3, <1>4, GaugeStep
<1>6. streams' = Cardinality(U)
  BY <1>2, <1>3, <1>4, GaugeStep
<1> QED BY <1>1, <1>5, <1>6 DEF GaugesExact

LEMMA MovesKeep ==
  ASSUME IInv, NEW r \in Request, Moves(r), Cardinality(holds') <= PoolSize
  PROVE  IInv'
<1>1. TypeOK' /\ Only(r) /\ RequestInv(r)' /\ Gauged(r)
  BY DEF Moves
<1>2. StoreOpen'
  BY <1>1 DEF Only, bridge, IInv, StoreOpen
<1>3. ASSUME NEW q \in Request \ {r} PROVE RequestInv(q)'
  <2>1. RequestInv(q)
    BY DEF IInv
  <2> QED BY <1>1, <2>1 DEF Only, bridge, RequestInv, Shape, Begun, Telling, Unfinished, Owing,
                           Leaving, Open
<1>4. \A q \in Request : RequestInv(q)'
  BY <1>1, <1>3
<1>5. GaugesExact'
  BY <1>1, GaugesFollow
<1> QED BY <1>1, <1>2, <1>4, <1>5 DEF IInv

LEMMA RequestStep ==
  ASSUME IInv, NEW r \in Request, Receive(r) \/ Handle(r) \/ Leave(r) \/ Collect(r)
  PROVE  IInv'
<1>1. Moves(r)
  BY ArrivalStep, BodyStep, ForwardingStep, FailureStep, AnswerStep, LineStep, EndStep DEF Handle
<1> QED BY <1>1, PoolStep, MovesKeep

-----------------------------------------------------------------------------
(* Shutdown.                                                                 *)

LEMMA QuietStep ==
  ASSUME IInv, Signal \/ CloseStore \/ UNCHANGED vars
  PROVE  IInv'
<1> USE DEF vars, bridge, answer, upstream, settings, Shutting, Resting, Signal, CloseStore
<1>1. TypeOK'
  BY DEF IInv, TypeOK
<1>2. StoreOpen'
  BY DEF IInv, StoreOpen
<1>3. ASSUME NEW q \in Request PROVE RequestInv(q)'
  <2>1. RequestInv(q)
    BY DEF IInv
  <2> QED BY <2>1 DEF IInv, TypeOK, RequestInv, Shape, Begun, Telling, Unfinished, Owing,
                     Leaving, Open
<1>4. GaugesExact' /\ Cardinality(holds') <= PoolSize
  BY DEF IInv, GaugesExact, Counted, Living, Open, Alive
<1> QED BY <1>1, <1>2, <1>3, <1>4 DEF IInv

(* The generators that the end of the loop ends.                             *)
Cut == {r \in Request : \/ Open(r) /\ kind[r] = "stream" /\ pc[r] \in Awaiting
                        \/ gen[r] = "lost" \/ pc[r] = "yielded"}

(* What Halt does to each request.                                           *)
Halted(r) ==
  LET awaits == Open(r) /\ kind[r] = "stream" /\ pc[r] \in Awaiting
      drops == gen[r] = "lost" \/ pc[r] = "yielded"
  IN /\ Open(r) => forced
     /\ pc'[r] = IF Open(r) THEN "left" ELSE pc[r]
     /\ gen'[r] = IF awaits THEN "ended" ELSE IF drops THEN "closed" ELSE gen[r]
     /\ trace'[r] = IF awaits THEN Written(trace[r], "client_disconnected", 0) ELSE trace[r]
     /\ reasoning'[r] = IF awaits \/ drops THEN Kept(r) ELSE reasoning[r]
     /\ r \notin holds'

LEMMA HaltEach ==
  ASSUME IInv, Halt, NEW r \in Request
  PROVE  Halted(r)
<1>1. RequestInv(r)
  BY DEF IInv
<1>2. r \in holds => Open(r) \/ gen[r] = "lost"
  BY <1>1 DEF RequestInv, Owing, Open, Underway, Awaiting
<1> QED BY <1>2 DEF Halt, Halted, Flush, Release

LEMMA HaltTypes ==
  ASSUME IInv, Halt
  PROVE  TypeOK'
<1>1. TypeOK
  BY DEF IInv
<1>2. \A r \in Request : Written(trace[r], "client_disconnected", 0) \in Traces
  BY <1>1, WrittenTrace DEF TypeOK
<1>3. IsFiniteSet(Cut)
  BY FiniteAssumption, FS_Subset DEF Cut
<1>4. Cardinality(Cut) \in Nat
  BY <1>3, FS_CardinalityType
<1>5. streams' = Lowered(streams, Cardinality(Cut))
  <2>1. Cut = {r \in {q \in Request : Open(q)} : kind[r] = "stream" /\ pc[r] \in Awaiting}
              \cup {r \in Request : gen[r] = "lost" \/ pc[r] = "yielded"}
    BY DEF Cut
  <2> QED BY <2>1 DEF Halt
<1>6. streams' \in Nat
  BY <1>1, <1>4, <1>5 DEF Lowered, TypeOK
<1>7. gen' \in [Request -> Generators]
  BY <1>1 DEF Halt, TypeOK, Generators
<1>8. trace' \in [Request -> Traces]
  BY <1>1, <1>2 DEF Halt, TypeOK
<1>9. reasoning' \in [Request -> {"none", "received", "kept", "lost"}]
  BY <1>1 DEF Halt, Flush, Kept, TypeOK
<1>10. pc' \in [Request -> {"new"} \cup Underway \cup Ended]
  BY <1>1 DEF Halt, TypeOK, Ended
<1>11. holds' \subseteq Request
  BY <1>1 DEF Halt, Release, TypeOK
<1>12. /\ UNCHANGED <<kind, here, status, counted, tries, lines, active, traced, paused, forced, store>>
       /\ server' = "closing" /\ flag' = TRUE /\ client' \in {"open", "closed"}
  BY <1>1 DEF Halt, Shutting, settings, TypeOK
<1> QED BY <1>1, <1>6, <1>7, <1>8, <1>9, <1>10, <1>11, <1>12 DEF TypeOK

LEMMA HaltRequests ==
  ASSUME IInv, Halt, NEW r \in Request
  PROVE  RequestInv(r)'
<1>1. RequestInv(r) /\ Halted(r) /\ TypeOK /\ store = "open" /\ server' = "closing"
  BY HaltEach DEF IInv, StoreOpen, TypeOK, Halt
<1>2. UNCHANGED <<kind, here, status, tries, forced>>
  BY DEF Halt, Shutting
<1>3. /\ trace[r] \in Traces
      /\ LET t == Written(trace[r], "client_disconnected", 0)
         IN /\ trace[r].word # "open" => t = trace[r]
            /\ trace[r].word = "open" => t.word = "client_disconnected"
  BY <1>1, WrittenTrace DEF TypeOK
<1>4. /\ trace'[r] = trace[r] \/ (trace[r].word = "open" /\ trace'[r].word = "client_disconnected"
                                  /\ pc'[r] = "left" /\ forced)
  BY <1>1, <1>3 DEF Halted
<1>5. reasoning'[r] = IF reasoning[r] = "received" THEN "kept" ELSE reasoning[r]
  BY <1>1 DEF Halted, Kept, RequestInv, Owing, Open, Underway, Awaiting, Ended, Shape
<1> USE DEF RequestInv, Shape, Begun, Telling, Unfinished, Owing, Leaving, Halted, Open,
        Underway, Awaiting, Ended
<1>6. Shape(r)'
  BY <1>1, <1>2
<1>7. Begun(r)'
  BY <1>1, <1>2, <1>5
<1>8. Telling(r)'
  BY <1>1, <1>2, <1>4, <1>5
<1>9. Owing(r)'
  BY <1>1, <1>2, <1>5
<1>10. Leaving(r)'
  BY <1>1, <1>2
<1> QED BY <1>6, <1>7, <1>8, <1>9, <1>10

LEMMA HaltGauges ==
  ASSUME IInv, Halt
  PROVE  GaugesExact'
<1>1. \A r \in Request : Halted(r) /\ Shape(r)
  BY HaltEach DEF IInv, RequestInv
<1>2. Counted' = Counted
  BY <1>1 DEF Halted, Counted, Open, Underway, Awaiting
<1>3. active' = Cardinality(Counted')
  BY <1>2 DEF IInv, GaugesExact, Halt, Shutting
<1>4. Cut \subseteq Living
  BY <1>1 DEF Cut, Living, Alive, Shape, Open, Underway, Awaiting, Ended
<1>5. Living' = Living \ Cut
  BY <1>1, <1>4 DEF Halted, Cut, Living, Alive
<1>6. IsFiniteSet(Living) /\ IsFiniteSet(Cut)
  BY <1>4, SetsFinite, FS_Subset DEF IInv
<1>7. /\ Cardinality(Living) \in Nat /\ Cardinality(Cut) \in Nat
      /\ Cardinality(Living \ Cut) = Cardinality(Living) - Cardinality(Living \cap Cut)
      /\ Cardinality(Cut) <= Cardinality(Living)
  BY <1>4, <1>6, FS_Difference, FS_CardinalityType, FS_Subset
<1>8. Living \cap Cut = Cut
  BY <1>4
<1>9. streams' = Lowered(streams, Cardinality(Cut))
  <2>1. Cut = {r \in {q \in Request : Open(q)} : kind[r] = "stream" /\ pc[r] \in Awaiting}
              \cup {r \in Request : gen[r] = "lost" \/ pc[r] = "yielded"}
    BY DEF Cut
  <2> QED BY <2>1 DEF Halt
<1>10. streams = Cardinality(Living)
  BY DEF IInv, GaugesExact
<1>11. streams' = Cardinality(Living')
  <2>1. Cardinality(Living') = Cardinality(Living) - Cardinality(Cut)
    BY <1>5, <1>7, <1>8
  <2> QED BY <1>7, <1>9, <1>10, <2>1 DEF Lowered
<1> QED BY <1>3, <1>11 DEF GaugesExact

LEMMA HaltStep ==
  ASSUME IInv, Halt
  PROVE  IInv'
<1>1. StoreOpen'
  BY DEF IInv, StoreOpen, Halt
<1>2. Cardinality(holds') <= PoolSize
  BY PoolKept DEF Halt, Release
<1> QED BY <1>1, <1>2, HaltTypes, HaltRequests, HaltGauges DEF IInv

-----------------------------------------------------------------------------

LEMMA InitIInv == Init => IInv
<1> SUFFICES ASSUME Init PROVE IInv
  OBVIOUS
<1> USE DEF Init
<1>1. TypeOK
  <2>1. traced \in BOOLEAN /\ paused \in BOOLEAN
    BY Numbers
  <2>2. {forced, flag, traced, paused} \subseteq BOOLEAN
    BY <2>1
  <2>3. 500 \in Codes /\ 0 \in 0..MaxRetries /\ 0 \in 0..MaxLines
    BY Numbers DEF Codes
  <2>4. NoTrace \in Traces
    BY DEF NoTrace, Traces
  <2> QED BY <2>2, <2>3, <2>4 DEF TypeOK, Kinds, Generators
<1>2. StoreOpen
  BY DEF StoreOpen
<1>3. ASSUME NEW r \in Request PROVE RequestInv(r)
  BY DEF RequestInv, Shape, Begun, Telling, Unfinished, Owing, Leaving, NoTrace, Open,
         Underway, Awaiting, Ended
<1>4. Counted = {} /\ Living = {}
  BY DEF Counted, Living, Open, Alive, Underway, Awaiting
<1>5. GaugesExact
  BY <1>4, FS_EmptySet DEF GaugesExact
<1>6. Cardinality(holds) <= PoolSize
  BY FS_EmptySet, Numbers
<1> QED BY <1>1, <1>2, <1>3, <1>5, <1>6 DEF IInv

(* The inductive invariant of the requests: where each of them is determines *)
(* its generator, its trace and what it still owes.                          *)
THEOREM Invariance == Spec => []IInv
<1>1. IInv /\ [Next]_vars => IInv'
  BY RequestStep, QuietStep, HaltStep DEF Next
<1> QED BY InitIInv, <1>1, PTL DEF Spec

(* The bridge's variables keep their types: no status but those it sends, no *)
(* retry beyond upstream_retry_attempts, no gauge below zero.                *)
THEOREM TypeCorrect == Spec => []TypeOK
<1>1. IInv => TypeOK
  BY DEF IInv
<1> QED BY Invariance, <1>1, PTL

(* The gauges of the metrics middleware are off by exactly the streams whose *)
(* clients have left (MetricsMiddleware, _tracked_stream_body).              *)
THEOREM GaugesCount == Spec => []GaugesLeakOnlyLeavers
<1>1. IInv => GaugesLeakOnlyLeavers
  <2> SUFFICES ASSUME IInv PROVE GaugesLeakOnlyLeavers
    OBVIOUS
  <2>1. \A r \in Request : pc[r] = "left" => forced \/ (kind[r] = "stream" /\ ~here[r])
    BY DEF IInv, RequestInv, Leaving
  <2>2. \A r \in Request : Alive(r) => Open(r) \/ pc[r] = "left"
    BY DEF IInv, RequestInv, Shape, Alive, Open, Underway, Awaiting, Ended
  <2> QED BY <2>1, <2>2 DEF IInv, GaugesExact, Counted, Living, GaugesLeakOnlyLeavers
<1> QED BY Invariance, <1>1, PTL

(* A trace says what happened to its request, whatever ended it: an answer,  *)
(* an error, an exception, a client that left or the end of the process      *)
(* (TraceRequest.finish and its callers in asgi.py).                         *)
THEOREM TracesTell == Spec => []TraceTellsAnswer
<1>1. IInv => TraceTellsAnswer
  <2> SUFFICES ASSUME IInv, NEW r \in Request
               PROVE  /\ pc[r] = "done" => trace[r].word # "open"
                      /\ trace[r].word = "rejected" =>
                           status[r] = trace[r].code /\ tries[r] = 0 /\ reasoning[r] = "none"
                      /\ trace[r].word = "upstream_error" =>
                           IF kind[r] = "stream" THEN gen[r] # "running"
                           ELSE status[r] = trace[r].code
                      /\ trace[r].word = "completed" =>
                           status[r] = 200 /\ reasoning[r] # "received"
                      /\ trace[r].word = "client_disconnected" =>
                           pc[r] = "left" /\ (~here[r] \/ forced) /\ r \notin holds
                      /\ pc[r] = "left" /\ trace[r].word = "open" =>
                           forced \/ gen[r] \in {"created", "lost", "closed"}
    BY DEF TraceTellsAnswer
  <2>1. RequestInv(r)
    BY DEF IInv
  <2>2. trace[r].word = "upstream_error" /\ kind[r] = "stream" => gen[r] # "running"
    BY <2>1 DEF RequestInv, Telling, Unfinished, Shape, Ended
  <2> QED BY <2>1, <2>2 DEF RequestInv, Telling
<1> QED BY Invariance, <1>1, PTL

(* Every upstream connection is given back, by whatever path the request     *)
(* ends, and never more of them are taken than the pool has.                 *)
THEOREM ConnectionsComeBack == Spec => []ConnectionsReturned
<1>1. IInv => ConnectionsReturned
  <2> SUFFICES ASSUME IInv PROVE ConnectionsReturned
    OBVIOUS
  <2>1. \A r \in holds : pc[r] \in {"asked", "reading", "yielded"} \/ gen[r] = "lost"
    BY DEF IInv, TypeOK, RequestInv, Owing
  <2>2. server \notin {"serving", "draining"} => holds = {}
    BY <2>1 DEF IInv, TypeOK, RequestInv, Leaving, Open, Underway, Awaiting
  <2> QED BY <2>1, <2>2 DEF IInv, ConnectionsReturned
<1> QED BY Invariance, <1>1, PTL

(* The store is not closed before the last request has ended and the last    *)
(* reasoning is recorded, in dropped generators and after a second signal    *)
(* too (the finally-block of cli.main).                                      *)
THEOREM ShutdownLosesNothing == Spec => []NothingLostAtShutdown
<1>1. IInv => NothingLostAtShutdown
  BY DEF IInv, NothingLostAtShutdown, RequestInv, Owing, Leaving, Open, Underway, Awaiting
<1> QED BY Invariance, <1>1, PTL
=============================================================================
