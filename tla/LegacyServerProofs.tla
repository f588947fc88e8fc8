------------------------- MODULE LegacyServerProofs -------------------------
(***************************************************************************)
(* Proofs about LegacyServer, for any connections, workers, queue length   *)
(* and upstream pool.                                                      *)
(***************************************************************************)
EXTENDS LegacyServer, FiniteSetTheorems, TLAPS

(* What the refinement and the gauges need of the types. *)
PoolTypes ==
  /\ workers \in Workers /\ server \in {"serving", "closing", "closed"}
  /\ queue \in Seq(Request) /\ pc \in [Request -> Positions]

(* The steps of a handler that has begun and does not end. *)
Works(r) ==
  /\ pc[r] \in {"taken"} \cup Handling /\ pc'[r] \in Handling
  /\ pc' \in [Request -> Positions]
  /\ \A q \in Request \ {r} : pc'[q] = pc[q]
  /\ UNCHANGED <<outside, here>>

-----------------------------------------------------------------------------

(* The locals of a handler are of their types and within their bounds.       *)
Sound(h) == h \in Handlers /\ h.tries <= MaxRetries /\ h.lines <= MaxLines
Like(g, h) == Sound(g) /\ g.kind = h.kind

LEMMA Numbers ==
  /\ MaxQueue \in Nat /\ PoolSize \in Nat /\ MaxRetries \in Nat /\ MaxLines \in Nat
BY NumbersAssumption

LEMMA WordLike ==
  ASSUME NEW h, Sound(h), NEW w \in Words
  PROVE  Like([h EXCEPT !.word = w], h)
BY DEF Handlers, Sound, Like

LEMMA CodeLike ==
  ASSUME NEW h, Sound(h), NEW c \in {0} \cup Codes
  PROVE  Like([h EXCEPT !.code = c], h)
BY DEF Handlers, Sound, Like

LEMMA StatusLike ==
  ASSUME NEW h, Sound(h), NEW c \in {0} \cup Codes
  PROVE  Like([h EXCEPT !.status = c], h)
BY DEF Handlers, Sound, Like

LEMMA ReasoningLike ==
  ASSUME NEW h, Sound(h), NEW t \in {"none", "received", "kept"}
  PROVE  Like([h EXCEPT !.reasoning = t], h) /\ [h EXCEPT !.reasoning = t].lines = h.lines
BY DEF Handlers, Sound, Like

LEMMA LinesLike ==
  ASSUME NEW h, Sound(h), h.lines < MaxLines
  PROVE  Like([h EXCEPT !.lines = h.lines + 1], h)
BY Numbers DEF Handlers, Sound, Like

LEMMA TriesLike ==
  ASSUME NEW h, Sound(h), h.tries < MaxRetries
  PROVE  Like([h EXCEPT !.tries = h.tries + 1], h)
BY Numbers DEF Handlers, Sound, Like

LEMMA KindSound ==
  ASSUME NEW h, Sound(h), NEW k \in Kinds
  PROVE  Sound([h EXCEPT !.kind = k]) /\ [h EXCEPT !.kind = k].kind = k
BY DEF Handlers, Sound

LEMMA NoHandlerSound == Sound(NoHandler) /\ NoHandler.kind = "none"
BY Numbers DEF Handlers, Sound, NoHandler, Kinds, Words

LEMMA FinishedLike ==
  ASSUME NEW h, Sound(h), NEW w \in Words, NEW c \in {0} \cup Codes
  PROVE  Like(Finished(h, w, c), h)
<1> DEFINE g == [h EXCEPT !.word = w]
<1>1. Like(g, h)
  BY WordLike
<1>2. Like([g EXCEPT !.code = c], g)
  BY <1>1, CodeLike DEF Like
<1> QED BY <1>1, <1>2 DEF Like, Finished

LEMMA WithStatusLike ==
  ASSUME NEW h, Sound(h), NEW sending, NEW c \in Codes
  PROVE  Like(WithStatus(h, sending, c), h)
BY StatusLike DEF WithStatus, Like

LEMMA KeptLike == ASSUME NEW h, Sound(h) PROVE Like(Kept(h), h)
BY ReasoningLike DEF Kept, Like

-----------------------------------------------------------------------------
(* Every step of a handler leaves its locals sound, and its kind as it was,  *)
(* but for the start of a stream.                                            *)

HandlersSound ==
  /\ handler \in [Request -> Handlers]
  /\ \A r \in Request : Sound(handler[r])

Moves(r) ==
  /\ handler' \in [Request -> Handlers] /\ Like(handler'[r], handler[r])
  /\ \A q \in Request \ {r} : handler'[q] = handler[q]

LEMMA SetMoves ==
  ASSUME HandlersSound, NEW r \in Request, NEW h, Like(h, handler[r]), Set(r, h)
  PROVE  Moves(r)
BY DEF HandlersSound, Moves, Like, Sound, Set

LEMMA TracedLike ==
  ASSUME HandlersSound, NEW r \in Request
  PROVE  Like(TracedHandler(r), handler[r])
BY WordLike DEF HandlersSound, TracedHandler, Words

LEMMA EndMoves ==
  ASSUME HandlersSound, NEW r \in Request, NEW h, Like(h, handler[r]),
         NEW w \in Words, NEW c \in {0} \cup Codes, End(r, h, w, c)
  PROVE  Moves(r)
<1>1. Like(Finished(h, w, c), handler[r])
  BY FinishedLike DEF Like
<1> QED BY <1>1, SetMoves DEF End

LEMMA ReplyMoves ==
  ASSUME HandlersSound, NEW r \in Request, NEW h, Like(h, handler[r]),
         NEW w \in Words, NEW c \in Codes, Reply(r, h, w, c)
  PROVE  Moves(r)
<1>1. PICK sending \in Sendings(r) :
        IF sending = "stuck" THEN Fail(r, h) ELSE End(r, WithStatus(h, sending, c), w, c)
  BY DEF Reply
<1>2. Like(WithStatus(h, sending, c), handler[r])
  BY WithStatusLike DEF Like
<1> QED BY <1>1, <1>2, SetMoves, EndMoves DEF Fail

LEMMA ReturnMoves ==
  ASSUME HandlersSound, NEW r \in Request, NEW h, Like(h, handler[r]),
         NEW w \in Words, Return(r, h, w)
  PROVE  Moves(r)
<1>1. Like(Kept(h), handler[r])
  BY KeptLike DEF Like
<1> QED BY <1>1, EndMoves DEF Return, KeepUnfinished, Codes

LEMMA HandlerMoves ==
  ASSUME HandlersSound, NEW r \in Request, Handle(r), ~Untrack(r), ~StartStream(r)
  PROVE  Moves(r)
<1> USE DEF Words, Codes
<1>1. Like(handler[r], handler[r]) /\ Like(TracedHandler(r), handler[r])
  BY TracedLike DEF HandlersSound, Like
<1>2. CASE Track(r) \/ Connect(r) \/ Retry(r) \/ StreamOpens(r)
  BY <1>2, <1>1 DEF Track, Connect, Retry, StreamOpens, Moves, HandlersSound
<1>3. CASE Get(r)
  BY <1>3, <1>1, ReplyMoves DEF Get
<1>4. CASE Show(r)
  <2>1. CASE flag
    BY <1>4, <2>1, <1>1, ReplyMoves DEF Show
  <2>2. CASE ~flag
    <3>1. PICK code \in {200, 400}, sending \in Sendings(r) :
            IF sending = "stuck" THEN Fail(r, TracedHandler(r))
            ELSE End(r, WithStatus(TracedHandler(r), sending, code), "completed", 0)
      BY <1>4, <2>2 DEF Show
    <3>2. Like(WithStatus(TracedHandler(r), sending, code), handler[r])
      BY <1>1, WithStatusLike DEF Like
    <3> QED BY <1>1, <3>1, <3>2, SetMoves, EndMoves DEF Fail
  <2> QED BY <2>1, <2>2
<1>5. CASE Refuse(r)
  BY <1>5, <1>1, ReplyMoves DEF Refuse
<1>6. CASE Aborted(r) \/ PrepareRaises(r) \/ Forward(r)
  BY <1>6, <1>1, EndMoves, SetMoves DEF Aborted, PrepareRaises, Forward, Fail
<1>7. CASE TransportError(r)
  <2>1. ASSUME MayRetry(r), Set(r, [handler[r] EXCEPT !.tries = handler[r].tries + 1])
        PROVE  Moves(r)
    BY <2>1, TriesLike, SetMoves DEF MayRetry, HandlersSound, Like
  <2> QED BY <1>7, <2>1, <1>1, ReplyMoves, EndMoves DEF TransportError, FailureWord
<1>8. CASE HardError(r)
  BY <1>8, <1>1, ReplyMoves DEF HardError, FailureWord
<1>9. CASE AnswerRead(r)
  <2> DEFINE h == IF Kind(r) = "chat" THEN [handler[r] EXCEPT !.reasoning = "kept"]
                  ELSE handler[r]
  <2>1. Like(h, handler[r])
    BY <1>1, ReasoningLike DEF HandlersSound
  <2>2. \E sending \in Sendings(r) :
          \/ End(r, WithStatus(h, sending, 200), "completed", 200)
          \/ End(r, h, IF Kind(r) = "chat" THEN "client_disconnected" ELSE "completed", 200)
          \/ Fail(r, h) \/ Reply(r, h, "completed", 500)
    BY <1>9, Zenon DEF AnswerRead
  <2> HIDE DEF h
  <2>3. \A sending : Like(WithStatus(h, sending, 200), h)
    BY <2>1, WithStatusLike DEF Like
  <2>4. \A sending : Like(WithStatus(h, sending, 200), handler[r])
    BY <2>1, <2>3 DEF Like
  <2> QED BY <2>1, <2>2, <2>4, EndMoves, SetMoves, ReplyMoves DEF Fail
<1>10. CASE AnswerRaises(r)
  BY <1>10, <1>1, SetMoves DEF AnswerRaises, Fail
<1>11. CASE Line(r)
  <2>1. PICK text \in {handler[r].reasoning, "received"}, sending \in Sendings(r) :
          LET h == [handler[r] EXCEPT !.reasoning = text, !.lines = @ + 1]
          IN /\ Reading(r) /\ handler[r].lines < MaxLines
             /\ IF sending = "sent"
                THEN Set(r, h) /\ UNCHANGED <<pc, holds, streams>>
                ELSE Return(r, h, "client_disconnected")
    BY <1>11 DEF Line
  <2> DEFINE g == [handler[r] EXCEPT !.reasoning = text]
             h == [g EXCEPT !.lines = g.lines + 1]
  <2>2. Like(g, handler[r]) /\ g.lines = handler[r].lines
    <3>1. Sound(handler[r]) /\ text \in {"none", "received", "kept"}
      BY DEF HandlersSound, Handlers
    <3> QED BY <3>1, ReasoningLike
  <2>3. Like(h, handler[r])
    BY <2>1, <2>2, LinesLike DEF Like
  <2>4. Set(r, h) \/ Return(r, h, "client_disconnected")
    BY <2>1, <2>2, Zenon
  <2> HIDE DEF h
  <2> QED BY <2>3, <2>4, SetMoves, ReturnMoves
<1>12. CASE DoneLine(r) \/ EndOfStream(r) \/ Broken(r)
  <2>1. Like(Kept(handler[r]), handler[r])
    BY KeptLike DEF HandlersSound
  <2> QED BY <1>12, <1>1, <2>1, ReturnMoves DEF DoneLine, EndOfStream, Broken
<1>13. CASE UsageRaises(r)
  <2> DEFINE g == [handler[r] EXCEPT !.reasoning = "kept"]
  <2>1. Like(g, handler[r]) /\ Like(Kept(handler[r]), handler[r])
    BY <1>1, ReasoningLike, KeptLike DEF HandlersSound
  <2>2. Set(r, WithStatus(g, "sent", 200)) \/ Set(r, Kept(handler[r]))
    BY <1>13, Zenon DEF UsageRaises, Fail, KeepUnfinished
  <2> HIDE DEF g
  <2>3. Like(WithStatus(g, "sent", 200), handler[r])
    BY <2>1, WithStatusLike DEF Like
  <2> QED BY <2>1, <2>2, <2>3, SetMoves
<1> QED BY <1>2, <1>3, <1>4, <1>5, <1>6, <1>7, <1>8, <1>9, <1>10, <1>11, <1>12, <1>13 DEF Handle

-----------------------------------------------------------------------------
(* Where the steps of a handler lead.                                        *)

LEMMA Answers ==
  ASSUME NEW r \in Request, NEW h, NEW word, NEW code, PoolTypes, Reply(r, h, word, code)
  PROVE  /\ pc'[r] \in {"ending", "failing"} /\ pc' \in [Request -> Positions]
         /\ \A q \in Request \ {r} : pc'[q] = pc[q]
<1> USE DEF PoolTypes, Positions, Handling, Go
<1>1. PICK sending \in Sendings(r) :
        IF sending = "stuck" THEN Fail(r, h)
        ELSE End(r, WithStatus(h, sending, code), word, code)
  BY DEF Reply
<1>2. pc' = [pc EXCEPT ![r] = "failing"] \/ pc' = [pc EXCEPT ![r] = "ending"]
  BY <1>1 DEF Fail, End
<1> QED BY <1>2

LEMMA HandlerWorks ==
  ASSUME NEW r \in Request, PoolTypes, Handle(r), ~Untrack(r)
  PROVE  Works(r)
<1> USE DEF Works, Positions, Handling, Go, PoolTypes, outside
<1>1. CASE Track(r)
  BY <1>1 DEF Track
<1>2. CASE Get(r)
  BY <1>2, Answers DEF Get, Serving
<1>3. CASE Show(r)
  BY <1>3, Answers DEF Show, Serving, End, Fail
<1>4. CASE Refuse(r)
  BY <1>4, Answers DEF Refuse, Serving
<1>5. CASE Aborted(r) \/ PrepareRaises(r) \/ Forward(r)
  BY <1>5 DEF Aborted, PrepareRaises, Forward, Admitted, Serving, End, Fail
<1>6. CASE StartStream(r)
  BY <1>6 DEF StartStream, Admitted, Serving, End, Fail
<1>7. CASE Connect(r) \/ Retry(r)
  BY <1>7 DEF Connect, Retry
<1>8. CASE TransportError(r)
  BY <1>8, Answers DEF TransportError, Asked, End
<1>9. CASE HardError(r)
  BY <1>9, Answers DEF HardError, Asked
<1>10. CASE AnswerRead(r)
  BY <1>10, Answers DEF AnswerRead, Asked, End, Fail
<1>11. CASE StreamOpens(r) \/ AnswerRaises(r)
  BY <1>11 DEF StreamOpens, AnswerRaises, Asked, Fail
<1>12. CASE Line(r)
  BY <1>12 DEF Line, Reading, Return, End
<1>13. CASE DoneLine(r) \/ EndOfStream(r) \/ Broken(r)
  BY <1>13 DEF DoneLine, EndOfStream, Broken, Reading, Return, End
<1>14. CASE UsageRaises(r)
  BY <1>14 DEF UsageRaises, Asked, Reading, Fail
<1> QED BY <1>1, <1>2, <1>3, <1>4, <1>5, <1>6, <1>7, <1>8, <1>9, <1>10, <1>11,
           <1>12, <1>13, <1>14 DEF Handle

LEMMA TypesStep == PoolTypes /\ [Next]_vars => PoolTypes'
<1> SUFFICES ASSUME PoolTypes, [Next]_vars PROVE PoolTypes'
  OBVIOUS
<1> USE DEF PoolTypes, Positions, Handling, Go
<1>1. ASSUME NEW r \in Request, Accept(r) \/ TurnAway(r) PROVE PoolTypes'
  BY <1>1 DEF Accept, TurnAway, outside
<1>6. ASSUME NEW r \in Request, NEW k, Submit(r, k) PROVE PoolTypes'
  BY <1>6 DEF Submit
<1>2. ASSUME NEW r \in Request, Handle(r), ~Untrack(r) PROVE PoolTypes'
  BY <1>2, HandlerWorks DEF Works, outside
<1>3. ASSUME NEW r \in Request, Untrack(r) PROVE PoolTypes'
  BY <1>3 DEF Untrack, outside
<1>4. CASE Take
  BY <1>4 DEF Take
<1>5. CASE \/ \E r \in Request : Leave(r)
           \/ Signal \/ Shutdown \/ ServerClose \/ UNCHANGED vars
  BY <1>5 DEF Leave, Signal, Shutdown, ServerClose, vars, outside
<1> QED BY <1>1, <1>2, <1>3, <1>4, <1>5, <1>6 DEF Next

LEMMA TypesInit == Init => PoolTypes
BY DEF Init, PoolTypes, Positions

-----------------------------------------------------------------------------
(* The accepting thread has one connection in hand, while the server serves, *)
(* and the room it has seen in the queue stays: only workers use the queue   *)
(* meanwhile, and they make room.                                            *)
InHand == {"full", "room"}

AcceptSound ==
  /\ \A r \in Request : pc[r] \in InHand => server = "serving"
  /\ \A q, r \in Request : pc[q] \in InHand /\ pc[r] \in InHand => q = r
  /\ \A r \in Request : pc[r] = "room" => Len(queue) < MaxQueue

LEMMA AcceptInit == Init => AcceptSound
BY DEF Init, AcceptSound, InHand

LEMMA AcceptStep == PoolTypes /\ AcceptSound /\ [Next]_vars => AcceptSound'
<1> SUFFICES ASSUME PoolTypes, AcceptSound, [Next]_vars PROVE AcceptSound'
  OBVIOUS
<1> USE DEF AcceptSound, InHand, PoolTypes, Go
<1>0. MaxQueue \in Nat /\ Len(queue) \in Nat
  BY Numbers
<1>1. ASSUME NEW r \in Request, Accept(r) PROVE AcceptSound'
  <2>1. /\ server' = "serving" /\ queue' = queue /\ \A q \in Request : pc[q] \notin InHand
        /\ pc' = [pc EXCEPT ![r] = IF Full THEN "full" ELSE "room"]
    BY <1>1 DEF Accept, Accepting, outside
  <2>2. ~Full => Len(queue) < MaxQueue
    BY <1>0 DEF Full
  <2> QED BY <2>1, <2>2
<1>2. ASSUME NEW r \in Request, \/ TurnAway(r) \/ \E k : Submit(r, k) PROVE AcceptSound'
  <2>1. /\ pc[r] \in InHand /\ pc' \in [Request -> Positions] /\ pc'[r] \notin InHand
        /\ \A q \in Request \ {r} : pc'[q] = pc[q]
    BY <1>2, TypesStep DEF TurnAway, Submit
  <2> QED BY <2>1
<1>3. ASSUME NEW r \in Request, Handle(r) PROVE AcceptSound'
  <2>1. pc'[r] \notin InHand /\ UNCHANGED outside /\ \A q \in Request \ {r} : pc'[q] = pc[q]
    <3>1. CASE Untrack(r)
      BY <3>1 DEF Untrack
    <3>2. CASE ~Untrack(r)
      BY <1>3, <3>2, HandlerWorks DEF Works, Handling
    <3> QED BY <3>1, <3>2
  <2> QED BY <2>1 DEF outside
<1>4. CASE Take
  <2>1. Len(queue') = Len(queue) - 1 /\ Head(queue) \in Request /\ server' = server
    BY <1>4 DEF Take
  <2>2. pc' = [pc EXCEPT ![Head(queue)] = "taken"]
    BY <1>4 DEF Take
  <2> QED BY <1>0, <2>1, <2>2
<1>5. CASE Shutdown
  <2>1. pc' = pc /\ \A r \in Request : pc[r] \notin InHand
    BY <1>5 DEF Shutdown, Accepting
  <2> QED BY <2>1
<1>6. CASE ServerClose
  BY <1>6 DEF ServerClose
<1>7. CASE (\E r \in Request : Leave(r)) \/ Signal \/ UNCHANGED vars
  BY <1>7 DEF Leave, Signal, vars, outside
<1> QED BY <1>1, <1>2, <1>3, <1>4, <1>5, <1>6, <1>7 DEF Next

-----------------------------------------------------------------------------
(* The refinement, step by step.                                             *)

LEMMA SameCardinality == \A S : Pool!Cardinality(S) = Cardinality(S)
BY DEF Pool!Cardinality, Cardinality

(* A connection is being worked on while it occupies a worker.               *)
LEMMA WorkingIsBusy == ASSUME PoolTypes PROVE Pool!Working = Busy
BY DEF PoolTypes, Positions, Handling, Busy, Stage, Pool!Working

LEMMA PoolInit == Init => Pool!Init
BY DEF Init, Pool!Init, Stage, Handling

LEMMA Stutters ==
  ASSUME UNCHANGED <<workers, server, queue>>, \A r \in Request : Stage(r)' = Stage(r)
  PROVE  UNCHANGED Pool!vars
BY DEF Pool!vars

LEMMA PoolStep ==
  PoolTypes /\ AcceptSound /\ PoolTypes' /\ [Next]_vars => [Pool!Next]_Pool!vars
<1> SUFFICES ASSUME PoolTypes, AcceptSound, PoolTypes', [Next]_vars
             PROVE  Pool!Next \/ UNCHANGED Pool!vars
  OBVIOUS
<1> USE DEF Stage, Handling, Positions, PoolTypes, Go
<1>1. ASSUME NEW r \in Request, Accept(r) PROVE Pool!Refuse(r) \/ UNCHANGED Pool!vars
  <2>1. CASE Full
    <3>1. pc' = [pc EXCEPT ![r] = "full"]
      BY <1>1, <2>1 DEF Accept
    <3> QED BY <1>1, <2>1, <3>1 DEF Accept, outside, Full, Pool!Refuse
  <2>2. CASE ~Full
    <3>1. pc' = [pc EXCEPT ![r] = "room"] /\ pc[r] = "new"
      BY <1>1, <2>2 DEF Accept
    <3> QED BY <1>1, <3>1, Stutters DEF Accept, outside
  <2> QED BY <2>1, <2>2
<1>8. ASSUME NEW r \in Request, TurnAway(r) PROVE UNCHANGED Pool!vars
  <2>1. PICK p \in {"probed", "refused"} : pc' = [pc EXCEPT ![r] = p]
    BY <1>8 DEF TurnAway
  <2> QED BY <1>8, <2>1, Stutters DEF TurnAway, outside
<1>9. ASSUME NEW r \in Request, NEW k, Submit(r, k) PROVE Pool!Submit(r)
  <2>1. server = "serving" /\ Len(queue) < MaxQueue
    BY <1>9 DEF Submit, AcceptSound, InHand
  <2> QED BY <1>9, <2>1 DEF Submit, Pool!Submit
<1>2. ASSUME NEW r \in Request, Handle(r), ~Untrack(r) PROVE UNCHANGED Pool!vars
  <2>1. Works(r)
    BY <1>2, HandlerWorks
  <2> QED BY <2>1, Stutters DEF Works, outside
<1>3. ASSUME NEW r \in Request, Untrack(r) PROVE Pool!Finish(r)
  BY <1>3 DEF Untrack, outside, Pool!Finish
<1>4. ASSUME Take PROVE Pool!Start
  <2>1. Head(queue) \in Request
    BY <1>4 DEF Take
  <2>2. Pool!Cardinality(Pool!Working) < workers
    BY <1>4, WorkingIsBusy, SameCardinality DEF Take
  <2> QED BY <1>4, <2>1, <2>2 DEF Take, Pool!Start
<1>5. ASSUME Shutdown PROVE Pool!Close
  BY <1>5 DEF Shutdown, Pool!Close
<1>6. ASSUME ServerClose PROVE Pool!Closed
  BY <1>6, WorkingIsBusy DEF ServerClose, Drained, Pool!Closed
<1>7. CASE (\E r \in Request : Leave(r)) \/ Signal \/ UNCHANGED vars
  BY <1>7, Stutters DEF Leave, Signal, vars, outside
<1> QED BY <1>1, <1>2, <1>3, <1>4, <1>5, <1>6, <1>7, <1>8, <1>9 DEF Next, Pool!Next

-----------------------------------------------------------------------------
(* Connections and gauges.                                                   *)

Holding == {"asked", "reading"}
Streaming == {r \in Request :
                Kind(r) = "stream" /\ pc[r] \in {"pool", "asked", "sleep", "reading"}}
Begun == {r \in Request : pc[r] \in Handling}

(* What was started with a connection is ended without it.                   *)
LEMMA HoldsStep ==
  ASSUME NEW r \in Request, PoolTypes, Handle(r), ~Untrack(r), ~Connect(r)
  PROVE  \/ holds' = holds \ {r}
         \/ holds' = holds /\ (pc[r] \notin Holding \/ pc'[r] \in Holding)
<1> USE DEF Holding, Go, PoolTypes
<1>1. CASE Track(r) \/ Retry(r)
  BY <1>1 DEF Track, Retry
<1>2. CASE \/ Get(r) \/ Show(r) \/ Refuse(r) \/ Aborted(r) \/ PrepareRaises(r)
           \/ Forward(r) \/ StartStream(r)
  BY <1>2 DEF Get, Show, Refuse, Aborted, PrepareRaises, Forward, StartStream, Admitted, Serving
<1>3. CASE TransportError(r) \/ HardError(r) \/ AnswerRead(r) \/ AnswerRaises(r)
  BY <1>3 DEF TransportError, HardError, AnswerRead, AnswerRaises, Release
<1>4. CASE StreamOpens(r)
  BY <1>4 DEF StreamOpens
<1>5. CASE Line(r)
  BY <1>5 DEF Line, Reading, Return, Release
<1>6. CASE DoneLine(r) \/ EndOfStream(r) \/ Broken(r)
  BY <1>6 DEF DoneLine, EndOfStream, Broken, Return, Release
<1>7. CASE UsageRaises(r)
  BY <1>7 DEF UsageRaises, Release
<1> QED BY <1>1, <1>2, <1>3, <1>4, <1>5, <1>6, <1>7 DEF Handle

(* A stream is taken off its gauge when its handler ends.                    *)
LEMMA StreamsStep ==
  ASSUME NEW r \in Request, PoolTypes, HandlersSound,
         Handle(r), ~Untrack(r), ~StartStream(r)
  PROVE  \/ streams' = streams /\ (r \in Streaming' <=> r \in Streaming)
         \/ /\ StreamFinished(r) /\ r \notin Streaming'
            /\ Kind(r) = "stream" => r \in Streaming
<1> USE DEF Go, PoolTypes, Streaming
<1>0. Kind(r)' = Kind(r)
  BY HandlerMoves DEF Moves, Like, Kind
<1>1. CASE Track(r) \/ Retry(r) \/ Connect(r) \/ StreamOpens(r)
  BY <1>0, <1>1 DEF Track, Retry, Connect, StreamOpens, Asked
<1>2. CASE Get(r) \/ Refuse(r)
  BY <1>0, <1>2, Answers DEF Get, Refuse, Serving
<1>3. CASE Show(r) \/ Aborted(r) \/ PrepareRaises(r) \/ Forward(r)
  BY <1>0, <1>3, Answers
     DEF Show, Aborted, PrepareRaises, Forward, Admitted, Serving, End, Fail
<1>4. CASE TransportError(r) \/ HardError(r)
  BY <1>0, <1>4, Answers DEF TransportError, HardError, Asked, End
<1>5. CASE AnswerRead(r)
  BY <1>0, <1>5 DEF AnswerRead, Asked
<1>6. CASE AnswerRaises(r)
  BY <1>0, <1>6 DEF AnswerRaises, Asked, Fail
<1>7. CASE Line(r)
  BY <1>0, <1>7 DEF Line, Reading, Return, End
<1>8. CASE DoneLine(r) \/ EndOfStream(r) \/ Broken(r)
  BY <1>0, <1>8 DEF DoneLine, EndOfStream, Broken, Reading, Return, End
<1>9. CASE UsageRaises(r)
  BY <1>0, <1>9 DEF UsageRaises, Asked, Reading, Fail
<1> QED BY <1>1, <1>2, <1>3, <1>4, <1>5, <1>6, <1>7, <1>8, <1>9 DEF Handle

LEMMA StartStep ==
  ASSUME NEW r \in Request, PoolTypes, HandlersSound, StartStream(r)
  PROVE  \/ Moves(r) /\ streams' = streams /\ r \notin Streaming /\ r \notin Streaming'
         \/ /\ handler' \in [Request -> Handlers] /\ Sound(handler'[r])
            /\ \A q \in Request \ {r} : handler'[q] = handler[q]
            /\ streams' = streams + 1 /\ r \notin Streaming /\ r \in Streaming'
<1> USE DEF Go, PoolTypes, Streaming
<1>1. pc[r] = "request"
  BY DEF StartStream, Admitted, Serving
<1>2. Like(TracedHandler(r), handler[r])
  BY TracedLike
<1>3. CASE /\ End(r, TracedHandler(r), "aborted", 0) \/ Fail(r, TracedHandler(r))
           /\ UNCHANGED streams
  <2>1. Moves(r)
    BY <1>2, <1>3, EndMoves, SetMoves DEF Fail, Words
  <2>2. pc'[r] \in {"ending", "failing"}
    BY <1>3 DEF End, Fail
  <2> QED BY <1>1, <1>3, <2>1, <2>2
<1>4. CASE /\ Go(r, "pool") /\ streams' = streams + 1
           /\ Set(r, [TracedHandler(r) EXCEPT !.kind = "stream", !.status = 200])
  <2> DEFINE g == [TracedHandler(r) EXCEPT !.kind = "stream"]
             h == [g EXCEPT !.status = 200]
  <2>1. Sound(g) /\ g.kind = "stream"
    BY <1>2, KindSound DEF Like, Kinds
  <2>3. Set(r, h)
    BY <1>4
  <2> HIDE DEF g
  <2>2. Like(h, g)
    <3>1. 200 \in {0} \cup Codes
      BY DEF Codes
    <3> QED BY <2>1, <3>1, StatusLike
  <2>4. Sound(h) /\ h.kind = "stream"
    BY <2>1, <2>2 DEF Like
  <2> HIDE DEF h
  <2>5. handler' = [handler EXCEPT ![r] = h]
    BY <2>3 DEF Set
  <2> QED BY <1>1, <1>4, <2>4, <2>5 DEF HandlersSound, Sound, Kind
<1> QED BY <1>3, <1>4, Zenon DEF StartStream

-----------------------------------------------------------------------------
(* The invariant.                                                            *)

RestSound == flag \in BOOLEAN /\ here \in [Request -> BOOLEAN] /\ holds \subseteq Request

(* The queue holds connections that are queued, each once.                   *)
QueueSound ==
  /\ \A i \in 1..Len(queue) : pc[queue[i]] = "queued"
  /\ \A i, j \in 1..Len(queue) : queue[i] = queue[j] => i = j

Inv == /\ PoolTypes /\ AcceptSound /\ HandlersSound /\ RestSound /\ QueueSound
       /\ ConnectionsReturned /\ GaugesExact

LEMMA InvInit == Init => Inv
<1> SUFFICES ASSUME Init PROVE Inv
  OBVIOUS
<1> USE DEF Init
<1>1. PoolTypes /\ AcceptSound
  BY TypesInit, AcceptInit
<1>2. HandlersSound
  BY NoHandlerSound DEF HandlersSound, Sound
<1>3. RestSound /\ QueueSound
  <2>1. RestSound
    BY DEF RestSound
  <2>2. 1..Len(queue) = {}
    OBVIOUS
  <2> QED BY <2>1, <2>2 DEF QueueSound
<1>6. ConnectionsReturned
  <2>1. Cardinality(holds) = 0
    BY FS_EmptySet
  <2> QED BY <2>1, Numbers DEF ConnectionsReturned
<1>4. Begun = {} /\ Streaming = {}
  BY DEF Begun, Streaming, Handling
<1>5. GaugesExact
  BY <1>4, FS_EmptySet DEF GaugesExact, Begun, Streaming
<1> QED BY <1>1, <1>2, <1>3, <1>5, <1>6 DEF Inv

LEMMA HandlersStep == PoolTypes /\ HandlersSound /\ [Next]_vars => HandlersSound'
<1> SUFFICES ASSUME PoolTypes, HandlersSound, [Next]_vars PROVE HandlersSound'
  OBVIOUS
<1> USE DEF HandlersSound
<1>1. ASSUME NEW r \in Request, NEW k \in Kinds, Submit(r, k) PROVE HandlersSound'
  <2> DEFINE h == [NoHandler EXCEPT !.kind = k]
  <2>1. Sound(h)
    BY NoHandlerSound, KindSound
  <2>2. Set(r, h)
    BY <1>1 DEF Submit
  <2> HIDE DEF h
  <2> QED BY <2>1, <2>2 DEF Set, Sound
<1>2. ASSUME NEW r \in Request, Handle(r), ~Untrack(r) PROVE HandlersSound'
  <2>1. CASE StartStream(r)
    BY <2>1, StartStep DEF Moves, Like, Sound
  <2>2. CASE ~StartStream(r)
    BY <1>2, <2>2, HandlerMoves DEF Moves, Like, Sound
  <2> QED BY <2>1, <2>2
<1>3. ASSUME NEW r \in Request, Untrack(r) PROVE HandlersSound'
  BY <1>3, NoHandlerSound DEF Untrack, Set, Sound
<1>4. CASE \/ \E r \in Request : Accept(r) \/ TurnAway(r) \/ Leave(r)
           \/ Take \/ Signal \/ Shutdown \/ ServerClose \/ UNCHANGED vars
  BY <1>4 DEF Accept, TurnAway, Leave, Take, Signal, Shutdown, ServerClose, vars
<1> QED BY <1>1, <1>2, <1>3, <1>4, SMTT(30) DEF Next

LEMMA QueueStep == PoolTypes /\ QueueSound /\ [Next]_vars => QueueSound'
<1> SUFFICES ASSUME PoolTypes, QueueSound, [Next]_vars PROVE QueueSound'
  OBVIOUS
<1> USE DEF QueueSound, PoolTypes, Go
<1>1. ASSUME NEW r \in Request, Accept(r) \/ TurnAway(r) \/ \E k : Submit(r, k)
      PROVE  QueueSound'
  <2>1. \A i \in 1..Len(queue) : queue[i] # r /\ queue[i] \in Request
    <3>1. pc[r] # "queued"
      BY <1>1 DEF Accept, TurnAway, Submit
    <3> QED BY <3>1
  <2>2. CASE Accept(r) \/ TurnAway(r)
    BY <2>1, <2>2 DEF Accept, TurnAway, outside
  <2>3. CASE \E k : Submit(r, k)
    BY <2>1, <2>3 DEF Submit
  <2> QED BY <1>1, <2>2, <2>3
<1>2. ASSUME NEW r \in Request, Handle(r) PROVE QueueSound'
  <2>1. pc[r] # "queued" /\ queue' = queue /\ \A q \in Request \ {r} : pc'[q] = pc[q]
    <3>1. CASE Untrack(r)
      BY <3>1 DEF Untrack, outside
    <3>2. CASE ~Untrack(r)
      BY <1>2, <3>2, HandlerWorks DEF Works, outside, Handling
    <3> QED BY <3>1, <3>2
  <2>2. \A i \in 1..Len(queue) : queue[i] \in Request
    OBVIOUS
  <2> QED BY <2>1, <2>2
<1>3. CASE Take
  <2>1. /\ Tail(queue) \in Seq(Request) /\ Len(Tail(queue)) = Len(queue) - 1
        /\ Head(queue) = queue[1] /\ Len(queue) \in Nat /\ Len(queue) > 0
    BY <1>3 DEF Take
  <2>2. \A i \in 1..Len(Tail(queue)) :
          i + 1 \in 1..Len(queue) /\ Tail(queue)[i] = queue[i + 1] /\ queue[i + 1] # Head(queue)
    BY <2>1
  <2> QED BY <1>3, <2>1, <2>2 DEF Take
<1>4. CASE \/ \E r \in Request : Leave(r)
           \/ Signal \/ Shutdown \/ ServerClose \/ UNCHANGED vars
  BY <1>4 DEF Leave, Signal, Shutdown, ServerClose, vars, outside
<1> QED BY <1>1, <1>2, <1>3, <1>4 DEF Next

(* What a worker takes is not being handled yet.                             *)
LEMMA TakesQueued ==
  ASSUME PoolTypes, QueueSound, Take
  PROVE  Head(queue) \in Request /\ pc[Head(queue)] = "queued"
<1>1. Head(queue) = queue[1] /\ 1 \in 1..Len(queue) /\ Head(queue) \in Request
  BY DEF Take, PoolTypes
<1> QED BY <1>1 DEF QueueSound

LEMMA ConnectionsStep ==
  PoolTypes /\ QueueSound /\ RestSound /\ ConnectionsReturned /\ [Next]_vars
    => RestSound' /\ ConnectionsReturned'
<1> SUFFICES ASSUME PoolTypes, QueueSound, RestSound, ConnectionsReturned, [Next]_vars
             PROVE  RestSound' /\ ConnectionsReturned'
  OBVIOUS
<1> USE DEF RestSound, PoolTypes, Go
<1>0. IsFiniteSet(holds) /\ Cardinality(holds) \in Nat /\ Cardinality(holds) <= PoolSize
  BY FiniteAssumption, FS_Subset, FS_CardinalityType DEF ConnectionsReturned
<1>1. ASSUME NEW r \in Request, Accept(r) \/ TurnAway(r) \/ \E k : Submit(r, k)
      PROVE  RestSound' /\ ConnectionsReturned'
  BY <1>1 DEF Accept, TurnAway, Submit, outside, ConnectionsReturned
<1>2. ASSUME NEW r \in Request, Connect(r) PROVE RestSound' /\ ConnectionsReturned'
  <2>1. Cardinality(holds') <= PoolSize
    <3>1. Cardinality(holds) < PoolSize /\ holds' = holds \cup {r}
      BY <1>2 DEF Connect
    <3>2. \/ Cardinality(holds') = Cardinality(holds)
          \/ Cardinality(holds') = Cardinality(holds) + 1
      BY <1>0, <3>1, FS_AddElement
    <3> QED BY <1>0, <3>1, <3>2, Numbers
  <2> QED BY <1>2, <2>1 DEF Connect, ConnectionsReturned, outside, Positions, Handling
<1>3. ASSUME NEW r \in Request, Handle(r), ~Untrack(r), ~Connect(r)
      PROVE  RestSound' /\ ConnectionsReturned'
  <2>1. Works(r)
    BY <1>3, HandlerWorks
  <2>2. \/ holds' = holds \ {r}
        \/ holds' = holds /\ (pc[r] \notin Holding \/ pc'[r] \in Holding)
    BY <1>3, HoldsStep
  <2>3. Cardinality(holds') <= PoolSize
    <3>1. holds' \subseteq holds
      BY <2>2
    <3>2. Cardinality(holds') <= Cardinality(holds) /\ Cardinality(holds') \in Nat
      BY <1>0, <3>1, FS_Subset, FS_CardinalityType
    <3> QED BY <1>0, <3>2, Numbers
  <2>4. \A q \in holds' : pc'[q] \in Holding
    BY <2>1, <2>2 DEF Works, Holding, ConnectionsReturned
  <2>5. flag' \in BOOLEAN /\ here' = here
    BY <2>1 DEF Works, outside
  <2> QED BY <2>2, <2>3, <2>4, <2>5 DEF ConnectionsReturned, Holding
<1>4. ASSUME NEW r \in Request, Untrack(r) PROVE RestSound' /\ ConnectionsReturned'
  BY <1>4 DEF Untrack, outside, ConnectionsReturned
<1>5. CASE Take
  BY <1>5, TakesQueued DEF Take, ConnectionsReturned
<1>6. CASE \/ \E r \in Request : Leave(r)
           \/ Signal \/ Shutdown \/ ServerClose \/ UNCHANGED vars
  BY <1>6 DEF Leave, Signal, Shutdown, ServerClose, vars, outside, ConnectionsReturned
<1> QED BY <1>1, <1>2, <1>3, <1>4, <1>5, <1>6 DEF Next

(* Only Track raises the gauge of workers.                                   *)
LEMMA BeginsOnce ==
  ASSUME NEW r \in Request, Handle(r), ~Untrack(r), ~Track(r)
  PROVE  active' = active /\ pc[r] \in Handling
<1> USE DEF Handling
<1>1. CASE Get(r) \/ Show(r) \/ Refuse(r)
  BY <1>1 DEF Get, Show, Refuse, Serving
<1>2. CASE Aborted(r) \/ PrepareRaises(r) \/ Forward(r) \/ StartStream(r)
  BY <1>2 DEF Aborted, PrepareRaises, Forward, StartStream, Admitted, Serving
<1>3. CASE Connect(r) \/ Retry(r)
  BY <1>3 DEF Connect, Retry
<1>4. CASE \/ TransportError(r) \/ HardError(r) \/ AnswerRead(r) \/ StreamOpens(r)
           \/ AnswerRaises(r)
  BY <1>4 DEF TransportError, HardError, AnswerRead, StreamOpens, AnswerRaises, Asked
<1>5. CASE Line(r) \/ DoneLine(r) \/ EndOfStream(r) \/ Broken(r)
  BY <1>5 DEF Line, DoneLine, EndOfStream, Broken, Reading
<1>6. CASE UsageRaises(r)
  BY <1>6 DEF UsageRaises, Asked, Reading
<1> QED BY <1>1, <1>2, <1>3, <1>4, <1>5, <1>6 DEF Handle

(* A gauge that is raised and lowered with the set it counts.                *)
LEMMA Raised ==
  ASSUME NEW S, IsFiniteSet(S), NEW x, x \notin S
  PROVE  Cardinality(S \cup {x}) = Cardinality(S) + 1
BY FS_AddElement

LEMMA LoweredTo ==
  ASSUME NEW S, IsFiniteSet(S), NEW x, x \in S
  PROVE  Cardinality(S) > 0 /\ Cardinality(S \ {x}) = Cardinality(S) - 1
<1>1. Cardinality(S) \in Nat /\ Cardinality(S) # 0
  BY FS_CardinalityType, FS_EmptySet
<1> QED BY <1>1, FS_RemoveElement

LEMMA GaugesFinite == IsFiniteSet(Begun) /\ IsFiniteSet(Streaming)
BY FiniteAssumption, FS_Subset DEF Begun, Streaming

LEMMA GaugesStep ==
  PoolTypes /\ HandlersSound /\ QueueSound /\ GaugesExact /\ [Next]_vars => GaugesExact'
<1> SUFFICES ASSUME PoolTypes, HandlersSound, QueueSound, GaugesExact, [Next]_vars
             PROVE  active' = Cardinality(Begun') /\ streams' = Cardinality(Streaming')
  BY DEF GaugesExact, Begun, Streaming
<1> DEFINE Goal == active' = Cardinality(Begun') /\ streams' = Cardinality(Streaming')
<1>0. active = Cardinality(Begun) /\ streams = Cardinality(Streaming)
  BY DEF GaugesExact, Begun, Streaming
<1>1. ASSUME active' = active, streams' = streams,
             \A q \in Request : pc'[q] \in Handling <=> pc[q] \in Handling,
             Streaming' = Streaming
      PROVE  Goal
  <2>1. Begun' = Begun
    BY <1>1 DEF Begun
  <2> QED BY <1>0, <1>1, <2>1
<1>2. ASSUME NEW r \in Request, Accept(r) \/ TurnAway(r) \/ \E k : Submit(r, k)
      PROVE  Goal
  <2>1. /\ pc[r] \in {"new", "full", "room"}
        /\ pc'[r] \in {"full", "room", "queued", "refused", "probed"}
        /\ \A q \in Request \ {r} : pc'[q] = pc[q]
    BY <1>2 DEF Accept, TurnAway, Submit, Go, PoolTypes
  <2>2. active' = active /\ streams' = streams /\ \A q \in Request \ {r} : handler'[q] = handler[q]
    BY <1>2 DEF Accept, TurnAway, Submit, Set, HandlersSound
  <2>3. \A q \in Request : pc'[q] \in Handling <=> pc[q] \in Handling
    BY <2>1 DEF Handling
  <2>4. Streaming' = Streaming
    BY <2>1, <2>2 DEF Streaming, Kind
  <2> QED BY <1>1, <2>2, <2>3, <2>4
<1>3. CASE Take
  <2>1. pc' = [pc EXCEPT ![Head(queue)] = "taken"] /\ pc[Head(queue)] = "queued"
    BY <1>3, TakesQueued DEF Take, Go
  <2>2. \A q \in Request : pc'[q] \in Handling <=> pc[q] \in Handling
    BY <2>1 DEF PoolTypes, Handling
  <2>3. Streaming' = Streaming
    BY <1>3, <2>1 DEF Take, Streaming, Kind, PoolTypes
  <2> QED BY <1>1, <1>3, <2>2, <2>3 DEF Take
<1>4. ASSUME NEW r \in Request, Handle(r), ~Untrack(r) PROVE Goal
  <2>1. Works(r) /\ pc' \in [Request -> Positions]
    BY <1>4, HandlerWorks DEF Works
  <2>2. \A q \in Request \ {r} : handler'[q] = handler[q]
    BY <1>4, StartStep, HandlerMoves DEF Moves
  <2>3. \A q \in Request \ {r} : q \in Streaming' <=> q \in Streaming
    BY <2>1, <2>2 DEF Works, Streaming, Kind
  <2>4. active' = Cardinality(Begun')
    <3>1. CASE Track(r)
      <4>1. r \notin Begun /\ Begun' = Begun \cup {r}
        BY <2>1, <3>1 DEF Works, Track, Begun, Handling, Go, PoolTypes
      <4> QED BY <1>0, <3>1, <4>1, GaugesFinite, Raised DEF Track
    <3>2. CASE ~Track(r)
      <4>1. active' = active /\ pc[r] \in Handling
        BY <1>4, <3>2, BeginsOnce
      <4>2. Begun' = Begun
        BY <2>1, <4>1 DEF Works, Begun
      <4> QED BY <1>0, <4>1, <4>2
    <3> QED BY <3>1, <3>2
  <2>5. streams' = Cardinality(Streaming')
    <3>1. CASE streams' = streams /\ (r \in Streaming' <=> r \in Streaming)
      <4>1. Streaming' = Streaming
        BY <2>3, <3>1 DEF Streaming
      <4> QED BY <1>0, <3>1, <4>1
    <3>2. CASE streams' = streams + 1 /\ r \notin Streaming /\ r \in Streaming'
      <4>1. Streaming' = Streaming \cup {r}
        BY <2>3, <3>2 DEF Streaming
      <4> QED BY <1>0, <3>2, <4>1, GaugesFinite, Raised
    <3>3. CASE /\ StreamFinished(r) /\ r \notin Streaming'
               /\ Kind(r) = "stream" => r \in Streaming
      <4>1. Streaming' = Streaming \ {r}
        BY <2>3, <3>3 DEF Streaming
      <4>2. CASE r \in Streaming
        <5>1. Kind(r) = "stream" /\ streams > 0
          BY <1>0, <4>2, GaugesFinite, LoweredTo DEF Streaming
        <5> QED BY <1>0, <3>3, <4>1, <4>2, <5>1, GaugesFinite, LoweredTo DEF StreamFinished
      <4>3. CASE r \notin Streaming
        <5>1. Streaming' = Streaming /\ streams' = streams
          BY <3>3, <4>1, <4>3 DEF StreamFinished
        <5> QED BY <1>0, <5>1
      <4> QED BY <4>2, <4>3
    <3> QED BY <1>4, <3>1, <3>2, <3>3, StreamsStep, StartStep
  <2> QED BY <2>4, <2>5
<1>5. ASSUME NEW r \in Request, Untrack(r) PROVE Goal
  <2>1. /\ pc[r] \in {"ending", "failing"} /\ pc' = [pc EXCEPT ![r] = "done"]
        /\ \A q \in Request \ {r} : handler'[q] = handler[q]
        /\ streams' = streams /\ active' = IF active > 0 THEN active - 1 ELSE 0
    BY <1>5 DEF Untrack, Go, Set, HandlersSound
  <2>2. r \in Begun /\ Begun' = Begun \ {r}
    BY <2>1 DEF Begun, Handling, PoolTypes
  <2>3. active' = Cardinality(Begun')
    BY <1>0, <2>1, <2>2, GaugesFinite, LoweredTo
  <2>4. Streaming' = Streaming
    BY <2>1 DEF Streaming, Kind, PoolTypes
  <2> QED BY <1>0, <2>1, <2>3, <2>4
<1>6. CASE \/ \E r \in Request : Leave(r)
           \/ Signal \/ Shutdown \/ ServerClose \/ UNCHANGED vars
  <2>1. UNCHANGED <<pc, handler, active, streams>>
    BY <1>6 DEF Leave, Signal, Shutdown, ServerClose, vars
  <2> QED BY <1>1, <2>1 DEF Streaming, Kind
<1> QED BY <1>2, <1>3, <1>4, <1>5, <1>6 DEF Next

(* The inductive invariant of the threaded server. *)
THEOREM Invariance == Spec => []Inv
<1>1. Inv /\ [Next]_vars => Inv'
  BY TypesStep, AcceptStep, HandlersStep, QueueStep, ConnectionsStep, GaugesStep DEF Inv
<1> QED BY InvInit, <1>1, PTL DEF Spec

LEMMA InvTypes == Inv => TypeOK
<1> SUFFICES ASSUME Inv PROVE TypeOK
  OBVIOUS
<1>1. {active, streams} \subseteq Nat
  BY GaugesFinite, FS_CardinalityType DEF Inv, GaugesExact, Begun, Streaming
<1> QED BY <1>1 DEF Inv, PoolTypes, HandlersSound, Sound, RestSound, TypeOK

(* The server's variables keep their types, and no handler retries or reads  *)
(* beyond its bounds.                                                        *)
THEOREM TypeCorrect == Spec => []TypeOK
BY Invariance, InvTypes, PTL

(* No handler ends with an upstream connection, however it ends, and the     *)
(* pool is never exceeded (UpstreamPool, _dispatch_response).                *)
THEOREM NoConnectionLost == Spec => []ConnectionsReturned
BY Invariance, PTL DEF Inv

(* The gauges of workers and streams count what they name, through every     *)
(* exception and failed write (do_POST, _process_request_thread_tracked).    *)
THEOREM GaugesCount == Spec => []GaugesExact
BY Invariance, PTL DEF Inv

(* The threaded server implements a bounded pool of workers: whatever its    *)
(* handlers do, connections are queued and taken in their order, refused     *)
(* only if the queue was full when they were accepted, never dropped, and    *)
(* the server is closed only when no worker has one (process_request,        *)
(* server_close).                                                            *)
THEOREM ImplementsPool == Spec => Pool!SafeSpec
<1>1. Inv => PoolTypes /\ AcceptSound
  BY DEF Inv
<1> QED BY Invariance, <1>1, PoolInit, PoolStep, PTL DEF Spec, Pool!SafeSpec

-----------------------------------------------------------------------------
(* What the handlers tell and keep: their traces, and the reasoning they     *)
(* record.                                                                   *)

(* The locals of a handler, by where it is: nothing is known before the      *)
(* request is read, upstream is asked with an open trace, a handler that     *)
(* returns has told and kept everything, and one that raises has kept it.    *)
Fresh(h) == h.word = "none" /\ h.status = 0 /\ h.reasoning = "none" /\ h.kind # "stream"

Forwarded(h) ==
  /\ h.word = "open" /\ h.kind \in {"embeddings", "chat", "stream"}
  /\ h.status = IF h.kind = "stream" THEN 200 ELSE 0

Tells(h, there) ==
  /\ h.reasoning # "received"
  /\ h.kind \in {"chat", "stream"} =>
       /\ h.word # "open"
       /\ h.word \in {"rejected", "upstream_error"} =>
            h.kind = "stream" \/ h.status \in {h.code, 0}
       /\ h.word = "completed" => h.status = 200
       /\ h.word = "aborted" => ~there

Told(r) ==
  /\ pc[r] \in {"queued", "taken", "request"} => Fresh(handler[r])
  /\ pc[r] \in {"pool", "asked", "sleep"} =>
       Forwarded(handler[r]) /\ handler[r].reasoning = "none"
  /\ pc[r] = "reading" => Forwarded(handler[r]) /\ handler[r].kind = "stream"
  /\ pc[r] = "ending" => Tells(handler[r], here[r])
  /\ pc[r] = "failing" => handler[r].reasoning # "received"

HandlersTell == \A r \in Request : Told(r)

LEMMA Fields ==
  ASSUME NEW h \in Handlers, NEW w \in Words, NEW c \in {0} \cup Codes
  PROVE  /\ Finished(h, w, c).kind = h.kind /\ Finished(h, w, c).status = h.status
         /\ Finished(h, w, c).reasoning = h.reasoning
         /\ h.word = "open" => Finished(h, w, c).word = w /\ Finished(h, w, c).code = c
         /\ h.word # "open" => Finished(h, w, c) = h
BY DEF Handlers, Finished

LEMMA StatusFields ==
  ASSUME NEW h \in Handlers, NEW sending, NEW c \in Codes
  PROVE  LET g == WithStatus(h, sending, c)
         IN /\ g \in Handlers
            /\ g.kind = h.kind /\ g.word = h.word /\ g.reasoning = h.reasoning
            /\ g.status = IF sending = "sent" /\ h.status = 0 THEN c ELSE h.status
BY DEF Handlers, WithStatus

LEMMA TracedFields ==
  ASSUME HandlersSound, NEW r \in Request
  PROVE  LET h == TracedHandler(r)
         IN /\ h \in Handlers /\ h.word = "open" /\ h.kind = handler[r].kind
            /\ h.status = handler[r].status /\ h.reasoning = handler[r].reasoning
BY DEF HandlersSound, Handlers, Words, TracedHandler

(* A failed handler has only its reasoning to keep, one that ends with nothing open or  *)
(* with the right word tells it.                                             *)
LEMMA FailTells ==
  ASSUME PoolTypes, HandlersSound, NEW r \in Request, NEW h, Fail(r, h),
         h.reasoning # "received"
  PROVE  Told(r)'
<1>1. pc'[r] = "failing" /\ handler'[r] = h
  BY DEF PoolTypes, HandlersSound, Fail, Go, Set
<1> QED BY <1>1 DEF Told

LEMMA EndTells ==
  ASSUME PoolTypes, HandlersSound, NEW r \in Request, NEW h \in Handlers,
         NEW w \in Words, NEW c \in {0} \cup Codes, End(r, h, w, c), here' = here,
         h.reasoning # "received",
         h.word = "open" /\ h.kind \in {"chat", "stream"} =>
           /\ w # "open"
           /\ w \in {"rejected", "upstream_error"} => h.kind = "stream" \/ h.status \in {c, 0}
           /\ w = "completed" => h.status = 200
           /\ w = "aborted" => ~here[r],
         h.word \in {"open", "none"}
  PROVE  Told(r)'
<1> DEFINE g == Finished(h, w, c)
<1>1. pc'[r] = "ending" /\ handler'[r] = g
  BY DEF End, Go, Set, PoolTypes, HandlersSound
<1>2. Tells(g, here[r])
  BY Fields DEF Tells
<1> HIDE DEF g
<1> QED BY <1>1, <1>2 DEF Told

LEMMA ReplyTells ==
  ASSUME PoolTypes, HandlersSound, NEW r \in Request, NEW h \in Handlers,
         NEW w \in Words \ {"open", "aborted"}, NEW c \in Codes, Reply(r, h, w, c),
         here' = here, h.reasoning # "received", h.word \in {"open", "none"},
         h.word = "open" /\ h.kind \in {"chat", "stream"} =>
           (h.kind = "stream" \/ h.status = 0) /\ w # "completed"
  PROVE  Told(r)'
<1>1. PICK sending \in Sendings(r) :
        IF sending = "stuck" THEN Fail(r, h) ELSE End(r, WithStatus(h, sending, c), w, c)
  BY DEF Reply
<1> DEFINE g == WithStatus(h, sending, c)
<1>2. /\ g \in Handlers /\ g.kind = h.kind /\ g.word = h.word /\ g.reasoning = h.reasoning
      /\ g.status = IF sending = "sent" /\ h.status = 0 THEN c ELSE h.status
  BY StatusFields
<1> HIDE DEF g
<1>3. CASE sending = "stuck"
  BY <1>1, <1>3, FailTells
<1>4. CASE sending # "stuck"
  <2>1. End(r, g, w, c)
    BY <1>1, <1>4 DEF g
  <2>2. h.word = "open" /\ h.kind \in {"chat", "stream"} =>
          h.kind = "stream" \/ g.status \in {c, 0}
    BY <1>2
  <2> QED BY <1>2, <2>1, <2>2, EndTells
<1> QED BY <1>3, <1>4

LEMMA KeptFields ==
  ASSUME NEW h \in Handlers
  PROVE  /\ Kept(h) \in Handlers /\ Kept(h).kind = h.kind /\ Kept(h).word = h.word
         /\ Kept(h).status = h.status /\ Kept(h).reasoning # "received"
BY DEF Handlers, Kept

LEMMA ReturnTells ==
  ASSUME PoolTypes, HandlersSound, NEW r \in Request, NEW h \in Handlers,
         NEW w \in {"completed", "client_disconnected"}, Return(r, h, w), here' = here,
         Forwarded(h), h.kind = "stream"
  PROVE  Told(r)'
<1>1. End(r, Kept(h), w, 200)
  BY DEF Return, KeepUnfinished
<1>2. w \in Words /\ 200 \in {0} \cup Codes
  BY DEF Words, Codes
<1> QED BY <1>1, <1>2, KeptFields, EndTells DEF Forwarded

(* Every step of a handler leaves it with what it should tell.               *)
LEMMA HandlerTells ==
  ASSUME PoolTypes, HandlersSound, NEW r \in Request, Told(r), Handle(r), ~Untrack(r)
  PROVE  Told(r)'
<1>1. here' = here /\ handler[r] \in Handlers
  BY HandlerWorks DEF Works, HandlersSound
<1> DEFINE t == TracedHandler(r)
<1>2. /\ t \in Handlers /\ t.word = "open" /\ t.kind = handler[r].kind
      /\ t.status = handler[r].status /\ t.reasoning = handler[r].reasoning
  BY TracedFields
<1> HIDE DEF t
<1>3. pc[r] = "request" => Fresh(handler[r])
  BY DEF Told
<1>4. pc[r] \in {"pool", "asked", "sleep", "reading"} => Forwarded(handler[r])
  BY DEF Told
<1>5. pc[r] = "asked" => handler[r].reasoning = "none"
  BY DEF Told
<1>6. /\ {"none", "rejected", "upstream_error", "completed", "client_disconnected"}
           \subseteq Words \ {"open", "aborted"}
      /\ "aborted" \in Words /\ Codes = Codes \cap ({0} \cup Codes)
      /\ {200, 204, 400, 401, 404, 409, 413, 429, 500, 503, 504} \subseteq Codes
  BY DEF Words, Codes
<1>7. CASE Track(r) \/ Connect(r) \/ Retry(r)
  BY <1>7 DEF Track, Connect, Retry, Told, Go, PoolTypes
<1>8. CASE Get(r)
  <2>1. PICK code \in Codes : Reply(r, handler[r], "none", code)
    BY <1>6, <1>8 DEF Get
  <2> QED BY <1>1, <1>3, <1>6, <1>8, <2>1, ReplyTells DEF Get, Serving, Fresh
<1>9. CASE Show(r)
  <2>1. Fresh(handler[r]) /\ t.kind = "show"
    BY <1>2, <1>3, <1>9 DEF Show, Serving, Kind
  <2>2. CASE flag
    <3>1. Reply(r, handler[r], "none", 503)
      BY <1>9, <2>2 DEF Show
    <3> QED BY <1>1, <1>6, <2>1, <3>1, ReplyTells DEF Fresh
  <2>3. CASE ~flag
    <3>1. PICK code \in Codes, sending \in Sendings(r) :
            Fail(r, t) \/ End(r, WithStatus(t, sending, code), "completed", 0)
      BY <1>6, <1>9, <2>3 DEF Show, t
    <3> DEFINE g == WithStatus(t, sending, code)
    <3>2. g \in Handlers /\ g.kind = "show" /\ g.word = "open" /\ g.reasoning = "none"
      BY <1>2, <2>1, StatusFields DEF Fresh
    <3>3. Fail(r, t) \/ End(r, g, "completed", 0)
      BY <3>1
    <3> HIDE DEF g
    <3>4. t.reasoning # "received"
      BY <1>2, <2>1 DEF Fresh
    <3> QED BY <1>1, <1>6, <3>2, <3>3, <3>4, FailTells, EndTells
  <2> QED BY <2>2, <2>3
<1>10. CASE Refuse(r)
  <2>1. Fresh(handler[r])
    BY <1>3, <1>10 DEF Refuse, Serving
  <2>2. \/ \E code \in Codes : Reply(r, handler[r], "none", code)
        \/ \E code \in Codes : Reply(r, t, "rejected", code)
        \/ Kind(r) = "embeddings" /\ \E code \in Codes : Reply(r, t, "completed", code)
    BY <1>6, <1>10 DEF Refuse, t
  <2>3. ASSUME NEW code \in Codes, Reply(r, handler[r], "none", code) PROVE Told(r)'
    BY <1>1, <1>6, <2>1, <2>3, ReplyTells DEF Fresh
  <2>4. ASSUME NEW code \in Codes, Reply(r, t, "rejected", code) PROVE Told(r)'
    BY <1>1, <1>2, <1>6, <2>1, <2>4, ReplyTells DEF Fresh
  <2>5. ASSUME NEW code \in Codes, Kind(r) = "embeddings", Reply(r, t, "completed", code)
        PROVE  Told(r)'
    BY <1>1, <1>2, <1>6, <2>1, <2>5, ReplyTells DEF Fresh, Kind
  <2> QED BY <2>2, <2>3, <2>4, <2>5
<1>11. CASE Aborted(r)
  <2>1. End(r, t, "aborted", 0) /\ ~here[r] /\ Fresh(handler[r])
    BY <1>3, <1>11 DEF Aborted, Admitted, Serving, t
  <2> QED BY <1>1, <1>2, <1>6, <2>1, EndTells DEF Fresh
<1>12. CASE PrepareRaises(r) \/ AnswerRaises(r)
  <2>1. CASE PrepareRaises(r)
    <3>1. Fail(r, t) /\ Fresh(handler[r])
      BY <1>3, <2>1 DEF PrepareRaises, Admitted, Serving, t
    <3> QED BY <1>2, <3>1, FailTells DEF Fresh
  <2>2. CASE AnswerRaises(r)
    BY <1>5, <2>2, FailTells DEF AnswerRaises, Asked
  <2> QED BY <1>12, <2>1, <2>2
<1>13. CASE Forward(r)
  <2>1. pc'[r] = "pool" /\ handler'[r] = t /\ Fresh(handler[r])
        /\ Kind(r) \in {"embeddings", "chat"}
    BY <1>3, <1>13 DEF Forward, Admitted, Serving, Go, Set, PoolTypes, HandlersSound, t
  <2> QED BY <1>2, <2>1 DEF Told, Forwarded, Fresh, Kind
<1>14. CASE StartStream(r)
  <2>1. Fresh(handler[r])
    BY <1>3, <1>14 DEF StartStream, Admitted, Serving
  <2>2. PICK sending \in Sendings(r) :
          \/ Go(r, "pool") /\ Set(r, [t EXCEPT !.kind = "stream", !.status = 200])
          \/ sending = "broken" /\ End(r, t, "aborted", 0)
          \/ Fail(r, t)
    BY <1>14, Zenon DEF StartStream, t
  <2>3. CASE Go(r, "pool") /\ Set(r, [t EXCEPT !.kind = "stream", !.status = 200])
    <3>1. pc'[r] = "pool" /\ handler'[r] = [t EXCEPT !.kind = "stream", !.status = 200]
      BY <2>3 DEF Go, Set, PoolTypes, HandlersSound
    <3>2. /\ handler'[r].kind = "stream" /\ handler'[r].status = 200
          /\ handler'[r].word = t.word /\ handler'[r].reasoning = t.reasoning
      BY <1>2, <3>1 DEF Handlers
    <3> QED BY <1>2, <2>1, <3>1, <3>2 DEF Told, Forwarded, Fresh
  <2>4. CASE sending = "broken" /\ End(r, t, "aborted", 0)
    <3>1. ~here[r]
      BY <2>2, <2>4 DEF Sendings
    <3> QED BY <1>1, <1>2, <1>6, <2>1, <2>4, <3>1, EndTells DEF Fresh
  <2>5. CASE Fail(r, t)
    BY <1>2, <2>1, <2>5, FailTells DEF Fresh
  <2> QED BY <2>2, <2>3, <2>4, <2>5
<1>15. CASE TransportError(r) \/ HardError(r)
  <2>1. Forwarded(handler[r]) /\ handler[r].reasoning = "none"
    BY <1>4, <1>5, <1>15 DEF TransportError, HardError, Asked
  <2>2. FailureWord(r) = IF handler[r].kind = "embeddings" THEN "completed" ELSE "upstream_error"
    BY DEF FailureWord, Kind
  <2>3. ASSUME NEW code \in Codes, Reply(r, handler[r], FailureWord(r), code) PROVE Told(r)'
    <3>1. FailureWord(r) \in Words \ {"open", "aborted"}
      BY <1>6, <2>2
    <3> QED BY <1>1, <2>1, <2>2, <2>3, <3>1, ReplyTells DEF Forwarded
  <2>4. ASSUME ~here[r], End(r, handler[r], "aborted", 0) PROVE Told(r)'
    BY <1>1, <1>6, <2>1, <2>4, EndTells DEF Forwarded
  <2>5. ASSUME Go(r, "sleep"), Set(r, [handler[r] EXCEPT !.tries = handler[r].tries + 1])
        PROVE  Told(r)'
    <3>1. pc'[r] = "sleep" /\ handler'[r] = [handler[r] EXCEPT !.tries = handler[r].tries + 1]
      BY <2>5 DEF Go, Set, PoolTypes, HandlersSound
    <3>2. /\ handler'[r].kind = handler[r].kind /\ handler'[r].status = handler[r].status
          /\ handler'[r].word = handler[r].word /\ handler'[r].reasoning = handler[r].reasoning
      BY <1>1, <3>1 DEF Handlers
    <3> QED BY <2>1, <3>1, <3>2 DEF Told, Forwarded
  <2>6. CASE TransportError(r)
    BY <1>6, <2>3, <2>4, <2>5, <2>6 DEF TransportError
  <2>7. CASE HardError(r)
    BY <1>6, <2>3, <2>7 DEF HardError
  <2> QED BY <1>15, <2>6, <2>7
<1>16. CASE AnswerRead(r)
  <2> DEFINE h == IF Kind(r) = "chat" THEN [handler[r] EXCEPT !.reasoning = "kept"]
                  ELSE handler[r]
  <2>1. Forwarded(handler[r]) /\ handler[r].reasoning = "none" /\ handler[r].kind # "stream"
    BY <1>4, <1>5, <1>16 DEF AnswerRead, Asked, Kind
  <2>2. /\ h \in Handlers /\ h.kind = handler[r].kind /\ h.word = "open" /\ h.status = 0
        /\ h.reasoning # "received"
    BY <1>1, <2>1 DEF Handlers, Forwarded
  <2>3. \E sending \in Sendings(r) :
          \/ sending = "sent" /\ End(r, WithStatus(h, sending, 200), "completed", 200)
          \/ End(r, h, IF Kind(r) = "chat" THEN "client_disconnected" ELSE "completed", 200)
          \/ Fail(r, h)
          \/ Kind(r) # "chat" /\ Reply(r, h, "completed", 500)
    BY <1>16, Zenon DEF AnswerRead
  <2> HIDE DEF h
  <2>4. ASSUME NEW sending, sending = "sent", End(r, WithStatus(h, sending, 200), "completed", 200)
        PROVE  Told(r)'
    <3> DEFINE g == WithStatus(h, sending, 200)
    <3>1. g \in Handlers /\ g.status = 200 /\ g.word = "open" /\ g.reasoning # "received"
      BY <1>6, <2>2, <2>4, StatusFields
    <3>2. End(r, g, "completed", 200)
      BY <2>4
    <3> HIDE DEF g
    <3> QED BY <1>1, <1>6, <3>1, <3>2, EndTells
  <2>5. ASSUME End(r, h, IF Kind(r) = "chat" THEN "client_disconnected" ELSE "completed", 200)
        PROVE  Told(r)'
    <3>1. CASE Kind(r) = "chat"
      BY <1>1, <1>6, <2>2, <2>5, <3>1, EndTells
    <3>2. CASE Kind(r) # "chat"
      BY <1>1, <1>6, <2>1, <2>2, <2>5, <3>2, EndTells DEF Kind
    <3> QED BY <3>1, <3>2
  <2>6. ASSUME Kind(r) # "chat", Reply(r, h, "completed", 500) PROVE Told(r)'
    BY <1>1, <1>6, <2>1, <2>2, <2>6, ReplyTells DEF Kind
  <2> QED BY <2>2, <2>3, <2>4, <2>5, <2>6, FailTells
<1>17. CASE StreamOpens(r)
  BY <1>4, <1>17 DEF StreamOpens, Asked, Kind, Told, Go, PoolTypes
<1>18. CASE Line(r)
  <2>1. PICK text \in {handler[r].reasoning, "received"}, sending \in Sendings(r) :
          LET h == [handler[r] EXCEPT !.reasoning = text, !.lines = @ + 1]
          IN /\ Reading(r) /\ handler[r].lines < MaxLines
             /\ IF sending = "sent"
                THEN Set(r, h) /\ UNCHANGED <<pc, holds, streams>>
                ELSE Return(r, h, "client_disconnected")
    BY <1>18 DEF Line
  <2> DEFINE h == [handler[r] EXCEPT !.reasoning = text, !.lines = handler[r].lines + 1]
  <2>2. text \in {"none", "received", "kept"} /\ handler[r].lines + 1 \in Nat
    BY <1>1 DEF Handlers
  <2>3. h \in Handlers /\ h.kind = handler[r].kind /\ h.word = handler[r].word
        /\ h.status = handler[r].status
    <3> DEFINE n == handler[r].lines + 1
    <3>1. \A m \in Nat : LET g == [handler[r] EXCEPT !.reasoning = text, !.lines = m]
                         IN /\ g \in Handlers /\ g.kind = handler[r].kind
                            /\ g.word = handler[r].word /\ g.status = handler[r].status
      BY <1>1, <2>2 DEF Handlers
    <3> QED BY <2>2, <3>1
  <2>4. pc[r] = "reading" /\ Forwarded(handler[r]) /\ handler[r].kind = "stream"
    BY <2>1 DEF Reading, Told
  <2>5. \/ pc' = pc /\ handler'[r] = h
        \/ Return(r, h, "client_disconnected")
    BY <2>1 DEF Set, HandlersSound
  <2> HIDE DEF h
  <2>6. CASE pc' = pc /\ handler'[r] = h
    BY <2>3, <2>4, <2>6 DEF Told, Forwarded
  <2>7. CASE Return(r, h, "client_disconnected")
    BY <1>1, <2>3, <2>4, <2>7, ReturnTells DEF Forwarded
  <2> QED BY <2>5, <2>6, <2>7
<1>19. CASE DoneLine(r) \/ EndOfStream(r) \/ Broken(r)
  <2>1. Forwarded(handler[r]) /\ handler[r].kind = "stream"
    BY <1>19 DEF DoneLine, EndOfStream, Broken, Reading, Told
  <2>2. /\ Kept(handler[r]) \in Handlers /\ Forwarded(Kept(handler[r]))
        /\ Kept(handler[r]).kind = "stream"
    BY <1>1, <2>1, KeptFields DEF Forwarded
  <2>3. \E w \in {"completed", "client_disconnected"} :
          Return(r, handler[r], w) \/ Return(r, Kept(handler[r]), w)
    BY <1>19 DEF DoneLine, EndOfStream, Broken
  <2> QED BY <1>1, <2>1, <2>2, <2>3, ReturnTells
<1>20. CASE UsageRaises(r)
  <2> DEFINE g == [handler[r] EXCEPT !.reasoning = "kept"]
             h == WithStatus(g, "sent", 200)
  <2>1. g \in Handlers /\ g.reasoning = "kept"
    BY <1>1 DEF Handlers
  <2>2. Fail(r, h) \/ Fail(r, Kept(handler[r]))
    BY <1>20, Zenon DEF UsageRaises, KeepUnfinished
  <2>3. h.reasoning = "kept"
    <3>1. 200 \in Codes
      BY <1>6
    <3> HIDE DEF g
    <3> QED BY <2>1, <3>1 DEF WithStatus, Handlers
  <2>4. Kept(handler[r]).reasoning # "received"
    BY <1>1, KeptFields
  <2> HIDE DEF h
  <2> QED BY <2>2, <2>3, <2>4, FailTells
<1> QED BY <1>7, <1>8, <1>9, <1>10, <1>11, <1>12, <1>13, <1>14, <1>15, <1>16, <1>17,
           <1>18, <1>19, <1>20 DEF Handle

-----------------------------------------------------------------------------

LEMMA TellStep ==
  PoolTypes /\ HandlersSound /\ QueueSound /\ HandlersTell /\ [Next]_vars => HandlersTell'
<1> SUFFICES ASSUME PoolTypes, HandlersSound, QueueSound, HandlersTell, [Next]_vars
             PROVE  HandlersTell'
  OBVIOUS
<1>1. ASSUME NEW r \in Request, Accept(r) \/ TurnAway(r) PROVE HandlersTell'
  <2>1. /\ handler' = handler /\ here' = here /\ \A q \in Request \ {r} : pc'[q] = pc[q]
        /\ pc'[r] \in {"full", "room", "probed", "refused"}
    BY <1>1 DEF Accept, TurnAway, Go, PoolTypes
  <2> QED BY <2>1 DEF HandlersTell, Told
<1>7. ASSUME NEW r \in Request, NEW k \in Kinds \ {"none", "stream"}, Submit(r, k)
      PROVE  HandlersTell'
  <2>1. \A q \in Request \ {r} : Told(q)'
    BY <1>7 DEF HandlersTell, Told, Submit, Go, Set, PoolTypes, HandlersSound
  <2>2. pc'[r] = "queued" /\ handler'[r] = [NoHandler EXCEPT !.kind = k]
    BY <1>7 DEF Submit, Go, Set, PoolTypes, HandlersSound
  <2>3. Fresh([NoHandler EXCEPT !.kind = k])
    BY DEF Fresh, NoHandler
  <2> QED BY <2>1, <2>2, <2>3 DEF HandlersTell, Told
<1>2. ASSUME NEW r \in Request, Handle(r), ~Untrack(r) PROVE HandlersTell'
  <2>1. Told(r)'
    BY <1>2, HandlerTells DEF HandlersTell
  <2>2. Works(r) /\ \A q \in Request \ {r} : handler'[q] = handler[q]
    BY <1>2, HandlerWorks, StartStep, HandlerMoves DEF Moves
  <2>3. \A q \in Request \ {r} : Told(q)'
    BY <2>2 DEF Works, HandlersTell, Told
  <2> QED BY <2>1, <2>3 DEF HandlersTell
<1>3. ASSUME NEW r \in Request, Untrack(r) PROVE HandlersTell'
  <2>1. pc'[r] = "done"
    BY <1>3 DEF Untrack, Go, PoolTypes
  <2>2. \A q \in Request \ {r} :
          pc'[q] = pc[q] /\ handler'[q] = handler[q] /\ here'[q] = here[q]
    BY <1>3 DEF Untrack, Go, Set, PoolTypes, HandlersSound
  <2> QED BY <2>1, <2>2 DEF HandlersTell, Told
<1>4. CASE Take
  BY <1>4, TakesQueued DEF Take, Go, PoolTypes, HandlersTell, Told
<1>5. ASSUME NEW r \in Request, Leave(r) PROVE HandlersTell'
  <2>1. pc[r] \notin {"ending", "failing"} /\ pc' = pc /\ handler' = handler
        /\ \A q \in Request \ {r} : here'[q] = here[q]
    BY <1>5 DEF Leave
  <2> QED BY <2>1 DEF HandlersTell, Told
<1>6. CASE Signal \/ Shutdown \/ ServerClose \/ UNCHANGED vars
  BY <1>6 DEF Signal, Shutdown, ServerClose, vars, HandlersTell, Told
<1> QED BY <1>1, <1>2, <1>3, <1>4, <1>5, <1>6, <1>7 DEF Next

(* The invariant of the traces, inductive under that of the server. *)
THEOREM TracesInvariant == Spec => []HandlersTell
<1>1. Init => HandlersTell
  BY DEF Init, HandlersTell, Told
<1>2. Inv /\ HandlersTell /\ [Next]_vars => HandlersTell'
  BY TellStep DEF Inv
<1> QED BY Invariance, <1>1, <1>2, PTL DEF Spec

(* What the trace of a chat says is what its handler did, on every path that *)
(* returns (finish_trace and its callers in do_POST).                        *)
THEOREM TracesTell == Spec => []TraceTellsAnswer
<1>1. HandlersTell => TraceTellsAnswer
  BY DEF HandlersTell, Told, Tells, TraceTellsAnswer, Kind
<1> QED BY TracesInvariant, <1>1, PTL

(* No handler returns or raises with reasoning it has received and not       *)
(* recorded (_proxy_streaming_response).                                     *)
THEOREM ReasoningIsRecorded == Spec => []ReasoningRecorded
<1>1. HandlersTell => ReasoningRecorded
  BY DEF HandlersTell, Told, Tells, ReasoningRecorded
<1> QED BY TracesInvariant, <1>1, PTL

=============================================================================
