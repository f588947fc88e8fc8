--------------------------- MODULE StreamSession ---------------------------
(***************************************************************************)
(* One streamed chat completion: the generator _stream_chat_response of    *)
(* asgi.py with what it drives: the connection retries, the rewriting of   *)
(* every server-sent line, the StreamAccumulator that collects the answer, *)
(* the display adapter that mirrors reasoning into the visible text, and   *)
(* the recording of the reasoning under every recording context.           *)
(*                                                                         *)
(* asyncio runs the code between two awaits without interruption, so a     *)
(* line is rewritten and recorded in one step; the client can go away      *)
(* while the generator waits for upstream (CancelledError) or while it is  *)
(* suspended at a yield (the generator is then closed by the event loop).  *)
(*                                                                         *)
(* A piece of text is named by the line that brought it; it is line breaks *)
(* only, other white space only, or begins with neither (a content that    *)
(* begins with white space is two such pieces).                            *)
(***************************************************************************)
EXTENDS Integers, Sequences, FiniteSets, SequencesExt

CONSTANTS
  Choice,     \* indexes of the choices of the answer
  Context,    \* number of recording contexts
  Chunk,      \* what a data line of upstream may hold
  MaxContent, \* MAX_CONTENT_LENGTH, in pieces
  MaxRetries, \* upstream_retry_attempts
  Display,    \* the settings of display_reasoning
  InOrder,    \* does upstream send the reasoning of a choice before the rest?
  MaxLines    \* bound on the lines upstream sends

ASSUME ChoiceAssumption == IsFiniteSet(Choice) /\ 0 \in Choice
ASSUME NumbersAssumption ==
  /\ {Context, MaxContent, MaxRetries, MaxLines} \subseteq Nat
  /\ Display \subseteq BOOLEAN /\ InOrder \in BOOLEAN
ASSUME ChunkAssumption ==
  Chunk \subseteq [choice: Choice, content: {"absent", "null", "text", "newlines", "blanks"},
                   reasoning: {"absent", "null", "empty", "text"},
                   tool: Nat, \* position of the tool call, from 1; 0: none
                   id: BOOLEAN, name: BOOLEAN, finish: BOOLEAN]

VARIABLES
  phase,     \* connecting, reading, yielded, lost or ended
  attempt,   \* of _send_upstream_with_retry
  lines,     \* lines read
  choices,   \* StreamAccumulator.choices
  order,     \* position of each choice in that dict; 0: not in it
  stored,    \* _stored_choices: rank by choice and context
  fresh,     \* _has_new_storeable_data
  openBlocks,\* _open_choices of the display adapter
  notice,    \* the recovery notice: none, pending or given
  finalized, \* has [DONE] been handled?
  failed,    \* is the yielded line an error that ends the generator?
  cache,     \* the reasoning store: key -> reasoning
  outcome,   \* how the trace was finished; open: it was not
  shown,     \* what the client has received of each choice
  next,      \* the same once the yielded line arrives
  sent,      \* what upstream has sent of each choice
  display    \* display_reasoning of this bridge

fixed == <<sent, display>>
acc == <<choices, order, stored, fresh>>
view == <<openBlocks, notice, shown, next>>
vars == <<phase, attempt, lines, acc, view, finalized, failed, cache,
          outcome, fixed>>

Text(n) == <<"text", n>>
Thought(n) == <<"reasoning", n>>
Newlines == <<"newlines", 0>>
Blanks == <<"blanks", 0>>
Notice == <<"notice", 0>>
BlockStart == <<"open", 0>>
BlockEnd == <<"close", 0>>

NewChoice == [content |-> <<>>, reasoning |-> <<>>, hasReasoning |-> FALSE,
              tools |-> <<>>, finished |-> FALSE]
NewTool == [id |-> FALSE, name |-> FALSE, args |-> <<>>]
Nothing == [content |-> <<>>, tools |-> <<>>]

Init ==
  /\ phase = "connecting" /\ attempt = 0 /\ lines = 0
  /\ choices = [c \in Choice |-> NewChoice]
  /\ order = [c \in Choice |-> 0]
  /\ stored = [c \in Choice |-> [i \in 1..Context |-> 0]]
  /\ fresh = FALSE /\ openBlocks = {} /\ notice \in {"none", "pending"}
  /\ finalized = FALSE /\ failed = FALSE
  /\ cache = <<>> /\ outcome = "open"
  /\ shown = [c \in Choice |-> Nothing] /\ next = shown
  /\ sent = [c \in Choice |-> [reasoning |-> <<>>, answered |-> FALSE,
                               finished |-> FALSE]]
  /\ display \in Display

-----------------------------------------------------------------------------
(* The store: the keys under which an assistant message is kept.             *)

Positions(s) == 1..Len(s)

(* As ReasoningKeys, without the ids and the key of last resort.             *)
KeysWithoutNames(m, c, i) ==
  <<<<i, "signature", <<m.content, m.tools>>>>>>
  \o [p \in Positions(m.tools) |-> <<i, "call", <<m.tools[p].name, m.tools[p].args>>>>]

(* scoped_reasoning_keys in its order of preference; an id is named by the   *)
(* choice and position it belongs to, and all calls name the same function.  *)
(* Where a call has no such key stands the first, which has been tried.      *)
ReasoningKeys(m, c, i) ==
  LET signature == <<i, "signature", <<m.content, m.tools>>>>
      calls == Positions(m.tools)
  IN <<signature>>
     \o [p \in calls |-> IF m.tools[p].id THEN <<i, "id", <<c, p>>>> ELSE signature]
     \o [p \in calls |-> <<i, "call", <<m.tools[p].name, m.tools[p].args>>>>]
     \o [p \in calls |-> IF m.tools[p].name THEN <<i, "name", <<>>>> ELSE signature]

KeySet(m, c, i) == LET ks == ReasoningKeys(m, c, i) IN {ks[j] : j \in Positions(ks)}

Message(ch) == [content |-> ch.content, tools |-> ch.tools]

(* flush_pending_store: every queued pair of choice and context is written   *)
(* in the order of the queue; a message without reasoning writes nothing.    *)
Flushed(chs, ord, queue) ==
  LET written == {q \in queue : chs[q[1]].hasReasoning}
      writers(k) == {q \in written : k \in KeySet(Message(chs[q[1]]), q[1], q[2])}
      last(k) == CHOOSE q \in writers(k) : \A r \in writers(k) : ord[r[1]] <= ord[q[1]]
      keys == UNION {KeySet(Message(chs[q[1]]), q[1], q[2]) : q \in written}
  IN [k \in DOMAIN cache \cup keys |->
       IF k \in keys THEN chs[last(k)[1]].reasoning ELSE cache[k]]

(* lookup_for_message: the first key that hits.                              *)
Lookup(m, c, i) ==
  LET ks == ReasoningKeys(m, c, i)
      hits == {j \in Positions(ks) : ks[j] \in DOMAIN cache}
  IN IF hits = {} THEN <<>> ELSE <<cache[ks[Min(hits)]]>>

-----------------------------------------------------------------------------
(* StreamAccumulator                                                         *)

MergedTools(tools, k, n) ==
  LET old(p) == IF p <= Len(tools) THEN tools[p] ELSE NewTool
      size == IF k.tool > Len(tools) THEN k.tool ELSE Len(tools)
  IN [p \in 1..size |->
       IF p # k.tool THEN old(p)
       ELSE [id |-> old(p).id \/ k.id, name |-> old(p).name \/ k.name,
             args |-> Append(old(p).args, n)]]

Appended(parts, more) ==
  IF Len(parts) < MaxContent THEN parts \o more ELSE parts

(* ingest_chunk; text is the content of the chunk after the notice went in.  *)
Ingested(ch, k, n, text) ==
  [content |-> Appended(ch.content, text),
   reasoning |-> IF k.reasoning = "text"
                 THEN Appended(ch.reasoning, <<Thought(n)>>) ELSE ch.reasoning,
   hasReasoning |-> ch.hasReasoning \/ k.reasoning \in {"empty", "text"},
   tools |-> MergedTools(ch.tools, k, n),
   finished |-> ch.finished \/ k.finish]

HasIdentifiedToolCalls(ch) ==
  ch.hasReasoning /\ ch.tools # <<>> /\ \A p \in Positions(ch.tools) : ch.tools[p].id

Final == 2
Stage(ch) == IF ch.finished THEN Final ELSE IF HasIdentifiedToolCalls(ch) THEN 1 ELSE 0

(* As Gains, but what was stored for a tool call is never replaced.          *)
FirstRankOnly(rank, stage) == rank = 0 /\ stage > 0

(* _store_choice: a choice is queued for a context once per rank.            *)
Gains(rank, stage) == rank < stage

(* store_ready_reasoning, called for each context in turn: a context that    *)
(* gains nothing clears the flag, and the contexts after it are skipped.     *)
ReadyQueue(chs, ord, isFresh) ==
  LET gain(i) == {c \in Choice : ord[c] > 0 /\ Gains(stored[c][i], Stage(chs[c]))}
  IN {q \in Choice \X (1..Context) :
        isFresh /\ \A i \in 1..q[2] : gain(i) # {} /\ q[1] \in gain(q[2])}

(* store_reasoning for every context.                                        *)
FinalQueue ==
  {q \in Choice \X (1..Context) : order[q[1]] > 0 /\ Gains(stored[q[1]][q[2]], Final)}

Ranked(queue, rank) ==
  [c \in Choice |-> [i \in 1..Context |->
    IF <<c, i>> \in queue THEN rank[c] ELSE stored[c][i]]]

(* What [DONE] and the finally-block do with the accumulator.                *)
StoreAll ==
  /\ stored' = Ranked(FinalQueue, [c \in Choice |-> Final])
  /\ cache' = Flushed(choices, order, FinalQueue)
  /\ UNCHANGED <<choices, order, fresh>>

-----------------------------------------------------------------------------
(* The lines of the stream                                                   *)

(* As TakesNotice, but the notice that was given is not taken off.           *)
NoticeTwice(k) == notice # "none" /\ (k.content # "absent" \/ k.tool > 0)

(* The text of a delta once inject_recovery_notice has seen the chunk, and   *)
(* whether it took the notice: it wants a content field or a tool call.      *)
TakesNotice(k) == notice = "pending" /\ (k.content # "absent" \/ k.tool > 0)
Piece(k, n) == IF k.content = "text" THEN Text(n)
               ELSE IF k.content = "newlines" THEN Newlines ELSE Blanks
Given(k, n) == IF k.content \in {"absent", "null"} THEN <<>> ELSE <<Piece(k, n)>>
WithNotice(k, n) == (IF TakesNotice(k) THEN <<Notice>> ELSE <<>>) \o Given(k, n)

(* CursorReasoningDisplayAdapter.rewrite_chunk                               *)
IsOpenAfter(k) == k.choice \in openBlocks \/ k.reasoning = "text"
Closes(k, text) == IsOpenAfter(k) /\ (text # <<>> \/ k.tool > 0 \/ k.finish)
Mirrored(k, n, text) ==
  IF ~display THEN text
  ELSE (IF k.reasoning = "text" /\ k.choice \notin openBlocks THEN <<BlockStart>> ELSE <<>>)
       \o (IF k.reasoning = "text" THEN <<Thought(n)>> ELSE <<>>)
       \o (IF Closes(k, text) THEN <<BlockEnd>> ELSE <<>>)
       \o text

(* As PassesThrough, without the test of open blocks, or of the key.         *)
IgnoresOpenBlocks(k) == k.reasoning = "absent" /\ k.tool = 0
IgnoresReasoningKey(k) == (~display \/ openBlocks = {}) /\ k.tool = 0

(* The line goes through unparsed.                                           *)
PassesThrough(k) ==
  (~display \/ openBlocks = {}) /\ k.reasoning = "absent" /\ k.tool = 0

Receives(k, n, text) ==
  next' = [shown EXCEPT ![k.choice] =
            [content |-> @.content \o text, tools |-> MergedTools(@.tools, k, n)]]

Upstream(k, n) ==
  sent' = [sent EXCEPT ![k.choice] =
            [reasoning |-> IF k.reasoning = "text" THEN Append(@.reasoning, Thought(n))
                           ELSE @.reasoning,
             answered |-> @.answered \/ k.content \notin {"absent", "null"} \/ k.tool > 0,
             finished |-> k.finish]]

(* What upstream may send next: nothing for a finished choice.               *)
Follows(k) ==
  /\ ~sent[k.choice].finished
  /\ InOrder /\ k.reasoning = "text" => ~sent[k.choice].answered

Yields == phase' = "yielded"

(* Fast path: neither the accumulator nor the notice sees it.              *)
PassLine(k) ==
  /\ PassesThrough(k)
  /\ Receives(k, lines + 1, Given(k, lines + 1))
  /\ UNCHANGED <<acc, openBlocks, notice, cache>>

(* As Seen, but every new choice is put first.                               *)
SeenFirst(c) == IF order[c] > 0 THEN order ELSE [order EXCEPT ![c] = 1]

(* choices.setdefault: a new choice comes last in the dict.                  *)
Seen(c) == IF order[c] > 0 THEN order
           ELSE [order EXCEPT ![c] = 1 + Cardinality({d \in Choice : order[d] > 0})]

RewriteLine(k) ==
  LET n == lines + 1
      text == WithNotice(k, n)
      chs == [choices EXCEPT ![k.choice] = Ingested(@, k, n, text)]
      isFresh == fresh \/ k.reasoning \in {"empty", "text"} \/ k.tool > 0
      queue == ReadyQueue(chs, Seen(k.choice), isFresh)
  IN /\ ~PassesThrough(k)
     /\ choices' = chs /\ order' = Seen(k.choice)
     /\ stored' = Ranked(queue, [c \in Choice |-> Stage(chs[c])])
     /\ cache' = Flushed(chs, order', queue)
     /\ fresh' = (/\ isFresh
                  /\ \A i \in 1..Context : \E q \in queue : q[2] = i
                  /\ \A q \in queue : ~chs[q[1]].hasReasoning)
     /\ notice' = IF TakesNotice(k) THEN "given" ELSE notice
     /\ openBlocks' = IF ~display THEN {}
                      ELSE IF Closes(k, text) THEN openBlocks \ {k.choice}
                      ELSE IF IsOpenAfter(k) THEN openBlocks \cup {k.choice} ELSE openBlocks
     /\ Receives(k, n, Mirrored(k, n, text))

ReadChunk(k) ==
  /\ phase = "reading" /\ lines < MaxLines /\ Follows(k)
  /\ lines' = lines + 1 /\ Upstream(k, lines + 1) /\ Yields
  /\ PassLine(k) \/ RewriteLine(k)
  /\ UNCHANGED <<attempt, finalized, failed, outcome, shown, display>>

(* flush_chunk closes the open blocks, recovery_notice_chunk brings a notice *)
(* that no chunk took.                                                       *)
FlushedBlock(c) == IF c \in openBlocks THEN <<BlockEnd>> ELSE <<>>
NoticeChunk(c) == IF c = 0 /\ notice = "pending" THEN <<Notice>> ELSE <<>>

(* [DONE]                                                                    *)
ReadDone ==
  /\ phase = "reading" /\ Yields /\ finalized' = TRUE
  /\ StoreAll
  /\ next' = [c \in Choice |-> [shown[c] EXCEPT !.content =
                @ \o FlushedBlock(c) \o NoticeChunk(c)]]
  /\ openBlocks' = {}
  /\ notice' = IF notice = "pending" THEN "given" ELSE notice
  /\ UNCHANGED <<attempt, lines, failed, outcome, shown, fixed>>

-----------------------------------------------------------------------------
(* Connection and end                                                        *)

Connect ==
  /\ phase = "connecting" /\ phase' = "reading"
  /\ UNCHANGED <<attempt, lines, acc, view, finalized, failed, cache, outcome, fixed>>

RetriesLeft == attempt < MaxRetries

(* A transport error before an answer, with retries left.                    *)
Retry ==
  /\ phase = "connecting" /\ RetriesLeft /\ attempt' = attempt + 1
  /\ UNCHANGED <<phase, lines, acc, view, finalized, failed, cache, outcome, fixed>>

(* Whatever goes wrong upstream, the trace is finished, an error is yielded  *)
(* to the client and the generator is not to go on.                          *)
YieldError ==
  /\ Yields /\ failed' = TRUE /\ outcome' = "upstream_error" /\ next' = shown
  /\ UNCHANGED <<attempt, lines, acc, openBlocks, notice, shown, finalized, cache, fixed>>

(* No answer: a time-out, another error, no retries left, an error status.   *)
NoAnswer == phase = "connecting" /\ YieldError

(* The stream breaks or its next line does not come in time.                 *)
Break == phase = "reading" /\ YieldError

(* The finally-block.                                                        *)
Finally ==
  /\ phase' = "ended"
  /\ IF finalized THEN UNCHANGED <<acc, cache>> ELSE StoreAll
  /\ UNCHANGED <<attempt, lines, openBlocks, notice, finalized, failed, fixed>>

(* The upstream body ends without [DONE].                                    *)
EndOfStream ==
  /\ phase = "reading" /\ outcome' = "completed" /\ Finally
  /\ UNCHANGED <<shown, next>>

(* CancelledError: the client is gone while the generator awaits upstream.   *)
Cancel ==
  /\ phase \in {"connecting", "reading"} /\ outcome' = "client_disconnected"
  /\ Finally /\ UNCHANGED <<shown, next>>

(* As Returns, without the return after a yielded error.                     *)
ErrorWithoutReturn == finalized

(* Was the yielded line the last one?                                        *)
Returns == finalized \/ failed

(* The yielded line reaches the client and the generator is resumed.         *)
Deliver ==
  /\ phase = "yielded" /\ shown' = next /\ next' = next
  /\ \/ /\ ~Returns /\ phase' = "reading"
        /\ UNCHANGED <<attempt, lines, acc, openBlocks, notice, finalized, failed,
                       cache, outcome, fixed>>
     \/ /\ Returns
        /\ outcome' = IF failed THEN outcome ELSE "completed"
        /\ Finally

(* The client goes away before it has the yielded line.                      *)
Abandon ==
  /\ phase = "yielded" /\ phase' = "lost" /\ next' = shown
  /\ UNCHANGED <<attempt, lines, acc, openBlocks, notice, shown, finalized, failed,
                 cache, outcome, fixed>>

(* The event loop closes the abandoned generator (GeneratorExit).            *)
Collect ==
  /\ phase = "lost" /\ Finally /\ UNCHANGED <<shown, next, outcome>>

Stopped == phase = "ended" /\ UNCHANGED vars

(* What the bridge, upstream and the client do.                              *)
Progress ==
  \/ Connect \/ Retry \/ NoAnswer \/ Break
  \/ \E k \in Chunk : ReadChunk(k)
  \/ ReadDone \/ EndOfStream \/ Cancel \/ Deliver \/ Abandon \/ Collect

Next == Progress \/ Stopped

(* Every wait for upstream has a time-out, a yielded line is delivered or    *)
(* its client is gone, and the event loop closes abandoned generators.       *)
Spec == Init /\ [][Next]_vars
FairSpec == Spec /\ WF_vars(Progress)

-----------------------------------------------------------------------------
(* Properties                                                                *)

Count(s, t) == Cardinality({j \in Positions(s) : s[j] = t})

(* strip_cursor_thinking_blocks: what a later request shows of the text.     *)
(* A block takes all the white space after it along, and of what is left the *)
(* line breaks at the front go; lost: has either taken a piece of the answer? *)
Taken(r, t) == (r.after /\ t \in {Newlines, Blanks}) \/ (r.kept = <<>> /\ t = Newlines)
Strip(r, t) ==
  IF t = BlockStart THEN [r EXCEPT !.inside = TRUE]
  ELSE IF t = BlockEnd THEN [r EXCEPT !.inside = FALSE, !.after = TRUE]
  ELSE IF r.inside THEN r
  ELSE IF Taken(r, t) THEN [r EXCEPT !.lost = TRUE]
  ELSE [r EXCEPT !.kept = Append(@, t), !.after = FALSE]
Unread == [inside |-> FALSE, after |-> FALSE, kept |-> <<>>, lost |-> FALSE]
Walk(s) ==
  LET walk[j \in 0..Len(s)] == IF j = 0 THEN Unread ELSE Strip(walk[j - 1], s[j])
  IN walk
Stripped(s) == Walk(s)[Len(s)].kept
Intact(s) == ~Walk(s)[Len(s)].lost

(* The assistant message the client sends back on its next turn.             *)
Replayed(c) == [content |-> Stripped(shown[c].content), tools |-> shown[c].tools]

IsText(s) == \A j \in Positions(s) :
               s[j] \in {BlockStart, BlockEnd, Notice, Newlines, Blanks}
                        \cup {Text(n) : n \in 1..MaxLines} \cup {Thought(n) : n \in 1..MaxLines}

TypeOK ==
  /\ phase \in {"connecting", "reading", "yielded", "lost", "ended"}
  /\ attempt \in 0..MaxRetries /\ lines \in 0..MaxLines
  /\ \A c \in Choice :
       /\ DOMAIN choices[c] = DOMAIN NewChoice
       /\ IsText(choices[c].content) /\ IsText(choices[c].reasoning)
       /\ IsText(shown[c].content) /\ IsText(next[c].content)
       /\ {choices[c].hasReasoning, choices[c].finished} \subseteq BOOLEAN
  /\ order \in [Choice -> 0..Cardinality(Choice)]
  /\ \A c, d \in Choice : order[c] = order[d] /\ order[c] > 0 => c = d
  /\ stored \in [Choice -> [1..Context -> 0..Final]]
  /\ openBlocks \subseteq Choice
  /\ notice \in {"none", "pending", "given"}
  /\ {fresh, finalized, failed} \subseteq BOOLEAN
  /\ \A k \in DOMAIN cache : IsText(cache[k])
  /\ outcome \in {"open", "completed", "upstream_error", "client_disconnected"}

(* The client never sees answer text or the notice inside a thinking block,  *)
(* nor reasoning outside one, blocks do not nest, and after [DONE] none is   *)
(* left open, though lines are either rewritten or passed through unparsed.  *)
ThinkingIsBracketed ==
  \A c \in Choice :
    LET s == shown[c].content
        before(j) == Count(SubSeq(s, 1, j), BlockStart) - Count(SubSeq(s, 1, j), BlockEnd)
    IN /\ \A j \in Positions(s) :
            IF s[j] = BlockStart \/ s[j] \in {Thought(n) : n \in 1..MaxLines}
            THEN before(j) = 1 ELSE before(j) = 0
       /\ finalized /\ outcome = "completed" => before(Len(s)) = 0

(* The recovery notice reaches the client once over all lines and choices,   *)
(* and a stream that ends with [DONE] has brought it.                        *)
NoticeOnce ==
  LET notices(s) == {j \in Positions(s) : s[j] = Notice}
      given == UNION {{c} \X notices(shown[c].content) : c \in Choice}
  IN /\ Cardinality(given) <= (IF notice = "none" THEN 0 ELSE 1)
     /\ finalized /\ outcome = "completed" /\ notice # "none" => given # {}

(* However the stream ended, the reasoning is kept in every recording        *)
(* context under the message as it was last accumulated, although it was     *)
(* recorded before when the tool calls were identified or a choice finished. *)
EndedStreamKept ==
  phase = "ended" =>
    \A c \in Choice, i \in 1..Context :
      choices[c].hasReasoning =>
        \E d \in Choice :
          /\ choices[d].hasReasoning /\ Message(choices[d]) = Message(choices[c])
          /\ Lookup(Message(choices[c]), c, i) = <<choices[d].reasoning>>

(* When the client sends back the message it received, with the thinking     *)
(* blocks in its text, stripping them leaves the message under which the     *)
(* whole reasoning was recorded, in every recording context.  The claim is   *)
(* about answers of which strip_cursor_thinking_blocks takes nothing: those  *)
(* that begin with line breaks, or with white space right after a block, are *)
(* recorded as they came and looked up without it, and are not found.        *)
ReceivedIsFound ==
  phase = "ended" /\ outcome # "open" =>
    \A c \in Choice, i \in 1..Context :
      sent[c].reasoning # <<>> /\ Intact(shown[c].content) =>
        \E d \in Choice : /\ Message(choices[d]) = Replayed(c)
                          /\ Lookup(Replayed(c), c, i) = <<sent[d].reasoning>>

(* The same for an answer that was delivered up to its finish_reason and     *)
(* [DONE], with no recovery notice in it: the reasoning state is preserved   *)
(* for the follow-up turns of the client.                                    *)
AnswerIsFound ==
  phase = "ended" /\ finalized /\ notice = "none" =>
    \A c \in Choice, i \in 1..Context :
      sent[c].finished /\ sent[c].reasoning # <<>> /\ Intact(shown[c].content)
      => \E d \in Choice : /\ Message(choices[d]) = Replayed(c)
                           /\ Lookup(Replayed(c), c, i) = <<sent[d].reasoning>>

(* A tool call that reached the client with a name or an id is found when it *)
(* is sent back, even if the stream was interrupted at any point and the     *)
(* arguments or the id are incomplete (the last-resort key of                *)
(* scoped_reasoning_keys), and what is found is this answer's reasoning: the *)
(* part that came before the calls were recorded, which is all of it when    *)
(* upstream sends reasoning first.                                           *)
ToolCallsFound ==
  phase = "ended" =>
    \A c \in Choice, i \in 1..Context :
      /\ choices[c].hasReasoning
      /\ \E p \in Positions(shown[c].tools) : shown[c].tools[p].name \/ shown[c].tools[p].id
      => \E d \in Choice : \E n \in 0..Len(choices[d].reasoning) :
           /\ Lookup(Replayed(c), c, i) = <<SubSeq(choices[d].reasoning, 1, n)>>
           /\ InOrder => n = Len(choices[d].reasoning)

(* Whatever upstream and the client do, the generator ends.                  *)
StreamEnds == <>(phase = "ended")

=============================================================================
