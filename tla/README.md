# DeepSeek Bridge in TLA+

DeepSeek Bridge is a stateful HTTP adapter between OpenAI-compatible clients and
DeepSeek. DeepSeek wants the assistant messages of a tool-call conversation sent
back with their full `reasoning_content`; most clients drop that field. The bridge
records the reasoning of each answer under keys derived from the conversation,
looks it up when the client sends its transcript again, and drops history it
cannot repair (src/README.md, "What It Adapts").

This directory models that machinery: the stores that keep the reasoning, the streamed
answer it is recorded from, the repair of the requests it is restored into, and the two
servers around it, from the arrival of a request to the end of the process. TLC checks
the models on small instances, and TLAPS proves of the stores, the streamed answer, the
repair and both servers what they promise for every value of their constants.

    tlc -workers 2 -config sqlite_faults.cfg MCSqliteStore
    tlapm SqliteStoreProofs.tla

`PROJECT.json` maps every definition to the lines it stands for and lists the runs,
the mutants, the hazards of the code and the theorems.


## 1. Inventory

Paths are under `src/src/deepseek_bridge/`.

| component | state | operations | what is hard |
|---|---|---|---|
| **SQLite store** `reasoning_store.py` | one table and its open transaction, `_lock`, `_closed` | `put`, `get`, `clear`, `prune`, `close`, the maintenance loop | three kinds of threads on one connection; exceptions swallowed without a rollback; close against a running operation |
| **Valkey store** `valkey_store.py` | values with a time to live, a sorted-set index by write time, both on a shared server | the same, as sequences of separate server commands | replicas interleave between any two commands; lost commands and replies; values expire, index entries do not |
| **Reasoning keys** `reasoning_store.py` 100-260, `transform/_cache.py` | none | keys by message signature, tool-call id, call signature, function name, under a conversation scope or a turn ("portable") | collisions between turns, calls, clients |
| **Request repair** `transform/_prepare.py`, `_normalize.py`, `_recovery.py` | the set of scopes that had a recovery notice | restore reasoning, detect what is missing, drop history and repeat, inject the notice | the loop's end; what is left of the transcript; the notice changes the transcript and thereby the keys |
| **Recording of responses** `transform/_response.py` | none (writes the store) | store the reasoning of an answer under each recording context | the context of the client and the one sent upstream differ after a recovery |
| **Streaming session** `asgi.py` 700-1160, `streaming/` | accumulator, open thinking blocks, the pending notice, usage (not modelled) | connect with retries, rewrite each line, `[DONE]`, `finally` | a fast path that does not parse; the client leaves at any await or yield; partial messages are recorded before they are complete |
| **ASGI request handling** `asgi.py`, `_types.py` | counters, active gauges, shutdown flag, traces | middleware, routes, body limits, non-streamed chat | gauges and traces on the paths of disconnects |
| **Startup and shutdown** `cli.py`, `helpers.py` | the store's lifetime | serve, then prune and close; `--clear-reasoning-cache` | order of draining, flag, prune and close |
| **Upstream client** `async_upstream.py` | connection pool (httpx) | request, response, split bytes into lines | what is retried after which error |
| **Field normalisation** `_normalization.py` | none | defaults, effort levels, stripping of thinking blocks | exactness of conversions |
| **Responses API conversion** `responses_converter.py` | none | a Responses request into chat messages | order of merged items |
| **Legacy threaded server** `server.py`, `server_infrastructure.py` | worker pool, bounded queue | accept, queue or answer 503, probe of liveness | queue length read apart from the submit |
| **Legacy handlers** `handler/` | request counter | the threaded twin of the ASGI handlers | as above |
| **Tracing** `trace.py` | files, one per request | number, record, finish | left open on some paths |
| **Metrics** `metrics.py` | counters under a lock | count, render | gauges that must return to zero |
| **Configuration** `config.py` | none | file, environment, arguments | precedence, derived limits |
| **Logging** `logging.py` | none of interest | output | - |

How they interact. A request is read by the ASGI handler, normalised, and repaired by
`prepare_upstream_request`, which reads the store (and backfills portable keys in
it). The answer passes through a streaming session or is read whole; either way its
reasoning is written to the store under the keys of each recording context. Nothing
else is shared between requests: with one process the store is SQLite and its calls
block the event loop's thread or a worker thread; with replicas the store is Valkey
and calls of several replicas interleave between commands. `cli.main` shuts down:
the server drains, then prune, then close.

What makes each correct, in the order of its weight:

- *repair*: every request sent upstream has the reasoning DeepSeek asks for and is
  well formed; nothing is dropped while nothing was lost; recovery converges; what is
  restored belongs to the message;
- *streaming*: however a stream ends, what the client received is found when it sends
  it back; the text it sees is well bracketed; the generator ends;
- *stores*: bounds by age and rows hold under faults and interleavings; `clear()`
  forgets; closing neither loses nor touches what it must not;
- *request handling*: every request that begins ends once in the gauges, its trace
  tells what happened to it, no upstream connection stays with a request that is gone,
  and shutdown waits for what is under way and loses no reasoning;
- *threaded server*: a bounded pool: nothing is refused that was accepted while there was
  room, nothing that was queued is dropped, and no exception leaves a gauge or a connection
  behind.


## 2. Modules

| module | what it is | runs |
|---|---|---|
| `PartialFunctions` | maps without a fixed domain, as both stores use | |
| `ValkeyStore` | one action per server command of `ValkeyReasoningStore` | `valkey_*` |
| `ValkeyStoreProofs` | types and `clear`: for any replicas and faults | |
| `ValkeyFaultlessProofs` | without faults: the bound of the index for any replicas, and what one that is alone may rely on | |
| `SqliteStore` | threads, lock and transaction of `ReasoningStore` | `sqlite_*` |
| `SqliteStoreProofs` | its theorems: bounds, closing, shutdown | |
| `StreamSession` | `_stream_chat_response` with accumulator and display adapter | `stream_*` |
| `StreamSessionProofs` | its theorems: what the client sees, what is stored | |
| `ReasoningRepair` | clients, `prepare_upstream_request`, recording, losses of the cache | `repair_*` |
| `ReasoningRepairProofs` | its theorems: the contract, recovery, what is found again | |
| `RestoredReasoningProofs` | its theorems on whose reasoning a message is given, and on recovery | |
| `RequestLifecycle` | ASGI requests, their gauges, traces and connections, and shutdown | `requests` |
| `RequestLifecycleProofs` | its theorems: gauges, traces, connections, shutdown | |
| `WorkPool` | abstract: what a bounded pool of workers promises | |
| `LegacyServer` | the threaded server and its handlers; implements `WorkPool` | `legacy` |
| `LegacyServerProofs` | its theorems: the refinement, gauges, connections, traces | |
| `MC...` | instances for TLC: model values, symmetry sets, sets of inputs | |

Operators marked *Mutant* (or "As X, but") beside a definition are wrong variants of
it, the bug a property is there to catch; `PROJECT.json` pairs each property with the
one that breaks it.

### ValkeyStore

`data` and `index` are the strings and the sorted set on the server; `op[r]` holds the
locals of the operation replica `r` is in. Each client command is a step: `put` is SET,
ZADD, then ZREMRANGEBYSCORE, ZCARD, ZRANGE, DEL in batches, ZREM (`BeginPut` to
`RemoveIndexEntries`); `get` is GET, then ZREM after a miss or DEL after a value that
does not decode; `clear` scans key by key, deletes in batches, deletes the index.
SCAN visits each key at a moment of its own and reports it if it is there then; that
is the guarantee Valkey gives. A time to live ends in `Tick`. With `Faults` a command
may not be sent or its reply may be lost, and a process may die (`Abort`, `Advance`).
`Skew` lets a replica's clock lag behind the server's. `earlier` is a history
variable: the values a `clear` was called to forget. `serving`, chosen at the start and
then fixed, is the set of replicas the deployment runs: one instance holds deployments
of one replica and of several.

### SqliteStore

`rows` is what the connection sees, `disk` what is committed; they differ while a
transaction is open. Each thread has a position `pc`; `Acquire` and `Leave` are the
`with self._lock` block, and each statement in it is a step (`Insert`, `PruneByAge`,
`PruneByRows`, `Empty`, `Commit`, `Select`). `Fail` is an exception in any of them:
the block is left and nothing is rolled back, as in the code. The maintenance thread
is `Wake`, `Acquire`, `CheckBloat`, `Empty`, `Commit`, `Optimize`; whether most pages
are free is left open. `Shutdown`, `MarkClosed` and `Disconnect` are `cli.main`'s end.
`Kill`, `Reopen` and `ClearByOtherProcess` are its environment. Python's sqlite3
opens a transaction at the first INSERT or DELETE.

### StreamSession

One run of the generator `_stream_chat_response`. asyncio does not interrupt the code
between two awaits, so reading, rewriting, recording and yielding a line is one step
(`ReadChunk`, `ReadDone`); the phase says where the generator waits: `connecting`
and `reading` (a cancellation arrives as CancelledError), `yielded` (the client may
leave; the generator is then `lost` until the event loop closes it). A text is a
sequence of pieces, each named by the line that brought it, or, as these can be taken out
of it later, line breaks (`Newlines`) or other white space (`Blanks`). `choices`, `order`, `stored` and
`fresh` are the fields of StreamAccumulator, `openBlocks` that of the display adapter.
`shown` is what the client has received, `sent` what upstream has sent: a client's
next request carries `Replayed`, the received message with its thinking blocks
stripped, and `Lookup` is what the repair would find for it. `strip_cursor_thinking_blocks`
(`Walk`) takes the white space after a block along with it, and then the line breaks at
the front of what is left. The recording side keeps the text as it came. So an answer that
begins with line breaks, or with white space right after a mirrored block, is stored under
one message and looked up under another: its reasoning is not found, unless through the
keys of a tool call, and the bridge recovers from a loss that did not happen. The
properties are claimed of answers that are `Intact`, of which nothing is taken; the runs
have both kinds.

A data line is a record of what matters in it (`Chunk`); the sets in
`MCStreamSession` are the deltas of an upstream that writes every field
(`KeyedChunks`, as DeepSeek does) and of one that leaves out empty ones
(`PlainChunks`). Text without the words `reasoning_content` and `tool_calls` takes the
fast path (`PassLine`), as `_rewrite_sse_line` does.

### ReasoningRepair

`talk[c]` is the transcript a client holds. It adds a user message or a tool result,
sends everything (`Ask`), and gets an answer (`Answer`). With `Restless` a client may
also ask again while a request is under way, miss an answer, or go back (`Rewind`).
`Ask` is the whole of `prepare_upstream_request`: `Pass` restores reasoning message by
message with backfill of the portable keys, `Begun` is the first pass and the second one
from the last notice on, `Rounds` the recovery loop, of which `Prepared` is the end.
Both loops are functions of the number of their iterations. `Answer` records in every
context. `Lose` takes keys out of the cache: pruning, expiry, clearing, a killed
process; everything the store models allow, in any amount. This is how the two levels
fit: the stores promise to lose entries only by bounds, age, clear and faults, and the repair has
to live with any loss.

A hash is modelled by what it hashes. An answer is named by its number, which also
names its reasoning and its call. All tool calls have one function name, the worst
case for the key of last resort. `Recovered` has the branch with a boundary because
`recover_messages_from_missing_reasoning` has it, but a request never gets there: when
anything is missing, `Begun` has cut the transcript at its last notice before, and what
is left in front of that notice are system messages and one of the user, which miss
nothing. The proofs say so (`OneNotice`, section 4). An answer comes back here as it was
recorded; where it does not, by `StreamSession`, what the properties say of a cache
that has lost nothing does not cover it.

### RequestLifecycle

The requests of one process, each at `pc[r]`. A step is what happens between two
awaits: reading a body (`Post` to `StartStream`), waiting for a pooled upstream
connection (`Connect`), the answer or the failure of upstream (`TransportError` to
`StreamRaises`, which is also how a stream ends after its last line when its usage is
not made of numbers and `track_usage` raises), the pause before a retry, a line of a stream (`Line`, `DoneLine`,
`Broken`, `EndOfStream`, `LineSent`), and the last body message (`Sent`), at which the
middleware's `finish_once` records the request. `active` and `streams` are the gauges,
`counted` the status that was recorded, `trace` the outcome `TraceRequest.finish` wrote
first, `reasoning` whether an answer's reasoning is received, kept, or came too late for
the store, and `holds` the requests that occupy a connection of the pool.

A streaming response is a generator with a state of its own: it may never start
(`created`), run, await its last line (`ending`, `failing`), be dropped at a yield
(`lost`) until the event loop collects it (`closed`), or be finished (`ended`).
`Leave` is a client going away, where the code can notice it: while a body is read and
while a stream is sent. `Cancel` is what Starlette does then. `Signal` begins the
draining of uvicorn, a second one forces it; `Halt` is the end of `uvicorn.run` with the
cancellation and closing of what is left, `CloseStore` the `finally` of `cli.main`.
`StreamSession` has what is inside a line; here a line says at most that reasoning was
received.

### WorkPool and LegacyServer

`WorkPool` knows jobs that are new, waiting, working, done or refused, a queue and its
closing. `LegacyServer` is `BoundedThreadPoolHTTPServer` with `DeepSeekProxyHandler`:
the accepting thread reads whether the queue is full (`Accept`) and, in a later step,
queues the connection (`Submit`) or answers 503, or serves a liveness probe, itself
(`TurnAway`); workers take from the queue in between, so a connection may be turned away
although there is room again. A worker takes it (`Take`, `Track`), runs
its handler, and leaves it by a return (`ending`) or an exception (`failing`) to
`Untrack`. `handler[r]` holds what is local to the handler: the kind of request, the
trace's outcome (`word`, `code`), the status the metrics will record, the retries, the
lines, the reasoning. A write to a client that is gone may go unnoticed, fail, or time
out; the last one passes the handler (`Sendings`). `UsageRaises` is an answer that was
sent and recorded before its usage proved not to be made of numbers. `Shutdown` and
`ServerClose` end the accepting and wait for the executor.

The refinement maps a connection to its `Stage`, the executor's queue to the queue and
`server` to `pool`; the upstream pool, traces and gauges are what it hides. The
property `IsWorkPool` includes the fairness of `WorkPool`: each handler ends.


## 3. Runs

Symmetry is used for keys, callers and replicas, in safety runs only. Deadlock is
checked but for `repair_*`, where clients may stop for good, and for `requests` and
`legacy`, which stop when the process has ended.

**valkey_shared** - two replicas, two keys, `max_rows` 1, age 1, batch 1, faults, a
clock one tick late. `ClearForgets`: when `clear()` returns, nothing that was there
when it began is left, be it in the index or lost to it. It speaks of calls that
complete: one whose exception is swallowed returns 0 and leaves what it had not yet
deleted. One key more than the row limit
makes every put prune; two replicas are enough for a race between two operations, and
a batch of 1 makes deletion take several steps.

**valkey_faultless** - one or two replicas without faults, three keys, `max_rows` 1,
age 3. `IndexBounded`: the index exceeds `max_rows` at most by the puts that have yet to
prune, although each of two replicas prunes by a ZCARD that the other's ZADD and ZREM
have made out of date. `YoungValuesIndexed` and `PutSurvivesItsPrune` are about the
deployments of one replica: a young value is always indexed between operations, so
`max_rows` counts it, and a put does not evict itself. Both fail with a second replica:
a miss of one takes the index entry of what the other has just put, and one evicts what
the other writes. Four ticks are room for four puts, more than `max_rows` and the keys; an age of 3
lets a value still be young when another evicts it, and expire in the run. Stores stay
open (`StaysOpen`): a closed one only begins no operation, and `valkey_shared` has them
close.

**sqlite_faults** - one request thread, three keys, `max_rows` 2, age 3; statements
fail, the process is killed, another process clears the file.
`CommittedRowsBounded`: what is committed is within `max_rows`, whoever commits the
INSERT of a failed put. `ShutdownKeepsVisibleRows`: an orderly shutdown loses no row
that `get()` returned, as its prune commits what failed puts left open.
`PutSurvivesItsPrune`: row pruning keeps the row just inserted while the clock does
not step back.

**sqlite_live** - two request threads that are still served while the store closes,
with faults and clock steps. `ClosedStoreUntouched`: nobody is inside the lock of a
disconnected store. `ShutdownEnds`: prune, clear and close end although others take
the lock.

**stream_keyed** - one choice of an upstream that writes every field, four lines, two
retries, two contexts. `ReceivedIsFound`: unless the generator was abandoned at a
yield, the message the client received, sent back with its thinking blocks, is found
with all the reasoning, in each context, provided the stripping takes nothing of the
answer. Pieces of text may be line breaks or blanks, so that the run has answers of both
kinds, and thinking blocks that are followed by either. `StreamEnds`: the generator
ends, whatever upstream and the client do; that it does not read for ever is the bound on
the lines.

**stream_pairs** - two interleaved choices with fields left out, three lines, two
contexts, mirror on and off, and text beyond two pieces is not accumulated.
`EndedStreamKept`: the message as last accumulated is
what the store has, though parts were stored before. `ThinkingIsBracketed`: no answer
text or notice inside a thinking block, no reasoning outside, none left open after
`[DONE]`. `NoticeOnce`. `ToolCallsFound`: a tool call of an interrupted stream is
found with what the client has of it, although its text may be cut. What is found is
the reasoning the store had when the call was recorded; all of it if upstream sends
reasoning before calls (`InOrder`), and else, as the call's keys are written when it is
complete, a beginning of it. Three lines hold
reasoning, call and finish of one choice with another choice between, and they pass
the limit of two pieces.

**stream_plain** (violation) - see Findings.

**repair_restless** - one conversation, three requests upstream, one loss, transcripts
up to six messages, a restless client. `ContractHonoured`: each assistant message
with a call or after a tool result of its turn has reasoning. `RequestsWellFormed`:
calls and results in pairs, the newest user message kept. `RecoveryIsOneRound`.
`NothingMissingBeforeLoss`: no recovery before a loss. Length 6 holds a turn with a
call, its result, an answer and the next question.

**repair_switching** - two clients with equal prompts in one namespace that also
disable thinking for some requests, under the strategies recover and reject.
`ContractHonoured` again; `CallsGetOwnReasoning`: in a request sent with its whole
history a call gets another answer's reasoning only when its own was lost or never
produced in this namespace; `RestoredIsOfThisTurn`: what is restored came from the same
namespace and the same turn; `RecoveryConverges`: once a recovered answer has arrived, no
request of its namespace is recovered again before the next loss, or an answer of another
namespace in between: an answer given without thinking has no reasoning to find. (The
clients of this run are patient; that it holds for restless ones too is proved, section
4.) With the bounds raised to one
conversation of six answers, ten messages and one loss both hold too.

**repair_twice** (violation) - see Findings. Two conversations, seven requests, nothing
lost. The constraint `OnCourse` follows one course of what the users say and where
answers are calls; requests may still disable thinking or not, and come in any order.

**requests** - two requests of any kind over one upstream connection, one retry,
streams of one line before `[DONE]`, traced, with the bridge paused and
not. Two requests on one connection are enough for one to wait on what another holds,
one line for each state a generator can be left in, one retry for every branch of it.
`GaugesLeakOnlyLeavers`: the gauges are off by exactly the streams whose client left
before their end, and no error path loses or doubles a count. This is a leak: while
the process runs nothing takes such a request off `asgi_requests_active`, and a stream
that was cancelled before it began stays on `streams_active`. `TraceTellsAnswer`: a
trace says what happened, and is left open only by an exception or by a generator that
is never resumed. `ConnectionsReturned`: only a dropped generator that has not been
collected keeps a connection of an ended request. `NothingLostAtShutdown`: when the
store is closed everything received is recorded, after a forced end as well.
`ShutdownEnds`: draining ends whatever is under way.

**legacy** - two connections of any kind, one or two workers, a queue of one, one
upstream connection, one retry, streams of one line. With one worker the second
connection waits in the queue, with two workers the handlers contend for upstream, and
a queue of one fills up before a worker takes from it. `IsWorkPool`: whatever handlers
meet, the server is a bounded pool of workers, liveness included. `GaugesExact`: unlike
under ASGI, no path leaves a gauge raised. `ConnectionsReturned`: nobody waits without
a timeout for a connection that no handler will return. `TraceTellsAnswer`: a chat
handler that returns has finished its trace truthfully. `ReasoningRecorded`: what was
read of a stream is recorded before the handler is gone, by an exception as well.

### Findings

- `stream_plain`, `AnswerIsFound` (asgi.py:1120). After the thinking block is closed
  a data line without `reasoning_content` or `tool_calls` is passed on without being
  accumulated. Of an answer in several such lines the store gets a truncated
  message, and its reasoning is not found when the client sends the whole answer
  back. Upstreams that write `reasoning_content: null` are not concerned: for them
  `stream_keyed` checks, and `AnswerIsFoundAgain` proves, that it is found if the
  stripping takes nothing of it.
- `repair_twice`, `RecoveredCallsGetOwn` (transform/_recovery.py:207). A request whose
  history is cut at a notice and then recovered a second time is sent with two recovery
  messages, because the one of the cut is taken for a leading system message. Its answer
  is recorded under that scope, which no later request has: the next one is cut at this
  answer's notice and has one recovery message. There the scoped keys of another
  conversation with the same system prompt and user message may be found, and its key by
  function name comes before the portable keys of the message itself. So a call is sent
  with the reasoning of another conversation, although its own is in the store. The proof
  of `CallsGetOwnReasoning` led to this: that property once spoke of all requests, and the
  runs were too short to refute it. `RestoredIsOfThisTurn` still holds, as the other
  conversation said the same in this turn.

### Fairness

- `SqliteStore!FairSpec`: weak fairness of every thread's statements and of the
  maintenance loop: the operating system runs every thread. Strong fairness of
  taking the lock: Python's lock promises no order among waiters, but the rival that
  comes back for ever, the maintenance thread, sleeps at least a second between two
  acquisitions, and requests are finite.
- `StreamSession!FairSpec`: weak fairness of `Progress` as a whole: each wait for
  upstream has a time-out, a write to a client ends or its disconnection is noticed,
  and the event loop closes a generator nobody holds. No fairness is assumed of any
  single outcome.
- `RequestLifecycle!FairSpec`: weak fairness of each request's handler as a whole, for
  the reasons above, and of the two steps of shutdown, which are straight-line code of
  the main thread. Nothing makes a client leave, a second signal come or a dropped
  generator be collected.
- `LegacyServer!FairSpec`: weak fairness of each handler and of the executor: threads
  run, reads have time-outs, writes end or fail. Strong fairness of getting an upstream
  connection: urllib3 wakes the threads that wait for its pool in their order, so one
  that is returned again and again reaches each of them.

### Bounds

`MaxTime` bounds clocks, `MaxLines` the lines of a stream, `MaxAnswers`, `MaxLosses`
and `MaxLength` the conversations. `MaxContent` is the code's `MAX_CONTENT_LENGTH` in
pieces: two in `stream_pairs`, where it is passed, and out of reach in the other runs,
as a message without tool calls that is cut is not found again (`ReceivedIsFound` is
claimed, and proved, below the limit). `MaxRetries` is a setting, except in `LegacyServer`, where the
code has 2 and the run 1. A client has at most two requests of one
transcript under way. The theorems of section 4 hold for every value of these bounds.


## 4. Proofs

Each module of proofs begins with the invariant that is inductive and its parts; then
comes a lemma per action, or per kind of step where many actions do the same; the
theorems at the end combine them. The assumptions on constants are those the modules
declare: finite sets of clients, keys and replicas, natural numbers.

### Stores

**ValkeyStoreProofs.** `Invariance` proves `Spec => []IInv` for

    IInv == TypeOK /\ PointsOK /\ ClearProgress

`TypeOK` alone is not inductive, because an operation's position restricts its locals
(`PointsOK`). `ClearForgets` speaks of the moment `clear` returns; the strengthening
`ClearProgress` says where the remaining old values are meanwhile: still to be
scanned, or found and still to be deleted. A SET by another replica takes its key out
of `earlier`, and nothing else makes a key appear. Consequences: `TypeCorrect` and
`ClearIsComplete`, for any replicas, keys, batch size and skew, with or without faults.
Assumptions: `Key` is finite and does not hold `IndexKey`; the numbers are natural and
`Batch` is positive.

**ValkeyFaultlessProofs.** `IndexStaysBounded == Spec => []IndexBounded`, for any number
of replicas (the property itself is about `~Faults`). `IndexBounded` is not inductive:
two replicas may count the same surplus and choose the same entries. The invariant is

    IndexInv == Reserve /\ OverflowCounted /\ PutsWrite

`Reserve` speaks of every set `Q` of puts that have found an overflow: either the entries
left when all of `Q` have removed what they chose exceed `max_rows` at most by the
pruning puts outside `Q`, or one of `Q` has counted everything there is and has yet to
choose. A quantification over all sets is needed because any of these puts may be the
next to finish. It holds for `~Faults` and `MaxRows > 0`; otherwise `IndexBounded` says
nothing.

Its second part is what one replica may rely on when no other writes: `AloneInv`
relates each value to its index entry at every point of an operation, `EvictionInv` says
that the entry a put wrote is the highest and its value is kept. `YoungAreIndexed` and
`PutSurvives` are about `serving = {r}` and hold for `~Faults`; `PutSurvives`
also needs `Skew = 0`, as a clock behind the server's writes an older score.

**SqliteStoreProofs.** `Invariance` proves `Spec => []IInv` for

    IInv == TypeOK /\ MutualExclusion /\ RolesOK /\ CloseOrder
            /\ PrunedBeforeCommit /\ CommittedRowsBounded /\ ClosedStoreUntouched

`CommittedRowsBounded` follows from `PrunedBeforeCommit`: who is about to commit has
bounded the rows the connection sees, and `MutualExclusion` keeps others from inserting
between prune and commit. `ClosedStoreUntouched` follows from `CloseOrder`: `_closed` is
set under the lock, so whoever holds the lock afterwards entered before, and the main
thread takes it again only when they have left. `RolesOK` says which operations a thread
can be in, without which a caller might pose as the main thread. Under it `AInv` is
inductive: rows were created before the present (`RowsPast`), that of a put is the
newest until it has pruned (`OwnIsNewest`), and once the store closes after its callers
have ended, what it shows is committed (`SavedAtClose`). Consequences: `TypeCorrect`,
`CommittedBounded`, `NeverUsedAfterClose`, `ShutdownKeepsRows`, for any number of
threads and keys, under faults, kills and clock steps, and `PutsSurvive`, whose property
is about clocks that do not step back. Assumptions: distinct thread names, finite `Key`,
natural numbers.

### The streamed answer

**StreamSessionProofs.** The invariant comes in layers, each inductive given those
before it. The types say what a text, a choice and the order of the choices are (no two
choices share a position in the accumulator's dict); `Flow` what the client has, and the
line in hand adds to it, in each phase of the generator. `Aligned` are the phases in
which the client is where the adapter thinks it is, once that line is delivered. On them
rest

- `NoticeInv`, for `NoticeComesOnce`: where the notice is, as long as it is pending;
- `BracketInv`, for `ThinkingStaysBracketed`: the client's text is balanced up to the
  block the adapter holds open. `Count` of the library is a cardinality, so the lemmas on
  the counts of a text and of its parts come first;
- `ChoicesInv`, `ArgsInv`, `KeptInv`, for `EndedStreamIsKept`: what was stored before is
  stored again when the choice has grown. Two choices with equal messages share their
  keys, so `Kept` lets a key lead to the reasoning of another choice with the same
  message, if that is final; `ArgsInv`, that no two choices share a line of arguments,
  tells the tool calls of different choices apart;
- `CallsInv`, `WrittenInv`, `ValuesInv`, for `ToolCallsAreFound`: what the client has of
  a call the accumulator has too; all keys of a final choice have been written; and each
  value in the store is a beginning of the reasoning of a choice, the whole of it if
  reasoning comes first. The last part showed that an earlier form of
  `ToolCallsFound` was wrong: if upstream sends reasoning after a call, what is found may
  be a proper beginning of it;
- `WholeInv`, `OutcomeInv`, `ReceivedInv`, for `ReceivedIsFoundAgain`: what upstream has
  sent of a choice is accumulated unabridged; nothing is on its way to the client but
  the line that is yielded; and what the client has, with that line, is what the accumulator has, once the thinking blocks
  are stripped. `Shows` says the last for a text that may end inside a block or right
  behind one: either the stripping has already taken a piece, which it never gives back
  (`lost`), or what it has kept is the text accumulated. It is kept by a line
  (`ShowsMirrored`), as stripping is a walk over the text and the walk over
  `s \o t` goes on where the one over `s` ended (`WalkOfAppend`). [DONE] may write the
  notice into an answer that has brought none; then there is no reasoning to be found
  (`Unthinking`). `EndedStreamKept` does the rest: the message accumulated is found;
- `FinalInv`, for `AnswerIsFoundAgain`: of an answer that has reached [DONE] the client
  lacks the end of a thinking block at most, even if it left before that was written.

All hold for any choices, contexts, chunks, lines and retries. `ReceivedIsFoundAgain`
and `AnswerIsFoundAgain` have the hypothesis `KeyedAssumption`: each chunk without a tool
call has `content` and `reasoning_content`, if only as null, and the pieces of an answer,
with the notice, are at most `MaxContent`. `stream_keyed` satisfies it. Without
`reasoning_content` there is the counterexample of `stream_plain`. Without `content` the
notice waits, and [DONE] may write it into an answer that was accumulated without it;
`AnswerIsFound` speaks of answers without a notice, so this part is more than it needs.
Above `MaxContent` a text is cut, and its message is no longer the one the client has.

### The conversation

**ReasoningRepairProofs.** `Invariance` proves `Spec => []IInv` for

    IInv == TalkInv /\ PendingInv /\ StoreInv

`TalkInv`: each transcript begins with the system message and a user message, each
tool result follows its call, and each call but the last message has its result.
`PendingInv` says of each request under way what the theorems say of it. The weight is
in the lemmas about one step, `Ask`, which is two nested loops. `PassFacts` is an
induction over the messages of a transcript: a pass changes nothing but reasoning
(`Alike`), and after it an assistant message that needs reasoning has some or is
missing, and what is missing was not in the store by its signature. `BoundaryShape` and
`FreshShape` say what the two ways of cutting history leave: something that may be sent
(`Sendable`), with the same newest user message; after a boundary no second notice
(`OneNotice`), and after a recovery no assistant message at all. So the recovery never
finds a boundary after the first cut, its first round leaves nothing to miss
(`RoundFacts`), and all others do nothing (`RoundsRest`). `ContextNeeds` connects what
the code checks (the last message that is not an assistant's) with what DeepSeek wants
(a tool result since the last user message); it needs that no system message comes
after the first. Consequences, without assumptions: `ContractIsHonoured`,
`RequestsAreWellFormed`, `RecoveryTakesOneRound`. `NothingIsMissingBeforeLoss` adds

    NothingLostInv == losses \in Nat /\
                      (losses = 0 => rejects = {} /\ TalkRemembered /\ RoundsAreZero)

`TalkRemembered`: each answer in a transcript is in the store under its signature in
the scope of what the client held before it. It assumes that a client keeps to one
namespace (`NamespaceIsKept`), as the comment of the property says: a client that turns
thinking on later has answers without reasoning.

**RestoredReasoningProofs.** `ReasoningIsOfItsTurn == Spec => []RestoredIsOfThisTurn`,
without assumptions. The property speaks of a request; the invariant that is inductive
speaks of the whole store:

    TurnsInv == BareInv /\ NumberInv /\ GivenInv

`GivenInv`: the value under every key is the reasoning of an answer that was recorded in
the key's namespace and turn (`KeyTurn`), and so is all reasoning in the requests under
way. It is needed for keys no request has used yet. `BareInv` says that clients send no
reasoning of their own: all that a request has was found under a key. `NumberInv` says
that no two requests have the same number, so that an answer is recorded once and what
is known of it never changes. The lemmas: a scoped key names the whole of its context, a
portable one what follows its newest run of user messages, and both tell what was said since
the newest user message (`Turn`); canonical messages tell the same turn as
the messages themselves, so reasoning that is filled in on the way through a transcript
leaves the keys of later messages as they are; a portable key that is written back under
a scoped one stays in its turn; and neither way of cutting history changes the turn of a
message it keeps, or else it keeps no assistant message. `NoSystem` is a recursive
function and not a `SelectSeq`, which is a fold the prover cannot look into.

`CallsKeepTheirReasoning == Spec => []CallsGetOwnReasoning` has the same form, again
without assumptions, and under `IInv` and `TurnsInv` the invariant

    OwnInv == losses \in Nat /\ Signed(cache) /\ AnsweredInv /\ KeptInv
              /\ CallsGetOwnReasoning

`Signed`: what the store has under the signature of a call in a scope is the reasoning of
that call, since only its answer is recorded there and backfilling writes portable keys
only. `KeptInv`: before a loss each call of a transcript, if it was recorded, is in the
store under its signature in the scope of what the client held before it. `AnsweredInv`
says that no call of a transcript has the number of a request under way, so that
an answer recorded later is none of them. `GivenOwn` carries this through the passes:
if the signature of a call was in the store when the request came, the call is given its
own. All passes look up in the same store or a larger one, and a message of a request
with the client's whole history has the signature it has in the client's transcript. After a
boundary it has not, which is where `RecoveredCallsGetOwn` fails.

`RecoveredOnce == Spec => RecoveryConverges`, again without assumptions, is an action
property: `SettledNext` proves that a step keeps, and needs, the invariant

    SettledInv == DOMAIN settled = Conversation /\
                  \A c \in Conversation : /\ Spoken(talk[c])
                                         /\ \A r \in pending[c] : NoticeKept(r)
                                         /\ \A ns \in settled[c] :
                                              SettledOk(talk[c], pending[c], ns, cache)

`SettledOk` says that a transcript has a notice and that the store has what is needed for
all of its answers (`Found`), or for all that is kept when history is cut at that notice
(`Cut`). Either way one of the two passes of `Begun` has nothing missing
(`BegunSettles`), so no round of recovery follows. The second alternative is what a
recovery leaves: what came before the notice stays lost. That an answer keeps it so has
three reasons, by how the request was prepared. A request with the notice is the user's
message alone (`NoticeKept`), so its answer is found under the turn of the cut
(`NoticeSettles`). A later request whose transcript was not found was sent as the cut of
its transcript, so its answer has the scope of that cut. And a request from before the
notice, repeated or late, can be answered at the same transcript only if the notice came
without a call, as the numbers of calls tell (`Follows`, with `AnsweredInv`); then the
user has spoken since, and the cut and the transcript are in the same turn (`SuffixTurn`,
from `Spoken`: answers do not follow one another). The store may lose entries at any
time, which ends the claim. Reasoning that a pass fills in does not change what is found:
keys do not depend on it (`CanonContext`), and `PassFinds` carries this through a pass.

### The servers

**RequestLifecycleProofs.** `Invariance` proves `Spec => []IInv` for

    IInv == TypeOK /\ StoreOpen /\ (\A r \in Request : RequestInv(r))
            /\ Cardinality(holds) <= PoolSize /\ GaugesExact

`RequestInv(r)` ties the locals of a request to its position: `Shape` (where its kind
and its generator can be), `Begun` (nothing of an answer before upstream is asked),
`Telling` (what its trace may say), `Owing` (who still knows of a connection or of
reasoning not recorded) and `Leaving` (nobody is lost without a reason, and the end of
the event loop ends everybody). As each is about one request, a step is checked for its
own request, and the others are untouched. `GaugesExact` counts the gauges by sets of
requests. Consequences:
`TypeCorrect`, `GaugesCount`, `TracesTell`, `ConnectionsComeBack`,
`ShutdownLosesNothing`, for any requests, connections, retries and lines.

**LegacyServerProofs.** `Invariance` proves `Spec => []Inv` for

    Inv == PoolTypes /\ AcceptSound /\ HandlersSound /\ RestSound /\ QueueSound
           /\ ConnectionsReturned /\ GaugesExact

`AcceptSound` says that the accepting thread has one connection in hand, and that the
room it has seen in the queue is still there when it submits: nobody else submits, and
workers only make more. Without it the queue could pass its bound between the two steps.

`QueueSound` says that the executor's queue holds queued connections, each once: without
it a worker might take one whose handler is already counted or holds an upstream
connection. `HandlerWorks`, `HandlerMoves`, `HoldsStep` and `StreamsStep` say of all the
exits of a handler at once where they lead, that they keep its kind, give its
connection back and lower the gauge of streams; the steps of the invariant rest on
them. `ImplementsPool` then is `PoolStep`: each step is a step of `WorkPool` or changes
nothing of it. `HandlersTell` says by the position of a handler what its trace may tell
and whether reasoning is still to be recorded; it is inductive under `Inv`.
Consequences: `TypeCorrect`, `NoConnectionLost`, `GaugesCount`, `ImplementsPool`,
`TracesTell`, `ReasoningIsRecorded`, for any connections, workers, queue length, pool
and retries. Assumptions: `Request` is finite, the numbers are natural.

### Only model-checked

Liveness (`ShutdownEnds`, `StreamEnds`, the fairness in `IsWorkPool`), which needs
fairness and ENABLED. All other properties of the passing runs are theorems. Of the two
properties the violation runs refute, `AnswerIsFound` is a theorem under the assumption
named above.


## 5. What is assumed, and what is not modelled

Assumed of code outside `src/`: Valkey runs each command atomically and SCAN returns
each key present throughout; Python's sqlite3 begins a transaction at the first
INSERT, UPDATE or DELETE; threading locks exclude; httpx closes a response even
when its task is cancelled; the ASGI server cancels the handler's task or drops the
generator when the client disconnects; uvicorn stops accepting at a signal, waits for
its requests without a limit, and at a second one does not; `asyncio.run` cancels the
tasks and closes the generators that are left; ThreadPoolExecutor starts jobs in the
order of their submission; `http.server` closes a connection after its handler;
`server_close()` is called after `shutdown()`, as the tests do.

Left out of the models, by component:

- *SQLite store*: creation and migration of the table, VACUUM and page counts (no row
  changes), `stats()`, `healthcheck()`. Known, and no property: `get()` looks at no age
  and may return a row older than `max_age_seconds` until somebody prunes, and a put
  under a clock that has stepped back may prune its own row.
- *Streaming session*: chunks without choices, lines that are not JSON, the splitting
  of bytes into lines, and the usage of a stream. Known, and no property: the ordinary
  usage chunk of an upstream has `choices: []` and no `reasoning_content`, so it passes
  through unparsed (asgi.py:1120) and is not counted; if the client asked for usage,
  `[DONE]` then adds a usage chunk of zeros (asgi.py:1094). That `track_usage` may raise after a stream is in
  `RequestLifecycle` and `LegacyServer`, where it leaves a trace open.
- *Request repair*: normalisation of request fields, tools and tool choices. Known, and
  no property: the notice of a recovery is remembered by a key that changes with every
  turn, so a later loss brings another one.
- *Request handling*: cross-origin headers, bodies of answers, the counters other than
  the gauges; records a trace gets after it was finished, and failures of its disk. The
  closing of a response is one step with what precedes it. `BridgeRuntimeState.paused`
  does not change in a run, as no code under `src/src` sets it.
- *Shutdown*: uvicorn raises the signal again after its end, so the `finally` of
  `cli.main` may not run; for the store that is `Kill` of `SqliteStore`.
- *Threaded server*: the command line does not start it, but the package exports and
  tests it. Malformed requests and other methods are answered by `http.server`. The
  result of `/readyz` is left open. The request and token counters, which threads
  update without a lock, are only ever logged. Time-outs that end a stream leave it
  with the outcome `client_disconnected`, as in the code.
- *Metrics*: counters and summaries, which only grow under one lock; rendering.

Not modelled: *field normalisation* and *Responses API conversion* (each a function of
one request without state, whose cases the unit tests list one by one; what matters
of them for the cache, the stripping of thinking blocks, is in `StreamSession`);
*configuration* (a sequential reading of file, environment and arguments, whose values
are the constants of the modules); *logging* (output without influence on requests).
Wording, layout and hash collisions are not modelled anywhere.


## 6. Plan

1. `ValkeyStore` - the store with the most interleavings. Done, with proofs.
2. `SqliteStore` - threads, transaction, shutdown. Done, with proofs.
3. `StreamSession` - recording a streamed answer. Done; what is left: the counting of
   usage, chunks without choices, lines that are not JSON.
4. `ReasoningRepair` - the conversation protocol. Done.
5. `RequestLifecycle` - the ASGI requests and shutdown. Done.
6. `WorkPool`, `LegacyServer` - the threaded server as a bounded pool. Done, with the
   refinement proved.
7. Proofs: all safety properties of the stores, the servers, the streamed answer and the
   repair. Done.
8. Left: operators for effort levels and for the merging of items in the Responses API.
   An abstract cache (a map that may lose entries and never invents or mixes them) that
   both stores implement was considered and dropped: as each store keeps a value under
   its key in one assignment, it would hold by the shape of the models.
