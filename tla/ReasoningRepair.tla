-------------------------- MODULE ReasoningRepair --------------------------
(***************************************************************************)
(* The conversation protocol of the bridge (transform/*.py with the keys   *)
(* of reasoning_store.py).  Clients send their whole transcript with every *)
(* request and drop the reasoning of the assistant messages; the bridge    *)
(* looks the missing reasoning up, drops history it cannot repair, and     *)
(* records the reasoning of the answer for the requests to come.           *)
(*                                                                         *)
(* Preparing a request and recording an answer are separate steps: other   *)
(* requests, a retry of the same request and losses of the cache (pruning, *)
(* expiry, clear, eviction) come in between.                               *)
(*                                                                         *)
(* An answer is named by its number, which also stands for its reasoning   *)
(* and for the id of its tool call.  A hash is modelled by what it hashes. *)
(***************************************************************************)
EXTENDS Integers, Sequences, FiniteSets, SequencesExt

CONSTANTS
  Conversation, \* the transcripts clients hold
  Namespace,    \* the cache namespaces (model, thinking, effort, client) of its requests
  Disabled,     \* the namespaces of requests that disable thinking
  Prompt,       \* texts of user messages
  Strategy,     \* the settings of missing_reasoning_strategy
  Restless,     \* may clients repeat requests (once), lose answers and go back?
  MaxAnswers,   \* bound on the requests sent upstream
  MaxLosses,    \* bound on the losses of the cache
  MaxLength     \* bound on the length of a transcript

ASSUME NamespaceAssumption == DOMAIN Namespace = Conversation
ASSUME StrategyAssumption == Strategy \subseteq {"recover", "reject"}
ASSUME BoundsAssumption == /\ {MaxAnswers, MaxLosses, MaxLength} \subseteq Nat
                           /\ Restless \in BOOLEAN

VARIABLES
  talk,    \* the transcript each client holds
  pending, \* requests sent upstream and not answered yet, per conversation
  cache,   \* the reasoning store: key -> reasoning
  noticed, \* _recovery_notice_seen
  answers, \* number of requests sent upstream, the number of the last answer
  losses,  \* number of losses so far
  rejects, \* history: conversations that had a request rejected
  born,    \* history: the namespace and the contexts each answer was recorded in
  settled, \* history: the namespaces in which a client has nothing more to recover
  strategy \* missing_reasoning_strategy of this bridge

counts == <<answers, losses>>
history == <<rejects, born, settled>>
vars == <<talk, pending, cache, noticed, counts, history, strategy>>

None == 0

System(t) == [role |-> "system", text |-> t, notice |-> FALSE, call |-> None,
              reasoning |-> None]
User(t) == [System(t) EXCEPT !.role = "user"]
ToolResult(id) == [System("result") EXCEPT !.role = "tool", !.call = id]
Assistant(n, withCall, withNotice) ==
  [role |-> "assistant", text |-> IF withCall THEN "" ELSE "answer",
   notice |-> withNotice, call |-> IF withCall THEN n ELSE None,
   reasoning |-> None]
Recovery == System("recovered")

Init ==
  /\ talk = [c \in Conversation |-> <<System("prompt")>>]
  /\ pending = [c \in Conversation |-> {}]
  /\ cache = <<>> /\ noticed = {} /\ answers = 0 /\ losses = 0
  /\ rejects = {} /\ born = <<>>
  /\ settled = [c \in Conversation |-> {}]
  /\ strategy \in Strategy

-----------------------------------------------------------------------------
(* Positions in a transcript                                                 *)

Positions(ms) == 1..Len(ms)
LastIn(S) == IF S = {} THEN 0 ELSE CHOOSE i \in S : \A j \in S : j <= i
Users(ms) == {i \in Positions(ms) : ms[i].role = "user"}
HasNotice(m) == m.role = "assistant" /\ m.notice

(* leading_system_messages                                                   *)
Leading(ms) ==
  LastIn({n \in 0..Len(ms) : \A i \in 1..n : ms[i].role = "system"})

-----------------------------------------------------------------------------
(* Keys                                                                      *)

(* canonical_scope_message: reasoning is no part of a scope.                 *)
Canonical(m) == [role |-> m.role, text |-> m.text, notice |-> m.notice, call |-> m.call]

Canon(ms) == [i \in Positions(ms) |-> Canonical(ms[i])]

(* conversation_scope                                                        *)
Scope(ms, ns) == <<ns, Canon(ms)>>

TurnStart(ms) ==
  LET last == LastIn(Users(ms))
      run == {i \in 1..last : \A j \in i..last : ms[j].role = "user"}
  IN IF last = 0 THEN 1 ELSE CHOOSE i \in run : \A j \in run : i <= j

(* Mutant: the turn is known by its user messages alone.                     *)
UsersOfTurn(ms) ==
  SelectSeq(Canon(SubSeq(ms, TurnStart(ms), Len(ms))), LAMBDA m: m.role = "user")

(* A transcript without its system messages.                                *)
NoSystem(ms) ==
  LET kept[i \in 0..Len(ms)] ==
        IF i = 0 THEN <<>>
        ELSE IF ms[i].role = "system" THEN kept[i - 1]
        ELSE Append(kept[i - 1], ms[i])
  IN kept[Len(ms)]

(* turn_context_signature: what follows the user messages of this turn,      *)
(* these included and system messages left out.                              *)
TurnContext(ms) == NoSystem(Canon(SubSeq(ms, TurnStart(ms), Len(ms))))

(* Mutant: the key of last resort comes first.                               *)
NameFirst(kind, context, m) ==
  (IF m.call = None THEN <<>>
   ELSE <<<<kind, context, "tool_name", <<>>>>, <<kind, context, "tool_call", <<m.call>>>>>>)
  \o <<<<kind, context, "signature", <<m.text, m.notice, m.call>>>>>>

(* reasoning_lookup_keys: the message under one context, by signature and    *)
(* by the id and the name of its call; all calls have one name.              *)
KeysIn(kind, context, m) ==
  <<<<kind, context, "signature", <<m.text, m.notice, m.call>>>>>>
  \o IF m.call = None THEN <<>>
     ELSE <<<<kind, context, "tool_call", <<m.call>>>>, <<kind, context, "tool_name", <<>>>>>>

ScopedKeys(m, prior, ns) == KeysIn("scope", Scope(prior, ns), m)
PortableKeys(m, prior, ns) == KeysIn("turn", <<ns, TurnContext(prior)>>, m)

(* put under each of the keys.                                               *)
With(c, keys, reasoning) ==
  [k \in DOMAIN c \cup keys |-> IF k \in keys THEN reasoning ELSE c[k]]

-----------------------------------------------------------------------------
(* Repair                                                                    *)

(* Mutant: answers to tool results are forgotten.                            *)
CallsOnly(m, prior) == m.call # None

(* assistant_needs_reasoning_for_tool_context                                *)
Needs(m, prior) ==
  LET said == {i \in Positions(prior) : prior[i].role # "assistant"}
  IN \/ m.call # None
     \/ said # {} /\ prior[LastIn(said)].role = "tool"

(* normalize_message: restore the reasoning from the first key that hits,    *)
(* and backfill the portable keys when the hit is a scoped one.              *)
Normalized(state, m, ns) ==
  LET prior == state.messages
      scoped == ScopedKeys(m, prior, ns)
      portable == PortableKeys(m, prior, ns)
      keys == scoped \o portable
      hits == {j \in Positions(keys) : keys[j] \in DOMAIN state.cache}
      lacks == m.role = "assistant" /\ m.reasoning = None /\ Needs(m, prior)
      hit == IF hits = {} THEN None ELSE state.cache[keys[Min(hits)]]
  IN [messages |-> Append(prior, IF lacks THEN [m EXCEPT !.reasoning = hit] ELSE m),
      missing |-> IF lacks /\ hits = {} THEN state.missing \cup {Len(prior) + 1}
                  ELSE state.missing,
      cache |-> IF lacks /\ hits # {} /\ Min(hits) <= Len(scoped)
                THEN With(state.cache, ToSet(portable), hit) ELSE state.cache]

(* The loop of normalize_messages: what it has after i messages.             *)
Pass(ms, c, ns) ==
  LET state[i \in 0..Len(ms)] ==
        IF i = 0 THEN [messages |-> <<>>, missing |-> {}, cache |-> c]
        ELSE Normalized(state[i - 1], ms[i], ns)
  IN state

(* normalize_messages                                                        *)
NormalizedAll(ms, c, ns) == Pass(ms, c, ns)[Len(ms)]

(* The history from a recovery boundary on, with the user message before it. *)
FromBoundary(ms, b) ==
  LET user == LastIn({i \in Users(ms) : i < b})
  IN [messages |-> SubSeq(ms, 1, Leading(ms)) \o <<Recovery>>
                   \o (IF user = 0 THEN <<>> ELSE <<ms[user]>>)
                   \o SubSeq(ms, b, Len(ms)),
      dropped |-> (b - 1) - Leading(ms) - (IF user = 0 THEN 0 ELSE 1),
      notice |-> FALSE]

(* Mutant: what follows the newest user message is kept.                     *)
TurnKept(ms, missing) ==
  LET user == LastIn(Users(ms))
  IN [messages |-> SubSeq(ms, 1, Leading(ms)) \o <<Recovery>> \o SubSeq(ms, user, Len(ms)),
      dropped |-> user - Leading(ms), notice |-> TRUE]

(* Mutant: the last message is taken for the user's.                         *)
LastKept(ms, missing) ==
  [messages |-> SubSeq(ms, 1, Leading(ms)) \o <<Recovery, ms[Len(ms)]>>,
   dropped |-> Len(ms) - Leading(ms) - 1, notice |-> TRUE]

(* recover_messages_from_missing_reasoning                                   *)
Recovered(ms, missing) ==
  LET b == LastIn({i \in Positions(ms) : HasNotice(ms[i]) /\ \E j \in missing : j < i})
      user == LastIn(Users(ms))
  IN IF b # 0 THEN FromBoundary(ms, b)
     ELSE IF user = 0 THEN [messages |-> ms, dropped |-> 0, notice |-> FALSE]
     ELSE [messages |-> SubSeq(ms, 1, Leading(ms)) \o <<Recovery, ms[user]>>,
           dropped |-> Len(ms) - Leading(ms) - 1, notice |-> TRUE]

(* The first pass, and the second from the last visible notice on.           *)
Begun(ms, ns) ==
  LET first == NormalizedAll(ms, cache, ns)
      b == LastIn({i \in Positions(ms) : HasNotice(ms[i])})
  IN IF first.missing = {} \/ strategy = "reject" \/ b = 0 THEN first
     ELSE NormalizedAll(FromBoundary(ms, b).messages, first.cache, ns)

(* The requests of a disabled namespace are not repaired.                    *)
Start(ms, ns) ==
  IF ns \in Disabled THEN [messages |-> ms, missing |-> {}, cache |-> cache]
  ELSE Begun(ms, ns)

(* One iteration of the recovery loop, the k-th.                             *)
NextRound(before, k, ms, ns) ==
  LET r == Recovered(before.pass.messages, before.pass.missing)
  IN IF before.pass.missing = {} \/ r.dropped = 0 THEN before
     ELSE [pass |-> NormalizedAll(r.messages, before.pass.cache, ns),
           notice |-> before.notice \/ (r.notice /\ Scope(ms, ns) \notin noticed),
           rounds |-> k]

(* The recovery loop: what it has after k iterations.                        *)
Rounds(ms, ns) ==
  LET round[k \in 0..Len(ms)] ==
        IF k = 0 THEN [pass |-> Start(ms, ns), notice |-> FALSE, rounds |-> 0]
        ELSE NextRound(round[k - 1], k, ms, ns)
  IN round

(* prepare_upstream_request                                                  *)
Prepared(ms, ns) == Rounds(ms, ns)[IF strategy = "reject" THEN 0 ELSE Len(ms)]

(* Mutant: the client's transcript is the only context.                      *)
ClientContextOnly(request) == {request.talk}

(* response_recording_contexts: the client's transcript, and what was sent.  *)
Contexts(request) == {request.talk, request.messages}

(* The keys of the answer in every context.                                  *)
AnswerKeys(m, request) ==
  UNION {ToSet(ScopedKeys(m, prior, request.ns) \o PortableKeys(m, prior, request.ns)) :
           prior \in Contexts(request)}

(* Mutant: only tool calls are recorded.                                     *)
CallsRecorded(c, m, n, request) ==
  IF m.call = None THEN c ELSE With(c, AnswerKeys(m, request), n)

(* store_assistant_message in every context                                  *)
Recorded(c, m, n, request) == With(c, AnswerKeys(m, request), n)

-----------------------------------------------------------------------------
(* Steps of the clients                                                      *)

LastOf(c) == talk[c][Len(talk[c])]
Says(c, m) == Len(talk[c]) < MaxLength /\ talk' = [talk EXCEPT ![c] = Append(@, m)]
CallIsOpen(c) == LastOf(c).role = "assistant" /\ LastOf(c).call # None

UserSays(c, t) ==
  /\ ~CallIsOpen(c)
  /\ Restless \/ pending[c] = {}
  /\ Says(c, User(t))
  /\ UNCHANGED <<pending, cache, noticed, counts, history, strategy>>

ToolReturns(c) ==
  /\ CallIsOpen(c)
  /\ Says(c, ToolResult(LastOf(c).call))
  /\ UNCHANGED <<pending, cache, noticed, counts, history, strategy>>

(* The user edits an earlier message: what follows it is gone.               *)
Rewind(c, i) ==
  /\ Restless
  /\ talk' = [talk EXCEPT ![c] = SubSeq(@, 1, i)]
  /\ settled' = [settled EXCEPT ![c] = {}]
  /\ UNCHANGED <<pending, cache, noticed, counts, rejects, born, strategy>>

-----------------------------------------------------------------------------
(* Steps of the bridge                                                       *)

(* A request comes in, is prepared, and is sent upstream or rejected.        *)
Ask(c, ns) ==
  LET p == Prepared(talk[c], ns)
      rejected == strategy = "reject" /\ p.pass.missing # {}
      request == [n |-> answers + 1, ns |-> ns, talk |-> talk[c],
                  messages |-> p.pass.messages, notice |-> p.notice, rounds |-> p.rounds]
  IN /\ LastOf(c).role \in {"user", "tool"}
     /\ Cardinality(pending[c]) <= IF Restless THEN 1 ELSE 0
     /\ answers < MaxAnswers
     /\ cache' = p.pass.cache
     /\ noticed' = noticed \cup (IF p.notice THEN {Scope(talk[c], ns)} ELSE {})
     /\ rejects' = IF rejected THEN rejects \cup {c} ELSE rejects
     /\ IF rejected THEN UNCHANGED <<pending, answers>>
        ELSE /\ pending' = [pending EXCEPT ![c] = @ \cup {request}]
             /\ answers' = answers + 1
     /\ UNCHANGED <<talk, losses, born, settled, strategy>>

(* Upstream answers; the reasoning is recorded, and the client adds what it  *)
(* received to its transcript unless it has moved on.                        *)
Answer(c, request, withCall, arrives) ==
  LET m == Assistant(request.n, withCall, request.notice)
  IN /\ arrives \/ Restless
     /\ pending' = [pending EXCEPT ![c] = @ \ {request}]
     /\ IF request.ns \in Disabled THEN UNCHANGED <<cache, born>>
        ELSE /\ cache' = Recorded(cache, m, request.n, request)
             /\ born' = With(born, {request.n},
                             [ns |-> request.ns, contexts |-> Contexts(request)])
     /\ IF arrives /\ talk[c] = request.talk
        THEN /\ Says(c, m)
             /\ settled' = [settled EXCEPT ![c] =
                              IF m.notice THEN {request.ns} ELSE @ \cap {request.ns}]
        ELSE UNCHANGED <<talk, settled>>
     /\ UNCHANGED <<noticed, counts, rejects, strategy>>

(* The request fails upstream, or the client hangs up before any answer.     *)
Fail(c, request) ==
  /\ Restless
  /\ pending' = [pending EXCEPT ![c] = @ \ {request}]
  /\ UNCHANGED <<talk, cache, noticed, counts, history, strategy>>

(* The store loses a key, the keys of an answer, or everything.              *)
Lose ==
  /\ losses < MaxLosses
  /\ \E gone \in {{k} : k \in DOMAIN cache}
              \cup {{k \in DOMAIN cache : cache[k] = n} : n \in 1..answers}
              \cup {DOMAIN cache} :
       /\ gone # {}
       /\ cache' = [k \in DOMAIN cache \ gone |-> cache[k]]
  /\ losses' = losses + 1
  /\ settled' = [c \in Conversation |-> {}]
  /\ UNCHANGED <<talk, pending, noticed, answers, rejects, born, strategy>>

Next ==
  \/ \E c \in Conversation :
       \/ \E t \in Prompt : UserSays(c, t)
       \/ ToolReturns(c)
       \/ \E i \in Users(talk[c]) : Rewind(c, i - 1)
       \/ \E ns \in Namespace[c] : Ask(c, ns)
       \/ \E request \in pending[c], withCall, arrives \in BOOLEAN :
            Answer(c, request, withCall, arrives)
       \/ \E request \in pending[c] : Fail(c, request)
  \/ Lose

Spec == Init /\ [][Next]_vars

-----------------------------------------------------------------------------
(* Properties                                                                *)

Requests == UNION {pending[c] : c \in Conversation}

(* Every request sent keeps the contract of DeepSeek: an assistant message   *)
(* with a tool call, or after a tool result of its turn, has its reasoning.  *)
(* Of thinking requests, whatever was lost.                                  *)
InToolContext(ms, i) ==
  \/ ms[i].call # None
  \/ \E j \in 1..(i - 1) : ms[j].role = "tool" /\ \A k \in j..i : ms[k].role # "user"

ContractHonoured ==
  \A r \in Requests : r.ns \notin Disabled =>
    \A i \in Positions(r.messages) :
      r.messages[i].role = "assistant" /\ InToolContext(r.messages, i)
        => r.messages[i].reasoning # None

(* What recovery leaves of a conversation is well formed: tool calls and     *)
(* results come in pairs, and the newest user message is there.              *)
RequestsWellFormed ==
  \A r \in Requests :
    LET ms == r.messages IN
    /\ \A i \in Positions(ms) : ms[i].role = "tool"
         => i > 1 /\ ms[i - 1].role = "assistant" /\ ms[i - 1].call = ms[i].call
    /\ \A i \in Positions(ms) : ms[i].role = "assistant" /\ ms[i].call # None
         => i < Len(ms) /\ ms[i + 1].role = "tool"
    /\ ms[LastIn(Users(ms))] = r.talk[LastIn(Users(r.talk))]

(* The recovery loop ends after one round with nothing missing.              *)
RecoveryIsOneRound == \A r \in Requests : r.rounds <= 1

(* What a transcript says from its newest user message on.                   *)
SinceUser(ms) ==
  LET user == LastIn(Users(ms))
  IN NoSystem(Canon(SubSeq(ms, IF user = 0 THEN 1 ELSE user, Len(ms))))

(* The reasoning a message is given was produced in its namespace, as the    *)
(* answer to the same user message followed by the same calls and results:   *)
(* the keys of last resort never reach across turns or clients.              *)
RestoredIsOfThisTurn ==
  \A r \in Requests : \A i \in Positions(r.messages) :
    LET given == r.messages[i].reasoning IN
    given # None =>
      /\ given \in DOMAIN born /\ born[given].ns = r.ns
      /\ \E prior \in born[given].contexts :
           SinceUser(prior) = SinceUser(SubSeq(r.messages, 1, i - 1))

(* The message at i, a tool call, has the reasoning of another answer,       *)
(* though its own was recorded in the same namespace and nothing was lost.   *)
(* The id of a call is the number of its answer.                             *)
Mistaken(r, i) ==
  LET m == r.messages[i] IN
  /\ m.call # None /\ m.reasoning \notin {None, m.call}
  /\ losses = 0 /\ m.call \in DOMAIN born /\ born[m.call].ns = r.ns

(* In a request that is sent with its whole history a tool call is given the *)
(* reasoning of another answer only when its own was lost, or was produced   *)
(* in another namespace: the keys that calls of one function share never win.*)
CallsGetOwnReasoning ==
  \A r \in Requests : Canon(r.messages) = Canon(r.talk)
    => \A i \in Positions(r.messages) : ~Mistaken(r, i)

(* The same of requests sent with what follows a recovery boundary: the      *)
(* reasoning of one conversation never appears in another.                   *)
RecoveredCallsGetOwn ==
  \A r \in Requests : \A i \in Positions(r.messages) : ~Mistaken(r, i)

(* While nothing is lost, nothing is missing: whatever clients send back     *)
(* later, from whatever point of the conversation, is repaired.  (For        *)
(* conversations that keep to one namespace.)                                *)
NothingMissingBeforeLoss ==
  losses = 0 => rejects = {} /\ \A r \in Requests : r.rounds = 0

(* Recovery converges: once the client has an answer with the notice, no     *)
(* later request of that namespace is recovered again, until something is    *)
(* lost, an answer of another namespace comes in between (one without        *)
(* thinking, say, which has no reasoning) or the client goes back.           *)
RecoveryConverges ==
  [][\A c \in Conversation : \A r \in pending'[c] \ pending[c] :
       r.ns \in settled[c] => r.rounds = 0]_vars

=============================================================================
