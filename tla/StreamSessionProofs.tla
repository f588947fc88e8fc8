------------------------ MODULE StreamSessionProofs ------------------------
(***************************************************************************)
(* Proofs about StreamSession, for every set of choices, every number of   *)
(* recording contexts, every chunk upstream may send and every bound.      *)
(***************************************************************************)
EXTENDS StreamSession, FiniteSetTheorems, SequenceTheorems, WellFoundedInduction, TLAPS

Token == {BlockStart, BlockEnd, Notice, Newlines, Blanks}
         \cup {Text(n) : n \in 1..MaxLines} \cup {Thought(n) : n \in 1..MaxLines}
Tool == [id : BOOLEAN, name : BOOLEAN, args : Seq(1..MaxLines)]
Collected == [content : Seq(Token), reasoning : Seq(Token), hasReasoning : BOOLEAN,
              tools : Seq(Tool), finished : BOOLEAN]
Visible == [content : Seq(Token), tools : Seq(Tool)]
SentBy == [reasoning : Seq(Token), answered : BOOLEAN, finished : BOOLEAN]

(* The choices in the accumulator's dict, in an order without gaps.          *)
Known == {c \in Choice : order[c] > 0}

Orders == [Choice -> 0..Cardinality(Choice)]
Queues == SUBSET (Choice \X (1..Context))

AccTypes ==
  /\ choices \in [Choice -> Collected]
  /\ order \in Orders
  /\ stored \in [Choice -> [1..Context -> 0..Final]]
  /\ fresh \in BOOLEAN
  /\ \A k \in DOMAIN cache : cache[k] \in Seq(Token)
OrderInv ==
  /\ \A c \in Known : order[c] <= Cardinality(Known)
  /\ \A c, d \in Known : order[c] = order[d] => c = d
ViewTypes ==
  /\ shown \in [Choice -> Visible] /\ next \in [Choice -> Visible]
  /\ openBlocks \subseteq Choice
  /\ notice \in {"none", "pending", "given"}
RestTypes ==
  /\ phase \in {"connecting", "reading", "yielded", "lost", "ended"}
  /\ attempt \in 0..MaxRetries /\ lines \in 0..MaxLines
  /\ {finalized, failed, display} \subseteq BOOLEAN
  /\ outcome \in {"open", "completed", "upstream_error", "client_disconnected"}
  /\ sent \in [Choice -> SentBy]

Types == AccTypes /\ OrderInv /\ ViewTypes /\ RestTypes

-----------------------------------------------------------------------------
LEMMA ConstantFacts ==
  /\ Context \in Nat /\ MaxContent \in Nat /\ MaxRetries \in Nat /\ MaxLines \in Nat
  /\ Display \subseteq BOOLEAN /\ IsFiniteSet(Choice) /\ 0 \in Choice
  /\ Cardinality(Choice) \in Nat
BY NumbersAssumption, ChoiceAssumption, FS_CardinalityType

(* The fields of a chunk. *)
LEMMA ChunkFields ==
  ASSUME NEW k \in Chunk
  PROVE  /\ k.choice \in Choice /\ k.tool \in Nat
         /\ k.content \in {"absent", "null", "text", "newlines", "blanks"}
         /\ k.reasoning \in {"absent", "null", "empty", "text"}
         /\ {k.id, k.name, k.finish} \subseteq BOOLEAN
BY ChunkAssumption

(* A nonempty set of natural numbers has a smallest one.                     *)
LEMMA Smallest ==
  ASSUME NEW S, S \subseteq Nat, S # {}
  PROVE  \E n \in S : \A m \in S : n <= m
<1> DEFINE R == OpToRel(<, Nat)
<1>1. IsWellFoundedOn(R, Nat)
  BY NatLessThanWellFounded
<1>2. \A x, y \in Nat : y < x => <<y, x>> \in R
  BY DEF OpToRel
<1> HIDE DEF R
<1>3. PICK x \in S : \A y \in S : ~ (<<y, x>> \in R)
  BY <1>1, WFMin
<1>4. ASSUME NEW m \in S PROVE x <= m
  <2>1. ~(m < x)
    BY <1>2, <1>3
  <2> QED BY <2>1
<1> QED BY <1>4

(* The last writer of a key exists: positions in the dict are bounded.       *)
LEMMA LastExists ==
  ASSUME NEW ord \in Orders, NEW W \in Queues, W # {}
  PROVE  \E q \in W : \A r \in W : ord[r[1]] <= ord[q[1]]
<1> DEFINE N == Cardinality(Choice)
           S == {N - ord[q[1]] : q \in W}
<1>1. N \in Nat /\ \A q \in W : ord[q[1]] \in 0..N
  BY ConstantFacts DEF Orders, Queues
<1>2. S \subseteq Nat /\ S # {}
  BY <1>1
<1>3. PICK n \in S : \A m \in S : n <= m
  BY <1>2, Smallest
<1>4. PICK q \in W : n = N - ord[q[1]]
  BY <1>3
<1>5. ASSUME NEW r \in W PROVE ord[r[1]] <= ord[q[1]]
  <2>1. N - ord[q[1]] <= N - ord[r[1]]
    BY <1>3, <1>4
  <2> QED BY <1>1, <2>1
<1> QED BY <1>5

(* The queued pairs that a flush writes, and the keys it writes.             *)
Writing(chs, queue) == {q \in queue : chs[q[1]].hasReasoning}
KeysOf(chs, q) == KeySet(Message(chs[q[1]]), q[1], q[2])
SavedKeys(chs, queue) == UNION {KeysOf(chs, q) : q \in Writing(chs, queue)}

(* What a flush leaves under a key it writes: the reasoning of a queued      *)
(* choice whose message has that key.                                        *)
LEMMA FlushedWriter ==
  ASSUME NEW chs, NEW ord \in Orders, NEW queue \in Queues, NEW key \in SavedKeys(chs, queue)
  PROVE  \E q \in Writing(chs, queue) :
           key \in KeysOf(chs, q) /\ Flushed(chs, ord, queue)[key] = chs[q[1]].reasoning
<1> DEFINE F == Flushed(chs, ord, queue)
           written == {q \in queue : chs[q[1]].hasReasoning}
           writers(k) == {q \in written : k \in KeySet(Message(chs[q[1]]), q[1], q[2])}
           last(k) == CHOOSE q \in writers(k) : \A r \in writers(k) : ord[r[1]] <= ord[q[1]]
           keys == UNION {KeySet(Message(chs[q[1]]), q[1], q[2]) : q \in written}
<1>1. F = [k \in DOMAIN cache \cup keys |->
             IF k \in keys THEN chs[last(k)[1]].reasoning ELSE cache[k]]
  BY DEF Flushed
<1>2. ASSUME NEW k \in keys PROVE last(k) \in writers(k)
  <2>1. writers(k) # {} /\ writers(k) \in Queues
    BY DEF Queues
  <2> HIDE DEF writers
  <2>2. \E q \in writers(k) : \A r \in writers(k) : ord[r[1]] <= ord[q[1]]
    BY <2>1, LastExists
  <2> QED BY <2>2
<1> HIDE DEF last, F
<1>3. written = Writing(chs, queue) /\ keys = SavedKeys(chs, queue)
  BY DEF Writing, SavedKeys, KeysOf
<1>4. ASSUME NEW k \in keys
      PROVE  \E q \in written : k \in KeysOf(chs, q) /\ F[k] = chs[q[1]].reasoning
  BY <1>1, <1>2 DEF KeysOf
<1> QED BY <1>3, <1>4 DEF F

(* The other keys keep what was there.                                       *)
LEMMA FlushedRest ==
  ASSUME NEW chs, NEW ord, NEW queue
  PROVE  /\ DOMAIN Flushed(chs, ord, queue) = DOMAIN cache \cup SavedKeys(chs, queue)
         /\ \A k \in DOMAIN cache \ SavedKeys(chs, queue) :
              Flushed(chs, ord, queue)[k] = cache[k]
<1> DEFINE written == {q \in queue : chs[q[1]].hasReasoning}
           keys == UNION {KeySet(Message(chs[q[1]]), q[1], q[2]) : q \in written}
<1>1. keys = SavedKeys(chs, queue)
  BY DEF Writing, SavedKeys, KeysOf
<1>2. PICK value : Flushed(chs, ord, queue) =
        [k \in DOMAIN cache \cup keys |-> IF k \in keys THEN value[k] ELSE cache[k]]
  <2> DEFINE writers(k) == {q \in written : k \in KeySet(Message(chs[q[1]]), q[1], q[2])}
             last(k) == CHOOSE q \in writers(k) : \A r \in writers(k) : ord[r[1]] <= ord[q[1]]
             v == [k \in keys |-> chs[last(k)[1]].reasoning]
  <2>1. Flushed(chs, ord, queue) =
          [k \in DOMAIN cache \cup keys |-> IF k \in keys THEN chs[last(k)[1]].reasoning ELSE cache[k]]
    BY DEF Flushed
  <2> HIDE DEF last, keys
  <2>2. \A k \in keys : v[k] = chs[last(k)[1]].reasoning
    OBVIOUS
  <2> HIDE DEF v
  <2> QED BY <2>1, <2>2
<1> QED BY <1>1, <1>2

-----------------------------------------------------------------------------
(* The types of what a line does.                                            *)
LEMMA TokenFacts ==
  /\ {Notice, BlockStart, BlockEnd, Newlines, Blanks} \subseteq Token
  /\ \A n \in 1..MaxLines : Text(n) \in Token /\ Thought(n) \in Token
BY DEF Token

LEMMA TokensDiffer ==
  /\ BlockStart # BlockEnd /\ Notice # BlockStart /\ Notice # BlockEnd
  /\ \A n : Text(n) \notin {Notice, BlockStart, BlockEnd}
  /\ \A n : Thought(n) \notin {Notice, BlockStart, BlockEnd}
  /\ \A m, n : Text(m) # Thought(n)
  /\ \A t \in {Newlines, Blanks} : t \notin {Notice, BlockStart, BlockEnd}
                                  /\ \A n : t # Thought(n)
  /\ \A n : Notice # Thought(n)
BY DEF BlockStart, BlockEnd, Notice, Text, Thought, Newlines, Blanks

(* A delta brings at most one piece of text, which is no mark and no thought. *)
LEMMA PieceFacts ==
  ASSUME NEW k \in Chunk, NEW n \in 1..MaxLines
  PROVE  /\ Given(k, n) \in {<<>>, <<Piece(k, n)>>}
         /\ Piece(k, n) \in Token \ {Notice, BlockStart, BlockEnd}
         /\ \A m : Piece(k, n) # Thought(m)
<1>1. Piece(k, n) \in {Text(n), Newlines, Blanks}
  BY DEF Piece
<1>2. Text(n) \in Token /\ Newlines \in Token /\ Blanks \in Token
  BY TokenFacts
<1> QED BY <1>1, <1>2, TokensDiffer DEF Given

LEMMA SequenceType ==
  ASSUME NEW T
  PROVE  /\ <<>> \in Seq(T) /\ \A x \in T : <<x>> \in Seq(T)
         /\ \A s, t \in Seq(T) : s \o t \in Seq(T)
OBVIOUS

LEMMA MergedToolsType ==
  ASSUME NEW tools \in Seq(Tool), NEW k \in Chunk, NEW n \in 1..MaxLines
  PROVE  MergedTools(tools, k, n) \in Seq(Tool)
<1> DEFINE old(p) == IF p <= Len(tools) THEN tools[p] ELSE NewTool
           size == IF k.tool > Len(tools) THEN k.tool ELSE Len(tools)
           new(p) == IF p # k.tool THEN old(p)
                     ELSE [id |-> old(p).id \/ k.id, name |-> old(p).name \/ k.name,
                           args |-> Append(old(p).args, n)]
<1>1. Len(tools) \in Nat /\ k.tool \in Nat /\ size \in Nat
  BY ChunkFields, LenProperties
<1>2. NewTool \in Tool
  BY DEF NewTool, Tool
<1>3. \A p \in 1..size : old(p) \in Tool
  BY <1>1, <1>2, ElementOfSeq
<1>4. \A t \in Tool : [id |-> t.id \/ k.id, name |-> t.name \/ k.name,
                       args |-> Append(t.args, n)] \in Tool
  BY DEF Tool
<1> HIDE DEF old
<1>5. \A p \in 1..size : new(p) \in Tool
  BY <1>3, <1>4
<1> HIDE DEF new, size
<1>6. [p \in 1..size |-> new(p)] \in Seq(Tool)
  BY <1>1, <1>5, IsASeq
<1> QED BY <1>6 DEF MergedTools, new, old, size

LEMMA TextType ==
  ASSUME NEW k \in Chunk, NEW n \in 1..MaxLines
  PROVE  WithNotice(k, n) \in Seq(Token) /\ Given(k, n) \in Seq(Token)
<1>1. Given(k, n) \in Seq(Token)
  BY PieceFacts, SequenceType
<1>2. (IF TakesNotice(k) THEN <<Notice>> ELSE <<>>) \in Seq(Token)
  BY TokenFacts, SequenceType
<1> QED BY <1>1, <1>2, SequenceType DEF WithNotice

LEMMA MirroredType ==
  ASSUME NEW k \in Chunk, NEW n \in 1..MaxLines, NEW text \in Seq(Token)
  PROVE  Mirrored(k, n, text) \in Seq(Token)
<1> DEFINE a == IF k.reasoning = "text" /\ k.choice \notin openBlocks THEN <<BlockStart>> ELSE <<>>
           b == IF k.reasoning = "text" THEN <<Thought(n)>> ELSE <<>>
           c == IF Closes(k, text) THEN <<BlockEnd>> ELSE <<>>
<1>1. a \in Seq(Token) /\ b \in Seq(Token) /\ c \in Seq(Token)
  BY TokenFacts, SequenceType
<1>2. Mirrored(k, n, text) \in {text, a \o b \o c \o text}
  BY DEF Mirrored
<1> HIDE DEF a, b, c
<1>3. a \o b \in Seq(Token)
  BY <1>1, SequenceType
<1>4. a \o b \o c \in Seq(Token)
  BY <1>1, <1>3, SequenceType
<1>5. a \o b \o c \o text \in Seq(Token)
  BY <1>4, SequenceType
<1> QED BY <1>2, <1>5

LEMMA IngestedType ==
  ASSUME NEW ch \in Collected, NEW k \in Chunk, NEW n \in 1..MaxLines, NEW text \in Seq(Token)
  PROVE  Ingested(ch, k, n, text) \in Collected
<1>1. /\ ch.content \in Seq(Token) /\ ch.reasoning \in Seq(Token) /\ ch.tools \in Seq(Tool)
      /\ ch.hasReasoning \in BOOLEAN /\ ch.finished \in BOOLEAN
  BY DEF Collected
<1>2. <<Thought(n)>> \in Seq(Token)
  BY TokenFacts, SequenceType
<1>3. \A s, t \in Seq(Token) : Appended(s, t) \in Seq(Token)
  BY SequenceType DEF Appended
<1>4. MergedTools(ch.tools, k, n) \in Seq(Tool)
  BY <1>1, MergedToolsType
<1>5. (IF k.reasoning = "text" THEN Appended(ch.reasoning, <<Thought(n)>>) ELSE ch.reasoning)
      \in Seq(Token)
  BY <1>1, <1>2, <1>3
<1>6. (ch.hasReasoning \/ k.reasoning \in {"empty", "text"}) \in BOOLEAN
      /\ (ch.finished \/ k.finish) \in BOOLEAN
  OBVIOUS
<1> QED BY <1>1, <1>3, <1>4, <1>5, <1>6 DEF Ingested, Collected

LEMMA FlushedType ==
  ASSUME AccTypes, NEW chs \in [Choice -> Collected],
         NEW ord \in Orders, NEW queue \in Queues
  PROVE  \A k \in DOMAIN Flushed(chs, ord, queue) : Flushed(chs, ord, queue)[k] \in Seq(Token)
<1> DEFINE F == Flushed(chs, ord, queue)
           saved == SavedKeys(chs, queue)
<1>1. /\ DOMAIN F = DOMAIN cache \cup saved
      /\ \A k \in DOMAIN cache \ saved : F[k] = cache[k]
  BY FlushedRest
<1>2. \A q \in Writing(chs, queue) : chs[q[1]].reasoning \in Seq(Token)
  BY DEF Writing, Collected, Queues
<1>3. ASSUME NEW k \in saved PROVE F[k] \in Seq(Token)
  <2>1. PICK q \in Writing(chs, queue) : F[k] = chs[q[1]].reasoning
    BY FlushedWriter
  <2> QED BY <1>2, <2>1
<1> HIDE DEF F, saved
<1>4. ASSUME NEW k \in DOMAIN F PROVE F[k] \in Seq(Token)
  <2>1. CASE k \in saved
    BY <1>3, <2>1
  <2>2. CASE k \notin saved
    BY <1>1, <1>4, <2>2 DEF AccTypes
  <2> QED BY <2>1, <2>2
<1> QED BY <1>4 DEF F

LEMMA StageType ==
  ASSUME NEW ch
  PROVE  Stage(ch) \in 0..Final
BY DEF Stage, Final

LEMMA RankedType ==
  ASSUME AccTypes, NEW queue, NEW rank \in [Choice -> 0..Final]
  PROVE  Ranked(queue, rank) \in [Choice -> [1..Context -> 0..Final]]
BY DEF AccTypes, Ranked

(* A new choice comes last in the dict.                                      *)
LEMMA SeenFacts ==
  ASSUME order \in Orders, OrderInv, NEW c \in Choice,
         order' = Seen(c)
  PROVE  order' \in Orders /\ OrderInv' /\ Known' = Known \cup {c}
<1>1. IsFiniteSet(Known) /\ Cardinality(Known) \in Nat
  BY ConstantFacts, FS_Subset, FS_CardinalityType DEF Known
<1>2. CASE order[c] > 0
  <2>1. order' = order
    BY <1>2 DEF Seen
  <2> QED BY <1>2, <2>1 DEF OrderInv, Known
<1>3. CASE ~(order[c] > 0)
  <2> DEFINE n == Cardinality(Known)
  <2>1. order' = [order EXCEPT ![c] = 1 + n]
    BY <1>3 DEF Seen, Known
  <2>2. c \notin Known /\ Known \cup {c} \subseteq Choice
    BY <1>3 DEF Known
  <2>3. Cardinality(Known \cup {c}) = 1 + n /\ 1 + n <= Cardinality(Choice)
    BY <1>1, <2>2, ConstantFacts, FS_AddElement, FS_Subset
  <2>4. n \in Nat
    BY <1>1
  <2> HIDE DEF n
  <2>5. Known' = Known \cup {c}
    BY <2>1, <2>4 DEF Known, Orders
  <2>6. \A d \in Known : order[d] <= n /\ order'[d] = order[d] /\ order[d] \in Nat
    BY <2>1, <2>2, ConstantFacts DEF OrderInv, n, Known, Orders
  <2>7. order'[c] = 1 + n
    BY <2>1 DEF Orders
  <2>8. Cardinality(Known') = 1 + n
    BY <2>3, <2>5
  <2>9. order' \in Orders
    BY <2>1, <2>3, <2>4, ConstantFacts DEF Orders
  <2>10. \A d \in Known' : order'[d] <= Cardinality(Known')
    BY <2>4, <2>5, <2>6, <2>7, <2>8
  <2>11. \A d, e \in Known' : order'[d] = order'[e] => d = e
    BY <2>4, <2>5, <2>6, <2>7 DEF OrderInv
  <2> QED BY <2>5, <2>9, <2>10, <2>11 DEF OrderInv
<1> QED BY <1>2, <1>3

LEMMA KnownOrder ==
  ASSUME AccTypes
  PROVE  order \in Orders /\ Known \subseteq Choice
BY DEF AccTypes, Known

LEMMA InitTypes == Init => Types
<1> SUFFICES ASSUME Init PROVE Types
  OBVIOUS
<1>1. <<>> \in Seq(Token) /\ <<>> \in Seq(Tool) /\ <<>> \in Seq(1..MaxLines)
  BY SequenceType
<1>2. NewChoice \in Collected /\ Nothing \in Visible
  BY <1>1 DEF NewChoice, Collected, Nothing, Visible
<1>3. AccTypes
  <2>1. choices \in [Choice -> Collected] /\ order \in Orders /\ fresh \in BOOLEAN
    <3>1. 0 \in 0..Cardinality(Choice)
      BY ConstantFacts
    <3>2. order = [c \in Choice |-> 0]
      BY DEF Init
    <3>3. order \in Orders
      BY <3>1, <3>2 DEF Orders
    <3> QED BY <1>2, <3>3 DEF Init
  <2>2. stored \in [Choice -> [1..Context -> 0..Final]]
    BY DEF Init, Final
  <2>3. DOMAIN cache = {}
    BY DEF Init
  <2> QED BY <2>1, <2>2, <2>3 DEF AccTypes
<1>4. OrderInv
  BY DEF Init, OrderInv, Known
<1>5. ViewTypes
  BY <1>2 DEF Init, ViewTypes
<1>6. RestTypes
  <2>1. sent \in [Choice -> SentBy]
    BY <1>1 DEF Init, SentBy
  <2>2. display \in BOOLEAN
    BY ConstantFacts DEF Init
  <2>3. phase = "connecting" /\ outcome = "open" /\ attempt \in 0..MaxRetries /\ lines \in 0..MaxLines
        /\ finalized = FALSE /\ failed = FALSE
    BY ConstantFacts DEF Init
  <2> QED BY <2>1, <2>2, <2>3 DEF RestTypes
<1> QED BY <1>3, <1>4, <1>5, <1>6 DEF Types

LEMMA StoreAllTypes ==
  ASSUME Types, StoreAll
  PROVE  AccTypes' /\ OrderInv'
<1>1. AccTypes /\ OrderInv /\ UNCHANGED <<choices, order, fresh>>
  BY DEF Types, StoreAll
<1>2. FinalQueue \in Queues
  BY DEF FinalQueue, Queues
<1>3. stored' \in [Choice -> [1..Context -> 0..Final]]
  <2>1. [c \in Choice |-> Final] \in [Choice -> 0..Final]
    BY DEF Final
  <2> QED BY <1>1, <2>1, RankedType DEF StoreAll
<1>4. \A k \in DOMAIN cache' : cache'[k] \in Seq(Token)
  BY <1>1, <1>2, KnownOrder, FlushedType DEF StoreAll, AccTypes
<1> QED BY <1>1, <1>3, <1>4 DEF AccTypes, OrderInv, Known

LEMMA ReceivesType ==
  ASSUME Types, NEW k \in Chunk, NEW n \in 1..MaxLines, NEW text \in Seq(Token),
         Receives(k, n, text)
  PROVE  next' \in [Choice -> Visible]
<1> DEFINE v == shown[k.choice]
           w == [content |-> v.content \o text, tools |-> MergedTools(v.tools, k, n)]
<1>1. v \in Visible /\ shown \in [Choice -> Visible]
  BY ChunkFields DEF Types, ViewTypes
<1>2. v.content \o text \in Seq(Token) /\ MergedTools(v.tools, k, n) \in Seq(Tool)
  BY <1>1, SequenceType, MergedToolsType DEF Visible
<1>3. w \in Visible
  BY <1>2 DEF Visible
<1>4. next' = [shown EXCEPT ![k.choice] = w]
  BY DEF Receives
<1> HIDE DEF w
<1> QED BY <1>1, <1>3, <1>4

LEMMA UpstreamType ==
  ASSUME Types, NEW k \in Chunk, NEW n \in 1..MaxLines, Upstream(k, n)
  PROVE  sent' \in [Choice -> SentBy]
<1> DEFINE v == sent[k.choice]
           w == [reasoning |-> IF k.reasoning = "text" THEN Append(v.reasoning, Thought(n))
                               ELSE v.reasoning,
                 answered |-> v.answered \/ k.content \notin {"absent", "null"} \/ k.tool > 0,
                 finished |-> k.finish]
<1>1. v \in SentBy /\ sent \in [Choice -> SentBy] /\ k.finish \in BOOLEAN
  BY ChunkFields DEF Types, RestTypes
<1>2. Append(v.reasoning, Thought(n)) \in Seq(Token)
  BY <1>1, TokenFacts, AppendProperties DEF SentBy
<1>3. w \in SentBy
  BY <1>1, <1>2 DEF SentBy
<1>4. sent' = [sent EXCEPT ![k.choice] = w]
  BY DEF Upstream
<1> HIDE DEF w
<1> QED BY <1>1, <1>3, <1>4

LEMMA RewriteTypes ==
  ASSUME Types, NEW k \in Chunk, lines < MaxLines, RewriteLine(k), UNCHANGED shown
  PROVE  AccTypes' /\ OrderInv' /\ ViewTypes'
<1> DEFINE n == lines + 1
           text == WithNotice(k, n)
           chs == [choices EXCEPT ![k.choice] = Ingested(choices[k.choice], k, n, text)]
           isFresh == fresh \/ k.reasoning \in {"empty", "text"} \/ k.tool > 0
           queue == ReadyQueue(chs, Seen(k.choice), isFresh)
           rank == [c \in Choice |-> Stage(chs[c])]
<1>0. AccTypes /\ OrderInv /\ ViewTypes /\ RestTypes /\ k.choice \in Choice
  BY ChunkFields DEF Types
<1>1. n \in 1..MaxLines
  BY <1>0, ConstantFacts DEF RestTypes
<1>2. text \in Seq(Token)
  BY <1>1, TextType
<1>3. chs \in [Choice -> Collected]
  BY <1>0, <1>1, <1>2, IngestedType DEF AccTypes
<1>4. /\ choices' = chs /\ order' = Seen(k.choice)
      /\ stored' = Ranked(queue, rank) /\ cache' = Flushed(chs, order', queue)
      /\ Receives(k, n, Mirrored(k, n, text))
  BY DEF RewriteLine
<1>5. rank \in [Choice -> 0..Final] /\ queue \in Queues
  BY StageType DEF ReadyQueue, Queues
<1>6. order' \in Orders /\ OrderInv'
  BY <1>0, <1>4, KnownOrder, SeenFacts
<1>7. fresh' \in BOOLEAN /\ openBlocks' \subseteq Choice
      /\ notice' \in {"none", "pending", "given"}
  BY <1>0 DEF RewriteLine, ViewTypes
<1> HIDE DEF chs, queue, rank, n, text
<1>8. stored' \in [Choice -> [1..Context -> 0..Final]]
  BY <1>0, <1>4, <1>5, RankedType
<1>9. \A x \in DOMAIN cache' : cache'[x] \in Seq(Token)
  BY <1>0, <1>3, <1>4, <1>5, <1>6, FlushedType
<1>10. next' \in [Choice -> Visible]
  BY <1>1, <1>2, <1>4, MirroredType, ReceivesType
<1> QED BY <1>0, <1>3, <1>4, <1>6, <1>7, <1>8, <1>9, <1>10 DEF AccTypes, ViewTypes

LEMMA ReadTypes ==
  ASSUME Types, NEW k \in Chunk, ReadChunk(k)
  PROVE  Types'
<1>1. lines + 1 \in 1..MaxLines /\ lines < MaxLines /\ Types
  BY ConstantFacts DEF ReadChunk, Types, RestTypes
<1>2. sent' \in [Choice -> SentBy]
  BY <1>1, UpstreamType DEF ReadChunk
<1>3. CASE PassLine(k)
  <2>1. next' \in [Choice -> Visible]
    BY <1>1, <1>3, TextType, ReceivesType DEF PassLine
  <2>2. UNCHANGED <<choices, order, stored, fresh, openBlocks, notice, cache, shown,
                    attempt, finalized, failed, outcome, display>>
        /\ phase' = "yielded" /\ lines' = lines + 1
    BY <1>3 DEF ReadChunk, PassLine, acc, Yields
  <2>3. AccTypes' /\ OrderInv'
    BY <2>2 DEF Types, AccTypes, OrderInv, Known
  <2>4. ViewTypes'
    BY <2>1, <2>2 DEF Types, ViewTypes
  <2>5. RestTypes'
    BY <1>1, <1>2, <2>2, ConstantFacts DEF Types, RestTypes
  <2> QED BY <2>3, <2>4, <2>5 DEF Types
<1>4. CASE RewriteLine(k)
  <2>1. AccTypes' /\ OrderInv' /\ ViewTypes'
    BY <1>1, <1>4, RewriteTypes DEF ReadChunk
  <2>2. UNCHANGED <<attempt, finalized, failed, outcome, display>>
        /\ phase' = "yielded" /\ lines' = lines + 1
    BY <1>4 DEF ReadChunk, RewriteLine, Yields
  <2> QED BY <1>1, <1>2, <2>1, <2>2 DEF Types, RestTypes
<1> QED BY <1>3, <1>4 DEF ReadChunk

LEMMA FinallyTypes ==
  ASSUME Types, Finally
  PROVE  AccTypes' /\ OrderInv'
<1>1. CASE finalized
  BY <1>1 DEF Finally, Types, AccTypes, OrderInv, Known, acc
<1>2. CASE ~finalized
  BY <1>2, StoreAllTypes DEF Finally
<1> QED BY <1>1, <1>2

LEMMA EndTypes ==
  ASSUME Types, Finally, next' \in {shown, next}, shown' \in {shown, next},
         outcome' \in {"open", "completed", "upstream_error", "client_disconnected"}
  PROVE  Types'
<1>1. UNCHANGED <<attempt, lines, openBlocks, notice, finalized, failed, fixed>>
      /\ phase' = "ended"
  BY DEF Finally
<1> QED BY <1>1, FinallyTypes DEF Types, ViewTypes, RestTypes, fixed

LEMMA DoneTypes ==
  ASSUME Types, ReadDone
  PROVE  Types'
<1>1. AccTypes' /\ OrderInv'
  BY StoreAllTypes DEF ReadDone
<1>2. \A c \in Choice : shown[c].content \o FlushedBlock(c) \o NoticeChunk(c) \in Seq(Token)
  <2> SUFFICES ASSUME NEW c \in Choice
               PROVE  shown[c].content \o FlushedBlock(c) \o NoticeChunk(c) \in Seq(Token)
    OBVIOUS
  <2>1. FlushedBlock(c) \in Seq(Token) /\ NoticeChunk(c) \in Seq(Token)
    BY TokenFacts, SequenceType DEF FlushedBlock, NoticeChunk
  <2>2. shown[c].content \in Seq(Token)
    BY DEF Types, ViewTypes, Visible
  <2>3. shown[c].content \o FlushedBlock(c) \in Seq(Token)
    BY <2>1, <2>2, SequenceType
  <2> QED BY <2>1, <2>3, SequenceType
<1>3. next' \in [Choice -> Visible]
  <2>1. \A c \in Choice : [shown[c] EXCEPT !.content =
                             shown[c].content \o FlushedBlock(c) \o NoticeChunk(c)] \in Visible
    BY <1>2 DEF Types, ViewTypes, Visible
  <2> QED BY <2>1 DEF ReadDone
<1>4. ViewTypes'
  BY <1>3 DEF ReadDone, Types, ViewTypes
<1>5. RestTypes'
  BY DEF ReadDone, Types, RestTypes, Yields, fixed
<1> QED BY <1>1, <1>4, <1>5 DEF Types

LEMMA OtherTypes ==
  ASSUME Types, Connect \/ Retry \/ YieldError \/ Abandon
  PROVE  Types'
<1>1. UNCHANGED <<choices, order, stored, fresh, cache, openBlocks, notice, shown, sent, display,
                  finalized, lines>>
  BY DEF Connect, Retry, YieldError, Abandon, acc, view, fixed
<1>2. next' \in {next, shown} /\ failed' \in {failed, TRUE}
      /\ outcome' \in {outcome, "upstream_error"} /\ phase' \in {phase, "reading", "yielded", "lost"}
  BY DEF Connect, Retry, YieldError, Yields, Abandon, view
<1>3. attempt' \in 0..MaxRetries
  BY ConstantFacts DEF Connect, Retry, RetriesLeft, YieldError, Abandon, Types, RestTypes
<1>4. AccTypes' /\ OrderInv' /\ ViewTypes'
  BY <1>1, <1>2 DEF Types, AccTypes, OrderInv, Known, ViewTypes
<1>5. RestTypes'
  BY <1>1, <1>2, <1>3 DEF Types, RestTypes
<1> QED BY <1>4, <1>5 DEF Types

THEOREM TypesInvariance == Spec => []Types
<1>1. ASSUME Types, [Next]_vars PROVE Types'
  <2>1. ASSUME NEW k \in Chunk, ReadChunk(k) PROVE Types'
    BY <1>1, <2>1, ReadTypes
  <2>2. CASE ReadDone
    BY <1>1, <2>2, DoneTypes
  <2>3. CASE Connect \/ Retry \/ NoAnswer \/ Break \/ Abandon
    BY <1>1, <2>3, OtherTypes DEF NoAnswer, Break
  <2>4. CASE EndOfStream \/ Cancel \/ Collect
    BY <1>1, <2>4, EndTypes DEF EndOfStream, Cancel, Collect, Types, RestTypes
  <2>5. CASE Deliver
    <3>1. CASE Returns
      BY <1>1, <2>5, <3>1, EndTypes DEF Deliver, Types, RestTypes
    <3>2. CASE ~Returns
      BY <1>1, <2>5, <3>2 DEF Deliver, Types, AccTypes, OrderInv, Known, ViewTypes, RestTypes,
                              acc, fixed
    <3> QED BY <3>1, <3>2
  <2>6. CASE UNCHANGED vars
    BY <1>1, <2>6 DEF vars, acc, view, fixed, Types, AccTypes, OrderInv, Known, ViewTypes, RestTypes
  <2> QED BY <1>1, <2>1, <2>2, <2>3, <2>4, <2>5, <2>6 DEF Next, Progress, Stopped
<1>2. Types /\ [Next]_vars => Types'
  BY <1>1
<1> QED BY InitTypes, <1>2, PTL DEF Spec

(* The accumulator, the adapter, the store and what the client has received  *)
(* keep their types, and no two choices share a position in the dict.        *)
THEOREM TypeCorrect == Spec => []TypeOK
<1>1. ASSUME Types PROVE TypeOK
  <2>1. \A s \in Seq(Token) : IsText(s)
    <3> SUFFICES ASSUME NEW s \in Seq(Token), NEW j \in Positions(s) PROVE s[j] \in Token
      BY DEF IsText, Token
    <3> QED BY ElementOfSeq DEF Positions
  <2>2. ASSUME NEW c \in Choice
        PROVE  /\ DOMAIN choices[c] = DOMAIN NewChoice
               /\ IsText(choices[c].content) /\ IsText(choices[c].reasoning)
               /\ IsText(shown[c].content) /\ IsText(next[c].content)
               /\ {choices[c].hasReasoning, choices[c].finished} \subseteq BOOLEAN
    <3>1. choices[c] \in Collected /\ shown[c] \in Visible /\ next[c] \in Visible
      BY <1>1 DEF Types, AccTypes, ViewTypes
    <3>2. DOMAIN choices[c] = DOMAIN NewChoice
      BY <3>1 DEF Collected, NewChoice
    <3> QED BY <2>1, <3>1, <3>2 DEF Collected, Visible
  <2>3. order \in [Choice -> 0..Cardinality(Choice)]
        /\ \A c, d \in Choice : order[c] = order[d] /\ order[c] > 0 => c = d
    BY <1>1 DEF Types, AccTypes, OrderInv, Orders, Known
  <2> QED BY <1>1, <2>1, <2>2, <2>3 DEF Types, AccTypes, ViewTypes, RestTypes, TypeOK
<1>2. Types => TypeOK
  BY <1>1
<1> QED BY TypesInvariance, <1>2, PTL

-----------------------------------------------------------------------------
(* The phases: what the client has and what the line in hand adds to it.     *)
Flow ==
  /\ phase \in {"connecting", "reading"} => next = shown /\ ~finalized /\ ~failed
  /\ finalized => /\ phase \in {"yielded", "lost", "ended"}
                  /\ openBlocks = {} /\ notice # "pending"
  /\ outcome = "completed" => phase = "ended" /\ next = shown
  /\ ~display => openBlocks = {}

(* Is the client where the adapter thinks it is, once the line is delivered? *)
Aligned == phase \in {"connecting", "reading", "yielded"} \/ outcome = "completed"

LEMMA FlowStep ==
  ASSUME Types, Flow, [Next]_vars
  PROVE  Flow'
<1>1. ASSUME NEW k \in Chunk, ReadChunk(k) PROVE Flow'
  <2>1. phase = "reading" /\ phase' = "yielded" /\ ~finalized /\ finalized' = finalized
        /\ outcome' = outcome /\ display' = display
    BY <1>1 DEF ReadChunk, Yields, Flow
  <2>2. ~display => openBlocks' = {}
    BY <1>1 DEF ReadChunk, PassLine, RewriteLine, Flow
  <2> QED BY <2>1, <2>2 DEF Flow
<1>2. CASE ReadDone
  BY <1>2 DEF ReadDone, Yields, Flow, fixed, Types, ViewTypes
<1>3. CASE Connect \/ Retry \/ NoAnswer \/ Break \/ Abandon
  BY <1>3 DEF Connect, Retry, NoAnswer, Break, YieldError, Yields, Abandon, Flow, view, fixed
<1>4. CASE EndOfStream \/ Cancel \/ Collect
  BY <1>4 DEF EndOfStream, Cancel, Collect, Finally, Flow, fixed
<1>5. CASE Deliver
  <2>1. CASE Returns
    BY <1>5, <2>1 DEF Deliver, Finally, Flow, fixed
  <2>2. CASE ~Returns
    BY <1>5, <2>2 DEF Deliver, Returns, Flow, fixed
  <2> QED BY <2>1, <2>2
<1>6. CASE UNCHANGED vars
  BY <1>6 DEF vars, view, fixed, Flow
<1> QED BY <1>1, <1>2, <1>3, <1>4, <1>5, <1>6 DEF Next, Progress, Stopped

THEOREM FlowInvariance == Spec => [](Types /\ Flow)
<1>1. Init => Flow
  BY DEF Init, Flow
<1>2. Flow /\ Types /\ [Next]_vars => Flow'
  BY FlowStep
<1> QED BY <1>1, <1>2, TypesInvariance, PTL DEF Spec

(* What a step does to what the client has, or will have, of the answer.     *)
Extends(k, n, text) ==
  \A c \in Choice : next'[c].content = IF c = k.choice THEN shown[c].content \o text
                                       ELSE shown[c].content

LEMMA ReceivesContent ==
  ASSUME Types, NEW k \in Chunk, NEW n, NEW text, Receives(k, n, text)
  PROVE  Extends(k, n, text)
BY DEF Types, ViewTypes, Receives, Extends

-----------------------------------------------------------------------------
(* NoticeOnce                                                                *)
NoneIn(s) == \A j \in Positions(s) : s[j] # Notice
AtMostOneIn(s) == \A i, j \in Positions(s) : s[i] = Notice /\ s[j] = Notice => i = j

LEMMA NoticesOfConcat ==
  ASSUME NEW s \in Seq(Token), NEW t \in Seq(Token)
  PROVE  /\ NoneIn(s \o t) <=> NoneIn(s) /\ NoneIn(t)
         /\ NoneIn(s) /\ AtMostOneIn(t) => AtMostOneIn(s \o t)
         /\ AtMostOneIn(s) /\ NoneIn(t) => AtMostOneIn(s \o t)
<1> DEFINE m == Len(s)
           n == Len(t)
           u == s \o t
<1>1. m \in Nat /\ n \in Nat /\ Len(u) = m + n
  BY LenProperties, ConcatProperties
<1>2. \A i \in 1..m+n : u[i] = IF i <= m THEN s[i] ELSE t[i - m]
  BY ConcatProperties
<1> HIDE DEF u
<1>3. /\ \A i \in 1..m : i \in 1..m+n /\ u[i] = s[i]
      /\ \A i \in 1..n : i + m \in 1..m+n /\ u[i + m] = t[i]
      /\ \A i \in 1..m+n : i \in 1..m \/ i - m \in 1..n
  BY <1>1, <1>2
<1>4. NoneIn(u) <=> NoneIn(s) /\ NoneIn(t)
  BY <1>1, <1>2, <1>3 DEF NoneIn, Positions
<1>5. ASSUME NoneIn(s), AtMostOneIn(t) PROVE AtMostOneIn(u)
  <2> SUFFICES ASSUME NEW i \in 1..m+n, NEW j \in 1..m+n, u[i] = Notice, u[j] = Notice
               PROVE  i = j
    BY <1>1 DEF AtMostOneIn, Positions
  <2>0. \A l \in 1..m : s[l] # Notice
    BY <1>5 DEF NoneIn, Positions
  <2>3. \A h \in 1..m+n : u[h] = Notice => h - m \in 1..n /\ t[h - m] = Notice
    <3> SUFFICES ASSUME NEW h \in 1..m+n, u[h] = Notice PROVE h - m \in 1..n /\ t[h - m] = Notice
      OBVIOUS
    <3>1. h \notin 1..m
      BY <1>3, <2>0
    <3> QED BY <1>1, <1>2, <1>3, <3>1
  <2>1. i - m \in 1..n /\ j - m \in 1..n /\ t[i - m] = Notice /\ t[j - m] = Notice
    BY <2>3
  <2>2. i - m = j - m
    BY <1>5, <2>1 DEF AtMostOneIn, Positions
  <2> QED BY <1>1, <2>2
<1>6. ASSUME AtMostOneIn(s), NoneIn(t) PROVE AtMostOneIn(u)
  <2> SUFFICES ASSUME NEW i \in 1..m+n, NEW j \in 1..m+n, u[i] = Notice, u[j] = Notice
               PROVE  i = j
    BY <1>1 DEF AtMostOneIn, Positions
  <2>1. \A l \in 1..n : t[l] # Notice
    BY <1>6 DEF NoneIn, Positions
  <2>2. \A h \in 1..m+n : u[h] = Notice => h \in 1..m /\ s[h] = Notice
    <3> SUFFICES ASSUME NEW h \in 1..m+n, u[h] = Notice PROVE h \in 1..m /\ s[h] = Notice
      OBVIOUS
    <3>1. CASE h \in 1..m
      BY <1>3, <3>1
    <3>2. CASE h \notin 1..m
      <4>1. h - m \in 1..n /\ u[h] = t[h - m]
        BY <1>1, <1>2, <1>3, <3>2
      <4> QED BY <2>1, <4>1
    <3> QED BY <3>1, <3>2
  <2> QED BY <1>6, <2>2 DEF AtMostOneIn, Positions
<1> QED BY <1>4, <1>5, <1>6 DEF u

LEMMA NoticesOfToken ==
  /\ NoneIn(<<>>) /\ AtMostOneIn(<<>>)
  /\ \A x : AtMostOneIn(<<x>>) /\ (NoneIn(<<x>>) <=> x # Notice)
BY DEF NoneIn, AtMostOneIn, Positions

LEMMA NoticesOfText ==
  ASSUME NEW k \in Chunk, NEW n \in 1..MaxLines
  PROVE  /\ NoneIn(Given(k, n))
         /\ NoneIn(WithNotice(k, n)) <=> ~TakesNotice(k)
         /\ AtMostOneIn(WithNotice(k, n))
<1> DEFINE a == IF TakesNotice(k) THEN <<Notice>> ELSE <<>>
<1>1. a \in Seq(Token) /\ Given(k, n) \in Seq(Token)
  BY TokenFacts, SequenceType, TextType
<1>2. NoneIn(Given(k, n))
  BY PieceFacts, NoticesOfToken
<1>3. AtMostOneIn(a) /\ (NoneIn(a) <=> ~TakesNotice(k))
  BY NoticesOfToken
<1>4. WithNotice(k, n) = a \o Given(k, n)
  BY DEF WithNotice
<1> HIDE DEF a
<1> QED BY <1>1, <1>2, <1>3, <1>4, NoticesOfConcat

LEMMA NoticesOfMirrored ==
  ASSUME NEW k \in Chunk, NEW n \in 1..MaxLines, NEW text \in Seq(Token), AtMostOneIn(text)
  PROVE  /\ NoneIn(Mirrored(k, n, text)) <=> NoneIn(text)
         /\ AtMostOneIn(Mirrored(k, n, text))
<1> DEFINE a == IF k.reasoning = "text" /\ k.choice \notin openBlocks THEN <<BlockStart>> ELSE <<>>
           b == IF k.reasoning = "text" THEN <<Thought(n)>> ELSE <<>>
           c == IF Closes(k, text) THEN <<BlockEnd>> ELSE <<>>
<1>1. a \in Seq(Token) /\ b \in Seq(Token) /\ c \in Seq(Token)
  BY TokenFacts, SequenceType
<1>2. NoneIn(a) /\ NoneIn(b) /\ NoneIn(c)
  BY TokensDiffer, NoticesOfToken
<1>3. Mirrored(k, n, text) \in {text, a \o b \o c \o text}
  BY DEF Mirrored
<1> HIDE DEF a, b, c
<1>4. a \o b \in Seq(Token) /\ NoneIn(a \o b)
  BY <1>1, <1>2, SequenceType, NoticesOfConcat
<1>5. a \o b \o c \in Seq(Token) /\ NoneIn(a \o b \o c)
  BY <1>1, <1>2, <1>4, SequenceType, NoticesOfConcat
<1>6. /\ NoneIn(a \o b \o c \o text) <=> NoneIn(text)
      /\ AtMostOneIn(a \o b \o c \o text)
  BY <1>5, NoticesOfConcat
<1> QED BY <1>3, <1>6

(* What a client has of the answer: at most one notice, in one choice.       *)
Once(v) ==
  /\ \A c \in Choice : AtMostOneIn(v[c].content)
  /\ \A c, d \in Choice : ~NoneIn(v[c].content) /\ ~NoneIn(v[d].content) => c = d
Before(v) == \A c \in Choice : NoneIn(v[c].content)

NoticeInv ==
  /\ Once(shown) /\ Once(next)
  /\ notice # "given" => Before(shown) /\ Before(next)
  /\ notice = "given" /\ Aligned => ~Before(next)

LEMMA ExtendedView ==
  ASSUME Types, Once(shown), NEW k \in Chunk, NEW n, NEW text \in Seq(Token),
         Extends(k, n, text), AtMostOneIn(text), NoneIn(text) \/ Before(shown)
  PROVE  Once(next') /\ (Before(next') <=> Before(shown) /\ NoneIn(text))
<1>1. \A c \in Choice : shown[c].content \in Seq(Token)
  BY DEF Types, ViewTypes, Visible
<1>2. ASSUME NEW c \in Choice
      PROVE  /\ NoneIn(next'[c].content)
                <=> NoneIn(shown[c].content) /\ (c = k.choice => NoneIn(text))
             /\ AtMostOneIn(next'[c].content)
  <2>1. CASE c = k.choice
    <3>1. next'[c].content = shown[c].content \o text
      BY <2>1 DEF Extends
    <3>2. AtMostOneIn(shown[c].content)
      BY DEF Once
    <3>3. NoneIn(text) \/ NoneIn(shown[c].content)
      BY DEF Before
    <3> QED BY <1>1, <2>1, <3>1, <3>2, <3>3, NoticesOfConcat
  <2>2. CASE c # k.choice
    BY <2>2 DEF Extends, Once
  <2> QED BY <2>1, <2>2
<1>3. k.choice \in Choice
  BY ChunkFields
<1>4. Before(next') <=> Before(shown) /\ NoneIn(text)
  BY <1>2, <1>3 DEF Before
<1>5. ASSUME NEW c \in Choice, NEW d \in Choice,
             ~NoneIn(next'[c].content), ~NoneIn(next'[d].content)
      PROVE  c = d
  <2>1. CASE NoneIn(text)
    BY <1>2, <1>5, <2>1 DEF Once
  <2>2. CASE Before(shown)
    BY <1>2, <1>5, <2>2 DEF Before
  <2> QED BY <2>1, <2>2
<1>6. Once(next')
  BY <1>2, <1>5 DEF Once
<1> QED BY <1>4, <1>6

LEMMA NoticeRead ==
  ASSUME Types, Flow, NoticeInv, NEW k \in Chunk, ReadChunk(k)
  PROVE  NoticeInv'
<1> DEFINE n == lines + 1
<1>1. n \in 1..MaxLines /\ phase = "reading" /\ next = shown /\ shown' = shown
      /\ Aligned /\ phase' = "yielded" /\ Once(shown)
  BY ConstantFacts DEF ReadChunk, Types, RestTypes, Flow, Aligned, NoticeInv, Yields
<1>2. CASE PassLine(k)
  <2>1. Extends(k, n, Given(k, n)) /\ notice' = notice
    BY <1>2, ReceivesContent DEF PassLine
  <2>2. NoneIn(Given(k, n)) /\ AtMostOneIn(Given(k, n)) /\ Given(k, n) \in Seq(Token)
    BY <1>1, NoticesOfText, TextType DEF NoneIn, AtMostOneIn
  <2>3. Once(next') /\ (Before(next') <=> Before(shown))
    BY <1>1, <2>1, <2>2, ExtendedView
  <2> QED BY <1>1, <2>1, <2>3 DEF NoticeInv, Aligned, Once, Before
<1>3. CASE RewriteLine(k)
  <2> DEFINE text == WithNotice(k, n)
             seen == Mirrored(k, n, text)
  <2>1. Extends(k, n, seen) /\ notice' = IF TakesNotice(k) THEN "given" ELSE notice
    BY <1>3, ReceivesContent DEF RewriteLine
  <2>2. text \in Seq(Token) /\ (NoneIn(text) <=> ~TakesNotice(k)) /\ AtMostOneIn(text)
    BY <1>1, NoticesOfText, TextType
  <2> HIDE DEF text
  <2>3. seen \in Seq(Token) /\ (NoneIn(seen) <=> ~TakesNotice(k)) /\ AtMostOneIn(seen)
    BY <1>1, <2>2, NoticesOfMirrored, MirroredType
  <2> HIDE DEF seen
  <2>4. TakesNotice(k) => notice = "pending" /\ Before(shown)
    BY DEF TakesNotice, NoticeInv
  <2>5. Once(next') /\ (Before(next') <=> Before(shown) /\ NoneIn(seen))
    BY <1>1, <2>1, <2>3, <2>4, ExtendedView
  <2>6. (Once(shown))' /\ (Before(shown) <=> (Before(shown))')
    BY <1>1 DEF Once, Before
  <2>7. notice' # "given" => notice # "given" /\ ~TakesNotice(k)
    BY <2>1
  <2>8. notice' = "given" => TakesNotice(k) \/ notice = "given"
    BY <2>1
  <2> QED BY <1>1, <2>3, <2>5, <2>6, <2>7, <2>8 DEF NoticeInv
<1> QED BY <1>2, <1>3 DEF ReadChunk

LEMMA NoticeDone ==
  ASSUME Types, Flow, NoticeInv, ReadDone
  PROVE  NoticeInv'
<1>1. phase = "reading" /\ next = shown /\ shown' = shown /\ Aligned /\ phase' = "yielded"
      /\ notice' = IF notice = "pending" THEN "given" ELSE notice
  BY DEF ReadDone, Flow, Aligned, Yields
<1>2. ASSUME NEW c \in Choice
      PROVE  /\ NoneIn(next'[c].content)
                <=> NoneIn(shown[c].content) /\ ~(c = 0 /\ notice = "pending")
             /\ AtMostOneIn(next'[c].content)
  <2> DEFINE s == shown[c].content
             a == FlushedBlock(c)
             b == NoticeChunk(c)
  <2>1. s \in Seq(Token) /\ AtMostOneIn(s) /\ (notice = "pending" => NoneIn(s))
    BY DEF Types, ViewTypes, Visible, NoticeInv, Once, Before
  <2>2. a \in Seq(Token) /\ NoneIn(a)
    BY TokenFacts, TokensDiffer, SequenceType, NoticesOfToken DEF FlushedBlock
  <2>3. b \in Seq(Token) /\ (NoneIn(b) <=> ~(c = 0 /\ notice = "pending")) /\ AtMostOneIn(b)
    BY TokenFacts, SequenceType, NoticesOfToken DEF NoticeChunk
  <2>4. next'[c].content = s \o a \o b
    BY DEF ReadDone, Types, ViewTypes, Visible
  <2> HIDE DEF s, a, b
  <2>5. s \o a \in Seq(Token) /\ AtMostOneIn(s \o a) /\ (NoneIn(s \o a) <=> NoneIn(s))
    BY <2>1, <2>2, NoticesOfConcat, SequenceType
  <2>6. NoneIn(s \o a \o b) <=> NoneIn(s) /\ NoneIn(b)
    BY <2>3, <2>5, NoticesOfConcat
  <2>7. AtMostOneIn(s \o a \o b)
    <3>1. NoneIn(s \o a) \/ NoneIn(b)
      BY <2>1, <2>3, <2>5
    <3> QED BY <2>3, <2>5, <3>1, NoticesOfConcat
  <2> QED BY <2>3, <2>4, <2>6, <2>7 DEF s
<1>3. Once(next')
  <2>1. ASSUME NEW c \in Choice, NEW d \in Choice,
               ~NoneIn(next'[c].content), ~NoneIn(next'[d].content)
        PROVE  c = d
    <3>1. CASE notice = "pending"
      BY <1>2, <2>1, <3>1 DEF NoticeInv, Before
    <3>2. CASE notice # "pending"
      BY <1>2, <2>1, <3>2 DEF NoticeInv, Once
    <3> QED BY <3>1, <3>2
  <2> QED BY <1>2, <2>1 DEF Once
<1>4. Before(next') <=> Before(shown) /\ notice # "pending"
  BY <1>2, ConstantFacts DEF Before
<1>5. (Once(shown))' /\ (Before(shown) <=> (Before(shown))')
  BY <1>1 DEF Once, Before, NoticeInv
<1> QED BY <1>1, <1>3, <1>4, <1>5 DEF NoticeInv

LEMMA NoticeStep ==
  ASSUME Types, Flow, NoticeInv, [Next]_vars
  PROVE  NoticeInv'
<1>1. ASSUME NEW k \in Chunk, ReadChunk(k) PROVE NoticeInv'
  BY <1>1, NoticeRead
<1>2. CASE ReadDone
  BY <1>2, NoticeDone
<1>3. CASE /\ UNCHANGED notice
           /\ shown' = shown \/ shown' = next
           /\ next' = shown \/ next' = next
           /\ Aligned' => Aligned /\ next' = next
  <2>1. (Once(shown))' /\ (Once(next))'
    BY <1>3 DEF NoticeInv, Once
  <2>2. Before(shown) /\ Before(next) => (Before(shown))' /\ (Before(next))'
    BY <1>3 DEF Before
  <2>3. Aligned' /\ ~Before(next) => ~(Before(next))'
    BY <1>3 DEF Before
  <2> HIDE DEF Aligned
  <2> QED BY <1>3, <2>1, <2>2, <2>3 DEF NoticeInv
<1>4. CASE Connect \/ Retry \/ NoAnswer \/ Break \/ Abandon \/ EndOfStream \/ Cancel \/ Collect
  <2>1. /\ UNCHANGED <<notice, shown>>
        /\ next' = shown \/ next' = next
    BY <1>4 DEF Connect, Retry, NoAnswer, Break, YieldError, Abandon, EndOfStream, Cancel, Collect,
                Finally, view
  <2>2. Aligned' => Aligned /\ next' = next
    BY <1>4 DEF Connect, Retry, NoAnswer, Break, YieldError, Yields, Abandon, EndOfStream, Cancel,
                Collect, Finally, view, Aligned, Flow
  <2> QED BY <1>3, <2>1, <2>2
<1>5. CASE Deliver
  <2>1. notice' = notice /\ shown' = next /\ next' = next /\ Aligned
    BY <1>5 DEF Deliver, Finally, Aligned
  <2> QED BY <1>3, <2>1
<1>6. CASE UNCHANGED vars
  BY <1>3, <1>6 DEF vars, view, Aligned
<1> QED BY <1>1, <1>2, <1>4, <1>5, <1>6 DEF Next, Progress, Stopped

(* The client sees the notice at most once over all lines and choices, never *)
(* without a recovery, and a stream that ends with [DONE] has brought it.    *)
THEOREM NoticeComesOnce == Spec => []NoticeOnce
<1>1. Init => NoticeInv
  <2> SUFFICES ASSUME Init PROVE NoticeInv
    OBVIOUS
  <2>1. \A c \in Choice : shown[c].content = <<>> /\ next[c].content = <<>>
    BY DEF Init, Nothing
  <2>2. notice # "given"
    BY DEF Init
  <2> QED BY <2>1, <2>2, NoticesOfToken DEF NoticeInv, Once, Before
<1>2. Types /\ Flow /\ NoticeInv /\ [Next]_vars => NoticeInv'
  BY NoticeStep
<1>3. ASSUME Types, Flow, NoticeInv PROVE NoticeOnce
  <2> DEFINE notices(s) == {j \in Positions(s) : s[j] = Notice}
             given == UNION {{c} \X notices(shown[c].content) : c \in Choice}
  <2>1. \A x, y \in given : x = y
    <3>1. ASSUME NEW c \in Choice, NEW d \in Choice,
                 NEW i \in notices(shown[c].content), NEW j \in notices(shown[d].content)
          PROVE  c = d /\ i = j
      <4>1. c = d
        BY <1>3, <3>1 DEF NoticeInv, Once, NoneIn
      <4>2. AtMostOneIn(shown[c].content)
        BY <1>3 DEF NoticeInv, Once
      <4> QED BY <3>1, <4>1, <4>2 DEF AtMostOneIn
    <3> HIDE DEF notices
    <3>2. \A x \in given : \E c \in Choice : \E i \in notices(shown[c].content) : x = <<c, i>>
      OBVIOUS
    <3> QED BY <3>1, <3>2
  <2>2. notice # "given" => given = {}
    BY <1>3 DEF NoticeInv, Before, NoneIn
  <2>3. finalized /\ outcome = "completed" /\ notice # "none" => given # {}
    <3> SUFFICES ASSUME finalized, outcome = "completed", notice # "none" PROVE given # {}
      OBVIOUS
    <3>1. notice = "given" /\ Aligned /\ next = shown
      BY <1>3 DEF NoticeInv, Flow, Aligned, Types, ViewTypes
    <3>2. PICK c \in Choice : ~NoneIn(shown[c].content)
      BY <1>3, <3>1 DEF NoticeInv, Before
    <3>3. PICK j \in Positions(shown[c].content) : shown[c].content[j] = Notice
      BY <3>2 DEF NoneIn
    <3>4. <<c, j>> \in given
      BY <3>3
    <3> QED BY <3>4
  <2> HIDE DEF given
  <2>4. Cardinality(given) <= 1
    <3>1. CASE given = {}
      BY <3>1, FS_EmptySet
    <3>2. CASE given # {}
      <4>1. PICK x : x \in given
        BY <3>2
      <4>2. given = {x}
        BY <2>1, <4>1
      <4>3. Cardinality({x}) = 1
        BY FS_Singleton
      <4> QED BY <4>2, <4>3
    <3> QED BY <3>1, <3>2
  <2>5. Cardinality(given) <= (IF notice = "none" THEN 0 ELSE 1)
    BY <2>2, <2>4, FS_EmptySet
  <2> QED BY <2>3, <2>5 DEF NoticeOnce, given
<1>4. Types /\ Flow /\ NoticeInv => NoticeOnce
  BY <1>3
<1> QED BY <1>1, <1>2, <1>4, FlowInvariance, PTL DEF Spec

-----------------------------------------------------------------------------
(* ThinkingIsBracketed                                                       *)
Balance(s, j) == Count(SubSeq(s, 1, j), BlockStart) - Count(SubSeq(s, 1, j), BlockEnd)
IsInside(t) == t = BlockStart \/ t \in {Thought(n) : n \in 1..MaxLines}

(* Is the text well bracketed, with a block open at its end or with none?    *)
Bracketed(s, open) ==
  /\ \A j \in Positions(s) : Balance(s, j) = IF IsInside(s[j]) THEN 1 ELSE 0
  /\ Balance(s, Len(s)) = IF open THEN 1 ELSE 0

LEMMA CountOfAppend ==
  ASSUME NEW s \in Seq(Token), NEW t \in Token, NEW x
  PROVE  /\ Count(s, x) \in Nat
         /\ Count(s \o <<t>>, x) = IF t = x THEN 1 + Count(s, x) ELSE Count(s, x)
<1> DEFINE n == Len(s)
           u == s \o <<t>>
           S == {j \in 1..n : s[j] = x}
           U == {j \in 1..n+1 : u[j] = x}
<1>1. n \in Nat /\ <<t>> \in Seq(Token) /\ Len(<<t>>) = 1
  BY LenProperties
<1>2. Len(u) = n + 1 /\ \A i \in 1..n+1 : u[i] = IF i <= n THEN s[i] ELSE <<t>>[i - n]
  BY <1>1, ConcatProperties
<1>3. u[n + 1] = t /\ \A i \in 1..n : u[i] = s[i]
  BY <1>1, <1>2
<1> HIDE DEF u
<1>4. IsFiniteSet(S) /\ Cardinality(S) \in Nat
  <2>1. IsFiniteSet(1..n)
    BY <1>1, FS_Interval
  <2>2. S \subseteq 1..n
    OBVIOUS
  <2> QED BY <2>1, <2>2, FS_Subset, FS_CardinalityType
<1>5. U = IF t = x THEN S \cup {n + 1} ELSE S
  BY <1>1, <1>3
<1>6. n + 1 \notin S
  BY <1>1
<1>7. Count(s, x) = Cardinality(S) /\ Count(u, x) = Cardinality(U)
  BY <1>2 DEF Count, Positions
<1> HIDE DEF S, U
<1>8. Cardinality(S \cup {n + 1}) = Cardinality(S) + 1
  BY <1>4, <1>6, FS_AddElement, Zenon
<1> QED BY <1>4, <1>5, <1>7, <1>8 DEF u

LEMMA BalanceOfAppend ==
  ASSUME NEW s \in Seq(Token), NEW t \in Token
  PROVE  /\ \A j \in Positions(s) : Balance(s \o <<t>>, j) = Balance(s, j)
         /\ Balance(s, Len(s)) \in Int
         /\ Balance(s \o <<t>>, Len(s) + 1) =
              IF t = BlockStart THEN Balance(s, Len(s)) + 1
              ELSE IF t = BlockEnd THEN Balance(s, Len(s)) - 1 ELSE Balance(s, Len(s))
<1> DEFINE n == Len(s)
           u == s \o <<t>>
<1>1. n \in Nat /\ <<t>> \in Seq(Token) /\ Len(<<t>>) = 1
  BY LenProperties
<1>2. u \in Seq(Token) /\ Len(u) = n + 1
  BY <1>1, ConcatProperties
<1>3. \A j \in 1..n : SubSeq(u, 1, j) = SubSeq(s, 1, j)
  BY <1>1, SubSeqOfConcat1
<1>4. SubSeq(u, 1, n + 1) = u /\ SubSeq(s, 1, n) = s
  BY <1>2, SubSeqFull
<1>5. /\ Count(s, BlockStart) \in Nat /\ Count(s, BlockEnd) \in Nat
      /\ Count(u, BlockStart) = IF t = BlockStart THEN 1 + Count(s, BlockStart) ELSE Count(s, BlockStart)
      /\ Count(u, BlockEnd) = IF t = BlockEnd THEN 1 + Count(s, BlockEnd) ELSE Count(s, BlockEnd)
  BY CountOfAppend
<1> HIDE DEF u
<1>6. \A j \in 1..n : Balance(u, j) = Balance(s, j)
  BY <1>3 DEF Balance
<1>7. Balance(s, n) = Count(s, BlockStart) - Count(s, BlockEnd)
      /\ Balance(u, n + 1) = Count(u, BlockStart) - Count(u, BlockEnd)
  BY <1>4 DEF Balance
<1> QED BY <1>5, <1>6, <1>7, TokensDiffer DEF u, Positions

(* A token goes well after a text that is bracketed: reasoning and the end   *)
(* of a block in an open block, the rest outside one.                        *)
LEMMA BracketedAppend ==
  ASSUME NEW s \in Seq(Token), NEW t \in Token
  PROVE  /\ t = BlockStart /\ Bracketed(s, FALSE) => Bracketed(s \o <<t>>, TRUE)
         /\ t = BlockEnd /\ Bracketed(s, TRUE) => Bracketed(s \o <<t>>, FALSE)
         /\ IsInside(t) /\ t # BlockStart /\ Bracketed(s, TRUE) => Bracketed(s \o <<t>>, TRUE)
         /\ ~IsInside(t) /\ t # BlockEnd /\ Bracketed(s, FALSE) => Bracketed(s \o <<t>>, FALSE)
<1> DEFINE n == Len(s)
           u == s \o <<t>>
<1>1. n \in Nat /\ <<t>> \in Seq(Token) /\ Len(<<t>>) = 1
  BY LenProperties
<1>2. Len(u) = n + 1 /\ \A i \in 1..n+1 : u[i] = IF i <= n THEN s[i] ELSE <<t>>[i - n]
  BY <1>1, ConcatProperties
<1>3. u[n + 1] = t /\ \A i \in 1..n : u[i] = s[i]
  BY <1>1, <1>2
<1>4. /\ \A j \in 1..n : Balance(u, j) = Balance(s, j)
      /\ Balance(s, n) \in Int
      /\ Balance(u, n + 1) = IF t = BlockStart THEN Balance(s, n) + 1
                             ELSE IF t = BlockEnd THEN Balance(s, n) - 1 ELSE Balance(s, n)
  BY BalanceOfAppend DEF Positions
<1> HIDE DEF u
<1>5. ASSUME \A j \in 1..n : Balance(s, j) = IF IsInside(s[j]) THEN 1 ELSE 0,
             Balance(u, n + 1) = IF IsInside(t) THEN 1 ELSE 0
      PROVE  \A j \in Positions(u) : Balance(u, j) = IF IsInside(u[j]) THEN 1 ELSE 0
  <2> SUFFICES ASSUME NEW j \in 1..n+1
               PROVE  Balance(u, j) = IF IsInside(u[j]) THEN 1 ELSE 0
    BY <1>2 DEF Positions
  <2>1. CASE j \in 1..n
    BY <1>3, <1>4, <1>5, <2>1
  <2>2. CASE j = n + 1
    BY <1>3, <1>5, <2>2
  <2> QED BY <1>1, <2>1, <2>2
<1>6. ASSUME NEW open \in BOOLEAN, Bracketed(s, open)
      PROVE  /\ \A j \in 1..n : Balance(s, j) = IF IsInside(s[j]) THEN 1 ELSE 0
             /\ Balance(s, n) = IF open THEN 1 ELSE 0
  BY <1>6 DEF Bracketed, Positions
<1>7. BlockEnd # BlockStart /\ ~IsInside(BlockEnd) /\ IsInside(BlockStart)
  BY TokensDiffer DEF IsInside
<1>8. ASSUME t = BlockStart, Bracketed(s, FALSE) PROVE Bracketed(u, TRUE)
  <2>0. Balance(s, n) = 0
    BY <1>6, <1>8
  <2>1. Balance(u, n + 1) = 1
    BY <1>4, <1>8, <2>0
  <2> QED BY <1>2, <1>5, <1>6, <1>7, <1>8, <2>1 DEF Bracketed
<1>9. ASSUME t = BlockEnd, Bracketed(s, TRUE) PROVE Bracketed(u, FALSE)
  <2>0. Balance(s, n) = 1
    BY <1>6, <1>9
  <2>1. Balance(u, n + 1) = 0
    BY <1>4, <1>7, <1>9, <2>0
  <2> QED BY <1>2, <1>5, <1>6, <1>7, <1>9, <2>1 DEF Bracketed
<1>10. ASSUME IsInside(t), t # BlockStart, Bracketed(s, TRUE) PROVE Bracketed(u, TRUE)
  <2>1. Balance(u, n + 1) = 1
    BY <1>4, <1>6, <1>7, <1>10
  <2> QED BY <1>2, <1>5, <1>6, <1>7, <1>10, <2>1 DEF Bracketed
<1>11. ASSUME ~IsInside(t), t # BlockEnd, Bracketed(s, FALSE) PROVE Bracketed(u, FALSE)
  <2>1. Balance(u, n + 1) = 0
    BY <1>4, <1>6, <1>7, <1>11
  <2> QED BY <1>2, <1>5, <1>6, <1>7, <1>11, <2>1 DEF Bracketed
<1> QED BY <1>8, <1>9, <1>10, <1>11 DEF u

(* The empty text leaves everything as it is.                                *)
LEMMA NothingAdded ==
  ASSUME NEW s \in Seq(Token)
  PROVE  s \o <<>> = s
BY ConcatEmptySeq

LEMMA BracketedText ==
  ASSUME NEW k \in Chunk, NEW n \in 1..MaxLines, NEW s \in Seq(Token), Bracketed(s, FALSE)
  PROVE  Bracketed(s \o Given(k, n), FALSE) /\ Bracketed(s \o WithNotice(k, n), FALSE)
<1> DEFINE a == IF TakesNotice(k) THEN <<Notice>> ELSE <<>>
           b == Given(k, n)
<1> DEFINE piece == Piece(k, n)
<1>1. \A t \in {Notice, piece} : t \in Token /\ ~IsInside(t) /\ t # BlockEnd
  <2>1. Notice \in Token /\ ~IsInside(Notice) /\ Notice # BlockEnd
    BY TokenFacts, TokensDiffer DEF IsInside
  <2>2. piece \in Token /\ ~IsInside(piece) /\ piece # BlockEnd
    BY PieceFacts DEF IsInside
  <2> QED BY <2>1, <2>2
<1>2. a \in {<<>>, <<Notice>>} /\ b \in {<<>>, <<piece>>}
  BY PieceFacts
<1>3. a \in Seq(Token) /\ b \in Seq(Token)
  BY <1>1, <1>2, SequenceType
<1>4. WithNotice(k, n) = a \o b
  BY DEF WithNotice
<1> HIDE DEF a, b, piece
<1>5. ASSUME NEW r \in Seq(Token), Bracketed(r, FALSE), NEW x,
             x \in {<<>>, <<Notice>>, <<piece>>}
      PROVE  Bracketed(r \o x, FALSE)
  <2>1. CASE x = <<>>
    BY <1>5, <2>1, NothingAdded
  <2>2. CASE x \in {<<Notice>>, <<piece>>}
    <3>1. PICK t \in {Notice, piece} : x = <<t>>
      BY <2>2
    <3>2. t \in Token /\ ~IsInside(t) /\ t # BlockEnd
      BY <1>1
    <3> QED BY <1>5, <3>1, <3>2, BracketedAppend
  <2> QED BY <1>5, <2>1, <2>2
<1>6. Bracketed(s \o a, FALSE) /\ s \o a \in Seq(Token)
  BY <1>2, <1>3, <1>5, SequenceType
<1>7. Bracketed((s \o a) \o b, FALSE)
  BY <1>2, <1>5, <1>6
<1>8. (s \o a) \o b = s \o (a \o b)
  BY <1>3, ConcatAssociative
<1>9. Bracketed(s \o b, FALSE)
  BY <1>2, <1>5
<1> QED BY <1>4, <1>7, <1>8, <1>9 DEF b

LEMMA Regroup ==
  ASSUME NEW s \in Seq(Token), NEW a \in Seq(Token), NEW b \in Seq(Token)
  PROVE  (s \o a) \o b = s \o (a \o b)
BY ConcatAssociative

(* Concatenation is associative, as predicates that Zenon instantiates.      *)
Joins(s, a, b) == (s \o a) \o b = s \o (a \o b)
Regroups(s, a, b, c, d) == (((s \o a) \o b) \o c) \o d = s \o (((a \o b) \o c) \o d)

LEMMA JoinAll == \A s, a, b \in Seq(Token) : Joins(s, a, b)
<1> TAKE s, a, b \in Seq(Token)
<1> QED BY Regroup, Zenon DEF Joins

LEMMA RegroupAll == \A s, a, b, c, d \in Seq(Token) : Regroups(s, a, b, c, d)
<1> TAKE s, a, b, c, d \in Seq(Token)
<1>1. a \o b \in Seq(Token) /\ (a \o b) \o c \in Seq(Token)
  BY SequenceType
<1>2. Joins(s, a, b) /\ Joins(s, a \o b, c) /\ Joins(s, (a \o b) \o c, d)
  BY <1>1, JoinAll, Zenon
<1>3. (((s \o a) \o b) \o c) \o d = ((s \o (a \o b)) \o c) \o d
  BY <1>2, Zenon DEF Joins
<1>4. ((s \o (a \o b)) \o c) \o d = (s \o ((a \o b) \o c)) \o d
  BY <1>2, Zenon DEF Joins
<1>5. (s \o ((a \o b) \o c)) \o d = s \o (((a \o b) \o c) \o d)
  BY <1>2, Zenon DEF Joins
<1> QED BY <1>3, <1>4, <1>5, Zenon DEF Regroups

LEMMA BracketedMirrored ==
  ASSUME NEW k \in Chunk, NEW n \in 1..MaxLines, NEW s \in Seq(Token),
         Bracketed(s, k.choice \in openBlocks), display \in BOOLEAN,
         ~display => openBlocks = {}, RewriteLine(k), n = lines + 1
  PROVE  Bracketed(s \o Mirrored(k, n, WithNotice(k, n)), k.choice \in openBlocks')
<1> DEFINE text == WithNotice(k, n)
           a == IF k.reasoning = "text" /\ k.choice \notin openBlocks THEN <<BlockStart>> ELSE <<>>
           b == IF k.reasoning = "text" THEN <<Thought(n)>> ELSE <<>>
           c == IF Closes(k, text) THEN <<BlockEnd>> ELSE <<>>
<1>1. text \in Seq(Token) /\ a \in Seq(Token) /\ b \in Seq(Token) /\ c \in Seq(Token)
  BY TokenFacts, SequenceType, TextType
<1>2. k.choice \in openBlocks' <=> display /\ IsOpenAfter(k) /\ ~Closes(k, text)
  <2>1. openBlocks' = IF ~display THEN {}
                      ELSE IF Closes(k, text) THEN openBlocks \ {k.choice}
                      ELSE IF IsOpenAfter(k) THEN openBlocks \cup {k.choice} ELSE openBlocks
    BY DEF RewriteLine
  <2> QED BY <2>1 DEF IsOpenAfter, Closes
<1>3. CASE ~display
  <2>1. Mirrored(k, n, text) = text
    BY <1>3 DEF Mirrored
  <2>2. (k.choice \in openBlocks) = FALSE /\ (k.choice \in openBlocks') = FALSE
    BY <1>2, <1>3
  <2>3. Bracketed(s, FALSE)
    BY <2>2
  <2> QED BY <2>1, <2>2, <2>3, BracketedText
<1>4. CASE display
  <2>1. Mirrored(k, n, text) = a \o b \o c \o text
    BY <1>4 DEF Mirrored
  <2>2. /\ ~IsOpenAfter(k) => a = <<>> /\ b = <<>> /\ c = <<>> /\ k.choice \notin openBlocks
        /\ IsOpenAfter(k) /\ ~Closes(k, text) => text = <<>>
        /\ Closes(k, text) => IsOpenAfter(k)
        /\ IsOpenAfter(k) => k.choice \in openBlocks \/ k.reasoning = "text"
    BY DEF IsOpenAfter, Closes
  <2>3. IsInside(Thought(n)) /\ Thought(n) # BlockStart /\ {Thought(n), BlockStart, BlockEnd} \subseteq Token
    BY TokenFacts, TokensDiffer DEF IsInside
  <2>4. Bracketed(s \o a, IsOpenAfter(k)) /\ s \o a \in Seq(Token)
    <3>1. CASE k.reasoning = "text" /\ k.choice \notin openBlocks
      <4>1. Bracketed(s, FALSE) /\ Bracketed(s \o <<BlockStart>>, TRUE)
        <5>1. (k.choice \in openBlocks) = FALSE
          BY <3>1
        <5>2. Bracketed(s, FALSE)
          BY <5>1
        <5> QED BY <2>3, <5>2, BracketedAppend
      <4>2. IsOpenAfter(k) = TRUE /\ a = <<BlockStart>>
        BY <3>1 DEF IsOpenAfter
      <4> QED BY <1>1, <4>1, <4>2, SequenceType
    <3>2. CASE ~(k.reasoning = "text" /\ k.choice \notin openBlocks)
      <4>1. a = <<>> /\ IsOpenAfter(k) = (k.choice \in openBlocks)
        BY <3>2 DEF IsOpenAfter
      <4> QED BY <4>1, NothingAdded
    <3> QED BY <3>1, <3>2
  <2>5. Bracketed((s \o a) \o b, IsOpenAfter(k)) /\ (s \o a) \o b \in Seq(Token)
    <3>1. CASE k.reasoning = "text"
      <4>1. IsOpenAfter(k) = TRUE /\ b = <<Thought(n)>>
        BY <3>1 DEF IsOpenAfter
      <4> HIDE DEF a, b
      <4>2. Bracketed(s \o a, TRUE)
        BY <2>4, <4>1
      <4>3. Bracketed((s \o a) \o <<Thought(n)>>, TRUE)
        BY <2>3, <2>4, <4>2, BracketedAppend
      <4> QED BY <1>1, <2>4, <4>1, <4>3, SequenceType
    <3>2. CASE k.reasoning # "text"
      <4>1. b = <<>>
        BY <3>2
      <4> HIDE DEF a, b
      <4> QED BY <2>4, <4>1, NothingAdded
    <3> QED BY <3>1, <3>2
  <2> DEFINE open == IsOpenAfter(k) /\ ~Closes(k, text)
  <2>6. Bracketed(((s \o a) \o b) \o c, open) /\ ((s \o a) \o b) \o c \in Seq(Token)
    <3>1. CASE Closes(k, text)
      <4>1. IsOpenAfter(k) = TRUE /\ open = FALSE /\ c = <<BlockEnd>>
        BY <2>2, <3>1
      <4> HIDE DEF a, b, c, open, text
      <4>2. Bracketed((s \o a) \o b, TRUE)
        BY <2>5, <4>1
      <4>3. Bracketed(((s \o a) \o b) \o <<BlockEnd>>, FALSE)
        BY <2>3, <2>5, <4>2, BracketedAppend
      <4> QED BY <1>1, <2>5, <4>1, <4>3, SequenceType
    <3>2. CASE ~Closes(k, text)
      <4>1. c = <<>> /\ open = IsOpenAfter(k)
        BY <3>2 DEF IsOpenAfter
      <4> HIDE DEF a, b, c, open
      <4> QED BY <2>5, <4>1, NothingAdded
    <3> QED BY <3>1, <3>2
  <2>7. Bracketed((((s \o a) \o b) \o c) \o text, open)
    <3>1. CASE open
      <4>1. text = <<>>
        BY <2>2, <3>1
      <4> HIDE DEF a, b, c, open, text
      <4> QED BY <2>6, <4>1, NothingAdded
    <3>2. CASE ~open
      <4>1. open = FALSE
        BY <3>2
      <4> HIDE DEF a, b, c, open
      <4>2. Bracketed(((s \o a) \o b) \o c, FALSE)
        BY <2>6, <4>1
      <4>3. Bracketed((((s \o a) \o b) \o c) \o WithNotice(k, n), FALSE)
        BY <2>6, <4>2, BracketedText
      <4> QED BY <4>1, <4>3
    <3> QED BY <3>1, <3>2
  <2>8. (k.choice \in openBlocks') = open
    BY <1>2, <1>4
  <2> HIDE DEF a, b, c, open, text
  <2>9. (((s \o a) \o b) \o c) \o text = s \o (((a \o b) \o c) \o text)
    <3>1. Regroups(s, a, b, c, text)
      BY <1>1, RegroupAll, Zenon
    <3> QED BY <3>1, Zenon DEF Regroups
  <2> QED BY <2>1, <2>7, <2>8, <2>9 DEF text
<1> QED BY <1>3, <1>4

BracketInv ==
  /\ \A c \in Choice : \E open \in BOOLEAN : Bracketed(shown[c].content, open)
  /\ \A c \in Choice : \E open \in BOOLEAN : Bracketed(next[c].content, open)
  /\ Aligned => \A c \in Choice : Bracketed(next[c].content, c \in openBlocks)

LEMMA BracketRead ==
  ASSUME Types, Flow, BracketInv, NEW k \in Chunk, ReadChunk(k)
  PROVE  BracketInv'
<1> DEFINE n == lines + 1
<1>1. n \in 1..MaxLines /\ phase = "reading" /\ next = shown /\ shown' = shown
      /\ Aligned /\ display \in BOOLEAN /\ (~display => openBlocks = {})
  BY ConstantFacts DEF ReadChunk, Types, RestTypes, Flow, Aligned
<1>2. \A c \in Choice : shown[c].content \in Seq(Token) /\ Bracketed(shown[c].content, c \in openBlocks)
  BY <1>1 DEF Types, ViewTypes, Visible, BracketInv
<1>3. ASSUME NEW c \in Choice
      PROVE  Bracketed(next'[c].content, c \in openBlocks')
  <2>1. CASE PassLine(k)
    <3>1. Extends(k, n, Given(k, n)) /\ openBlocks' = openBlocks
      BY <2>1, ReceivesContent DEF PassLine
    <3>2. CASE c = k.choice
      <4>1. (c \in openBlocks) = FALSE
        BY <1>1, <2>1 DEF PassLine, PassesThrough
      <4>2. Bracketed(shown[c].content, FALSE)
        BY <1>2, <4>1
      <4>3. Bracketed(shown[c].content \o Given(k, n), FALSE)
        BY <1>1, <1>2, <4>2, BracketedText
      <4> QED BY <3>1, <3>2, <4>1, <4>3 DEF Extends
    <3>3. CASE c # k.choice
      BY <1>2, <3>1, <3>3 DEF Extends
    <3> QED BY <3>2, <3>3
  <2>2. CASE RewriteLine(k)
    <3>1. Extends(k, n, Mirrored(k, n, WithNotice(k, n)))
      BY <2>2, ReceivesContent DEF RewriteLine
    <3>2. CASE c = k.choice
      <4>1. Bracketed(shown[c].content \o Mirrored(k, n, WithNotice(k, n)), c \in openBlocks')
        BY <1>1, <1>2, <2>2, <3>2, BracketedMirrored
      <4> QED BY <3>1, <3>2, <4>1 DEF Extends
    <3>3. CASE c # k.choice
      <4>1. (c \in openBlocks') = (c \in openBlocks)
        BY <1>1, <2>2, <3>3 DEF RewriteLine
      <4>2. next'[c].content = shown[c].content
        BY <3>1, <3>3 DEF Extends
      <4> QED BY <1>2, <4>1, <4>2
    <3> QED BY <3>2, <3>3
  <2> QED BY <2>1, <2>2 DEF ReadChunk
<1>4. \A c \in Choice : \E open \in BOOLEAN : Bracketed(next'[c].content, open)
  <2> SUFFICES ASSUME NEW c \in Choice
               PROVE  \E open \in BOOLEAN : Bracketed(next'[c].content, open)
    OBVIOUS
  <2> WITNESS (c \in openBlocks') \in BOOLEAN
  <2> QED BY <1>3
<1> QED BY <1>1, <1>3, <1>4 DEF BracketInv

LEMMA BracketDone ==
  ASSUME Types, Flow, BracketInv, ReadDone
  PROVE  BracketInv'
<1>1. phase = "reading" /\ next = shown /\ shown' = shown /\ Aligned /\ openBlocks' = {}
  BY DEF ReadDone, Flow, Aligned
<1>2. ASSUME NEW c \in Choice
      PROVE  Bracketed(next'[c].content, FALSE)
  <2> DEFINE s == shown[c].content
             a == FlushedBlock(c)
             b == NoticeChunk(c)
  <2>1. s \in Seq(Token) /\ Bracketed(s, c \in openBlocks)
    BY <1>1 DEF Types, ViewTypes, Visible, BracketInv
  <2>2. next'[c].content = s \o a \o b
    BY DEF ReadDone, Types, ViewTypes, Visible
  <2>3. a \in Seq(Token) /\ b \in {<<>>, <<Notice>>}
    BY TokenFacts, SequenceType DEF FlushedBlock, NoticeChunk
  <2>4. Bracketed(s \o a, FALSE)
    <3> HIDE DEF s
    <3>1. CASE c \in openBlocks
      <4>1. (c \in openBlocks) = TRUE /\ a = <<BlockEnd>>
        BY <3>1 DEF FlushedBlock
      <4>2. Bracketed(s, TRUE)
        BY <2>1, <4>1
      <4> QED BY <2>1, <4>1, <4>2, TokenFacts, BracketedAppend
    <3>2. CASE c \notin openBlocks
      <4>1. (c \in openBlocks) = FALSE /\ a = <<>>
        BY <3>2 DEF FlushedBlock
      <4>2. Bracketed(s, FALSE)
        BY <2>1, <4>1
      <4> QED BY <2>1, <4>1, <4>2, NothingAdded
    <3> QED BY <3>1, <3>2
  <2> HIDE DEF s, a, b
  <2>5. s \o a \in Seq(Token)
    BY <2>1, <2>3, SequenceType
  <2>6. ~IsInside(Notice) /\ Notice # BlockEnd
    BY TokensDiffer DEF IsInside
  <2>7. CASE b = <<>>
    BY <2>2, <2>4, <2>5, <2>7, NothingAdded
  <2>8. CASE b = <<Notice>>
    BY <2>2, <2>4, <2>5, <2>6, <2>8, TokenFacts, BracketedAppend
  <2> QED BY <2>3, <2>7, <2>8
<1>3. \A c \in Choice : (c \in openBlocks') = FALSE
  BY <1>1
<1>4. \A c \in Choice : Bracketed(next'[c].content, c \in openBlocks')
  BY <1>2, <1>3
<1>5. \A c \in Choice : \E open \in BOOLEAN : Bracketed(next'[c].content, open)
  BY <1>2
<1> QED BY <1>1, <1>4, <1>5 DEF BracketInv

LEMMA BracketStep ==
  ASSUME Types, Flow, BracketInv, [Next]_vars
  PROVE  BracketInv'
<1>1. ASSUME NEW k \in Chunk, ReadChunk(k) PROVE BracketInv'
  BY <1>1, BracketRead
<1>2. CASE ReadDone
  BY <1>2, BracketDone
<1>3. CASE /\ UNCHANGED openBlocks
           /\ shown' = shown \/ shown' = next
           /\ next' = shown \/ next' = next
           /\ Aligned' => Aligned /\ next' = next
  <2> HIDE DEF Aligned
  <2> QED BY <1>3 DEF BracketInv
<1>4. CASE Connect \/ Retry \/ NoAnswer \/ Break \/ Abandon \/ EndOfStream \/ Cancel \/ Collect
  <2>1. /\ UNCHANGED <<openBlocks, shown>>
        /\ next' = shown \/ next' = next
    BY <1>4 DEF Connect, Retry, NoAnswer, Break, YieldError, Abandon, EndOfStream, Cancel, Collect,
                Finally, view
  <2>2. Aligned' => Aligned /\ next' = next
    BY <1>4 DEF Connect, Retry, NoAnswer, Break, YieldError, Yields, Abandon, EndOfStream, Cancel,
                Collect, Finally, view, Aligned, Flow
  <2> QED BY <1>3, <2>1, <2>2
<1>5. CASE Deliver
  <2>1. openBlocks' = openBlocks /\ shown' = next /\ next' = next /\ Aligned
    BY <1>5 DEF Deliver, Finally, Aligned
  <2> QED BY <1>3, <2>1
<1>6. CASE UNCHANGED vars
  BY <1>3, <1>6 DEF vars, view, Aligned
<1> QED BY <1>1, <1>2, <1>4, <1>5, <1>6 DEF Next, Progress, Stopped

(* Reasoning reaches the client inside thinking blocks and nothing else      *)
(* does, whichever lines are rewritten, and [DONE] leaves no block open.     *)
THEOREM ThinkingStaysBracketed == Spec => []ThinkingIsBracketed
<1>1. Init => BracketInv
  <2> SUFFICES ASSUME Init PROVE BracketInv
    OBVIOUS
  <2>1. \A c \in Choice : shown[c].content = <<>> /\ next[c].content = <<>>
        /\ (c \in openBlocks) = FALSE
    BY DEF Init, Nothing
  <2>2. Bracketed(<<>>, FALSE)
    <3>1. SubSeq(<<>>, 1, 0) = <<>> /\ Len(<<>>) = 0 /\ Positions(<<>>) = {}
      BY SubSeqEmpty DEF Positions
    <3>2. \A x : Count(<<>>, x) = 0
      <4>1. \A x : {j \in Positions(<<>>) : <<>>[j] = x} = {}
        BY <3>1
      <4> QED BY <4>1, FS_EmptySet DEF Count
    <3>3. Balance(<<>>, 0) = 0 - 0
      BY <3>1, <3>2 DEF Balance
    <3> QED BY <3>1, <3>3 DEF Bracketed
  <2> QED BY <2>1, <2>2 DEF BracketInv
<1>2. Types /\ Flow /\ BracketInv /\ [Next]_vars => BracketInv'
  BY BracketStep
<1>3. ASSUME Types, Flow, BracketInv PROVE ThinkingIsBracketed
  <2> SUFFICES ASSUME NEW c \in Choice
               PROVE  LET s == shown[c].content
                          before(j) == Count(SubSeq(s, 1, j), BlockStart) - Count(SubSeq(s, 1, j), BlockEnd)
                      IN /\ \A j \in Positions(s) :
                              IF s[j] = BlockStart \/ s[j] \in {Thought(n) : n \in 1..MaxLines}
                              THEN before(j) = 1 ELSE before(j) = 0
                         /\ finalized /\ outcome = "completed" => before(Len(s)) = 0
    BY DEF ThinkingIsBracketed
  <2> DEFINE s == shown[c].content
  <2>1. PICK open \in BOOLEAN : Bracketed(s, open)
    BY <1>3 DEF BracketInv
  <2>2. \A j \in Positions(s) : Balance(s, j) = IF IsInside(s[j]) THEN 1 ELSE 0
    BY <2>1 DEF Bracketed
  <2>3. ASSUME finalized, outcome = "completed" PROVE Balance(s, Len(s)) = 0
    <3>1. Aligned /\ next = shown /\ (c \in openBlocks) = FALSE
      BY <1>3, <2>3 DEF Flow, Aligned
    <3>2. Bracketed(s, FALSE)
      BY <1>3, <3>1 DEF BracketInv
    <3> QED BY <3>2 DEF Bracketed
  <2> QED BY <2>2, <2>3 DEF Balance, IsInside
<1>4. Types /\ Flow /\ BracketInv => ThinkingIsBracketed
  BY <1>3
<1> QED BY <1>1, <1>2, <1>4, FlowInvariance, PTL DEF Spec

-----------------------------------------------------------------------------
(* EndedStreamKept                                                           *)
Closed == finalized \/ phase = "ended"
Frozen(c) == choices[c].finished \/ Closed

(* A choice is recorded for good when it is finished or the stream is over.  *)
ChoicesInv ==
  /\ \A c \in Choice : choices[c].finished => sent[c].finished
  /\ \A c \in Choice : choices[c].hasReasoning => order[c] > 0
  /\ \A c \in Choice, i \in 1..Context : stored[c][i] = Final => Frozen(c)
  /\ Closed => \A c \in Choice, i \in 1..Context : order[c] > 0 => stored[c][i] = Final

(* The lines that brought arguments, and that no two choices share.          *)
ArgsIn(tools) ==
  UNION {{tools[p].args[j] : j \in Positions(tools[p].args)} : p \in Positions(tools)}
ArgsInv ==
  /\ \A c \in Choice : /\ ArgsIn(choices[c].tools) \subseteq 1..lines
                       /\ choices[c].tools # <<>> => ArgsIn(choices[c].tools) # {}
  /\ \A c, d \in Choice :
       c # d => ArgsIn(choices[c].tools) \cap ArgsIn(choices[d].tools) = {}

(* The first of the keys of a message, and what it leads to.                 *)
Signature(ch, i) == <<i, "signature", <<ch.content, ch.tools>>>>
Kept(c, i) ==
  /\ Signature(choices[c], i) \in DOMAIN cache
  /\ \E d \in Choice :
       /\ Frozen(d) /\ choices[d].hasReasoning
       /\ Message(choices[d]) = Message(choices[c])
       /\ cache[Signature(choices[c], i)] = choices[d].reasoning

KeptInv ==
  \A c \in Choice, i \in 1..Context :
    stored[c][i] = Final /\ choices[c].hasReasoning => Kept(c, i)

(* Of the keys of a message only the first is its signature.                 *)
LEMMA KeyFacts ==
  ASSUME NEW ch \in Collected, NEW c \in Choice, NEW i \in 1..Context
  PROVE  /\ Len(ReasoningKeys(Message(ch), c, i)) \in Nat \ {0}
         /\ ReasoningKeys(Message(ch), c, i)[1] = Signature(ch, i)
         /\ Signature(ch, i) \in KeySet(Message(ch), c, i)
         /\ \A x \in KeySet(Message(ch), c, i) : x = Signature(ch, i) \/ x[2] # "signature"
<1> DEFINE m == Message(ch)
           calls == Positions(m.tools)
           signature == <<i, "signature", <<m.content, m.tools>>>>
           ids == [p \in calls |-> IF m.tools[p].id THEN <<i, "id", <<c, p>>>> ELSE signature]
           args == [p \in calls |-> <<i, "call", <<m.tools[p].name, m.tools[p].args>>>>]
           names == [p \in calls |-> IF m.tools[p].name THEN <<i, "name", <<>>>> ELSE signature]
           S == {signature} \cup {ids[p] : p \in calls} \cup {args[p] : p \in calls}
                \cup {names[p] : p \in calls}
           ks == ReasoningKeys(m, c, i)
<1>1. signature = Signature(ch, i) /\ Len(m.tools) \in Nat
  BY LenProperties DEF Message, Signature, Collected
<1>2. ks = <<signature>> \o ids \o args \o names
  BY DEF ReasoningKeys
<1>3. \A x \in S : x = signature \/ x[2] # "signature"
  OBVIOUS
<1>4. <<signature>> \in Seq(S) /\ ids \in Seq(S) /\ args \in Seq(S) /\ names \in Seq(S)
  <2>1. \A p \in 1..Len(m.tools) : ids[p] \in S /\ args[p] \in S /\ names[p] \in S
    BY DEF Positions
  <2> HIDE DEF S
  <2>2. \A f \in [1..Len(m.tools) -> S] : f \in Seq(S)
    BY <1>1, SeqDef
  <2>3. ids \in [1..Len(m.tools) -> S] /\ args \in [1..Len(m.tools) -> S]
        /\ names \in [1..Len(m.tools) -> S]
    BY <2>1 DEF Positions
  <2>5. signature \in S
    BY DEF S
  <2>6. <<signature>> \in Seq(S)
    BY <2>5, SequenceType
  <2> QED BY <2>2, <2>3, <2>6
<1> HIDE DEF ids, args, names, S
<1>5. <<signature>> \o ids \in Seq(S)
      /\ Len(<<signature>> \o ids) \in Nat \ {0} /\ (<<signature>> \o ids)[1] = signature
  <2> HIDE DEF signature
  <2>1. Len(<<signature>>) = 1 /\ <<signature>>[1] = signature /\ Len(ids) \in Nat
    BY <1>4, LenProperties
  <2> QED BY <1>4, <2>1, ConcatProperties
<1> HIDE DEF signature
<1>6. \A s, t \in Seq(S) : Len(s) \in Nat \ {0} /\ s[1] = signature =>
        s \o t \in Seq(S) /\ Len(s \o t) \in Nat \ {0} /\ (s \o t)[1] = signature
  <2> SUFFICES ASSUME NEW s \in Seq(S), NEW t \in Seq(S), Len(s) \in Nat \ {0}, s[1] = signature
               PROVE  s \o t \in Seq(S) /\ Len(s \o t) \in Nat \ {0} /\ (s \o t)[1] = signature
    OBVIOUS
  <2>1. Len(t) \in Nat
    BY LenProperties
  <2> QED BY <2>1, ConcatProperties
<1>7. ks \in Seq(S) /\ Len(ks) \in Nat \ {0} /\ ks[1] = signature
  <2> DEFINE a == <<signature>> \o ids
             b == a \o args
  <2>1. a \in Seq(S) /\ Len(a) \in Nat \ {0} /\ a[1] = signature
    BY <1>5
  <2> HIDE DEF a
  <2>2. b \in Seq(S) /\ Len(b) \in Nat \ {0} /\ b[1] = signature
    BY <1>4, <1>6, <2>1
  <2>3. ks = b \o names
    BY <1>2 DEF a
  <2> HIDE DEF b, ks
  <2> QED BY <1>4, <1>6, <2>2, <2>3
<1>8. KeySet(m, c, i) = {ks[j] : j \in 1..Len(ks)}
  BY DEF KeySet, Positions
<1> HIDE DEF ks
<1>9. signature \in KeySet(m, c, i) /\ KeySet(m, c, i) \subseteq S
  BY <1>7, <1>8, ElementOfSeq
<1> QED BY <1>1, <1>3, <1>7, <1>9 DEF ks, m

(* A flush writes under a signature what a choice with this message has.     *)
LEMMA FlushedSignature ==
  ASSUME NEW chs \in [Choice -> Collected], NEW ord \in Orders, NEW queue \in Queues,
         NEW c \in Choice, NEW i \in 1..Context
  PROVE  /\ <<c, i>> \in queue /\ chs[c].hasReasoning =>
              Signature(chs[c], i) \in SavedKeys(chs, queue)
         /\ Signature(chs[c], i) \in SavedKeys(chs, queue) =>
              \E e \in Choice :
                /\ <<e, i>> \in queue /\ chs[e].hasReasoning
                /\ Message(chs[e]) = Message(chs[c])
                /\ Flushed(chs, ord, queue)[Signature(chs[c], i)] = chs[e].reasoning
<1>1. ASSUME <<c, i>> \in queue, chs[c].hasReasoning
      PROVE  Signature(chs[c], i) \in SavedKeys(chs, queue)
  <2>1. Signature(chs[c], i) \in KeySet(Message(chs[c]), c, i)
    BY KeyFacts
  <2> QED BY <1>1, <2>1 DEF SavedKeys, KeysOf, Writing
<1>2. ASSUME Signature(chs[c], i) \in SavedKeys(chs, queue)
      PROVE  \E e \in Choice :
                /\ <<e, i>> \in queue /\ chs[e].hasReasoning
                /\ Message(chs[e]) = Message(chs[c])
                /\ Flushed(chs, ord, queue)[Signature(chs[c], i)] = chs[e].reasoning
  <2> DEFINE x == Signature(chs[c], i)
  <2>1. PICK q \in Writing(chs, queue) :
               x \in KeysOf(chs, q) /\ Flushed(chs, ord, queue)[x] = chs[q[1]].reasoning
    BY <1>2, FlushedWriter
  <2>2. q \in queue /\ chs[q[1]].hasReasoning /\ q[1] \in Choice /\ q[2] \in 1..Context
        /\ q = <<q[1], q[2]>>
    BY <2>1 DEF Writing, Queues
  <2>3. x \in KeySet(Message(chs[q[1]]), q[1], q[2])
    BY <2>1 DEF KeysOf
  <2>4. x[2] = "signature"
    BY DEF Signature
  <2>5. x = Signature(chs[q[1]], q[2])
    BY <2>2, <2>3, <2>4, KeyFacts
  <2>6. q[2] = i /\ Message(chs[q[1]]) = Message(chs[c])
    BY <2>5 DEF Signature, Message
  <2> QED BY <2>1, <2>2, <2>6
<1> QED BY <1>1, <1>2

LEMMA MergedArgs ==
  ASSUME NEW tools \in Seq(Tool), NEW k \in Chunk, NEW n \in 1..MaxLines,
         tools # <<>> => ArgsIn(tools) # {}
  PROVE  /\ ArgsIn(MergedTools(tools, k, n)) \subseteq ArgsIn(tools) \cup {n}
         /\ MergedTools(tools, k, n) # <<>> => ArgsIn(MergedTools(tools, k, n)) # {}
<1> DEFINE old(p) == IF p <= Len(tools) THEN tools[p] ELSE NewTool
           size == IF k.tool > Len(tools) THEN k.tool ELSE Len(tools)
           merged == MergedTools(tools, k, n)
<1>1. Len(tools) \in Nat /\ k.tool \in Nat /\ size \in Nat /\ k.tool <= size
  BY ChunkFields, LenProperties
<1>2. merged = [p \in 1..size |->
                 IF p # k.tool THEN old(p)
                 ELSE [id |-> old(p).id \/ k.id, name |-> old(p).name \/ k.name,
                       args |-> Append(old(p).args, n)]]
  BY DEF MergedTools
<1>3. merged \in Seq(Tool) /\ DOMAIN merged = 1..size
  BY <1>2, MergedToolsType
<1> HIDE DEF merged
<1>4. Len(merged) = size
  BY <1>1, <1>3, LenProperties
<1>5. \A p \in 1..size : old(p).args \in Seq(1..MaxLines)
  <2>1. NewTool \in Tool
    BY SequenceType DEF NewTool, Tool
  <2>2. \A p \in 1..size : old(p) \in Tool
    BY <1>1, <2>1, ElementOfSeq
  <2> HIDE DEF old
  <2> QED BY <2>2 DEF Tool
<1>6. \A p \in 1..size : merged[p].args = IF p = k.tool THEN Append(old(p).args, n) ELSE old(p).args
  BY <1>2
<1>7. ASSUME NEW p \in 1..size, NEW j \in Positions(old(p).args)
      PROVE  old(p).args[j] \in ArgsIn(tools)
  <2>1. CASE p <= Len(tools)
    BY <1>1, <1>7, <2>1 DEF ArgsIn, Positions
  <2>2. CASE ~(p <= Len(tools))
    BY <1>7, <2>2 DEF NewTool, Positions
  <2> QED BY <2>1, <2>2
<1> HIDE DEF old
<1>8. ASSUME NEW x \in ArgsIn(merged) PROVE x \in ArgsIn(tools) \cup {n}
  <2>1. PICK p \in 1..size : \E j \in Positions(merged[p].args) : x = merged[p].args[j]
    BY <1>4 DEF ArgsIn, Positions
  <2>0. PICK j \in Positions(merged[p].args) : x = merged[p].args[j]
    BY <2>1
  <2>2. CASE p = k.tool
    <3>1. merged[p].args = Append(old(p).args, n)
      BY <1>6, <2>2
    <3>2. Len(old(p).args) \in Nat /\ j \in 1..Len(old(p).args) + 1
      BY <1>5, <2>0, <3>1, AppendProperties, LenProperties DEF Positions
    <3>3. x = n \/ (j \in Positions(old(p).args) /\ x = old(p).args[j])
      BY <1>5, <2>0, <3>1, <3>2, AppendProperties DEF Positions
    <3> QED BY <1>7, <3>3
  <2>3. CASE p # k.tool
    <3>1. merged[p].args = old(p).args
      BY <1>6, <2>3
    <3> QED BY <1>7, <2>0, <3>1
  <2> QED BY <2>2, <2>3
<1>9. ASSUME merged # <<>> PROVE ArgsIn(merged) # {}
  <2>1. CASE k.tool = 0
    <3>1. size = Len(tools) /\ size # 0
      BY <1>1, <1>3, <1>4, <1>9, <2>1, EmptySeq
    <3>2. tools # <<>>
      BY <3>1
    <3>3. PICK p \in Positions(tools) : \E j \in Positions(tools[p].args) : TRUE
      BY <3>2 DEF ArgsIn
    <3>6. PICK j \in Positions(tools[p].args) : TRUE
      BY <3>3
    <3>4. p \in 1..size /\ merged[p].args = tools[p].args
      BY <1>1, <1>6, <2>1, <3>1 DEF Positions, old
    <3>5. merged[p].args[j] \in ArgsIn(merged)
      BY <1>4, <3>6, <3>4 DEF ArgsIn, Positions
    <3> QED BY <3>5
  <2>2. CASE k.tool # 0
    <3> DEFINE p == k.tool
               j == Len(old(p).args) + 1
    <3>0. p \in 1..size
      BY <1>1, <2>2
    <3>1. merged[p].args = Append(old(p).args, n)
      BY <1>6, <3>0
    <3>2. j \in Positions(merged[p].args)
      <4> DEFINE args == old(p).args
      <4>1. args \in Seq(1..MaxLines)
        BY <1>5, <3>0
      <4> HIDE DEF args
      <4>2. Len(args) \in Nat /\ Len(Append(args, n)) = Len(args) + 1
        BY <4>1, AppendProperties, LenProperties
      <4>3. Len(args) + 1 \in 1..Len(Append(args, n))
        BY <4>2
      <4> QED BY <3>1, <4>3 DEF args, Positions
    <3> HIDE DEF p, j
    <3>3. p \in Positions(merged)
      BY <1>4, <3>0 DEF Positions
    <3>4. merged[p].args[j] \in {merged[p].args[i] : i \in Positions(merged[p].args)}
      BY <3>2
    <3>5. merged[p].args[j] \in ArgsIn(merged)
      BY <3>3, <3>4 DEF ArgsIn
    <3> QED BY <3>5
  <2> QED BY <2>1, <2>2
<1> QED BY <1>8, <1>9 DEF merged

(* What a rewritten line does to the accumulator.                            *)
LEMMA RewriteChoice ==
  ASSUME Types, NEW k \in Chunk, lines < MaxLines, RewriteLine(k)
  PROVE  /\ \A c \in Choice \ {k.choice} : choices'[c] = choices[c]
         /\ choices'[k.choice].tools = MergedTools(choices[k.choice].tools, k, lines + 1)
         /\ choices'[k.choice].hasReasoning =
              (choices[k.choice].hasReasoning \/ k.reasoning \in {"empty", "text"})
         /\ choices'[k.choice].finished = (choices[k.choice].finished \/ k.finish)
<1>1. choices' = [choices EXCEPT ![k.choice] =
                    Ingested(choices[k.choice], k, lines + 1, WithNotice(k, lines + 1))]
  BY DEF RewriteLine
<1>2. choices \in [Choice -> Collected] /\ k.choice \in Choice
  BY ChunkFields DEF Types, AccTypes
<1> QED BY <1>1, <1>2 DEF Ingested

LEMMA ArgsStep ==
  ASSUME Types, ArgsInv, [Next]_vars
  PROVE  ArgsInv'
<1>0. lines \in Nat /\ \A c \in Choice : choices[c].tools \in Seq(Tool)
  BY DEF Types, AccTypes, RestTypes, Collected
<1>1. ASSUME NEW k \in Chunk, ReadChunk(k), RewriteLine(k) PROVE ArgsInv'
  <2> DEFINE n == lines + 1
             A(c) == ArgsIn(choices[c].tools)
             B(c) == ArgsIn(choices'[c].tools)
  <2>1. n \in 1..MaxLines /\ lines < MaxLines /\ lines' = n /\ k.choice \in Choice
    BY <1>0, <1>1, ConstantFacts, ChunkFields DEF ReadChunk
  <2>2. /\ \A c \in Choice \ {k.choice} : choices'[c] = choices[c]
        /\ choices'[k.choice].tools = MergedTools(choices[k.choice].tools, k, n)
    BY <1>1, <2>1, RewriteChoice
  <2>3. \A c \in Choice : A(c) \subseteq 1..lines
    BY DEF ArgsInv
  <2>4. B(k.choice) \subseteq A(k.choice) \cup {n}
        /\ (choices'[k.choice].tools # <<>> => B(k.choice) # {})
    BY <1>0, <2>1, <2>2, MergedArgs DEF ArgsInv
  <2>5. \A c \in Choice \ {k.choice} : B(c) = A(c)
    BY <2>2
  <2>6. \A c \in Choice : choices'[c].tools # <<>> => B(c) # {}
    BY <2>2, <2>4, <2>5 DEF ArgsInv
  <2> HIDE DEF B
  <2>7. \A c, d \in Choice : c # d => A(c) \cap A(d) = {}
    BY DEF ArgsInv
  <2> HIDE DEF A
  <2>8. \A c \in Choice : n \notin A(c)
    BY <1>0, <2>3
  <2>9. \A c \in Choice : B(c) \subseteq 1..n
    BY <1>0, <2>1, <2>3, <2>4, <2>5
  <2>10. \A c, d \in Choice : c # d => B(c) \cap B(d) = {}
    BY <2>4, <2>5, <2>7, <2>8
  <2> QED BY <2>1, <2>6, <2>9, <2>10 DEF ArgsInv, B
<1>2. CASE choices' = choices /\ lines' \in {lines, lines + 1}
  <2>1. 1..lines \subseteq 1..lines'
    BY <1>0, <1>2
  <2> QED BY <1>2, <2>1 DEF ArgsInv
<1>3. ASSUME NEW k \in Chunk, ReadChunk(k) PROVE ArgsInv'
  BY <1>1, <1>2, <1>3 DEF ReadChunk, PassLine, acc
<1> QED
  BY <1>2, <1>3 DEF Next, Progress, Stopped, ReadDone, Connect, Retry, NoAnswer, Break, YieldError,
                    Abandon, EndOfStream, Cancel, Collect, Deliver, Finally, StoreAll, vars, acc

(* The ranks a flush leaves.                                                 *)
LEMMA RankedStored ==
  ASSUME Types, NEW queue \in Queues, NEW rank \in [Choice -> 0..Final],
         stored' = Ranked(queue, rank), NEW c \in Choice, NEW i \in 1..Context
  PROVE  stored'[c][i] = IF <<c, i>> \in queue THEN rank[c] ELSE stored[c][i]
BY DEF Ranked

LEMMA StoredRank ==
  ASSUME Types, NEW c \in Choice, NEW i \in 1..Context
  PROVE  stored[c][i] \in 0..Final
BY DEF Types, AccTypes

LEMMA StageFacts ==
  ASSUME NEW ch
  PROVE  /\ Stage(ch) = Final <=> ch.finished
         /\ Stage(ch) > 0 /\ ch.tools = <<>> => ch.finished
BY DEF Stage, Final, HasIdentifiedToolCalls

(* What the parts of a rewritten line are.                                   *)
LEMMA RewriteParts ==
  ASSUME Types, NEW k \in Chunk, lines < MaxLines, RewriteLine(k)
  PROVE  /\ choices' \in [Choice -> Collected] /\ order' \in Orders
         /\ Known' = Known \cup {k.choice}
         /\ \E queue \in Queues :
              /\ cache' = Flushed(choices', order', queue)
              /\ \A c \in Choice, i \in 1..Context :
                   /\ stored'[c][i] = IF <<c, i>> \in queue THEN Stage(choices'[c]) ELSE stored[c][i]
                   /\ <<c, i>> \in queue => Stage(choices'[c]) > 0
<1> DEFINE n == lines + 1
           text == WithNotice(k, n)
           chs == [choices EXCEPT ![k.choice] = Ingested(choices[k.choice], k, n, text)]
           isFresh == fresh \/ k.reasoning \in {"empty", "text"} \/ k.tool > 0
           queue == ReadyQueue(chs, Seen(k.choice), isFresh)
           rank == [c \in Choice |-> Stage(chs[c])]
<1>0. AccTypes /\ OrderInv /\ RestTypes /\ k.choice \in Choice
  BY ChunkFields DEF Types
<1>1. /\ choices' = chs /\ order' = Seen(k.choice)
      /\ stored' = Ranked(queue, rank) /\ cache' = Flushed(chs, order', queue)
  BY DEF RewriteLine
<1>2. n \in 1..MaxLines
  BY <1>0, ConstantFacts DEF RestTypes
<1>3. chs \in [Choice -> Collected]
  BY <1>0, <1>2, TextType, IngestedType DEF AccTypes
<1>4. order' \in Orders /\ Known' = Known \cup {k.choice}
  BY <1>0, <1>1, KnownOrder, SeenFacts
<1>5. queue \in Queues /\ rank \in [Choice -> 0..Final]
  BY StageType DEF ReadyQueue, Queues
<1>6. ASSUME NEW c \in Choice, NEW i \in 1..Context, <<c, i>> \in queue
      PROVE  Stage(chs[c]) > 0
  <2>1. Gains(stored[c][i], Stage(chs[c]))
    BY <1>6 DEF ReadyQueue
  <2> QED BY <2>1, StoredRank, StageType DEF Gains, Final
<1> HIDE DEF chs, queue
<1>7. ASSUME NEW c \in Choice, NEW i \in 1..Context
      PROVE  stored'[c][i] = IF <<c, i>> \in queue THEN Stage(chs[c]) ELSE stored[c][i]
  BY <1>1, <1>5, RankedStored
<1> QED BY <1>1, <1>3, <1>4, <1>5, <1>6, <1>7

LEMMA StoreAllParts ==
  ASSUME Types, StoreAll
  PROVE  /\ FinalQueue \in Queues /\ choices' = choices
         /\ cache' = Flushed(choices', order, FinalQueue)
         /\ \A c \in Choice, i \in 1..Context :
              /\ order[c] > 0 => stored'[c][i] = Final
              /\ stored'[c][i] = Final => <<c, i>> \in FinalQueue \/ stored[c][i] = Final
<1>1. FinalQueue \in Queues
  BY DEF FinalQueue, Queues
<1>2. ASSUME NEW c \in Choice, NEW i \in 1..Context
      PROVE  stored'[c][i] = IF <<c, i>> \in FinalQueue THEN Final ELSE stored[c][i]
  <2>1. [d \in Choice |-> Final] \in [Choice -> 0..Final]
    BY DEF Final
  <2> QED BY <1>1, <2>1, RankedStored DEF StoreAll
<1>3. ASSUME NEW c \in Choice, NEW i \in 1..Context, order[c] > 0
      PROVE  <<c, i>> \in FinalQueue \/ stored[c][i] = Final
  <2>1. stored[c][i] < Final \/ stored[c][i] = Final
    BY StoredRank DEF Final
  <2> QED BY <1>3, <2>1 DEF FinalQueue, Gains
<1> QED BY <1>1, <1>2, <1>3 DEF StoreAll

LEMMA ChoicesStep ==
  ASSUME Types, Flow, ChoicesInv, [Next]_vars
  PROVE  ChoicesInv'
<1>1. ASSUME NEW k \in Chunk, ReadChunk(k) PROVE ChoicesInv'
  <2>1. /\ ~Closed /\ ~Closed' /\ lines < MaxLines /\ k.choice \in Choice
        /\ ~choices[k.choice].finished
    BY <1>1, ChunkFields DEF ReadChunk, Follows, Closed, Flow, Yields, ChoicesInv
  <2>2. \A c \in Choice : sent'[c].finished = IF c = k.choice THEN k.finish ELSE sent[c].finished
    BY <1>1 DEF ReadChunk, Upstream, Types, RestTypes
  <2>3. CASE PassLine(k)
    <3>1. UNCHANGED <<choices, order, stored>>
      BY <2>3 DEF PassLine, acc
    <3>2. \A c \in Choice : choices'[c].finished => sent'[c].finished
      BY <2>1, <2>2, <3>1 DEF ChoicesInv
    <3> QED BY <2>1, <3>1, <3>2 DEF ChoicesInv, Frozen
  <2>4. CASE RewriteLine(k)
    <3>1. /\ \A c \in Choice \ {k.choice} : choices'[c] = choices[c]
          /\ choices'[k.choice].finished = (choices[k.choice].finished \/ k.finish)
      BY <2>1, <2>4, RewriteChoice
    <3>2. PICK queue \in Queues :
            \A c \in Choice, i \in 1..Context :
              stored'[c][i] = IF <<c, i>> \in queue THEN Stage(choices'[c]) ELSE stored[c][i]
      BY <2>1, <2>4, RewriteParts
    <3>3. \A c \in Choice : order'[c] > 0 <=> order[c] > 0 \/ c = k.choice
      BY <2>1, <2>4, RewriteParts DEF Known
    <3>4. \A c \in Choice : choices'[c].finished => sent'[c].finished
      BY <2>1, <2>2, <3>1 DEF ChoicesInv
    <3>5. \A c \in Choice : choices'[c].hasReasoning => order'[c] > 0
      BY <3>1, <3>3 DEF ChoicesInv
    <3>6. ASSUME NEW c \in Choice, NEW i \in 1..Context, stored'[c][i] = Final
          PROVE  choices'[c].finished
      <4>1. CASE <<c, i>> \in queue
        BY <3>2, <3>6, <4>1, StageFacts
      <4>2. CASE <<c, i>> \notin queue
        <5>1. choices[c].finished
          BY <2>1, <3>2, <3>6, <4>2 DEF ChoicesInv, Frozen
        <5> QED BY <3>1, <5>1
      <4> QED BY <4>1, <4>2
    <3> QED BY <2>1, <3>4, <3>5, <3>6 DEF ChoicesInv, Frozen
  <2> QED BY <1>1, <2>3, <2>4 DEF ReadChunk
<1>2. CASE StoreAll /\ Closed' /\ sent' = sent
  <2>1. \A c \in Choice : choices'[c] = choices[c] /\ order' = order
    BY <1>2 DEF StoreAll
  <2>2. \A c \in Choice, i \in 1..Context : order[c] > 0 => stored'[c][i] = Final
    BY <1>2, StoreAllParts
  <2> QED BY <1>2, <2>1, <2>2 DEF ChoicesInv, Frozen
<1>3. CASE UNCHANGED <<choices, order, stored, sent>> /\ Closed' = Closed
  BY <1>3 DEF ChoicesInv, Frozen
<1>4. CASE ReadDone
  BY <1>2, <1>4 DEF ReadDone, Closed, fixed
<1>5. CASE Finally
  <2>1. CASE finalized
    BY <1>3, <1>5, <2>1 DEF Finally, Closed, acc, fixed
  <2>2. CASE ~finalized
    BY <1>2, <1>5, <2>2 DEF Finally, Closed, fixed
  <2> QED BY <2>1, <2>2
<1>6. CASE Connect \/ Retry \/ NoAnswer \/ Break \/ Abandon \/ (Deliver /\ ~Finally)
  <2>1. UNCHANGED <<choices, order, stored, sent>>
    BY <1>6 DEF Connect, Retry, NoAnswer, Break, YieldError, Abandon, Deliver, acc, fixed
  <2>2. Closed' = Closed
    BY <1>6 DEF Connect, Retry, NoAnswer, Break, YieldError, Yields, Abandon, Deliver, Closed
  <2> QED BY <1>3, <2>1, <2>2
<1>7. CASE UNCHANGED vars
  BY <1>3, <1>7 DEF vars, acc, fixed, Closed
<1> QED
  BY <1>1, <1>4, <1>5, <1>6, <1>7 DEF Next, Progress, Stopped, EndOfStream, Cancel, Collect

(* A message that is kept stays kept through a flush, and a flush keeps      *)
(* those it writes, if the choices that can write its signature are frozen.  *)
LEMMA KeptFlushed ==
  ASSUME NEW c \in Choice, NEW i \in 1..Context,
         choices' \in [Choice -> Collected], NEW ord \in Orders, NEW queue \in Queues,
         cache' = Flushed(choices', ord, queue), choices'[c].hasReasoning,
         \A e \in Choice : /\ <<e, i>> \in queue /\ choices'[e].hasReasoning
                           /\ Message(choices'[e]) = Message(choices'[c])
                           => Frozen(e)',
         \/ <<c, i>> \in queue
         \/ /\ Kept(c, i) /\ choices'[c] = choices[c]
            /\ \A d \in Choice : Frozen(d) => choices'[d] = choices[d] /\ Frozen(d)'
  PROVE  Kept(c, i)'
<1> DEFINE x == Signature(choices'[c], i)
<1>0. /\ DOMAIN cache' = DOMAIN cache \cup SavedKeys(choices', queue)
      /\ \A y \in DOMAIN cache \ SavedKeys(choices', queue) : cache'[y] = cache[y]
  <2> DEFINE after == Flushed(choices', ord, queue)
  <2>1. /\ DOMAIN after = DOMAIN cache \cup SavedKeys(choices', queue)
        /\ \A y \in DOMAIN cache \ SavedKeys(choices', queue) : after[y] = cache[y]
    BY FlushedRest, Zenon
  <2>2. cache' = after
    OBVIOUS
  <2> HIDE DEF after
  <2> QED BY <2>1, <2>2, Zenon
<1>1. CASE x \in SavedKeys(choices', queue)
  <2>1. PICK e \in Choice :
          /\ <<e, i>> \in queue /\ choices'[e].hasReasoning
          /\ Message(choices'[e]) = Message(choices'[c])
          /\ cache'[x] = choices'[e].reasoning
    BY <1>1, FlushedSignature
  <2>2. x \in DOMAIN cache'
    <3> HIDE DEF x
    <3> QED BY <1>0, <1>1, Zenon
  <2> QED BY <2>1, <2>2 DEF Kept
<1>2. CASE x \notin SavedKeys(choices', queue)
  <2>1. <<c, i>> \notin queue
    BY <1>2, FlushedSignature
  <2>2. Kept(c, i) /\ choices'[c] = choices[c]
        /\ \A d \in Choice : Frozen(d) => choices'[d] = choices[d] /\ Frozen(d)'
    BY <2>1
  <2>3. x \in DOMAIN cache /\ x = Signature(choices[c], i)
    BY <2>2 DEF Kept
  <2>4. x \in DOMAIN cache' /\ cache'[x] = cache[x]
    <3> HIDE DEF x
    <3> QED BY <1>0, <1>2, <2>3
  <2>5. PICK d \in Choice :
          /\ Frozen(d) /\ choices[d].hasReasoning
          /\ Message(choices[d]) = Message(choices[c])
          /\ cache[x] = choices[d].reasoning
    BY <2>2, <2>3 DEF Kept
  <2>6. choices'[d] = choices[d] /\ Frozen(d)'
    BY <2>2, <2>5
  <2> HIDE DEF x
  <2>7. /\ Frozen(d)' /\ choices'[d].hasReasoning
        /\ Message(choices'[d]) = Message(choices'[c])
        /\ cache'[x] = choices'[d].reasoning
    BY <2>2, <2>4, <2>5, <2>6
  <2> QED BY <2>4, <2>7 DEF Kept, x
<1> QED BY <1>1, <1>2

LEMMA KeptRewrite ==
  ASSUME Types, Flow, ChoicesInv, ChoicesInv', ArgsInv', KeptInv,
         NEW k \in Chunk, ReadChunk(k), RewriteLine(k)
  PROVE  KeptInv'
<1> SUFFICES ASSUME NEW c \in Choice, NEW i \in 1..Context,
                    stored'[c][i] = Final, choices'[c].hasReasoning
             PROVE  Kept(c, i)'
  BY DEF KeptInv
<1>1. /\ ~Closed /\ ~Closed' /\ lines < MaxLines /\ k.choice \in Choice
      /\ ~choices[k.choice].finished
  BY ChunkFields DEF ReadChunk, Follows, Closed, Flow, Yields, ChoicesInv
<1>2. \A d \in Choice \ {k.choice} : choices'[d] = choices[d]
  BY <1>1, RewriteChoice
<1>3. choices' \in [Choice -> Collected] /\ order' \in Orders
  BY <1>1, RewriteParts
<1>4. PICK queue \in Queues :
        /\ cache' = Flushed(choices', order', queue)
        /\ \A d \in Choice, j \in 1..Context :
             /\ stored'[d][j] = IF <<d, j>> \in queue THEN Stage(choices'[d]) ELSE stored[d][j]
             /\ <<d, j>> \in queue => Stage(choices'[d]) > 0
  BY <1>1, RewriteParts
<1>5. \A d \in Choice : Frozen(d) => choices'[d] = choices[d] /\ Frozen(d)'
  BY <1>1, <1>2 DEF Frozen
<1>6. Frozen(c)'
  BY DEF ChoicesInv
<1>7. ASSUME NEW e \in Choice, <<e, i>> \in queue, Message(choices'[e]) = Message(choices'[c])
      PROVE  Frozen(e)'
  <2>1. CASE e = c
    BY <1>6, <2>1
  <2>2. CASE e # c
    <3>1. choices'[e].tools = choices'[c].tools
      BY <1>7 DEF Message
    <3>2. ArgsIn(choices'[e].tools) \cap ArgsIn(choices'[c].tools) = {}
      BY <2>2 DEF ArgsInv
    <3>3. ArgsIn(choices'[e].tools) = {}
      BY <3>1, <3>2
    <3>4. choices'[e].tools = <<>>
      BY <3>3 DEF ArgsInv
    <3>5. Stage(choices'[e]) > 0
      BY <1>4, <1>7
    <3> QED BY <3>4, <3>5, StageFacts DEF Frozen
  <2> QED BY <2>1, <2>2
<1>8. CASE <<c, i>> \in queue
  BY <1>3, <1>4, <1>7, <1>8, KeptFlushed
<1>9. CASE <<c, i>> \notin queue
  <2>1. stored[c][i] = Final
    BY <1>4, <1>9
  <2>2. choices'[c] = choices[c]
    <3>1. Frozen(c)
      BY <2>1 DEF ChoicesInv
    <3> QED BY <1>5, <3>1
  <2>3. Kept(c, i)
    BY <2>1, <2>2 DEF KeptInv
  <2> QED BY <1>3, <1>4, <1>5, <1>7, <2>2, <2>3, KeptFlushed
<1> QED BY <1>8, <1>9

LEMMA KeptStoreAll ==
  ASSUME Types, KeptInv, StoreAll, Closed'
  PROVE  KeptInv'
<1> SUFFICES ASSUME NEW c \in Choice, NEW i \in 1..Context,
                    stored'[c][i] = Final, choices'[c].hasReasoning
             PROVE  Kept(c, i)'
  BY DEF KeptInv
<1>1. /\ FinalQueue \in Queues /\ choices' = choices
      /\ cache' = Flushed(choices', order, FinalQueue)
      /\ <<c, i>> \in FinalQueue \/ stored[c][i] = Final
  BY StoreAllParts
<1>2. choices' \in [Choice -> Collected] /\ order \in Orders
  BY <1>1 DEF Types, AccTypes
<1>3. \A d \in Choice : Frozen(d)' /\ choices'[d] = choices[d]
  BY <1>1 DEF Frozen
<1>4. stored[c][i] = Final => Kept(c, i)
  BY <1>1 DEF KeptInv
<1> HIDE DEF FinalQueue
<1>5. CASE <<c, i>> \in FinalQueue
  BY <1>1, <1>2, <1>3, <1>5, KeptFlushed
<1>6. CASE stored[c][i] = Final
  BY <1>1, <1>2, <1>3, <1>4, <1>6, KeptFlushed
<1> QED BY <1>1, <1>5, <1>6

LEMMA KeptStep ==
  ASSUME Types, Flow, ChoicesInv, ChoicesInv', ArgsInv', KeptInv, [Next]_vars
  PROVE  KeptInv'
<1>1. CASE UNCHANGED <<choices, stored, cache>> /\ (Closed => Closed')
  BY <1>1 DEF KeptInv, Kept, Frozen
<1>2. ASSUME NEW k \in Chunk, ReadChunk(k) PROVE KeptInv'
  <2>1. CASE PassLine(k)
    <3>1. ~Closed
      BY <1>2 DEF ReadChunk, Flow, Closed
    <3> QED BY <1>1, <2>1, <3>1 DEF PassLine, acc
  <2> QED BY <1>2, <2>1, KeptRewrite DEF ReadChunk
<1>3. CASE ReadDone
  BY <1>3, KeptStoreAll DEF ReadDone, Closed
<1>4. CASE Finally
  <2>1. CASE finalized
    BY <1>1, <1>4, <2>1 DEF Finally, Closed, acc
  <2>2. CASE ~finalized
    BY <1>4, <2>2, KeptStoreAll DEF Finally, Closed
  <2> QED BY <2>1, <2>2
<1>5. CASE Connect \/ Retry \/ NoAnswer \/ Break \/ Abandon \/ (Deliver /\ ~Finally)
  <2>1. UNCHANGED <<choices, stored, cache>>
    BY <1>5 DEF Connect, Retry, NoAnswer, Break, YieldError, Abandon, Deliver, acc
  <2>2. Closed => Closed'
    BY <1>5 DEF Connect, Retry, NoAnswer, Break, YieldError, Yields, Abandon, Deliver, Closed
  <2> QED BY <1>1, <2>1, <2>2
<1>6. CASE UNCHANGED vars
  BY <1>1, <1>6 DEF vars, acc, Closed
<1> QED
  BY <1>2, <1>3, <1>4, <1>5, <1>6 DEF Next, Progress, Stopped, EndOfStream, Cancel, Collect

(* Until a choice is final what is stored of it may be out of date; from     *)
(* then on nothing that leads to it or is written over it changes.           *)
THEOREM KeptInvariance == Spec => [](Types /\ Flow /\ ChoicesInv /\ ArgsInv /\ KeptInv)
<1>1. Init => ChoicesInv /\ ArgsInv /\ KeptInv
  <2> SUFFICES ASSUME Init PROVE ChoicesInv /\ ArgsInv /\ KeptInv
    OBVIOUS
  <2>1. \A c \in Choice : /\ ~choices[c].finished /\ ~choices[c].hasReasoning
                          /\ choices[c].tools = <<>> /\ order[c] = 0
    BY DEF Init, NewChoice
  <2>2. \A c \in Choice, i \in 1..Context : stored[c][i] # Final
    BY DEF Init, Final
  <2>3. ArgsIn(<<>>) = {}
    BY DEF ArgsIn, Positions
  <2>4. ~Closed
    BY DEF Init, Closed
  <2> QED BY <2>1, <2>2, <2>3, <2>4 DEF ChoicesInv, ArgsInv, KeptInv
<1>2. Types /\ Flow /\ ChoicesInv /\ [Next]_vars => ChoicesInv'
  BY ChoicesStep
<1>3. Types /\ ArgsInv /\ [Next]_vars => ArgsInv'
  BY ArgsStep
<1>4. Types /\ Flow /\ ChoicesInv /\ ChoicesInv' /\ ArgsInv' /\ KeptInv /\ [Next]_vars => KeptInv'
  BY KeptStep
<1> QED BY <1>1, <1>2, <1>3, <1>4, FlowInvariance, PTL DEF Spec

(* However the stream ended, and whatever was recorded while it went on, the *)
(* message as it was last accumulated leads to its reasoning, in each        *)
(* recording context (store_reasoning, flush_pending_store, the finally      *)
(* block of _stream_chat_response).                                          *)
THEOREM EndedStreamIsKept == Spec => []EndedStreamKept
<1>1. ASSUME Types, ChoicesInv, KeptInv PROVE EndedStreamKept
  <2> SUFFICES ASSUME phase = "ended", NEW c \in Choice, NEW i \in 1..Context,
                      choices[c].hasReasoning
               PROVE  \E d \in Choice :
                        /\ choices[d].hasReasoning /\ Message(choices[d]) = Message(choices[c])
                        /\ Lookup(Message(choices[c]), c, i) = <<choices[d].reasoning>>
    BY DEF EndedStreamKept
  <2> DEFINE ks == ReasoningKeys(Message(choices[c]), c, i)
             hits == {j \in Positions(ks) : ks[j] \in DOMAIN cache}
  <2>1. Kept(c, i)
    BY <1>1 DEF ChoicesInv, Closed, KeptInv
  <2>2. Len(ks) \in Nat \ {0} /\ ks[1] = Signature(choices[c], i)
    BY <1>1, KeyFacts DEF Types, AccTypes
  <2>3. Lookup(Message(choices[c]), c, i) = IF hits = {} THEN <<>> ELSE <<cache[ks[Min(hits)]]>>
    BY DEF Lookup
  <2> HIDE DEF ks
  <2>4. 1 \in hits /\ \A j \in hits : 1 <= j /\ j \in Nat
    BY <2>1, <2>2 DEF Kept, Positions
  <2> HIDE DEF hits
  <2>5. Min(hits) = 1
    <3>1. Min(hits) = CHOOSE x \in hits : \A y \in hits : x <= y
      BY DEF Min
    <3> QED BY <2>4, <3>1
  <2>6. Lookup(Message(choices[c]), c, i) = <<cache[Signature(choices[c], i)]>>
    BY <2>2, <2>3, <2>4, <2>5
  <2> QED BY <2>1, <2>6 DEF Kept
<1>2. Types /\ ChoicesInv /\ KeptInv => EndedStreamKept
  BY <1>1
<1> QED BY KeptInvariance, <1>2, PTL

-----------------------------------------------------------------------------
(* What the client has of a tool call, the accumulator has as well.          *)
Covers(t, s) ==
  /\ Len(s) <= Len(t)
  /\ \A p \in Positions(s) : (s[p].id => t[p].id) /\ (s[p].name => t[p].name)
CallsInv ==
  /\ \A c \in Choice : /\ Covers(choices[c].tools, shown[c].tools)
                       /\ Covers(choices[c].tools, next[c].tools)
  /\ \A c \in Choice : choices[c].tools # <<>> => sent[c].answered

(* The whole of a final choice has been written to the store.                *)
WrittenInv ==
  \A c \in Choice, i \in 1..Context :
    stored[c][i] = Final /\ choices[c].hasReasoning
    => KeySet(Message(choices[c]), c, i) \subseteq DOMAIN cache

(* The store holds the beginnings of this answer's reasoning; in order,      *)
(* all of it, for nothing is stored of a choice that may get more.           *)
Settled(d) == sent[d].answered \/ sent[d].finished \/ Closed
PartOf(s, d) ==
  \E n \in 0..Len(choices[d].reasoning) :
    /\ s = SubSeq(choices[d].reasoning, 1, n)
    /\ InOrder => n = Len(choices[d].reasoning) /\ Settled(d)
ValuesInv == \A k \in DOMAIN cache : \E d \in Choice : PartOf(cache[k], d)

LEMMA MergedFields ==
  ASSUME NEW tools \in Seq(Tool), NEW k \in Chunk, NEW n \in 1..MaxLines
  PROVE  LET merged == MergedTools(tools, k, n)
         IN /\ Len(merged) = IF k.tool > Len(tools) THEN k.tool ELSE Len(tools)
            /\ \A p \in Positions(merged) :
                 /\ merged[p].id <=> (p <= Len(tools) /\ tools[p].id) \/ (p = k.tool /\ k.id)
                 /\ merged[p].name <=> (p <= Len(tools) /\ tools[p].name) \/ (p = k.tool /\ k.name)
<1> DEFINE old(p) == IF p <= Len(tools) THEN tools[p] ELSE NewTool
           size == IF k.tool > Len(tools) THEN k.tool ELSE Len(tools)
           merged == MergedTools(tools, k, n)
<1>1. Len(tools) \in Nat /\ k.tool \in Nat /\ size \in Nat
  BY ChunkFields, LenProperties
<1>2. merged = [p \in 1..size |->
                 IF p # k.tool THEN old(p)
                 ELSE [id |-> old(p).id \/ k.id, name |-> old(p).name \/ k.name,
                       args |-> Append(old(p).args, n)]]
  BY DEF MergedTools
<1>3. merged \in Seq(Tool) /\ DOMAIN merged = 1..size
  BY <1>2, MergedToolsType
<1> HIDE DEF merged
<1>4. Len(merged) = size
  BY <1>1, <1>3, LenProperties
<1>5. ASSUME NEW p \in 1..size
      PROVE  /\ merged[p].id <=> (p <= Len(tools) /\ tools[p].id) \/ (p = k.tool /\ k.id)
             /\ merged[p].name <=> (p <= Len(tools) /\ tools[p].name) \/ (p = k.tool /\ k.name)
  <2>1. /\ old(p).id <=> p <= Len(tools) /\ tools[p].id
        /\ old(p).name <=> p <= Len(tools) /\ tools[p].name
    BY DEF NewTool
  <2> HIDE DEF old
  <2>2. CASE p = k.tool
    <3>1. merged[p] = [id |-> old(p).id \/ k.id, name |-> old(p).name \/ k.name,
                       args |-> Append(old(p).args, n)]
      BY <1>2, <2>2
    <3>2. merged[p].id = (old(p).id \/ k.id) /\ merged[p].name = (old(p).name \/ k.name)
      BY <3>1
    <3> QED BY <2>1, <2>2, <3>2
  <2>3. CASE p # k.tool
    <3>1. merged[p] = old(p)
      BY <1>2, <2>3
    <3> QED BY <2>1, <2>3, <3>1
  <2> QED BY <2>2, <2>3
<1> QED BY <1>4, <1>5 DEF Positions, merged

(* A delta without a tool call leaves the calls as they are.                 *)
LEMMA NothingMerged ==
  ASSUME NEW tools \in Seq(Tool), NEW k \in Chunk, NEW n \in 1..MaxLines, k.tool = 0
  PROVE  MergedTools(tools, k, n) = tools
<1>1. Len(tools) \in Nat /\ tools = [p \in 1..Len(tools) |-> tools[p]]
  BY LenProperties
<1>2. MergedTools(tools, k, n) = [p \in 1..Len(tools) |-> tools[p]]
  BY <1>1 DEF MergedTools
<1> QED BY <1>1, <1>2

LEMMA CoversMerged ==
  ASSUME NEW t \in Seq(Tool), NEW s \in Seq(Tool), NEW k \in Chunk, NEW n \in 1..MaxLines,
         Covers(t, s)
  PROVE  /\ Covers(MergedTools(t, k, n), MergedTools(s, k, n))
         /\ Covers(MergedTools(t, k, n), s)
<1> DEFINE mt == MergedTools(t, k, n)
           ms == MergedTools(s, k, n)
<1>1. Len(t) \in Nat /\ Len(s) \in Nat /\ k.tool \in Nat
  BY ChunkFields, LenProperties
<1>2. /\ Len(mt) = IF k.tool > Len(t) THEN k.tool ELSE Len(t)
      /\ \A p \in Positions(mt) :
           /\ mt[p].id <=> (p <= Len(t) /\ t[p].id) \/ (p = k.tool /\ k.id)
           /\ mt[p].name <=> (p <= Len(t) /\ t[p].name) \/ (p = k.tool /\ k.name)
  BY MergedFields
<1>3. /\ Len(ms) = IF k.tool > Len(s) THEN k.tool ELSE Len(s)
      /\ \A p \in Positions(ms) :
           /\ ms[p].id <=> (p <= Len(s) /\ s[p].id) \/ (p = k.tool /\ k.id)
           /\ ms[p].name <=> (p <= Len(s) /\ s[p].name) \/ (p = k.tool /\ k.name)
  BY MergedFields
<1> HIDE DEF mt, ms
<1>4. Covers(mt, ms)
  BY <1>1, <1>2, <1>3 DEF Covers, Positions
<1>5. Covers(mt, s)
  BY <1>1, <1>2 DEF Covers, Positions
<1> QED BY <1>4, <1>5 DEF mt, ms

(* A line merges a tool call alike for the client and for the accumulator.   *)
LEMMA ReadCalls ==
  ASSUME Types, NEW k \in Chunk, ReadChunk(k)
  PROVE  /\ lines + 1 \in 1..MaxLines /\ k.choice \in Choice
         /\ \A c \in Choice \ {k.choice} :
              choices'[c].tools = choices[c].tools /\ next'[c] = shown[c]
         /\ choices'[k.choice].tools = MergedTools(choices[k.choice].tools, k, lines + 1)
         /\ next'[k.choice].tools = MergedTools(shown[k.choice].tools, k, lines + 1)
<1>1. /\ lines + 1 \in 1..MaxLines /\ lines < MaxLines /\ k.choice \in Choice
      /\ \A c \in Choice : choices[c].tools \in Seq(Tool)
  BY ConstantFacts, ChunkFields DEF Types, RestTypes, ReadChunk, AccTypes, Collected
<1>2. ASSUME NEW text, Receives(k, lines + 1, text)
      PROVE  /\ \A c \in Choice \ {k.choice} : next'[c] = shown[c]
             /\ next'[k.choice].tools = MergedTools(shown[k.choice].tools, k, lines + 1)
  BY <1>1, <1>2 DEF Receives, Types, ViewTypes
<1>3. CASE PassLine(k)
  <2>1. choices' = choices /\ k.tool = 0
    BY <1>3 DEF PassLine, PassesThrough, acc
  <2>2. MergedTools(choices[k.choice].tools, k, lines + 1) = choices[k.choice].tools
    BY <1>1, <2>1, NothingMerged
  <2> QED BY <1>1, <1>2, <1>3, <2>1, <2>2 DEF PassLine
<1>4. CASE RewriteLine(k)
  BY <1>1, <1>2, <1>4, RewriteChoice DEF RewriteLine
<1> QED BY <1>3, <1>4 DEF ReadChunk

LEMMA CallsStep ==
  ASSUME Types, CallsInv, [Next]_vars
  PROVE  CallsInv'
<1>0. \A c \in Choice : choices[c].tools \in Seq(Tool) /\ shown[c].tools \in Seq(Tool)
  BY DEF Types, AccTypes, ViewTypes, Collected, Visible
<1>1. ASSUME NEW k \in Chunk, ReadChunk(k) PROVE CallsInv'
  <2>1. shown' = shown
    BY <1>1 DEF ReadChunk
  <2>2. /\ lines + 1 \in 1..MaxLines /\ k.choice \in Choice
        /\ \A c \in Choice \ {k.choice} :
             choices'[c].tools = choices[c].tools /\ next'[c] = shown[c]
        /\ choices'[k.choice].tools = MergedTools(choices[k.choice].tools, k, lines + 1)
        /\ next'[k.choice].tools = MergedTools(shown[k.choice].tools, k, lines + 1)
    BY <1>1, ReadCalls
  <2>3. /\ Covers(choices'[k.choice].tools, next'[k.choice].tools)
        /\ Covers(choices'[k.choice].tools, shown[k.choice].tools)
    BY <1>0, <2>2, CoversMerged DEF CallsInv
  <2>4. /\ sent[k.choice].answered \/ k.tool > 0 => sent'[k.choice].answered
        /\ \A c \in Choice \ {k.choice} : sent'[c] = sent[c]
    BY <1>1, <2>2 DEF ReadChunk, Upstream, Types, RestTypes
  <2>5. choices'[k.choice].tools # <<>> => sent'[k.choice].answered
    <3>1. CASE k.tool = 0
      <4>1. choices'[k.choice].tools = choices[k.choice].tools
        BY <1>0, <2>2, <3>1, NothingMerged
      <4> QED BY <2>2, <2>4, <4>1 DEF CallsInv
    <3>2. CASE k.tool # 0
      BY <2>4, <3>2, ChunkFields
    <3> QED BY <3>1, <3>2
  <2> QED BY <2>1, <2>2, <2>3, <2>4, <2>5 DEF CallsInv
<1>2. CASE /\ choices' = choices /\ sent' = sent
           /\ \A c \in Choice : /\ shown'[c].tools \in {shown[c].tools, next[c].tools}
                                /\ next'[c].tools \in {shown[c].tools, next[c].tools}
  BY <1>2 DEF CallsInv
<1>3. CASE ReadDone
  <2>1. \A c \in Choice : next'[c].tools = shown[c].tools
    BY <1>3 DEF ReadDone, Types, ViewTypes, Visible
  <2> QED BY <1>2, <1>3, <2>1 DEF ReadDone, StoreAll, fixed
<1> QED
  BY <1>1, <1>2, <1>3 DEF Next, Progress, Stopped, Connect, Retry, NoAnswer, Break, YieldError,
       Abandon, EndOfStream, Cancel, Collect, Deliver, Finally, StoreAll, vars, acc, fixed, view

LEMMA WrittenStep ==
  ASSUME Types, Flow, ChoicesInv, WrittenInv, [Next]_vars
  PROVE  WrittenInv'
<1>1. CASE UNCHANGED <<choices, stored, cache>>
  BY <1>1 DEF WrittenInv
<1>2. ASSUME NEW queue \in Queues, NEW ord, NEW c \in Choice, NEW i \in 1..Context,
             cache' = Flushed(choices', ord, queue), choices'[c].hasReasoning,
             <<c, i>> \in queue \/ (stored[c][i] = Final /\ choices'[c] = choices[c])
      PROVE  KeySet(Message(choices'[c]), c, i) \subseteq DOMAIN cache'
  <2>1. DOMAIN cache' = DOMAIN cache \cup SavedKeys(choices', queue)
    BY <1>2, FlushedRest
  <2>2. CASE <<c, i>> \in queue
    <3>1. KeySet(Message(choices'[c]), c, i) \subseteq SavedKeys(choices', queue)
      BY <1>2, <2>2 DEF SavedKeys, KeysOf, Writing
    <3> QED BY <2>1, <3>1
  <2>3. CASE stored[c][i] = Final /\ choices'[c] = choices[c]
    BY <1>2, <2>1, <2>3 DEF WrittenInv
  <2> QED BY <1>2, <2>2, <2>3
<1>3. ASSUME NEW k \in Chunk, ReadChunk(k), RewriteLine(k) PROVE WrittenInv'
  <2> SUFFICES ASSUME NEW c \in Choice, NEW i \in 1..Context,
                      stored'[c][i] = Final, choices'[c].hasReasoning
               PROVE  KeySet(Message(choices'[c]), c, i) \subseteq DOMAIN cache'
    BY DEF WrittenInv
  <2>1. ~Closed /\ lines < MaxLines /\ ~choices[k.choice].finished /\ k.choice \in Choice
    BY <1>3, ChunkFields DEF ReadChunk, Follows, Closed, Flow, ChoicesInv
  <2>2. PICK queue \in Queues :
          /\ cache' = Flushed(choices', order', queue)
          /\ \A d \in Choice, j \in 1..Context :
               stored'[d][j] = IF <<d, j>> \in queue THEN Stage(choices'[d]) ELSE stored[d][j]
    BY <1>3, <2>1, RewriteParts
  <2>3. CASE <<c, i>> \in queue
    BY <1>2, <2>2, <2>3
  <2>4. CASE <<c, i>> \notin queue
    <3>1. stored[c][i] = Final
      BY <2>2, <2>4
    <3>2. choices[c].finished
      BY <2>1, <3>1 DEF ChoicesInv, Frozen
    <3>3. choices'[c] = choices[c]
      BY <1>3, <2>1, <3>2, RewriteChoice
    <3> QED BY <1>2, <2>2, <3>1, <3>3
  <2> QED BY <2>3, <2>4
<1>4. CASE StoreAll
  <2>1. /\ FinalQueue \in Queues /\ choices' = choices
        /\ cache' = Flushed(choices', order, FinalQueue)
        /\ \A c \in Choice, i \in 1..Context :
             stored'[c][i] = Final => <<c, i>> \in FinalQueue \/ stored[c][i] = Final
    BY <1>4, StoreAllParts
  <2> HIDE DEF FinalQueue
  <2> QED BY <1>2, <2>1 DEF WrittenInv
<1>5. ASSUME NEW k \in Chunk, ReadChunk(k) PROVE WrittenInv'
  BY <1>1, <1>3, <1>5 DEF ReadChunk, PassLine, acc
<1> QED
  BY <1>1, <1>4, <1>5 DEF Next, Progress, Stopped, ReadDone, Connect, Retry, NoAnswer, Break,
       YieldError, Abandon, EndOfStream, Cancel, Collect, Deliver, Finally, vars, acc

LEMMA WholePrefix ==
  ASSUME NEW s \in Seq(Token)
  PROVE  Len(s) \in 0..Len(s) /\ SubSeq(s, 1, Len(s)) = s
<1>1. Len(s) \in Nat /\ s = [j \in 1..Len(s) |-> s[j]]
  BY LenProperties
<1>2. SubSeq(s, 1, Len(s)) = [j \in 1..Len(s) |-> s[j]]
  BY <1>1
<1> QED BY <1>1, <1>2

LEMMA LongerPrefix ==
  ASSUME NEW s \in Seq(Token), NEW t \in Seq(Token), NEW n \in 0..Len(s)
  PROVE  n \in 0..Len(s \o t) /\ SubSeq(s \o t, 1, n) = SubSeq(s, 1, n)
<1>1. Len(s) \in Nat /\ Len(t) \in Nat /\ Len(s \o t) = Len(s) + Len(t)
  BY ConcatProperties, LenProperties
<1>2. \A j \in 1..n : (s \o t)[j] = s[j]
  BY <1>1, ConcatProperties
<1>3. SubSeq(s \o t, 1, n) = [j \in 1..n |-> (s \o t)[j]]
  BY <1>1
<1>4. SubSeq(s, 1, n) = [j \in 1..n |-> s[j]]
  BY <1>1
<1> QED BY <1>1, <1>2, <1>3, <1>4

(* What a line does to the reasoning of its choice.                          *)
LEMMA ReadParts ==
  ASSUME Types, Flow, NEW k \in Chunk, ReadChunk(k), NEW d \in Choice, NEW s, PartOf(s, d)
  PROVE  PartOf(s, d)'
<1>1. k.choice \in Choice /\ lines + 1 \in 1..MaxLines /\ lines < MaxLines /\ ~Closed
  BY ConstantFacts, ChunkFields DEF Types, RestTypes, ReadChunk, Flow, Closed
<1>2. /\ sent[k.choice].answered => sent'[k.choice].answered
      /\ \A c \in Choice \ {k.choice} : sent'[c] = sent[c]
      /\ ~sent[k.choice].finished
      /\ InOrder /\ k.reasoning = "text" => ~sent[k.choice].answered
  BY <1>1 DEF ReadChunk, Upstream, Types, RestTypes, Follows
<1>3. Settled(d) => Settled(d)'
  BY <1>1, <1>2 DEF Settled
<1>4. CASE choices'[d].reasoning = choices[d].reasoning
  BY <1>3, <1>4 DEF PartOf
<1>5. CASE choices'[d].reasoning # choices[d].reasoning
  <2>1. RewriteLine(k)
    BY <1>5 DEF ReadChunk, PassLine, acc
  <2>2. choices' = [choices EXCEPT ![k.choice] =
                      Ingested(choices[k.choice], k, lines + 1, WithNotice(k, lines + 1))]
    BY <2>1 DEF RewriteLine
  <2>3. d = k.choice
    BY <1>5, <2>2
  <2>4. choices[d] \in Collected /\ choices \in [Choice -> Collected]
    BY DEF Types, AccTypes
  <2>5. choices'[d].reasoning =
          IF k.reasoning = "text"
          THEN Appended(choices[d].reasoning, <<Thought(lines + 1)>>) ELSE choices[d].reasoning
    BY <2>2, <2>3, <2>4 DEF Ingested
  <2> DEFINE old == choices[d].reasoning
             more == <<Thought(lines + 1)>>
  <2>6. k.reasoning = "text" /\ choices'[d].reasoning = old \o more
    BY <1>5, <2>5 DEF Appended
  <2>7. old \in Seq(Token) /\ more \in Seq(Token)
    BY <1>1, <2>4, TokenFacts, SequenceType DEF Collected
  <2>8. CASE InOrder
    <3>1. Settled(d)
      BY <2>8 DEF PartOf
    <3> QED BY <1>1, <1>2, <2>3, <2>6, <2>8, <3>1 DEF Settled
  <2>9. CASE ~InOrder
    <3>1. PICK n \in 0..Len(old) : s = SubSeq(old, 1, n)
      BY DEF PartOf
    <3> HIDE DEF old, more
    <3>2. n \in 0..Len(old \o more) /\ SubSeq(old \o more, 1, n) = s
      BY <2>7, <3>1, LongerPrefix
    <3> QED BY <2>6, <2>9, <3>2 DEF PartOf
  <2> QED BY <2>8, <2>9
<1> QED BY <1>4, <1>5

(* What a flush leaves in the store.                                         *)
LEMMA ValuesFlushed ==
  ASSUME NEW ord \in Orders, NEW queue \in Queues, cache' = Flushed(choices', ord, queue),
         choices' \in [Choice -> Collected],
         \A c \in Choice, i \in 1..Context : <<c, i>> \in queue => Settled(c)',
         \A s : \A d \in Choice : PartOf(s, d) => PartOf(s, d)',
         ValuesInv
  PROVE  ValuesInv'
<1> SUFFICES ASSUME NEW key \in DOMAIN cache' PROVE (\E d \in Choice : PartOf(cache[key], d))'
  BY DEF ValuesInv
<1>1. CASE key \in SavedKeys(choices', queue)
  <2>1. PICK q \in Writing(choices', queue) : cache'[key] = choices'[q[1]].reasoning
    BY <1>1, FlushedWriter
  <2>2. q \in queue /\ q[1] \in Choice /\ q[2] \in 1..Context /\ q = <<q[1], q[2]>>
    BY DEF Writing, Queues
  <2>3. PICK d \in Choice : d = q[1]
    BY <2>2
  <2>4. Settled(d)' /\ choices'[d].reasoning \in Seq(Token)
    BY <2>2, <2>3 DEF Collected
  <2>5. /\ Len(choices'[d].reasoning) \in 0..Len(choices'[d].reasoning)
        /\ SubSeq(choices'[d].reasoning, 1, Len(choices'[d].reasoning)) = cache'[key]
    BY <2>1, <2>3, <2>4, WholePrefix
  <2>6. PartOf(cache[key], d)'
    BY <2>4, <2>5 DEF PartOf
  <2> QED BY <2>6
<1>2. CASE key \notin SavedKeys(choices', queue)
  <2>1. key \in DOMAIN cache /\ cache'[key] = cache[key]
    BY <1>2, FlushedRest
  <2>2. PICK d \in Choice : PartOf(cache[key], d)
    BY <2>1 DEF ValuesInv
  <2>3. PICK s : s = cache[key]
    OBVIOUS
  <2>4. PartOf(s, d)
    BY <2>2, <2>3
  <2>5. PartOf(s, d)'
    BY <2>4
  <2>6. PartOf(cache[key], d)'
    BY <2>1, <2>3, <2>5 DEF PartOf
  <2> QED BY <2>6
<1> QED BY <1>1, <1>2

LEMMA ValuesStep ==
  ASSUME Types, Flow, ChoicesInv', CallsInv', ValuesInv, [Next]_vars
  PROVE  ValuesInv'
<1>1. CASE UNCHANGED <<choices, cache, sent>> /\ (Closed => Closed')
  BY <1>1 DEF ValuesInv, PartOf, Settled
<1>2. ASSUME NEW k \in Chunk, ReadChunk(k) PROVE ValuesInv'
  <2>1. \A s : \A d \in Choice : PartOf(s, d) => PartOf(s, d)'
    BY <1>2, ReadParts
  <2>2. CASE PassLine(k)
    <3> SUFFICES ASSUME NEW key \in DOMAIN cache' PROVE (\E d \in Choice : PartOf(cache[key], d))'
      BY DEF ValuesInv
    <3>1. cache' = cache
      BY <2>2 DEF PassLine
    <3>2. PICK d \in Choice : PartOf(cache[key], d)
      BY <3>1 DEF ValuesInv
    <3>3. PICK s : s = cache[key]
      OBVIOUS
    <3>4. PartOf(s, d)
      BY <3>2, <3>3
    <3>5. PartOf(s, d)'
      BY <2>1, <3>4
    <3>6. PartOf(cache[key], d)'
      BY <3>1, <3>3, <3>5 DEF PartOf
    <3> QED BY <3>6
  <2>3. CASE RewriteLine(k)
    <3>1. lines < MaxLines
      BY <1>2 DEF ReadChunk
    <3>2. choices' \in [Choice -> Collected] /\ order' \in Orders
      BY <2>3, <3>1, RewriteParts
    <3>3. PICK queue \in Queues :
            /\ cache' = Flushed(choices', order', queue)
            /\ \A c \in Choice, i \in 1..Context : <<c, i>> \in queue => Stage(choices'[c]) > 0
      BY <2>3, <3>1, RewriteParts
    <3>4. ASSUME NEW c \in Choice, NEW i \in 1..Context, <<c, i>> \in queue
          PROVE  Settled(c)'
      <4>1. choices'[c].tools # <<>> \/ choices'[c].finished
        BY <3>3, <3>4, StageFacts
      <4> QED BY <4>1 DEF CallsInv, ChoicesInv, Settled
    <3> QED BY <2>1, <3>2, <3>3, <3>4, ValuesFlushed
  <2> QED BY <1>2, <2>2, <2>3 DEF ReadChunk
<1>3. CASE StoreAll /\ Closed' /\ sent' = sent
  <2>1. /\ FinalQueue \in Queues /\ choices' = choices
        /\ cache' = Flushed(choices', order, FinalQueue)
    BY <1>3, StoreAllParts
  <2> HIDE DEF FinalQueue
  <2>2. choices' \in [Choice -> Collected] /\ order \in Orders
    BY <2>1 DEF Types, AccTypes
  <2>3. \A c \in Choice : Settled(c)'
    BY <1>3 DEF Settled
  <2>4. \A s : \A d \in Choice : PartOf(s, d) => PartOf(s, d)'
    BY <2>1, <2>3 DEF PartOf
  <2> QED BY <2>1, <2>2, <2>3, <2>4, ValuesFlushed
<1>4. CASE ReadDone
  BY <1>3, <1>4 DEF ReadDone, Closed, fixed
<1>5. CASE Finally
  <2>1. CASE finalized
    BY <1>1, <1>5, <2>1 DEF Finally, Closed, acc, fixed
  <2>2. CASE ~finalized
    BY <1>3, <1>5, <2>2 DEF Finally, Closed, fixed
  <2> QED BY <2>1, <2>2
<1>6. CASE Connect \/ Retry \/ NoAnswer \/ Break \/ Abandon \/ (Deliver /\ ~Finally)
  <2>1. UNCHANGED <<choices, cache, sent>>
    BY <1>6 DEF Connect, Retry, NoAnswer, Break, YieldError, Abandon, Deliver, acc, fixed
  <2>2. Closed => Closed'
    BY <1>6 DEF Connect, Retry, NoAnswer, Break, YieldError, Yields, Abandon, Deliver, Closed
  <2> QED BY <1>1, <2>1, <2>2
<1>7. CASE UNCHANGED vars
  BY <1>1, <1>7 DEF vars, acc, fixed, Closed
<1> QED
  BY <1>2, <1>4, <1>5, <1>6, <1>7 DEF Next, Progress, Stopped, EndOfStream, Cancel, Collect

(* A call with an id or a name has a key of its own among those of the       *)
(* message, whatever its text is.                                            *)
Has(s, x) == \E j \in Positions(s) : s[j] = x

LEMMA HasInConcat ==
  ASSUME NEW S, NEW s \in Seq(S), NEW t \in Seq(S), NEW x, Has(s, x) \/ Has(t, x)
  PROVE  Has(s \o t, x)
<1>1. Len(s) \in Nat /\ Len(t) \in Nat /\ Len(s \o t) = Len(s) + Len(t)
  BY ConcatProperties, LenProperties
<1>2. CASE Has(s, x)
  <2>1. PICK j \in 1..Len(s) : s[j] = x
    BY <1>2 DEF Has, Positions
  <2>2. (s \o t)[j] = x /\ j \in 1..Len(s \o t)
    BY <1>1, <2>1, ConcatProperties
  <2> QED BY <2>2 DEF Has, Positions
<1>3. CASE Has(t, x)
  <2>1. PICK j \in 1..Len(t) : t[j] = x
    BY <1>3 DEF Has, Positions
  <2>2. (s \o t)[Len(s) + j] = x /\ Len(s) + j \in 1..Len(s \o t)
    BY <1>1, <2>1, ConcatProperties
  <2> QED BY <2>2 DEF Has, Positions
<1> QED BY <1>2, <1>3

LEMMA CallKeys ==
  ASSUME NEW m, m.tools \in Seq(Tool), NEW c, NEW i, NEW p \in Positions(m.tools)
  PROVE  /\ m.tools[p].id => Has(ReasoningKeys(m, c, i), <<i, "id", <<c, p>>>>)
         /\ m.tools[p].name => Has(ReasoningKeys(m, c, i), <<i, "name", <<>>>>)
<1> DEFINE calls == Positions(m.tools)
           signature == <<i, "signature", <<m.content, m.tools>>>>
           ids == [q \in calls |-> IF m.tools[q].id THEN <<i, "id", <<c, q>>>> ELSE signature]
           args == [q \in calls |-> <<i, "call", <<m.tools[q].name, m.tools[q].args>>>>]
           names == [q \in calls |-> IF m.tools[q].name THEN <<i, "name", <<>>>> ELSE signature]
           S == {signature} \cup {ids[q] : q \in calls} \cup {args[q] : q \in calls}
                \cup {names[q] : q \in calls}
           ks == ReasoningKeys(m, c, i)
<1>1. Len(m.tools) \in Nat /\ p \in 1..Len(m.tools)
  BY LenProperties DEF Positions
<1>2. ks = <<signature>> \o ids \o args \o names
  BY DEF ReasoningKeys
<1>3. <<signature>> \in Seq(S) /\ ids \in Seq(S) /\ args \in Seq(S) /\ names \in Seq(S)
  <2>1. \A q \in 1..Len(m.tools) : ids[q] \in S /\ args[q] \in S /\ names[q] \in S
    BY DEF Positions
  <2> HIDE DEF S
  <2>2. \A f \in [1..Len(m.tools) -> S] : f \in Seq(S)
    BY <1>1, SeqDef
  <2>3. ids \in [1..Len(m.tools) -> S] /\ args \in [1..Len(m.tools) -> S]
        /\ names \in [1..Len(m.tools) -> S]
    BY <2>1 DEF Positions
  <2>4. signature \in S
    BY DEF S
  <2>5. <<signature>> \in Seq(S)
    BY <2>4, SequenceType
  <2> QED BY <2>2, <2>3, <2>5
<1> HIDE DEF S
<1>4. DOMAIN ids = 1..Len(m.tools) /\ DOMAIN names = 1..Len(m.tools)
  BY DEF Positions
<1>5. m.tools[p].id => ids[p] = <<i, "id", <<c, p>>>>
  OBVIOUS
<1>6. m.tools[p].name => names[p] = <<i, "name", <<>>>>
  OBVIOUS
<1> HIDE DEF ids, args, names, ks, signature
<1>7. Len(ids) = Len(m.tools) /\ Len(names) = Len(m.tools)
  BY <1>1, <1>3, <1>4, LenProperties
<1>8. /\ m.tools[p].id => Has(ids, <<i, "id", <<c, p>>>>)
      /\ m.tools[p].name => Has(names, <<i, "name", <<>>>>)
  BY <1>1, <1>5, <1>6, <1>7 DEF Has, Positions
<1> DEFINE a == <<signature>> \o ids
           b == a \o args
<1>9. a \in Seq(S) /\ \A x : Has(ids, x) => Has(a, x)
  BY <1>3, HasInConcat, SequenceType
<1> HIDE DEF a
<1>10. b \in Seq(S) /\ \A x : Has(a, x) => Has(b, x)
  BY <1>3, <1>9, HasInConcat, SequenceType
<1>11. ks = b \o names
  BY <1>2 DEF a
<1> HIDE DEF b
<1>12. \A x : Has(b, x) \/ Has(names, x) => Has(ks, x)
  BY <1>3, <1>10, <1>11, HasInConcat
<1> QED BY <1>8, <1>9, <1>10, <1>12 DEF ks

(* What the client has of an answer leads to it as soon as there is a call   *)
(* with an id or a name, however much is missing when the stream stops.      *)
THEOREM CallsInvariance ==
  Spec => [](Types /\ Flow /\ ChoicesInv /\ CallsInv /\ WrittenInv /\ ValuesInv)
<1>1. Init => CallsInv /\ WrittenInv /\ ValuesInv
  <2> SUFFICES ASSUME Init PROVE CallsInv /\ WrittenInv /\ ValuesInv
    OBVIOUS
  <2>1. \A c \in Choice : choices[c].tools = <<>> /\ shown[c].tools = <<>> /\ next[c].tools = <<>>
    BY DEF Init, NewChoice, Nothing
  <2>2. Covers(<<>>, <<>>)
    BY DEF Covers, Positions
  <2>3. \A c \in Choice, i \in 1..Context : stored[c][i] # Final
    BY DEF Init, Final
  <2>4. DOMAIN cache = {}
    BY DEF Init
  <2> QED BY <2>1, <2>2, <2>3, <2>4 DEF CallsInv, WrittenInv, ValuesInv
<1>2. Types /\ CallsInv /\ [Next]_vars => CallsInv'
  BY CallsStep
<1>3. Types /\ Flow /\ ChoicesInv /\ WrittenInv /\ [Next]_vars => WrittenInv'
  BY WrittenStep
<1>4. Types /\ Flow /\ ChoicesInv' /\ CallsInv' /\ ValuesInv /\ [Next]_vars => ValuesInv'
  BY ValuesStep
<1> QED BY <1>1, <1>2, <1>3, <1>4, KeptInvariance, PTL DEF Spec

(* However the stream ends, a message with a tool call that reached the      *)
(* client with an id or a name, sent back as it was received, is given this  *)
(* answer's reasoning, in each recording context (scoped_reasoning_keys,     *)
(* lookup_for_message); all of it if upstream sends reasoning first.         *)
THEOREM ToolCallsAreFound == Spec => []ToolCallsFound
<1>1. ASSUME Types, ChoicesInv, CallsInv, WrittenInv, ValuesInv PROVE ToolCallsFound
  <2> SUFFICES ASSUME phase = "ended", NEW c \in Choice, NEW i \in 1..Context,
                      choices[c].hasReasoning, NEW p \in Positions(shown[c].tools),
                      shown[c].tools[p].name \/ shown[c].tools[p].id
               PROVE  \E d \in Choice : \E n \in 0..Len(choices[d].reasoning) :
                        /\ Lookup(Replayed(c), c, i) = <<SubSeq(choices[d].reasoning, 1, n)>>
                        /\ InOrder => n = Len(choices[d].reasoning)
    BY DEF ToolCallsFound
  <2> DEFINE m == Replayed(c)
             ks == ReasoningKeys(m, c, i)
             hits == {j \in Positions(ks) : ks[j] \in DOMAIN cache}
             x == IF shown[c].tools[p].id THEN <<i, "id", <<c, p>>>> ELSE <<i, "name", <<>>>>
  <2>1. KeySet(Message(choices[c]), c, i) \subseteq DOMAIN cache
    BY <1>1 DEF ChoicesInv, Closed, WrittenInv
  <2>2. /\ m.tools = shown[c].tools /\ shown[c].tools \in Seq(Tool)
        /\ Message(choices[c]).tools = choices[c].tools /\ choices[c].tools \in Seq(Tool)
    BY <1>1 DEF Replayed, Message, Types, AccTypes, ViewTypes, Collected, Visible
  <2>3. /\ p \in Positions(choices[c].tools)
        /\ shown[c].tools[p].id => choices[c].tools[p].id
        /\ shown[c].tools[p].name => choices[c].tools[p].name
    <3>1. Covers(choices[c].tools, shown[c].tools)
      BY <1>1 DEF CallsInv
    <3>2. Len(choices[c].tools) \in Nat /\ Len(shown[c].tools) \in Nat
      BY <2>2, LenProperties
    <3> QED BY <3>1, <3>2 DEF Covers, Positions
  <2>4. x \in DOMAIN cache
    <3>1. Has(ReasoningKeys(Message(choices[c]), c, i), x)
      BY <2>2, <2>3, CallKeys
    <3>2. x \in KeySet(Message(choices[c]), c, i)
      BY <3>1 DEF Has, KeySet
    <3> QED BY <2>1, <3>2
  <2>5. Has(ks, x)
    <3> HIDE DEF m
    <3> QED BY <2>2, CallKeys
  <2>6. Lookup(m, c, i) = IF hits = {} THEN <<>> ELSE <<cache[ks[Min(hits)]]>>
    BY DEF Lookup
  <2> HIDE DEF ks, x, m
  <2>7. hits # {} /\ hits \subseteq Nat
    BY <2>4, <2>5 DEF Has, Positions
  <2>8. Min(hits) \in hits
    <3> HIDE DEF hits
    <3>1. \E y \in hits : \A z \in hits : y <= z
      BY <2>7, Smallest
    <3>2. Min(hits) = CHOOSE y \in hits : \A z \in hits : y <= z
      BY DEF Min
    <3> QED BY <3>1, <3>2
  <2>9. PICK d \in Choice : PartOf(cache[ks[Min(hits)]], d)
    BY <1>1, <2>8 DEF ValuesInv
  <2> HIDE DEF hits
  <2>10. Lookup(m, c, i) = <<cache[ks[Min(hits)]]>>
    BY <2>6, <2>7
  <2> QED BY <2>9, <2>10 DEF PartOf, m
<1>2. Types /\ ChoicesInv /\ CallsInv /\ WrittenInv /\ ValuesInv => ToolCallsFound
  BY <1>1
<1> QED BY CallsInvariance, <1>2, PTL
-----------------------------------------------------------------------------
(* ReceivedIsFound: what is left of a text without its thinking blocks.      *)
LEMMA WalkSteps ==
  ASSUME NEW s \in Seq(Token)
  PROVE  /\ Len(s) \in Nat
         /\ \A j \in 0..Len(s) : Walk(s)[j] = IF j = 0 THEN Unread ELSE Strip(Walk(s)[j - 1], s[j])
<1> DEFINE N == Len(s)
           Is(f, n) == f = [j \in 0..n |-> IF j = 0 THEN Unread ELSE Strip(f[j - 1], s[j])]
           bad == {n \in 0..N : ~(\E f : Is(f, n))}
<1>1. N \in Nat
  BY LenProperties
<1>2. bad = {}
  <2> SUFFICES ASSUME bad # {} PROVE FALSE
    OBVIOUS
  <2>0. bad \subseteq Nat
    BY <1>1
  <2>1. PICK n \in bad : \A m \in bad : n <= m
    <3> HIDE DEF bad
    <3> QED BY <2>0, Smallest
  <2>2. n \in 0..N /\ ~(\E f : Is(f, n))
    BY <2>1
  <2>3. CASE n = 0
    <3> DEFINE f == [j \in 0..0 |-> Unread]
    <3>1. Is(f, 0)
      OBVIOUS
    <3> QED BY <2>2, <2>3, <3>1
  <2>4. CASE n # 0
    <3>1. n - 1 \in 0..N /\ ~(n <= n - 1)
      BY <1>1, <2>2, <2>4
    <3>2. PICK g : Is(g, n - 1)
      <4> HIDE DEF Is
      <4> QED BY <2>1, <3>1
    <3> DEFINE f == [j \in 0..n |-> IF j < n THEN g[j] ELSE Strip(g[n - 1], s[n])]
    <3>3. g = [j \in 0..(n - 1) |-> IF j = 0 THEN Unread ELSE Strip(g[j - 1], s[j])]
      BY <3>2
    <3>4. \A j \in 0..n : f[j] = IF j = 0 THEN Unread ELSE Strip(f[j - 1], s[j])
      <4> TAKE j \in 0..n
      <4>1. CASE j = n
        <5>1. f[j - 1] = g[n - 1]
          BY <1>1, <2>2, <2>4, <4>1
        <5> QED BY <1>1, <2>2, <2>4, <4>1, <5>1
      <4>2. CASE j # n /\ j # 0
        <5>1. j \in 0..(n - 1) /\ j - 1 \in 0..n /\ j - 1 < n
          BY <1>1, <2>2, <4>2
        <5>2. f[j - 1] = g[j - 1] /\ f[j] = g[j]
          BY <1>1, <2>2, <4>2, <5>1
        <5>3. g[j] = Strip(g[j - 1], s[j])
          BY <3>3, <4>2, <5>1
        <5> QED BY <4>2, <5>2, <5>3
      <4>3. CASE j = 0
        <5>1. f[0] = g[0] /\ 0 \in 0..(n - 1)
          BY <1>1, <2>2, <2>4, <4>3
        <5> QED BY <3>3, <4>3, <5>1
      <4> QED BY <4>1, <4>2, <4>3
    <3>5. f = [j \in 0..n |-> f[j]]
      OBVIOUS
    <3> HIDE DEF f
    <3>6. f = [j \in 0..n |-> IF j = 0 THEN Unread ELSE Strip(f[j - 1], s[j])]
      BY <3>4, <3>5
    <3> QED BY <2>2, <3>6
  <2> QED BY <2>3, <2>4
<1>3. \E f : Is(f, N)
  <2> HIDE DEF Is
  <2>1. N \in 0..N /\ N \notin bad
    BY <1>1, <1>2
  <2> QED BY <2>1
<1>4. Walk(s) = CHOOSE f : Is(f, N)
  BY DEF Walk
<1> DEFINE w == Walk(s)
<1>5. Is(w, N)
  <2> HIDE DEF Is
  <2> QED BY <1>3, <1>4
<1> HIDE DEF w
<1>6. \A j \in 0..N : w[j] = IF j = 0 THEN Unread ELSE Strip(w[j - 1], s[j])
  BY <1>5
<1> QED BY <1>1, <1>6 DEF w

(* A token that is added is stripped after the others.                       *)
LEMMA WalkOfAppend ==
  ASSUME NEW s \in Seq(Token), NEW t \in Token
  PROVE  LET u == s \o <<t>> IN Walk(u)[Len(u)] = Strip(Walk(s)[Len(s)], t)
<1> DEFINE n == Len(s)
           u == s \o <<t>>
           bad == {j \in 0..n : Walk(u)[j] # Walk(s)[j]}
<1>1. n \in Nat /\ <<t>> \in Seq(Token) /\ Len(<<t>>) = 1
  BY LenProperties
<1>2. u \in Seq(Token) /\ Len(u) = n + 1
      /\ \A i \in 1..n+1 : u[i] = IF i <= n THEN s[i] ELSE <<t>>[i - n]
  BY <1>1, ConcatProperties
<1>3. u[n + 1] = t /\ \A i \in 1..n : u[i] = s[i]
  BY <1>1, <1>2
<1> HIDE DEF u
<1>4. /\ \A j \in 0..n : Walk(s)[j] = IF j = 0 THEN Unread ELSE Strip(Walk(s)[j - 1], s[j])
      /\ \A j \in 0..n+1 : Walk(u)[j] = IF j = 0 THEN Unread ELSE Strip(Walk(u)[j - 1], u[j])
  BY <1>2, WalkSteps
<1>5. bad = {}
  <2> SUFFICES ASSUME bad # {} PROVE FALSE
    OBVIOUS
  <2>1. bad \subseteq Nat
    BY <1>1
  <2>2. PICK j \in bad : \A i \in bad : j <= i
    <3> HIDE DEF bad
    <3> QED BY <2>1, Smallest
  <2>3. j \in 0..n /\ Walk(u)[j] # Walk(s)[j]
    BY <2>2
  <2>4. j # 0
    BY <1>1, <1>4, <2>3
  <2>5. j - 1 \in 0..n /\ j - 1 \notin bad
    BY <1>1, <2>2, <2>3, <2>4
  <2>6. Walk(u)[j - 1] = Walk(s)[j - 1]
    BY <2>5
  <2>7. j \in 1..n /\ j \in 0..n+1
    BY <1>1, <2>3, <2>4
  <2>8. Walk(u)[j] = Strip(Walk(u)[j - 1], u[j]) /\ Walk(s)[j] = Strip(Walk(s)[j - 1], s[j])
    BY <1>4, <2>3, <2>4, <2>7
  <2> QED BY <1>3, <2>3, <2>6, <2>7, <2>8
<1>6. n \in 0..n /\ n + 1 \in 0..n+1 /\ n + 1 # 0 /\ (n + 1) - 1 = n
  BY <1>1
<1>7. Walk(u)[n] = Walk(s)[n]
  BY <1>5, <1>6
<1>8. Walk(u)[n + 1] = Strip(Walk(u)[n], u[n + 1])
  BY <1>4, <1>6
<1> QED BY <1>2, <1>3, <1>7, <1>8 DEF u

(* Does the text have a block open at its end, and what does it show outside *)
(* its blocks, unless stripping has taken white space of the answer?         *)
Stripping(open, after, kept, lost) ==
  [inside |-> open, after |-> after, kept |-> kept, lost |-> lost]
Shows(s, open, text) ==
  \E after, lost \in BOOLEAN, kept \in Seq(Token) :
    /\ Walk(s)[Len(s)] = Stripping(open, after, kept, lost)
    /\ lost \/ kept = text

LEMMA ShowsNothing == Shows(<<>>, FALSE, <<>>)
<1>1. <<>> \in Seq(Token) /\ Len(<<>>) = 0
  BY SequenceType
<1>2. 0 \in 0..Len(<<>>)
  BY <1>1
<1>3. Walk(<<>>)[0] = Unread
  BY <1>1, <1>2, WalkSteps
<1>4. Unread = Stripping(FALSE, FALSE, <<>>, FALSE)
  BY DEF Unread, Stripping
<1> QED BY <1>1, <1>3, <1>4 DEF Shows

LEMMA ShowsAppend ==
  ASSUME NEW s \in Seq(Token), NEW t \in Token, NEW open \in BOOLEAN, NEW text \in Seq(Token),
         Shows(s, open, text)
  PROVE  /\ t = BlockStart => Shows(s \o <<t>>, TRUE, text)
         /\ t = BlockEnd => Shows(s \o <<t>>, FALSE, text)
         /\ open /\ t \notin {BlockStart, BlockEnd} => Shows(s \o <<t>>, TRUE, text)
         /\ ~open /\ t \notin {BlockStart, BlockEnd} => Shows(s \o <<t>>, FALSE, text \o <<t>>)
<1> DEFINE u == s \o <<t>>
<1>1. PICK after \in BOOLEAN, lost \in BOOLEAN, kept \in Seq(Token) :
        Walk(s)[Len(s)] = Stripping(open, after, kept, lost) /\ (lost \/ kept = text)
  BY DEF Shows
<1> DEFINE new == Strip(Stripping(open, after, kept, lost), t)
<1>2. Walk(u)[Len(u)] = new
  BY <1>1, WalkOfAppend
<1>3. kept \o <<t>> \in Seq(Token)
  BY SequenceType
<1>4. /\ t = BlockStart => new = Stripping(TRUE, after, kept, lost)
      /\ t = BlockEnd => new = Stripping(FALSE, TRUE, kept, lost)
      /\ open /\ t \notin {BlockStart, BlockEnd} => new = Stripping(open, after, kept, lost)
      /\ ~open /\ t \notin {BlockStart, BlockEnd} =>
           \/ new = Stripping(open, after, kept, TRUE)
           \/ new = Stripping(open, FALSE, kept \o <<t>>, lost)
  <2>1. Append(kept, t) = kept \o <<t>>
    BY AppendIsConcat
  <2>2. BlockStart # BlockEnd
    BY TokensDiffer
  <2> QED BY <2>1, <2>2 DEF Strip, Stripping
<1> HIDE DEF u, new
<1>5. ASSUME NEW o \in BOOLEAN, NEW x, NEW a \in BOOLEAN, NEW l \in BOOLEAN,
             NEW y \in Seq(Token), new = Stripping(o, a, y, l), l \/ y = x
      PROVE  Shows(u, o, x)
  BY <1>2, <1>5 DEF Shows
<1>6. ASSUME t = BlockStart PROVE Shows(u, TRUE, text)
  BY <1>1, <1>4, <1>5, <1>6
<1>7. ASSUME t = BlockEnd PROVE Shows(u, FALSE, text)
  BY <1>1, <1>4, <1>5, <1>7
<1>8. ASSUME open, t \notin {BlockStart, BlockEnd} PROVE Shows(u, TRUE, text)
  <2>1. new = Stripping(TRUE, after, kept, lost)
    BY <1>4, <1>8
  <2> QED BY <1>1, <1>5, <2>1
<1>9. ASSUME ~open, t \notin {BlockStart, BlockEnd} PROVE Shows(u, FALSE, text \o <<t>>)
  <2>1. CASE new = Stripping(FALSE, after, kept, TRUE)
    BY <1>5, <2>1
  <2>2. CASE new = Stripping(FALSE, FALSE, kept \o <<t>>, lost)
    <3>1. lost \/ kept \o <<t>> = text \o <<t>>
      BY <1>1
    <3> QED BY <1>3, <1>5, <2>2, <3>1
  <2> QED BY <1>4, <1>9, <2>1, <2>2
<1> QED BY <1>6, <1>7, <1>8, <1>9 DEF u

(* The text of a line goes outside the blocks and is shown.                  *)
LEMMA ShowsText ==
  ASSUME NEW k \in Chunk, NEW n \in 1..MaxLines, NEW s \in Seq(Token), NEW text \in Seq(Token),
         Shows(s, FALSE, text)
  PROVE  Shows(s \o WithNotice(k, n), FALSE, text \o WithNotice(k, n))
<1> DEFINE a == IF TakesNotice(k) THEN <<Notice>> ELSE <<>>
           b == Given(k, n)
<1> DEFINE piece == Piece(k, n)
<1>1. \A t \in {Notice, piece} : t \in Token /\ t \notin {BlockStart, BlockEnd}
  BY TokenFacts, TokensDiffer, PieceFacts
<1>2. a \in {<<>>, <<Notice>>} /\ b \in {<<>>, <<piece>>}
  BY PieceFacts
<1>3. a \in Seq(Token) /\ b \in Seq(Token)
  BY <1>1, <1>2, SequenceType
<1>4. WithNotice(k, n) = a \o b
  BY DEF WithNotice
<1> HIDE DEF a, b, piece
<1>5. ASSUME NEW r \in Seq(Token), NEW y \in Seq(Token), Shows(r, FALSE, y), NEW x,
             x \in {<<>>, <<Notice>>, <<piece>>}
      PROVE  Shows(r \o x, FALSE, y \o x)
  <2>1. CASE x = <<>>
    BY <1>5, <2>1, NothingAdded
  <2>2. CASE x \in {<<Notice>>, <<piece>>}
    <3>1. PICK t \in {Notice, piece} : x = <<t>>
      BY <2>2
    <3>2. t \in Token /\ t \notin {BlockStart, BlockEnd} /\ FALSE \in BOOLEAN
      BY <1>1
    <3> QED BY <1>5, <3>1, <3>2, ShowsAppend
  <2> QED BY <1>5, <2>1, <2>2
<1>6. Shows(s \o a, FALSE, text \o a) /\ s \o a \in Seq(Token) /\ text \o a \in Seq(Token)
  BY <1>2, <1>3, <1>5, SequenceType
<1>7. Shows((s \o a) \o b, FALSE, (text \o a) \o b)
  BY <1>2, <1>5, <1>6
<1>8. (s \o a) \o b = s \o (a \o b) /\ (text \o a) \o b = text \o (a \o b)
  BY <1>3, Regroup, Zenon
<1> QED BY <1>4, <1>7, <1>8

(* What the adapter puts around the text of a line is inside blocks, and the *)
(* block that is open afterwards is the one the adapter knows of.            *)
LEMMA ShowsMirrored ==
  ASSUME NEW k \in Chunk, NEW n \in 1..MaxLines, NEW s \in Seq(Token), NEW shownText \in Seq(Token),
         Shows(s, k.choice \in openBlocks, shownText), display \in BOOLEAN,
         ~display => openBlocks = {}, RewriteLine(k), n = lines + 1
  PROVE  Shows(s \o Mirrored(k, n, WithNotice(k, n)), k.choice \in openBlocks',
               shownText \o WithNotice(k, n))
<1> DEFINE text == WithNotice(k, n)
           a == IF k.reasoning = "text" /\ k.choice \notin openBlocks THEN <<BlockStart>> ELSE <<>>
           b == IF k.reasoning = "text" THEN <<Thought(n)>> ELSE <<>>
           c == IF Closes(k, text) THEN <<BlockEnd>> ELSE <<>>
<1>1. text \in Seq(Token) /\ a \in Seq(Token) /\ b \in Seq(Token) /\ c \in Seq(Token)
  BY TokenFacts, SequenceType, TextType
<1>2. k.choice \in openBlocks' <=> display /\ IsOpenAfter(k) /\ ~Closes(k, text)
  <2>1. openBlocks' = IF ~display THEN {}
                      ELSE IF Closes(k, text) THEN openBlocks \ {k.choice}
                      ELSE IF IsOpenAfter(k) THEN openBlocks \cup {k.choice} ELSE openBlocks
    BY DEF RewriteLine
  <2> QED BY <2>1 DEF IsOpenAfter, Closes
<1>3. CASE ~display
  <2>1. Mirrored(k, n, text) = text
    BY <1>3 DEF Mirrored
  <2>2. (k.choice \in openBlocks) = FALSE /\ (k.choice \in openBlocks') = FALSE
    BY <1>2, <1>3
  <2>3. Shows(s, FALSE, shownText)
    BY <2>2
  <2> QED BY <2>1, <2>2, <2>3, ShowsText
<1>4. CASE display
  <2>1. Mirrored(k, n, text) = a \o b \o c \o text
    BY <1>4 DEF Mirrored
  <2>2. /\ IsOpenAfter(k) /\ ~Closes(k, text) => text = <<>>
        /\ Closes(k, text) => IsOpenAfter(k)
    BY DEF Closes
  <2>3. /\ {Thought(n), BlockStart, BlockEnd} \subseteq Token
        /\ Thought(n) \notin {BlockStart, BlockEnd}
    BY TokenFacts, TokensDiffer
  <2>4. Shows(s \o a, IsOpenAfter(k), shownText) /\ s \o a \in Seq(Token)
    <3>1. CASE k.reasoning = "text" /\ k.choice \notin openBlocks
      <4>1. IsOpenAfter(k) = TRUE /\ a = <<BlockStart>> /\ (k.choice \in openBlocks) = FALSE
        BY <3>1 DEF IsOpenAfter
      <4> HIDE DEF a
      <4>2. Shows(s, FALSE, shownText) /\ FALSE \in BOOLEAN
        BY <4>1
      <4>3. Shows(s \o <<BlockStart>>, TRUE, shownText)
        BY <2>3, <4>2, ShowsAppend
      <4> QED BY <1>1, <4>1, <4>3, SequenceType
    <3>2. CASE ~(k.reasoning = "text" /\ k.choice \notin openBlocks)
      <4>1. a = <<>> /\ IsOpenAfter(k) = (k.choice \in openBlocks)
        BY <3>2 DEF IsOpenAfter
      <4> QED BY <4>1, NothingAdded
    <3> QED BY <3>1, <3>2
  <2>5. Shows((s \o a) \o b, IsOpenAfter(k), shownText) /\ (s \o a) \o b \in Seq(Token)
    <3>1. CASE k.reasoning = "text"
      <4>1. IsOpenAfter(k) = TRUE /\ b = <<Thought(n)>>
        BY <3>1 DEF IsOpenAfter
      <4> HIDE DEF a, b
      <4>2. Shows(s \o a, TRUE, shownText) /\ TRUE \in BOOLEAN
        BY <2>4, <4>1
      <4>3. Shows((s \o a) \o <<Thought(n)>>, TRUE, shownText)
        BY <2>3, <2>4, <4>2, ShowsAppend
      <4> QED BY <1>1, <2>4, <4>1, <4>3, SequenceType
    <3>2. CASE k.reasoning # "text"
      <4>1. b = <<>>
        BY <3>2
      <4> HIDE DEF a, b
      <4> QED BY <2>4, <4>1, NothingAdded
    <3> QED BY <3>1, <3>2
  <2> DEFINE open == IsOpenAfter(k) /\ ~Closes(k, text)
  <2>6. Shows(((s \o a) \o b) \o c, open, shownText) /\ ((s \o a) \o b) \o c \in Seq(Token)
    <3>1. CASE Closes(k, text)
      <4>1. IsOpenAfter(k) = TRUE /\ open = FALSE /\ c = <<BlockEnd>>
        BY <2>2, <3>1
      <4> HIDE DEF a, b, c, open, text
      <4>2. Shows((s \o a) \o b, TRUE, shownText) /\ TRUE \in BOOLEAN
        BY <2>5, <4>1
      <4>3. Shows(((s \o a) \o b) \o <<BlockEnd>>, FALSE, shownText)
        BY <2>3, <2>5, <4>2, ShowsAppend
      <4> QED BY <1>1, <2>5, <4>1, <4>3, SequenceType
    <3>2. CASE ~Closes(k, text)
      <4>1. c = <<>> /\ open = IsOpenAfter(k)
        BY <3>2 DEF IsOpenAfter
      <4> HIDE DEF a, b, c, open
      <4> QED BY <2>5, <4>1, NothingAdded
    <3> QED BY <3>1, <3>2
  <2>7. Shows((((s \o a) \o b) \o c) \o text, open, shownText \o text)
    <3>1. CASE open
      <4>1. text = <<>>
        BY <2>2, <3>1
      <4> HIDE DEF a, b, c, open, text
      <4> QED BY <2>6, <4>1, NothingAdded
    <3>2. CASE ~open
      <4>1. open = FALSE
        BY <3>2
      <4> HIDE DEF a, b, c, open
      <4>2. Shows(((s \o a) \o b) \o c, FALSE, shownText)
        BY <2>6, <4>1
      <4>3. Shows((((s \o a) \o b) \o c) \o WithNotice(k, n), FALSE, shownText \o WithNotice(k, n))
        BY <2>6, <4>2, ShowsText
      <4> QED BY <4>1, <4>3
    <3> QED BY <3>1, <3>2
  <2>8. (k.choice \in openBlocks') = open
    BY <1>2, <1>4
  <2> HIDE DEF a, b, c, open, text
  <2>9. (((s \o a) \o b) \o c) \o text = s \o (((a \o b) \o c) \o text)
    <3>1. Regroups(s, a, b, c, text)
      BY <1>1, RegroupAll, Zenon
    <3> QED BY <3>1, Zenon DEF Regroups
  <2> QED BY <2>1, <2>7, <2>8, <2>9 DEF text
<1> QED BY <1>3, <1>4

(* Upstream writes the text and the reasoning into every delta that has no   *)
(* tool call, if only as null, and the answer is not too long for the        *)
(* accumulator: what stream_keyed assumes as well.                           *)
KeyedAssumption ==
  /\ \A k \in Chunk : k.tool = 0 => k.content # "absent" /\ k.reasoning # "absent"
  /\ MaxLines < MaxContent

(* What upstream has sent is accumulated; the notice comes before all of it. *)
Pieces == lines + (IF notice = "given" THEN 1 ELSE 0)
WholeInv ==
  /\ \A c \in Choice : /\ choices[c].reasoning = sent[c].reasoning
                       /\ sent[c].reasoning # <<>> => choices[c].hasReasoning
                       /\ Len(choices[c].reasoning) <= lines
                       /\ Len(choices[c].content) <= Pieces
  /\ notice = "pending" => \A c \in Choice : sent[c].reasoning = <<>>

(* Nothing is on its way to the client, except for the line that is yielded. *)
OutcomeInv ==
  /\ phase # "yielded" \/ outcome # "open" => next = shown
  /\ phase \in {"connecting", "reading"} \/ (phase = "yielded" /\ ~failed) => outcome = "open"

(* What the client receives shows, outside the blocks, what is accumulated;  *)
(* [DONE] may add the notice to an answer, but to one without reasoning.     *)
Reaches == phase \in {"connecting", "reading", "yielded"} \/ outcome # "open"
Mirrors(c) == /\ Shows(next[c].content, c \in openBlocks, choices[c].content)
              /\ next[c].tools = choices[c].tools
Unthinking == finalized /\ \A c \in Choice : sent[c].reasoning = <<>>
ReceivedInv == Reaches => Unthinking \/ \A c \in Choice : Mirrors(c)

(* Every line is parsed and accumulated as a whole.                          *)
LEMMA KeyedLine ==
  ASSUME KeyedAssumption, Types, WholeInv, NEW k \in Chunk, ReadChunk(k)
  PROVE  /\ RewriteLine(k) /\ lines + 1 \in 1..MaxLines /\ k.choice \in Choice
         /\ \A c \in Choice \ {k.choice} : choices'[c] = choices[c] /\ sent'[c] = sent[c]
         /\ choices'[k.choice].content = choices[k.choice].content \o WithNotice(k, lines + 1)
         /\ choices'[k.choice].reasoning = IF k.reasoning = "text"
              THEN choices[k.choice].reasoning \o <<Thought(lines + 1)>>
              ELSE choices[k.choice].reasoning
         /\ sent'[k.choice].reasoning = IF k.reasoning = "text"
              THEN sent[k.choice].reasoning \o <<Thought(lines + 1)>> ELSE sent[k.choice].reasoning
         /\ choices'[k.choice].hasReasoning =
              (choices[k.choice].hasReasoning \/ k.reasoning \in {"empty", "text"})
         /\ Len(WithNotice(k, lines + 1)) <= IF notice = "pending" THEN 2 ELSE 1
         /\ notice' = IF notice = "pending" THEN "given" ELSE notice
<1> DEFINE n == lines + 1
           ch == choices[k.choice]
           added == WithNotice(k, n)
<1>1. /\ n \in 1..MaxLines /\ lines \in Nat /\ lines < MaxLines /\ MaxContent \in Nat
      /\ MaxLines \in Nat /\ MaxLines < MaxContent /\ k.choice \in Choice
      /\ (k.tool > 0 \/ (k.content # "absent" /\ k.reasoning # "absent"))
  BY ConstantFacts, ChunkFields DEF ReadChunk, Types, RestTypes, KeyedAssumption
<1>2. RewriteLine(k)
  BY <1>1, ChunkFields DEF ReadChunk, PassLine, PassesThrough
<1>3. ch \in Collected /\ choices \in [Choice -> Collected] /\ sent \in [Choice -> SentBy]
  BY <1>1 DEF Types, AccTypes, RestTypes
<1>4. choices' = [choices EXCEPT ![k.choice] = Ingested(ch, k, n, added)]
  BY <1>2 DEF RewriteLine
<1>5. choices'[k.choice] = Ingested(ch, k, n, added)
  BY <1>1, <1>3, <1>4
<1>6. \A c \in Choice \ {k.choice} : choices'[c] = choices[c] /\ sent'[c] = sent[c]
  BY <1>1, <1>3, <1>4 DEF ReadChunk, Upstream
<1>7. ch.content \in Seq(Token) /\ ch.reasoning \in Seq(Token) /\ sent[k.choice].reasoning \in Seq(Token)
  BY <1>1, <1>3 DEF Collected, SentBy
<1>8. Len(ch.content) < MaxContent /\ Len(ch.reasoning) < MaxContent
  <2>1. Len(ch.content) \in Nat /\ Len(ch.reasoning) \in Nat
    BY <1>7, LenProperties
  <2>2. Len(ch.reasoning) <= lines /\ Len(ch.content) <= lines + 1
    BY <1>1, <2>1 DEF WholeInv, Pieces
  <2> QED BY <1>1, <2>1, <2>2
<1>9. \A more : /\ Appended(ch.content, more) = ch.content \o more
                /\ Appended(ch.reasoning, more) = ch.reasoning \o more
  BY <1>8 DEF Appended
<1>10. sent'[k.choice].reasoning = IF k.reasoning = "text"
         THEN sent[k.choice].reasoning \o <<Thought(n)>> ELSE sent[k.choice].reasoning
  <2>1. Append(sent[k.choice].reasoning, Thought(n)) = sent[k.choice].reasoning \o <<Thought(n)>>
    BY <1>1, <1>7, TokenFacts, AppendIsConcat
  <2> QED BY <1>1, <1>3, <2>1 DEF ReadChunk, Upstream
<1>11. choices'[k.choice].hasReasoning = (ch.hasReasoning \/ k.reasoning \in {"empty", "text"})
  BY <1>1, <1>2, RewriteChoice
<1>12. Len(added) <= IF notice = "pending" THEN 2 ELSE 1
  <2>1. Given(k, n) \in Seq(Token) /\ Len(Given(k, n)) \in 0..1
    BY <1>1, TextType, PieceFacts
  <2> DEFINE given == Given(k, n)
  <2> HIDE DEF n
  <2>2. CASE TakesNotice(k)
    <3>1. added = <<Notice>> \o given /\ <<Notice>> \in Seq(Token) /\ Len(<<Notice>>) = 1
      BY <2>2, TokenFacts, SequenceType DEF WithNotice
    <3> HIDE DEF added, given
    <3>2. Len(added) = Len(<<Notice>>) + Len(given)
      BY <2>1, <3>1, ConcatProperties DEF given
    <3>3. Len(given) \in 0..1
      BY <2>1 DEF given
    <3>4. Len(added) <= 2 /\ notice = "pending"
      BY <2>2, <3>1, <3>2, <3>3 DEF TakesNotice
    <3> QED BY <3>4
  <2>3. CASE ~TakesNotice(k)
    <3>1. added = <<>> \o given
      BY <2>3 DEF WithNotice
    <3> HIDE DEF added, given, ch
    <3>2. Len(added) = Len(given) /\ Len(given) \in 0..1
      BY <2>1, <3>1, ConcatEmptySeq DEF given
    <3>3. Len(added) <= 2 /\ Len(added) <= 1
      BY <3>2
    <3> QED BY <3>3
  <2> QED BY <2>2, <2>3
<1>13. notice' = IF notice = "pending" THEN "given" ELSE notice
  BY <1>1, <1>2 DEF RewriteLine, TakesNotice
<1>14. /\ Ingested(ch, k, n, added).content = Appended(ch.content, added)
       /\ Ingested(ch, k, n, added).reasoning = IF k.reasoning = "text"
            THEN Appended(ch.reasoning, <<Thought(n)>>) ELSE ch.reasoning
  <2> HIDE DEF n, ch, added
  <2> QED BY DEF Ingested
<1> HIDE DEF n, ch, added
<1>15. /\ choices'[k.choice].content = ch.content \o added
       /\ choices'[k.choice].reasoning = IF k.reasoning = "text"
            THEN ch.reasoning \o <<Thought(n)>> ELSE ch.reasoning
  BY <1>5, <1>9, <1>14
<1> QED BY <1>1, <1>2, <1>6, <1>10, <1>11, <1>12, <1>13, <1>15 DEF n, ch, added

LEMMA WholeStep ==
  ASSUME KeyedAssumption, Types, WholeInv, [Next]_vars
  PROVE  WholeInv'
<1>1. ASSUME NEW k \in Chunk, ReadChunk(k) PROVE WholeInv'
  <2> DEFINE n == lines + 1
             added == WithNotice(k, n)
  <2>0. lines' = n /\ lines \in Nat /\ n = lines + 1
    BY <1>1 DEF ReadChunk, Types, RestTypes
  <2>1. /\ n \in 1..MaxLines /\ k.choice \in Choice
        /\ \A c \in Choice \ {k.choice} : choices'[c] = choices[c] /\ sent'[c] = sent[c]
        /\ choices'[k.choice].content = choices[k.choice].content \o added
        /\ choices'[k.choice].reasoning = IF k.reasoning = "text"
             THEN choices[k.choice].reasoning \o <<Thought(n)>> ELSE choices[k.choice].reasoning
        /\ sent'[k.choice].reasoning = IF k.reasoning = "text"
             THEN sent[k.choice].reasoning \o <<Thought(n)>> ELSE sent[k.choice].reasoning
        /\ choices'[k.choice].hasReasoning =
             (choices[k.choice].hasReasoning \/ k.reasoning \in {"empty", "text"})
        /\ Len(added) <= IF notice = "pending" THEN 2 ELSE 1
        /\ notice' = IF notice = "pending" THEN "given" ELSE notice
    BY <1>1, KeyedLine
  <2>2. \A c \in Choice : choices[c].content \in Seq(Token) /\ choices[c].reasoning \in Seq(Token)
    BY DEF Types, AccTypes, Collected
  <2>3. added \in Seq(Token) /\ <<Thought(n)>> \in Seq(Token) /\ Len(<<Thought(n)>>) = 1
    BY <2>1, TextType, TokenFacts, SequenceType
  <2> HIDE DEF added, n
  <2>4. /\ Len(choices[k.choice].content \o added) = Len(choices[k.choice].content) + Len(added)
        /\ Len(choices[k.choice].reasoning \o <<Thought(n)>>) = Len(choices[k.choice].reasoning) + 1
    BY <2>1, <2>2, <2>3, ConcatProperties
  <2>5. \A c \in Choice : Len(choices[c].content) \in Nat /\ Len(choices[c].reasoning) \in Nat
    BY <2>2, LenProperties
  <2>6. Len(added) \in Nat
    BY <2>3, LenProperties
  <2>7. Pieces' = n + (IF notice \in {"pending", "given"} THEN 1 ELSE 0)
    BY <2>0, <2>1 DEF Pieces
  <2>8. ASSUME NEW c \in Choice
        PROVE  /\ choices'[c].reasoning = sent'[c].reasoning
               /\ sent'[c].reasoning # <<>> => choices'[c].hasReasoning
    <3>1. CASE c = k.choice
      <4>1. /\ choices[k.choice].reasoning = sent[k.choice].reasoning
            /\ sent[k.choice].reasoning # <<>> => choices[k.choice].hasReasoning
        BY <2>1 DEF WholeInv
      <4>2. k.reasoning = "text" => choices'[k.choice].hasReasoning
        BY <2>1
      <4>3. choices'[k.choice].reasoning = sent'[k.choice].reasoning
        BY <2>1, <4>1
      <4>4. ASSUME k.reasoning # "text"
            PROVE  /\ sent'[k.choice].reasoning = sent[k.choice].reasoning
                   /\ choices[k.choice].hasReasoning => choices'[k.choice].hasReasoning
        BY <2>1, <4>4
      <4> DEFINE d == k.choice
      <4>5. c = d
        BY <3>1
      <4>6. sent'[k.choice].reasoning # <<>> => choices'[k.choice].hasReasoning
        <5>1. CASE k.reasoning = "text"
          BY <4>2, <5>1
        <5>2. CASE k.reasoning # "text"
          <6>1. sent'[k.choice].reasoning = sent[k.choice].reasoning
            BY <4>4, <5>2
          <6>2. choices[k.choice].hasReasoning => choices'[k.choice].hasReasoning
            BY <4>4, <5>2
          <6> QED BY <4>1, <6>1, <6>2
        <5> QED BY <5>1, <5>2
      <4> HIDE DEF d
      <4> QED BY <4>3, <4>5, <4>6 DEF d
    <3>2. CASE c # k.choice
      BY <2>1, <3>2 DEF WholeInv
    <3> QED BY <3>1, <3>2
  <2>9. ASSUME NEW c \in Choice
        PROVE  Len(choices'[c].reasoning) <= lines' /\ Len(choices'[c].content) <= Pieces'
    <3>1. Len(choices[c].reasoning) <= lines /\ Len(choices[c].content) <= Pieces
      BY DEF WholeInv
    <3>2. CASE c = k.choice
      <4> DEFINE d == k.choice
      <4>1. /\ c = d /\ Len(choices[d].reasoning) \in Nat /\ Len(choices[d].content) \in Nat
            /\ choices'[d].content = choices[d].content \o added
            /\ choices'[d].reasoning \in {choices[d].reasoning \o <<Thought(n)>>, choices[d].reasoning}
            /\ Len(choices[d].content \o added) = Len(choices[d].content) + Len(added)
            /\ Len(choices[d].reasoning \o <<Thought(n)>>) = Len(choices[d].reasoning) + 1
            /\ Len(choices[d].reasoning) <= lines /\ Len(choices[d].content) <= Pieces
        BY <2>1, <2>4, <2>5, <3>1, <3>2
      <4> HIDE DEF d
      <4>2. Pieces + Len(added) <= Pieces' /\ Pieces \in Nat /\ Pieces' \in Nat
        BY <2>0, <2>1, <2>6, <2>7 DEF Pieces
      <4>3. Len(choices'[d].content) <= Pieces'
        BY <2>6, <4>1, <4>2
      <4>4. Len(choices'[d].reasoning) <= lines'
        BY <2>0, <4>1
      <4> QED BY <4>1, <4>3, <4>4
    <3>3. CASE c # k.choice
      BY <2>0, <2>1, <2>5, <2>7, <3>1, <3>3 DEF Pieces
    <3> QED BY <3>2, <3>3
  <2>10. notice' # "pending"
    BY <2>1
  <2> QED BY <2>8, <2>9, <2>10 DEF WholeInv
<1>2. CASE UNCHANGED <<choices, sent, lines>> /\ notice' \in {notice, "given"}
  <2>1. \A c \in Choice : Len(choices[c].content) \in Nat
    <3>1. \A c \in Choice : choices[c].content \in Seq(Token)
      BY DEF Types, AccTypes, Collected
    <3> QED BY <3>1, LenProperties
  <2>2. Pieces <= Pieces' /\ Pieces \in Nat /\ Pieces' \in Nat
    BY <1>2, ConstantFacts DEF Pieces, Types, RestTypes
  <2>3. \A c \in Choice : Len(choices'[c].content) <= Pieces'
    BY <1>2, <2>1, <2>2 DEF WholeInv
  <2> QED BY <1>2, <2>3 DEF WholeInv
<1> QED
  BY <1>1, <1>2 DEF Next, Progress, Stopped, ReadDone, Connect, Retry, NoAnswer, Break, YieldError,
                    Abandon, EndOfStream, Cancel, Collect, Deliver, Finally, StoreAll, vars, acc,
                    view, fixed

LEMMA OutcomeStep ==
  ASSUME Types, Flow, OutcomeInv, [Next]_vars
  PROVE  OutcomeInv'
<1>1. CASE \E k \in Chunk : ReadChunk(k)
  BY <1>1 DEF ReadChunk, Yields, OutcomeInv
<1>2. CASE ReadDone
  BY <1>2 DEF ReadDone, Yields, OutcomeInv
<1>3. CASE Connect \/ Retry \/ NoAnswer \/ Break \/ Abandon
  BY <1>3 DEF Connect, Retry, NoAnswer, Break, YieldError, Yields, Abandon, OutcomeInv, Flow, view
<1>4. CASE EndOfStream \/ Cancel \/ Collect
  BY <1>4 DEF EndOfStream, Cancel, Collect, Finally, OutcomeInv, Flow
<1>5. CASE Deliver
  BY <1>5 DEF Deliver, Finally, Returns, OutcomeInv
<1>6. CASE UNCHANGED vars
  BY <1>6 DEF vars, view, OutcomeInv
<1> QED BY <1>1, <1>2, <1>3, <1>4, <1>5, <1>6 DEF Next, Progress, Stopped

LEMMA ReceivedRead ==
  ASSUME KeyedAssumption, Types, Flow, WholeInv, OutcomeInv, ReceivedInv,
         NEW k \in Chunk, ReadChunk(k)
  PROVE  ReceivedInv'
<1> DEFINE n == lines + 1
           d == k.choice
<1>1. /\ n \in 1..MaxLines /\ d \in Choice /\ RewriteLine(k)
      /\ \A c \in Choice \ {d} : choices'[c] = choices[c]
      /\ choices'[d].content = choices[d].content \o WithNotice(k, n)
  BY KeyedLine
<1>2. /\ phase = "reading" /\ next = shown /\ ~finalized /\ shown' = shown
      /\ display \in BOOLEAN /\ (~display => openBlocks = {})
  BY DEF ReadChunk, Types, RestTypes, Flow
<1>3. \A c \in Choice : Mirrors(c)
  BY <1>2 DEF ReceivedInv, Reaches, Unthinking
<1>4. /\ \A c \in Choice \ {d} : choices'[c].tools = choices[c].tools /\ next'[c] = shown[c]
      /\ choices'[d].tools = MergedTools(choices[d].tools, k, n)
      /\ next'[d].tools = MergedTools(shown[d].tools, k, n)
  BY ReadCalls
<1>5. next'[d].content = shown[d].content \o Mirrored(k, n, WithNotice(k, n))
  <2>1. Extends(k, n, Mirrored(k, n, WithNotice(k, n)))
    BY <1>1, ReceivesContent DEF RewriteLine
  <2> QED BY <1>1, <2>1 DEF Extends
<1>6. Shows(next'[d].content, d \in openBlocks', choices'[d].content)
  <2>1. shown[d].content \in Seq(Token) /\ choices[d].content \in Seq(Token)
    BY <1>1 DEF Types, AccTypes, ViewTypes, Collected, Visible
  <2>2. Shows(shown[d].content, d \in openBlocks, choices[d].content)
    BY <1>1, <1>2, <1>3 DEF Mirrors
  <2>3. Shows(shown[d].content \o Mirrored(k, n, WithNotice(k, n)), d \in openBlocks',
              choices[d].content \o WithNotice(k, n))
    BY <1>1, <1>2, <2>1, <2>2, ShowsMirrored
  <2> QED BY <1>1, <1>5, <2>3
<1>7. ASSUME NEW c \in Choice \ {d}
      PROVE  /\ Shows(next'[c].content, c \in openBlocks', choices'[c].content)
             /\ next'[c].tools = choices'[c].tools
  <2>1. (c \in openBlocks') = (c \in openBlocks)
    BY <1>1, <1>2 DEF RewriteLine
  <2>2. next'[c] = next[c] /\ choices'[c] = choices[c]
    BY <1>1, <1>2, <1>4
  <2> QED BY <1>3, <2>1, <2>2 DEF Mirrors
<1>8. next'[d].tools = choices'[d].tools
  <2>1. shown[d].tools = choices[d].tools
    BY <1>1, <1>2, <1>3 DEF Mirrors
  <2> QED BY <1>4, <2>1
<1> HIDE DEF n, d
<1>9. \A c \in Choice : /\ Shows(next'[c].content, c \in openBlocks', choices'[c].content)
                        /\ next'[c].tools = choices'[c].tools
  BY <1>6, <1>7, <1>8
<1> QED BY <1>9 DEF ReceivedInv, Mirrors

LEMMA ReceivedDone ==
  ASSUME Types, Flow, WholeInv, ReceivedInv, ReadDone
  PROVE  ReceivedInv'
<1>1. /\ phase = "reading" /\ next = shown /\ ~finalized /\ finalized' /\ openBlocks' = {}
      /\ choices' = choices /\ sent' = sent
  BY DEF ReadDone, StoreAll, Flow, fixed
<1>2. CASE notice = "pending"
  <2>1. Unthinking'
    BY <1>1, <1>2 DEF WholeInv, Unthinking
  <2> QED BY <2>1 DEF ReceivedInv
<1>3. CASE notice # "pending"
  <2>1. \A c \in Choice : Mirrors(c)
    BY <1>1 DEF ReceivedInv, Reaches, Unthinking
  <2>2. ASSUME NEW c \in Choice
        PROVE  /\ Shows(next'[c].content, c \in openBlocks', choices'[c].content)
               /\ next'[c].tools = choices'[c].tools
    <3> DEFINE s == shown[c].content
               shownText == choices[c].content
               a == FlushedBlock(c)
    <3>1. s \in Seq(Token) /\ shownText \in Seq(Token)
      BY DEF Types, AccTypes, ViewTypes, Collected, Visible
    <3>2. next'[c].content = s \o a \o <<>> /\ next'[c].tools = shown[c].tools
      BY <1>3 DEF ReadDone, NoticeChunk, Types, ViewTypes, Visible
    <3>3. Shows(s, c \in openBlocks, shownText) /\ shown[c].tools = choices[c].tools
      BY <1>1, <2>1 DEF Mirrors
    <3>4. a \in Seq(Token)
      BY TokenFacts, SequenceType DEF FlushedBlock
    <3>5. Shows(s \o a, FALSE, shownText)
      <4> HIDE DEF s, shownText
      <4>1. CASE c \in openBlocks
        <5>1. (c \in openBlocks) = TRUE /\ a = <<BlockEnd>>
          BY <4>1 DEF FlushedBlock
        <5>2. Shows(s, TRUE, shownText) /\ TRUE \in BOOLEAN
          BY <3>3, <5>1
        <5> HIDE DEF a
        <5>3. Shows(s \o <<BlockEnd>>, FALSE, shownText)
          BY <3>1, <5>2, TokenFacts, ShowsAppend
        <5> QED BY <5>1, <5>3
      <4>2. CASE c \notin openBlocks
        <5>1. (c \in openBlocks) = FALSE /\ a = <<>>
          BY <4>2 DEF FlushedBlock
        <5> QED BY <3>1, <3>3, <5>1, NothingAdded
      <4> QED BY <4>1, <4>2
    <3> HIDE DEF s, a
    <3>6. s \o a \o <<>> = s \o a
      <4>1. s \o a \in Seq(Token)
        BY <3>1, <3>4, SequenceType
      <4> QED BY <4>1, NothingAdded
    <3>7. (c \in openBlocks') = FALSE
      BY <1>1
    <3> QED BY <1>1, <3>2, <3>3, <3>5, <3>6, <3>7
  <2> QED BY <2>2 DEF ReceivedInv, Mirrors
<1> QED BY <1>2, <1>3

LEMMA ReceivedStep ==
  ASSUME KeyedAssumption, Types, Flow, WholeInv, OutcomeInv, ReceivedInv, [Next]_vars
  PROVE  ReceivedInv'
<1>1. ASSUME NEW k \in Chunk, ReadChunk(k) PROVE ReceivedInv'
  BY <1>1, ReceivedRead
<1>2. CASE ReadDone
  BY <1>2, ReceivedDone
<1>3. CASE /\ UNCHANGED <<choices, sent, openBlocks, finalized>>
           /\ Reaches' => Reaches /\ next' = next
  BY <1>3 DEF ReceivedInv, Mirrors, Unthinking
<1>4. CASE Connect \/ Retry \/ NoAnswer \/ Break \/ Abandon \/ EndOfStream \/ Cancel \/ Collect
  <2>1. UNCHANGED <<choices, sent, openBlocks, finalized>>
    BY <1>4 DEF Connect, Retry, NoAnswer, Break, YieldError, Abandon, EndOfStream, Cancel, Collect,
                Finally, StoreAll, acc, view, fixed
  <2>2. Reaches' => Reaches /\ next' = next
    BY <1>4 DEF Connect, Retry, NoAnswer, Break, YieldError, Yields, Abandon, EndOfStream, Cancel,
                Collect, Finally, view, Reaches, Flow, OutcomeInv
  <2> QED BY <1>3, <2>1, <2>2
<1>5. CASE Deliver
  <2>1. UNCHANGED <<choices, sent, openBlocks, finalized, next>> /\ Reaches
    BY <1>5 DEF Deliver, Finally, StoreAll, acc, fixed, Reaches
  <2> QED BY <1>3, <2>1
<1>6. CASE UNCHANGED vars
  BY <1>3, <1>6 DEF vars, acc, view, fixed, Reaches
<1> QED BY <1>1, <1>2, <1>4, <1>5, <1>6 DEF Next, Progress, Stopped

THEOREM ReceivedInvariance ==
  ASSUME KeyedAssumption
  PROVE  Spec => [](WholeInv /\ OutcomeInv /\ ReceivedInv)
<1>1. Init => WholeInv /\ OutcomeInv /\ ReceivedInv
  <2> SUFFICES ASSUME Init PROVE WholeInv /\ OutcomeInv /\ ReceivedInv
    OBVIOUS
  <2>1. \A c \in Choice :
          /\ choices[c].content = <<>> /\ choices[c].reasoning = <<>> /\ choices[c].tools = <<>>
          /\ sent[c].reasoning = <<>> /\ next[c].content = <<>> /\ next[c].tools = <<>>
          /\ (c \in openBlocks) = FALSE
    BY DEF Init, NewChoice, Nothing
  <2>2. lines = 0 /\ next = shown /\ outcome = "open" /\ Len(<<>>) = 0 /\ notice \in {"none", "pending"}
    BY DEF Init
  <2>3. WholeInv
    BY <2>1, <2>2 DEF WholeInv, Pieces
  <2>4. OutcomeInv
    BY <2>2 DEF OutcomeInv
  <2>5. ReceivedInv
    BY <2>1, ShowsNothing DEF ReceivedInv, Mirrors
  <2> QED BY <2>3, <2>4, <2>5
<1>2. Types /\ WholeInv /\ [Next]_vars => WholeInv'
  BY WholeStep
<1>3. Types /\ Flow /\ OutcomeInv /\ [Next]_vars => OutcomeInv'
  BY OutcomeStep
<1>4. Types /\ Flow /\ WholeInv /\ OutcomeInv /\ ReceivedInv /\ [Next]_vars => ReceivedInv'
  BY ReceivedStep
<1> QED BY <1>1, <1>2, <1>3, <1>4, FlowInvariance, PTL DEF Spec

(* What the client sends back of such a text is the accumulated message.     *)
ShowsAll(v, c) == /\ \E open \in BOOLEAN : Shows(v[c].content, open, choices[c].content)
                  /\ v[c].tools = choices[c].tools

LEMMA MirrorsAll ==
  ASSUME NEW c \in Choice, Mirrors(c)
  PROVE  ShowsAll(next, c)
<1>1. \E open \in BOOLEAN : Shows(next[c].content, open, choices[c].content)
  <2> WITNESS (c \in openBlocks) \in BOOLEAN
  <2> QED BY DEF Mirrors
<1> QED BY <1>1 DEF Mirrors, ShowsAll

LEMMA ReplayedMessage ==
  ASSUME NEW c \in Choice, ShowsAll(shown, c), Intact(shown[c].content)
  PROVE  Replayed(c) = Message(choices[c])
<1> DEFINE s == shown[c].content
           r == Walk(s)[Len(s)]
<1>1. PICK open \in BOOLEAN : Shows(s, open, choices[c].content)
  BY DEF ShowsAll
<1>2. PICK after \in BOOLEAN, lost \in BOOLEAN, kept \in Seq(Token) :
        r = Stripping(open, after, kept, lost) /\ (lost \/ kept = choices[c].content)
  BY <1>1 DEF Shows
<1>3. Stripped(s) = r.kept /\ ~r.lost
  BY DEF Stripped, Intact
<1> HIDE DEF r
<1>4. Stripped(s) = choices[c].content
  BY <1>2, <1>3 DEF Stripping
<1> QED BY <1>4 DEF Replayed, Message, ShowsAll

(* When the client sends back what it received of an answer, interrupted at  *)
(* any point or not, with the thinking blocks in its text, and stripping     *)
(* them takes nothing else, the lookup finds the whole reasoning upstream    *)
(* sent for it, in each recording context.                                   *)
THEOREM ReceivedIsFoundAgain ==
  ASSUME KeyedAssumption
  PROVE  Spec => []ReceivedIsFound
<1>1. ASSUME WholeInv, OutcomeInv, ReceivedInv, EndedStreamKept PROVE ReceivedIsFound
  <2> SUFFICES ASSUME phase = "ended", outcome # "open", NEW c \in Choice, NEW i \in 1..Context,
                      sent[c].reasoning # <<>>, Intact(shown[c].content)
               PROVE  \E d \in Choice : /\ Message(choices[d]) = Replayed(c)
                                        /\ Lookup(Replayed(c), c, i) = <<sent[d].reasoning>>
    BY DEF ReceivedIsFound
  <2>1. next = shown /\ Mirrors(c)
    BY <1>1 DEF OutcomeInv, ReceivedInv, Reaches, Unthinking
  <2>2. Replayed(c) = Message(choices[c])
    BY <2>1, MirrorsAll, ReplayedMessage
  <2>3. PICK d \in Choice : /\ Message(choices[d]) = Message(choices[c])
                            /\ Lookup(Message(choices[c]), c, i) = <<choices[d].reasoning>>
    BY <1>1 DEF EndedStreamKept, WholeInv
  <2>4. choices[d].reasoning = sent[d].reasoning
    BY <1>1 DEF WholeInv
  <2> QED BY <2>2, <2>3, <2>4
<1>2. WholeInv /\ OutcomeInv /\ ReceivedInv /\ EndedStreamKept => ReceivedIsFound
  BY <1>1
<1> QED BY <1>2, ReceivedInvariance, EndedStreamIsKept, PTL

(* After [DONE] the client is short of the end of a block at most.           *)
FinalInv == finalized => Unthinking \/ \A c \in Choice : ShowsAll(shown, c)

LEMMA FinalStep ==
  ASSUME Types, Flow, ReceivedInv, FinalInv, [Next]_vars
  PROVE  FinalInv'
<1>1. CASE ~finalized'
  BY <1>1 DEF FinalInv
<1>2. CASE /\ UNCHANGED <<choices, sent, finalized>>
           /\ shown' = shown \/ (shown' = next /\ Reaches)
  <2>1. CASE shown' = shown
    BY <1>2, <2>1 DEF FinalInv, ShowsAll, Unthinking
  <2>2. CASE shown' = next /\ Reaches
    <3>1. \A c \in Choice : Mirrors(c) => ShowsAll(next, c)
      BY MirrorsAll
    <3> QED BY <1>2, <2>2, <3>1 DEF FinalInv, ReceivedInv, ShowsAll, Unthinking
  <2> QED BY <1>2, <2>1, <2>2
<1>3. CASE ReadDone
  <2>1. /\ phase = "reading" /\ next = shown /\ ~finalized /\ shown' = shown
        /\ choices' = choices /\ sent' = sent
    BY <1>3 DEF ReadDone, StoreAll, Flow, fixed
  <2>2. \A c \in Choice : Mirrors(c)
    BY <2>1 DEF ReceivedInv, Reaches, Unthinking
  <2>3. \A c \in Choice : ShowsAll(next, c)
    BY <2>2, MirrorsAll
  <2> QED BY <2>1, <2>3 DEF FinalInv, ShowsAll
<1>4. CASE \E k \in Chunk : ReadChunk(k)
  BY <1>1, <1>4 DEF ReadChunk, Flow
<1>5. CASE Connect \/ Retry \/ NoAnswer \/ Break \/ Abandon \/ EndOfStream \/ Cancel \/ Collect
  BY <1>2, <1>5 DEF Connect, Retry, NoAnswer, Break, YieldError, Abandon, EndOfStream, Cancel,
                    Collect, Finally, StoreAll, acc, view, fixed
<1>6. CASE Deliver
  BY <1>2, <1>6 DEF Deliver, Finally, StoreAll, acc, fixed, Reaches
<1>7. CASE UNCHANGED vars
  BY <1>2, <1>7 DEF vars, acc, view, fixed
<1> QED BY <1>3, <1>4, <1>5, <1>6, <1>7 DEF Next, Progress, Stopped

(* What stream_plain refutes holds when upstream writes every field: a whole *)
(* answer is found on the follow-up turn, whoever left before its last line. *)
THEOREM AnswerIsFoundAgain ==
  ASSUME KeyedAssumption
  PROVE  Spec => []AnswerIsFound
<1>1. Init => FinalInv
  BY DEF Init, FinalInv
<1>2. Types /\ Flow /\ ReceivedInv /\ FinalInv /\ [Next]_vars => FinalInv'
  BY FinalStep
<1>3. ASSUME WholeInv, FinalInv, EndedStreamKept PROVE AnswerIsFound
  <2> SUFFICES ASSUME phase = "ended", finalized, NEW c \in Choice, NEW i \in 1..Context,
                      sent[c].reasoning # <<>>, Intact(shown[c].content)
               PROVE  \E d \in Choice : /\ Message(choices[d]) = Replayed(c)
                                        /\ Lookup(Replayed(c), c, i) = <<sent[d].reasoning>>
    BY DEF AnswerIsFound
  <2>1. Replayed(c) = Message(choices[c])
    BY <1>3, ReplayedMessage DEF FinalInv, Unthinking
  <2>2. PICK d \in Choice : /\ Message(choices[d]) = Message(choices[c])
                            /\ Lookup(Message(choices[c]), c, i) = <<choices[d].reasoning>>
    BY <1>3 DEF EndedStreamKept, WholeInv
  <2>3. choices[d].reasoning = sent[d].reasoning
    BY <1>3 DEF WholeInv
  <2> QED BY <2>1, <2>2, <2>3
<1>4. WholeInv /\ FinalInv /\ EndedStreamKept => AnswerIsFound
  BY <1>3
<1> QED BY <1>1, <1>2, <1>4, ReceivedInvariance, FlowInvariance, EndedStreamIsKept, PTL DEF Spec
=====
