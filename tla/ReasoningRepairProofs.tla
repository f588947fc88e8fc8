----------------------- MODULE ReasoningRepairProofs -----------------------
(***************************************************************************)
(* Proofs about ReasoningRepair, for every set of clients, namespaces and  *)
(* prompts, both strategies and every bound.                               *)
(***************************************************************************)
EXTENDS ReasoningRepair, SequenceTheorems, WellFoundedInduction, TLAPS

Message ==
  [role : {"system", "user", "tool", "assistant"},
   text : Prompt \cup {"prompt", "recovered", "result", "answer", ""},
   notice : BOOLEAN, call : Nat, reasoning : Nat]

(* What a store may hold: an answer under every key.                         *)
Sound(c) == \A k \in DOMAIN c : c[k] \in Nat \ {None}

(* w is m, but for the reasoning if it is an assistant's.                    *)
Similar(m, w) ==
  /\ Canonical(w) = Canonical(m)
  /\ m.role # "assistant" => w = m
Alike(p, q) ==
  /\ Len(p) = Len(q)
  /\ \A i \in Positions(p) : Similar(p[i], q[i])

-----------------------------------------------------------------------------
(* A nonempty set of natural numbers has a smallest one.                     *)
LEMMA Smallest ==
  ASSUME NEW S, S \subseteq Nat, S # {}
  PROVE  \E n \in S : \A m \in S : n <= m
<1> DEFINE R == OpToRel(<, Nat)
<1>1. IsWellFoundedOn(R, Nat)
  BY NatLessThanWellFounded
<1>2. \A x, y \in Nat : y < x => <<y, x>> \in R
  BY DEF OpToRel
<1> HIDE DEF R
<1>3. PICK x \in S : \A y \in S : ~ (<<y, x>> \in R)
  BY <1>1, WFMin
<1>4. ASSUME NEW m \in S PROVE x <= m
  <2>1. ~(m < x)
    BY <1>2, <1>3
  <2> QED BY <2>1
<1> QED BY <1>4

LEMMA MinOfHits ==
  ASSUME NEW S, S \subseteq Nat, S # {}
  PROVE  Min(S) \in S /\ \A m \in S : Min(S) <= m
BY Smallest DEF Min

(* A nonempty set of positions has a last one.                               *)
LEMMA LastOfSet ==
  ASSUME NEW N \in Nat, NEW S, S \subseteq 0..N, S # {}
  PROVE  LastIn(S) \in S /\ \A j \in S : j <= LastIn(S)
<1> DEFINE T == {N - i : i \in S}
<1>0. \A i \in S : N - i \in Nat
  OBVIOUS
<1>1. T \subseteq Nat /\ T # {}
  BY <1>0
<1>2. PICK n \in T : \A m \in T : n <= m
  BY <1>1, Smallest
<1>3. PICK i \in S : n = N - i
  BY <1>2
<1>4. \A j \in S : j <= i
  <2> TAKE j \in S
  <2>1. n <= N - j
    BY <1>2
  <2> QED BY <1>3, <2>1
<1> QED BY <1>4 DEF LastIn

LEMMA Elements ==
  ASSUME NEW ms \in Seq(Message)
  PROVE  /\ Len(ms) \in Nat /\ Positions(ms) = 1..Len(ms) /\ DOMAIN ms = 1..Len(ms)
         /\ \A i \in 1..Len(ms) : ms[i] \in Message
BY LenProperties, ElementOfSeq DEF Positions

-----------------------------------------------------------------------------
(* The loops are what their steps say.                                       *)
LEMMA PassLoop ==
  ASSUME NEW ms \in Seq(Message), NEW c, NEW ns
  PROVE  LET P == Pass(ms, c, ns)
             start == [messages |-> <<>>, missing |-> {}, cache |-> c]
         IN \A i \in 0..Len(ms) : P[i] = IF i = 0 THEN start ELSE Normalized(P[i - 1], ms[i], ns)
<1> DEFINE N == Len(ms)
           start == [messages |-> <<>>, missing |-> {}, cache |-> c]
           Is(f, n) == f = [i \in 0..n |-> IF i = 0 THEN start
                                          ELSE Normalized(f[i - 1], ms[i], ns)]
           bad == {n \in 0..N : ~(\E f : Is(f, n))}
<1>1. N \in Nat
  BY Elements
<1>2. bad = {}
  <2> SUFFICES ASSUME bad # {} PROVE FALSE
    OBVIOUS
  <2>0. bad \subseteq Nat
    BY <1>1
  <2>1. PICK n \in bad : \A m \in bad : n <= m
    <3> HIDE DEF bad
    <3> QED BY <2>0, Smallest
  <2>2. n \in 0..N /\ ~(\E f : Is(f, n))
    BY <2>1
  <2> HIDE DEF start
  <2>3. CASE n = 0
    <3> DEFINE f == [i \in 0..0 |-> start]
    <3>1. Is(f, 0)
      OBVIOUS
    <3> QED BY <2>2, <2>3, <3>1
  <2>4. CASE n # 0
    <3>1. n - 1 \in 0..N /\ n - 1 \notin bad
      BY <1>1, <2>1, <2>2, <2>4
    <3>2. PICK g : Is(g, n - 1)
      BY <3>1
    <3> DEFINE f == [i \in 0..n |-> IF i < n THEN g[i] ELSE Normalized(g[n - 1], ms[n], ns)]
    <3>3. g = [i \in 0..(n - 1) |-> IF i = 0 THEN start ELSE Normalized(g[i - 1], ms[i], ns)]
      BY <3>2
    <3>4. \A i \in 0..n : f[i] = IF i = 0 THEN start ELSE Normalized(f[i - 1], ms[i], ns)
      <4> TAKE i \in 0..n
      <4>1. CASE i = n
        <5>1. f[i - 1] = g[n - 1]
          BY <1>1, <2>2, <2>4, <4>1
        <5> QED BY <1>1, <2>2, <2>4, <4>1, <5>1
      <4>2. CASE i # n /\ i # 0
        <5>1. i \in 0..(n - 1) /\ i - 1 \in 0..n /\ i - 1 < n
          BY <1>1, <2>2, <4>2
        <5>2. f[i - 1] = g[i - 1] /\ f[i] = g[i]
          BY <1>1, <2>2, <4>2, <5>1
        <5>3. g[i] = Normalized(g[i - 1], ms[i], ns)
          BY <3>3, <4>2, <5>1
        <5> QED BY <4>2, <5>2, <5>3
      <4>3. CASE i = 0
        <5>1. f[0] = g[0] /\ 0 \in 0..(n - 1)
          BY <1>1, <2>2, <2>4
        <5> QED BY <3>3, <4>3, <5>1
      <4> QED BY <4>1, <4>2, <4>3
    <3>5. f = [i \in 0..n |-> f[i]]
      OBVIOUS
    <3> HIDE DEF f
    <3>6. f = [i \in 0..n |-> IF i = 0 THEN start ELSE Normalized(f[i - 1], ms[i], ns)]
      BY <3>4, <3>5
    <3> QED BY <2>2, <3>6
  <2> QED BY <2>3, <2>4
<1>3. \E f : Is(f, N)
  <2> HIDE DEF Is
  <2>1. N \in 0..N /\ N \notin bad
    BY <1>1, <1>2
  <2> QED BY <2>1
<1>4. Pass(ms, c, ns) = CHOOSE f : Is(f, N)
  BY DEF Pass
<1> DEFINE P == Pass(ms, c, ns)
<1>5. Is(P, N)
  <2> HIDE DEF Is
  <2> QED BY <1>3, <1>4
<1> HIDE DEF P, start
<1>6. \A i \in 0..N : P[i] = IF i = 0 THEN start ELSE Normalized(P[i - 1], ms[i], ns)
  BY <1>5
<1> QED BY <1>6 DEF P, start

LEMMA PassStart ==
  ASSUME NEW ms \in Seq(Message), NEW c, NEW ns
  PROVE  Pass(ms, c, ns)[0] = [messages |-> <<>>, missing |-> {}, cache |-> c]
<1>1. 0 \in 0..Len(ms)
  BY Elements
<1> QED BY <1>1, PassLoop

LEMMA PassNext ==
  ASSUME NEW ms \in Seq(Message), NEW c, NEW ns, NEW i \in 1..Len(ms)
  PROVE  Pass(ms, c, ns)[i] = Normalized(Pass(ms, c, ns)[i - 1], ms[i], ns)
<1>1. i \in 0..Len(ms) /\ i # 0
  BY Elements
<1>2. \A j \in 0..Len(ms) :
        Pass(ms, c, ns)[j] = IF j = 0 THEN [messages |-> <<>>, missing |-> {}, cache |-> c]
                             ELSE Normalized(Pass(ms, c, ns)[j - 1], ms[j], ns)
  BY PassLoop
<1> QED BY <1>1, <1>2

LEMMA RoundSteps ==
  ASSUME NEW ms \in Seq(Message), NEW ns
  PROVE  /\ Rounds(ms, ns)[0] = [pass |-> Start(ms, ns), notice |-> FALSE, rounds |-> 0]
         /\ \A i \in 1..Len(ms) :
              Rounds(ms, ns)[i] = NextRound(Rounds(ms, ns)[i - 1], i, ms, ns)
<1> DEFINE N == Len(ms)
           start == [pass |-> Start(ms, ns), notice |-> FALSE, rounds |-> 0]
           Is(f, n) == f = [i \in 0..n |-> IF i = 0 THEN start
                                          ELSE NextRound(f[i - 1], i, ms, ns)]
           bad == {n \in 0..N : ~(\E f : Is(f, n))}
<1>1. N \in Nat
  BY Elements
<1>2. bad = {}
  <2> SUFFICES ASSUME bad # {} PROVE FALSE
    OBVIOUS
  <2>0. bad \subseteq Nat
    BY <1>1
  <2>1. PICK n \in bad : \A m \in bad : n <= m
    <3> HIDE DEF bad
    <3> QED BY <2>0, Smallest
  <2>2. n \in 0..N /\ ~(\E f : Is(f, n))
    BY <2>1
  <2> HIDE DEF start
  <2>3. CASE n = 0
    <3> DEFINE f == [i \in 0..0 |-> start]
    <3>1. Is(f, 0)
      OBVIOUS
    <3> QED BY <2>2, <2>3, <3>1
  <2>4. CASE n # 0
    <3>0. n - 1 \in 0..N /\ ~(n <= n - 1)
      BY <1>1, <2>2, <2>4
    <3>1. n - 1 \in 0..N /\ n - 1 \notin bad
      <4> HIDE DEF bad
      <4> QED BY <2>1, <3>0
    <3>2. PICK g : Is(g, n - 1)
      BY <3>1
    <3> DEFINE f == [i \in 0..n |-> IF i < n THEN g[i] ELSE NextRound(g[n - 1], n, ms, ns)]
    <3>3. g = [i \in 0..(n - 1) |-> IF i = 0 THEN start ELSE NextRound(g[i - 1], i, ms, ns)]
      BY <3>2
    <3>4. \A i \in 0..n : f[i] = IF i = 0 THEN start ELSE NextRound(f[i - 1], i, ms, ns)
      <4> TAKE i \in 0..n
      <4>1. CASE i = n
        <5>1. f[i - 1] = g[n - 1]
          BY <1>1, <2>2, <2>4, <4>1
        <5> QED BY <1>1, <2>2, <2>4, <4>1, <5>1
      <4>2. CASE i # n /\ i # 0
        <5>1. i \in 0..(n - 1) /\ i - 1 \in 0..n /\ i - 1 < n
          BY <1>1, <2>2, <4>2
        <5>2. f[i - 1] = g[i - 1] /\ f[i] = g[i]
          BY <1>1, <2>2, <4>2, <5>1
        <5>3. g[i] = NextRound(g[i - 1], i, ms, ns)
          BY <3>3, <4>2, <5>1
        <5> QED BY <4>2, <5>2, <5>3
      <4>3. CASE i = 0
        <5>1. f[0] = g[0] /\ 0 \in 0..(n - 1)
          BY <1>1, <2>2, <2>4
        <5> QED BY <3>3, <4>3, <5>1
      <4> QED BY <4>1, <4>2, <4>3
    <3>5. f = [i \in 0..n |-> f[i]]
      OBVIOUS
    <3> HIDE DEF f
    <3>6. f = [i \in 0..n |-> IF i = 0 THEN start ELSE NextRound(f[i - 1], i, ms, ns)]
      BY <3>4, <3>5
    <3> QED BY <2>2, <3>6
  <2> QED BY <2>3, <2>4
<1>3. \E f : Is(f, N)
  <2> HIDE DEF Is
  <2>1. N \in 0..N /\ N \notin bad
    BY <1>1, <1>2
  <2> QED BY <2>1
<1>4. Rounds(ms, ns) = CHOOSE f : Is(f, N)
  BY DEF Rounds
<1> DEFINE P == Rounds(ms, ns)
<1>5. Is(P, N)
  <2> HIDE DEF Is
  <2> QED BY <1>3, <1>4
<1> HIDE DEF P, start
<1>6. \A i \in 0..N : P[i] = IF i = 0 THEN start ELSE NextRound(P[i - 1], i, ms, ns)
  BY <1>5
<1>7. P[0] = start /\ \A i \in 1..N : P[i] = NextRound(P[i - 1], i, ms, ns)
  BY <1>1, <1>6
<1> QED BY <1>7 DEF P, start

-----------------------------------------------------------------------------
(* What the repair does to a message depends on no reasoning but its own.    *)
LEMMA AlikeFacts ==
  ASSUME NEW p \in Seq(Message), NEW q \in Seq(Message), Alike(p, q), NEW m
  PROVE  /\ Canon(q) = Canon(p)
         /\ Needs(m, q) <=> Needs(m, p)
<1>1. /\ Len(p) = Len(q) /\ Positions(p) = Positions(q)
      /\ \A i \in Positions(p) : Canonical(q[i]) = Canonical(p[i])
  BY DEF Alike, Similar, Positions
<1>2. Canon(q) = Canon(p)
  BY <1>1 DEF Canon
<1>3. \A i \in Positions(p) : q[i].role = p[i].role
  BY <1>1 DEF Canonical
<1> DEFINE said == {i \in Positions(p) : p[i].role # "assistant"}
<1>4. said = {i \in Positions(q) : q[i].role # "assistant"}
  BY <1>1, <1>3
<1>5. said # {} => LastIn(said) \in Positions(p)
  <2>1. said \subseteq 0..Len(p) /\ Len(p) \in Nat
    BY Elements
  <2>2. said # {} => LastIn(said) \in said
    <3> HIDE DEF said
    <3> QED BY <2>1, LastOfSet
  <2> QED BY <2>2
<1>6. Needs(m, p) <=> m.call # None \/ (said # {} /\ p[LastIn(said)].role = "tool")
  BY DEF Needs
<1>7. Needs(m, q) <=> m.call # None \/ (said # {} /\ q[LastIn(said)].role = "tool")
  BY <1>4 DEF Needs
<1> HIDE DEF said
<1> QED BY <1>2, <1>3, <1>5, <1>6, <1>7

SignatureKey(m, prior, ns) ==
  <<"scope", Scope(prior, ns), "signature", <<m.text, m.notice, m.call>>>>

(* The keys of a message begin with its signature in its scope.              *)
LEMMA KeyList ==
  ASSUME NEW m, NEW prior, NEW ns
  PROVE  LET keys == ScopedKeys(m, prior, ns) \o PortableKeys(m, prior, ns)
         IN /\ Len(keys) \in Nat \ {0} /\ keys[1] = SignatureKey(m, prior, ns)
            /\ SignatureKey(m, prior, ns) \in ToSet(keys)
<1> DEFINE k(kind, context) == <<kind, context, "signature", <<m.text, m.notice, m.call>>>>
           a(kind, context) == <<kind, context, "tool_call", <<m.call>>>>
           b(kind, context) == <<kind, context, "tool_name", <<>>>>
           scope == Scope(prior, ns)
           turn == <<ns, TurnContext(prior)>>
           S == {k("scope", scope), a("scope", scope), b("scope", scope),
                 k("turn", turn), a("turn", turn), b("turn", turn)}
           s == ScopedKeys(m, prior, ns)
           p == PortableKeys(m, prior, ns)
<1>1. ASSUME NEW kind, NEW context, k(kind, context) \in S, a(kind, context) \in S,
             b(kind, context) \in S
      PROVE  /\ KeysIn(kind, context, m) \in Seq(S) /\ Len(KeysIn(kind, context, m)) \in Nat \ {0}
             /\ KeysIn(kind, context, m)[1] = k(kind, context)
  <2> DEFINE x == k(kind, context)
             y == a(kind, context)
             z == b(kind, context)
  <2>1. KeysIn(kind, context, m) = <<x>> \o (IF m.call = None THEN <<>> ELSE <<y, z>>)
    BY DEF KeysIn
  <2> HIDE DEF S, k, a, b, x, y, z
  <2>2. x \in S /\ y \in S /\ z \in S
    BY <1>1 DEF x, y, z
  <2>5. \A v, w \in Seq(S) : Len(v \o w) = Len(v) + Len(w) /\ v \o w \in Seq(S)
                             /\ \A i \in 1..Len(v) : (v \o w)[i] = v[i]
    BY ConcatProperties
  <2>6. <<x>> \in Seq(S) /\ <<y, z>> \in Seq(S) /\ <<>> \in Seq(S)
    BY <2>2
  <2>3. KeysIn(kind, context, m) = <<x>> \/ KeysIn(kind, context, m) = <<x>> \o <<y, z>>
    <3>1. <<x>> \o <<>> = <<x>>
      BY <2>6, ConcatEmptySeq
    <3> QED BY <2>1, <3>1
  <2>4. KeysIn(kind, context, m) \in Seq(S) /\ Len(KeysIn(kind, context, m)) \in Nat \ {0}
        /\ KeysIn(kind, context, m)[1] = x
    <3>1. Len(<<x>>) = 1 /\ <<x>>[1] = x /\ Len(<<y, z>>) = 2
      OBVIOUS
    <3>2. CASE KeysIn(kind, context, m) = <<x>>
      BY <2>6, <3>1, <3>2
    <3>3. CASE KeysIn(kind, context, m) = <<x>> \o <<y, z>>
      BY <2>5, <2>6, <3>1, <3>3
    <3> QED BY <2>3, <3>2, <3>3
  <2> QED BY <2>4 DEF x
<1>2. s \in Seq(S) /\ Len(s) \in Nat \ {0} /\ s[1] = SignatureKey(m, prior, ns)
  BY <1>1 DEF ScopedKeys, SignatureKey
<1>3. p \in Seq(S) /\ Len(p) \in Nat
  BY <1>1 DEF PortableKeys
<1> HIDE DEF S, s, p
<1>4. s \o p \in Seq(S) /\ Len(s \o p) \in Nat \ {0} /\ (s \o p)[1] = SignatureKey(m, prior, ns)
      /\ 1 \in DOMAIN (s \o p)
  BY <1>2, <1>3, ConcatProperties, LenProperties
<1> QED BY <1>4 DEF ToSet, s, p

LEMMA WithSound ==
  ASSUME NEW c, Sound(c), NEW keys, NEW n \in Nat \ {None}
  PROVE  /\ Sound(With(c, keys, n))
         /\ DOMAIN With(c, keys, n) = DOMAIN c \cup keys
BY DEF With, Sound

(* One message: it gets the reasoning it needs, or it is missing and its     *)
(* signature was not in the store.                                           *)
LEMMA NormalizedMessage ==
  ASSUME NEW st, st.messages \in Seq(Message), Sound(st.cache), NEW m \in Message, NEW ns
  PROVE  LET w == Normalized(st, m, ns)
             prior == st.messages
             needs == m.role = "assistant" /\ Needs(m, prior)
         IN /\ \E x \in Message :
                 /\ w.messages = Append(prior, x) /\ Similar(m, x)
                 /\ needs => w.missing = st.missing \cup {Len(prior) + 1} \/ x.reasoning # None
            /\ Sound(w.cache) /\ DOMAIN st.cache \subseteq DOMAIN w.cache
            /\ \/ w.missing = st.missing
               \/ /\ w.missing = st.missing \cup {Len(prior) + 1}
                  /\ m.role = "assistant" /\ SignatureKey(m, prior, ns) \notin DOMAIN st.cache
<1> DEFINE prior == st.messages
           scoped == ScopedKeys(m, prior, ns)
           portable == PortableKeys(m, prior, ns)
           keys == scoped \o portable
           hits == {j \in Positions(keys) : keys[j] \in DOMAIN st.cache}
           lacks == m.role = "assistant" /\ m.reasoning = None /\ Needs(m, prior)
           hit == IF hits = {} THEN None ELSE st.cache[keys[Min(hits)]]
           x == IF lacks THEN [m EXCEPT !.reasoning = hit] ELSE m
           w == Normalized(st, m, ns)
<1>1. /\ w.messages = Append(prior, x)
      /\ w.missing = IF lacks /\ hits = {} THEN st.missing \cup {Len(prior) + 1} ELSE st.missing
      /\ w.cache = IF lacks /\ hits # {} /\ Min(hits) <= Len(scoped)
                   THEN With(st.cache, ToSet(portable), hit) ELSE st.cache
  BY Zenon DEF Normalized
<1>2. Len(keys) \in Nat \ {0} /\ keys[1] = SignatureKey(m, prior, ns)
  BY KeyList
<1> HIDE DEF keys
<1>3. hits \subseteq Nat
  BY DEF Positions
<1>4. hits # {} => Min(hits) \in hits
  <2> HIDE DEF hits
  <2> QED BY <1>3, MinOfHits
<1>5. hits # {} => hit \in Nat \ {None}
  BY <1>4 DEF Sound
<1>6. hits = {} => SignatureKey(m, prior, ns) \notin DOMAIN st.cache
  BY <1>2 DEF Positions
<1> HIDE DEF hits, hit, w
<1>7. hit \in Nat
  BY <1>5 DEF hit, None
<1>8. x \in Message /\ Similar(m, x) /\ (lacks => x.reasoning = hit) /\ (~lacks => x = m)
  BY <1>7 DEF Message, Similar, Canonical
<1> HIDE DEF x
<1>9. m.role = "assistant" /\ Needs(m, prior) =>
        w.missing = st.missing \cup {Len(prior) + 1} \/ x.reasoning # None
  BY <1>1, <1>5, <1>8
<1>10. Sound(w.cache) /\ DOMAIN st.cache \subseteq DOMAIN w.cache
  <2>1. CASE w.cache = st.cache
    BY <2>1
  <2>2. CASE w.cache # st.cache
    <3> DEFINE ks == ToSet(portable)
    <3> HIDE DEF ks, portable, scoped
    <3>1. hit \in Nat \ {None} /\ w.cache = With(st.cache, ks, hit)
      BY <1>1, <1>5, <2>2 DEF ks
    <3>2. /\ Sound(With(st.cache, ks, hit))
          /\ DOMAIN With(st.cache, ks, hit) = DOMAIN st.cache \cup ks
      BY <3>1, WithSound
    <3> QED BY <3>1, <3>2
  <2> QED BY <2>1, <2>2
<1>11. \/ w.missing = st.missing
       \/ /\ w.missing = st.missing \cup {Len(prior) + 1}
          /\ m.role = "assistant" /\ SignatureKey(m, prior, ns) \notin DOMAIN st.cache
  BY <1>1, <1>6
<1> HIDE DEF lacks, scoped, portable
<1>12. \E y \in Message :
         /\ w.messages = Append(prior, y) /\ Similar(m, y)
         /\ m.role = "assistant" /\ Needs(m, prior) =>
              w.missing = st.missing \cup {Len(prior) + 1} \/ y.reasoning # None
  <2>1. w.messages = Append(prior, x) /\ x \in Message /\ Similar(m, x)
    BY <1>1, <1>8
  <2> QED BY <1>9, <2>1, Zenon
<1> QED BY <1>10, <1>11, <1>12, Zenon DEF w

(* What a pass has after its first i messages.                               *)
PassInv(ms, c, ns, i) ==
  LET st == Pass(ms, c, ns)[i] IN
  /\ st.messages \in Seq(Message) /\ Len(st.messages) = i
  /\ \A j \in 1..i : Similar(ms[j], st.messages[j])
  /\ Sound(st.cache) /\ DOMAIN c \subseteq DOMAIN st.cache
  /\ st.missing \subseteq 1..i
  /\ \A j \in 1..i :
       ms[j].role = "assistant" /\ Needs(ms[j], SubSeq(ms, 1, j - 1))
       => j \in st.missing \/ st.messages[j].reasoning # None
  /\ \A j \in st.missing :
       /\ ms[j].role = "assistant"
       /\ SignatureKey(ms[j], SubSeq(ms, 1, j - 1), ns) \notin DOMAIN c

LEMMA Prefix ==
  ASSUME NEW ms \in Seq(Message), NEW n \in 0..Len(ms)
  PROVE  /\ SubSeq(ms, 1, n) \in Seq(Message) /\ Len(SubSeq(ms, 1, n)) = n
         /\ \A i \in 1..n : SubSeq(ms, 1, n)[i] = ms[i]
<1>1. Len(ms) \in Nat /\ n \in Nat /\ \A i \in 1..n : ms[i] \in Message
  BY Elements
<1>2. SubSeq(ms, 1, n) = [i \in 1..n |-> ms[i]]
  BY <1>1
<1>3. \A f \in [1..n -> Message] : f \in Seq(Message)
  BY <1>1, SeqDef
<1>4. SubSeq(ms, 1, n) \in Seq(Message) /\ DOMAIN SubSeq(ms, 1, n) = 1..n
  BY <1>1, <1>2, <1>3
<1> QED BY <1>1, <1>2, <1>4, LenProperties

LEMMA PassStep ==
  ASSUME NEW ms \in Seq(Message), NEW c, NEW ns, NEW i \in 1..Len(ms),
         PassInv(ms, c, ns, i - 1)
  PROVE  PassInv(ms, c, ns, i)
<1> DEFINE st == Pass(ms, c, ns)[i - 1]
           w == Pass(ms, c, ns)[i]
           prior == st.messages
           before == SubSeq(ms, 1, i - 1)
           m == ms[i]
<1>1. Len(ms) \in Nat /\ i \in Nat /\ i - 1 \in 0..Len(ms) /\ m \in Message
  BY Elements
<1>2. w = Normalized(st, m, ns)
  BY PassNext
<1>3. /\ before \in Seq(Message) /\ Len(before) = i - 1
      /\ \A j \in 1..(i - 1) : before[j] = ms[j]
  BY <1>1, Prefix
<1>4. /\ prior \in Seq(Message) /\ Len(prior) = i - 1
      /\ \A j \in 1..(i - 1) : Similar(ms[j], prior[j])
      /\ Sound(st.cache) /\ DOMAIN c \subseteq DOMAIN st.cache
      /\ st.missing \subseteq 1..(i - 1)
      /\ \A j \in 1..(i - 1) :
           ms[j].role = "assistant" /\ Needs(ms[j], SubSeq(ms, 1, j - 1))
           => j \in st.missing \/ prior[j].reasoning # None
      /\ \A j \in st.missing :
           /\ ms[j].role = "assistant"
           /\ SignatureKey(ms[j], SubSeq(ms, 1, j - 1), ns) \notin DOMAIN c
  BY DEF PassInv
<1>5. Alike(before, prior)
  BY <1>3, <1>4 DEF Alike, Positions
<1>6. (Needs(m, prior) <=> Needs(m, before)) /\ Canon(prior) = Canon(before)
  <2> HIDE DEF prior, before, m
  <2> QED BY <1>3, <1>4, <1>5, AlikeFacts
<1>7. SignatureKey(m, prior, ns) = SignatureKey(m, before, ns)
  BY <1>6 DEF SignatureKey, Scope
<1> DEFINE needs == m.role = "assistant" /\ Needs(m, prior)
<1>8. /\ \E x \in Message :
           /\ w.messages = Append(prior, x) /\ Similar(m, x)
           /\ needs => w.missing = st.missing \cup {Len(prior) + 1} \/ x.reasoning # None
      /\ Sound(w.cache) /\ DOMAIN st.cache \subseteq DOMAIN w.cache
      /\ \/ w.missing = st.missing
         \/ /\ w.missing = st.missing \cup {Len(prior) + 1}
            /\ m.role = "assistant" /\ SignatureKey(m, prior, ns) \notin DOMAIN st.cache
  <2> HIDE DEF st, m, w, before
  <2>1. st.messages \in Seq(Message) /\ Sound(st.cache)
    BY <1>4
  <2>2. /\ \E x \in Message :
             /\ Normalized(st, m, ns).messages = Append(prior, x) /\ Similar(m, x)
             /\ needs => \/ Normalized(st, m, ns).missing = st.missing \cup {Len(prior) + 1}
                         \/ x.reasoning # None
        /\ Sound(Normalized(st, m, ns).cache)
        /\ DOMAIN st.cache \subseteq DOMAIN Normalized(st, m, ns).cache
        /\ \/ Normalized(st, m, ns).missing = st.missing
           \/ /\ Normalized(st, m, ns).missing = st.missing \cup {Len(prior) + 1}
              /\ m.role = "assistant" /\ SignatureKey(m, prior, ns) \notin DOMAIN st.cache
    <3> DEFINE r == Normalized(st, m, ns)
    <3>1. /\ \E x \in Message :
               /\ r.messages = Append(st.messages, x) /\ Similar(m, x)
               /\ m.role = "assistant" /\ Needs(m, st.messages) =>
                    r.missing = st.missing \cup {Len(st.messages) + 1} \/ x.reasoning # None
          /\ Sound(r.cache) /\ DOMAIN st.cache \subseteq DOMAIN r.cache
          /\ \/ r.missing = st.missing
             \/ /\ r.missing = st.missing \cup {Len(st.messages) + 1}
                /\ m.role = "assistant" /\ SignatureKey(m, st.messages, ns) \notin DOMAIN st.cache
      BY <1>1, <2>1, NormalizedMessage
    <3> HIDE DEF r
    <3>2. PICK x \in Message :
               /\ r.messages = Append(st.messages, x) /\ Similar(m, x)
               /\ m.role = "assistant" /\ Needs(m, st.messages) =>
                    r.missing = st.missing \cup {Len(st.messages) + 1} \/ x.reasoning # None
      BY <3>1
    <3> QED BY <3>1, <3>2 DEF r
  <2> QED BY <1>2, <2>2
<1> HIDE DEF needs, w, st, before
<1>9. PICK x \in Message :
        /\ w.messages = Append(prior, x) /\ Similar(m, x)
        /\ needs => w.missing = st.missing \cup {i} \/ x.reasoning # None
  BY <1>1, <1>4, <1>8
<1> HIDE DEF prior, m
<1>10. /\ w.messages \in Seq(Message) /\ Len(w.messages) = i /\ w.messages[i] = x
       /\ \A j \in 1..(i - 1) : w.messages[j] = prior[j]
  BY <1>1, <1>4, <1>9, AppendProperties
<1>11. \A j \in 1..i : j = i \/ j \in 1..(i - 1)
  BY <1>1
<1>12. \A j \in 1..i : Similar(ms[j], w.messages[j])
  BY <1>4, <1>9, <1>10, <1>11 DEF m
<1>13. Len(prior) + 1 = i /\ (w.missing = st.missing \/ w.missing = st.missing \cup {i})
  BY <1>1, <1>4, <1>8
<1>14. w.missing \subseteq 1..i
  BY <1>1, <1>4, <1>13
<1>15. ASSUME NEW j \in 1..i, ms[j].role = "assistant", Needs(ms[j], SubSeq(ms, 1, j - 1))
       PROVE  j \in w.missing \/ w.messages[j].reasoning # None
  <2>1. CASE j = i
    <3>1. needs
      BY <1>6, <1>15, <2>1 DEF needs, m, before
    <3> QED BY <1>9, <1>10, <2>1, <3>1
  <2>2. CASE j \in 1..(i - 1)
    BY <1>4, <1>10, <1>13, <1>15, <2>2
  <2> QED BY <1>11, <2>1, <2>2
<1>16. ASSUME NEW j \in w.missing
       PROVE  /\ ms[j].role = "assistant"
              /\ SignatureKey(ms[j], SubSeq(ms, 1, j - 1), ns) \notin DOMAIN c
  <2>1. CASE j \in st.missing
    BY <1>4, <2>1
  <2>2. CASE j \notin st.missing
    <3>1. j = i /\ w.missing # st.missing
      BY <1>13, <2>2
    <3>2. m.role = "assistant" /\ SignatureKey(m, before, ns) \notin DOMAIN st.cache
      BY <1>7, <1>8, <3>1
    <3> QED BY <1>4, <3>1, <3>2 DEF m, before
  <2> QED BY <2>1, <2>2
<1>17. Sound(w.cache) /\ DOMAIN c \subseteq DOMAIN w.cache
  BY <1>4, <1>8
<1> QED BY <1>10, <1>12, <1>14, <1>15, <1>16, <1>17 DEF PassInv, w

LEMMA PassAlways ==
  ASSUME NEW ms \in Seq(Message), NEW c, Sound(c), NEW ns
  PROVE  \A i \in 0..Len(ms) : PassInv(ms, c, ns, i)
<1> DEFINE bad == {i \in 0..Len(ms) : ~PassInv(ms, c, ns, i)}
<1>1. Len(ms) \in Nat
  BY Elements
<1>2. PassInv(ms, c, ns, 0)
  <2>1. Pass(ms, c, ns)[0] = [messages |-> <<>>, missing |-> {}, cache |-> c]
    BY PassStart
  <2>2. <<>> \in Seq(Message) /\ Len(<<>>) = 0
    BY EmptySeq
  <2> QED BY <2>1, <2>2 DEF PassInv
<1>3. ASSUME bad # {} PROVE FALSE
  <2>1. bad \subseteq Nat
    BY <1>1
  <2>2. PICK i \in bad : \A j \in bad : i <= j
    <3> HIDE DEF bad
    <3> QED BY <1>3, <2>1, Smallest
  <2>3. i \in 1..Len(ms) /\ i - 1 \in 0..Len(ms) /\ ~(i <= i - 1)
    BY <1>1, <1>2, <2>2
  <2>4. PassInv(ms, c, ns, i - 1)
    BY <2>2, <2>3
  <2> QED BY <2>2, <2>3, <2>4, PassStep
<1> QED BY <1>3

LEMMA PassFacts ==
  ASSUME NEW ms \in Seq(Message), NEW c, Sound(c), NEW ns
  PROVE  PassInv(ms, c, ns, Len(ms))
<1>1. Len(ms) \in 0..Len(ms)
  BY Elements
<1> QED BY <1>1, PassAlways

-----------------------------------------------------------------------------
(* What may be sent: system messages, then a user message, and the tool      *)
(* calls with their results.                                                 *)
Paired(ms) ==
  /\ \A i \in Positions(ms) : ms[i].role = "tool"
       => i > 1 /\ ms[i - 1].role = "assistant" /\ ms[i - 1].call = ms[i].call
  /\ \A i \in Positions(ms) : ms[i].role = "assistant" /\ ms[i].call # None
       => i < Len(ms) /\ ms[i + 1].role = "tool"
Sendable(ms, s) ==
  /\ ms \in Seq(Message)
  /\ s \in 1..(Len(ms) - 1)
  /\ \A i \in 1..Len(ms) : ms[i].role = "system" <=> i <= s
  /\ ms[s + 1].role = "user"
  /\ Paired(ms)
Newest(ms) == ms[LastIn(Users(ms))]

LEMMA SendableFacts ==
  ASSUME NEW ms, NEW s, Sendable(ms, s)
  PROVE  /\ Len(ms) \in Nat /\ s \in Nat /\ Leading(ms) = s
         /\ LastIn(Users(ms)) \in (s + 1)..Len(ms)
         /\ ms[LastIn(Users(ms))].role = "user"
         /\ \A j \in Users(ms) : s < j /\ j <= LastIn(Users(ms))
<1>1. Len(ms) \in Nat /\ s \in Nat /\ s < Len(ms) /\ s >= 1
  BY Elements DEF Sendable
<1>2. Leading(ms) = s
  <2> DEFINE S == {n \in 0..Len(ms) : \A i \in 1..n : ms[i].role = "system"}
  <2>1. s \in S
    BY <1>1 DEF Sendable
  <2>2. \A n \in S : n <= s
    <3> SUFFICES ASSUME NEW n \in S, ~(n <= s) PROVE FALSE
      OBVIOUS
    <3>1. s + 1 \in 1..n /\ s + 1 \in 1..Len(ms) /\ ~(s + 1 <= s)
      BY <1>1
    <3> QED BY <3>1 DEF Sendable
  <2>3. S \subseteq 0..Len(ms)
    OBVIOUS
  <2>4. Leading(ms) = LastIn(S)
    BY DEF Leading
  <2> HIDE DEF S
  <2>5. LastIn(S) \in S /\ \A j \in S : j <= LastIn(S)
    BY <1>1, <2>1, <2>3, LastOfSet
  <2>6. LastIn(S) <= s /\ s <= LastIn(S)
    BY <2>1, <2>2, <2>5
  <2>8. LastIn(S) \in 0..Len(ms)
    BY <2>3, <2>5
  <2>7. LastIn(S) \in Nat
    BY <1>1, <2>8
  <2> QED BY <1>1, <2>4, <2>6, <2>7
<1>3. /\ Users(ms) \subseteq (s + 1)..Len(ms) /\ s + 1 \in Users(ms)
      /\ \A j \in Users(ms) : ms[j].role = "user"
  <2>1. \A j \in 1..Len(ms) : ms[j].role = "user" => ~(j <= s)
    BY DEF Sendable
  <2>2. s + 1 \in 1..Len(ms)
    BY <1>1
  <2> QED BY <1>1, <2>1, <2>2 DEF Users, Positions, Sendable
<1>4. LastIn(Users(ms)) \in Users(ms) /\ \A j \in Users(ms) : j <= LastIn(Users(ms))
  <2>1. Users(ms) \subseteq 0..Len(ms) /\ Users(ms) # {}
    BY <1>1, <1>3
  <2> QED BY <1>1, <2>1, LastOfSet
<1> QED BY <1>1, <1>2, <1>3, <1>4

(* The newest of the users is the last one.                                  *)
LEMMA NewestIs ==
  ASSUME NEW ms, NEW N \in Nat, Users(ms) \subseteq 0..N, NEW u \in Users(ms),
         \A j \in Users(ms) : j <= u
  PROVE  LastIn(Users(ms)) = u
<1>1. LastIn(Users(ms)) \in Users(ms) /\ \A j \in Users(ms) : j <= LastIn(Users(ms))
  BY LastOfSet
<1>2. LastIn(Users(ms)) <= u /\ u <= LastIn(Users(ms)) /\ u \in Nat /\ LastIn(Users(ms)) \in Nat
  BY <1>1
<1> QED BY <1>2

LEMMA AlikeSendable ==
  ASSUME NEW p, NEW s, Sendable(p, s), NEW q \in Seq(Message), Alike(p, q)
  PROVE  Sendable(q, s) /\ Users(q) = Users(p) /\ Newest(q) = Newest(p) /\ Canon(q) = Canon(p)
<1>1. p \in Seq(Message) /\ Len(q) = Len(p) /\ Len(p) \in Nat
  BY Elements DEF Sendable, Alike
<1>2. \A i \in 1..Len(p) : /\ q[i].role = p[i].role /\ q[i].call = p[i].call
                           /\ p[i].role # "assistant" => q[i] = p[i]
  BY DEF Alike, Similar, Canonical, Positions
<1>3. Users(q) = Users(p)
  BY <1>1, <1>2 DEF Users, Positions
<1>4. Newest(q) = Newest(p)
  <2>1. LastIn(Users(p)) \in 1..Len(p) /\ p[LastIn(Users(p))].role = "user"
    BY SendableFacts
  <2> QED BY <1>2, <1>3, <2>1 DEF Newest
<1>5. Canon(q) = Canon(p)
  BY <1>1, AlikeFacts
<1>6. Paired(q)
  <2>1. \A i \in 1..Len(p) : (i > 1 => i - 1 \in 1..Len(p)) /\ (i < Len(p) => i + 1 \in 1..Len(p))
    BY <1>1
  <2>2. Paired(p)
    BY DEF Sendable
  <2> QED BY <1>1, <1>2, <2>1, <2>2 DEF Paired, Positions
<1>7. Sendable(q, s)
  <2>1. s + 1 \in 1..Len(p)
    BY <1>1 DEF Sendable
  <2> QED BY <1>1, <1>2, <1>6, <2>1 DEF Sendable
<1> QED BY <1>3, <1>4, <1>5, <1>7

LEMMA Suffix ==
  ASSUME NEW ms \in Seq(Message), NEW b \in 1..Len(ms)
  PROVE  /\ SubSeq(ms, b, Len(ms)) \in Seq(Message)
         /\ Len(SubSeq(ms, b, Len(ms))) = Len(ms) - b + 1
         /\ \A i \in 1..(Len(ms) - b + 1) : SubSeq(ms, b, Len(ms))[i] = ms[b + i - 1]
<1> DEFINE n == Len(ms) - b + 1
<1>1. Len(ms) \in Nat /\ n \in Nat /\ \A i \in 1..n : ms[b + i - 1] \in Message
  <2>1. \A i \in 1..n : b + i - 1 \in 1..Len(ms)
    BY Elements
  <2> QED BY <2>1, Elements
<1>2. SubSeq(ms, b, Len(ms)) = [i \in 1..n |-> ms[b + i - 1]]
  <2>1. SubSeq(ms, b, Len(ms)) = [i \in 1..(Len(ms) - b + 1) |-> ms[i + b - 1]]
    BY <1>1
  <2>2. \A i \in 1..n : i + b - 1 = b + i - 1
    BY <1>1
  <2> QED BY <2>1, <2>2
<1>3. \A f \in [1..n -> Message] : f \in Seq(Message)
  BY <1>1, SeqDef
<1> HIDE DEF n
<1>4. SubSeq(ms, b, Len(ms)) \in Seq(Message) /\ DOMAIN SubSeq(ms, b, Len(ms)) = 1..n
  BY <1>1, <1>2, <1>3
<1>5. Len(SubSeq(ms, b, Len(ms))) = n
  BY <1>1, <1>4, LenProperties
<1> QED BY <1>2, <1>4, <1>5 DEF n

(* A beginning, two messages, and a rest.                                    *)
JoinedParts(t, a, x, y, z) ==
  /\ t \in Seq(Message) /\ Len(t) = Len(a) + 2 + Len(z)
  /\ \A i \in 1..Len(a) : t[i] = a[i]
  /\ t[Len(a) + 1] = x /\ t[Len(a) + 2] = y
  /\ \A i \in 1..Len(z) : t[Len(a) + 2 + i] = z[i]

LEMMA Joined ==
  ASSUME NEW a \in Seq(Message), NEW x \in Message, NEW y \in Message, NEW z \in Seq(Message)
  PROVE  JoinedParts(a \o <<x>> \o <<y>> \o z, a, x, y, z)
<1> DEFINE d == a \o <<x>>
           e == d \o <<y>>
           t == e \o z
<1>1. Len(a) \in Nat /\ Len(z) \in Nat
  BY LenProperties
<1>2. /\ <<x>> \in Seq(Message) /\ Len(<<x>>) = 1 /\ <<x>>[1] = x
      /\ <<y>> \in Seq(Message) /\ Len(<<y>>) = 1 /\ <<y>>[1] = y
  OBVIOUS
<1>3. /\ d \in Seq(Message) /\ Len(d) = Len(a) + 1 /\ d[Len(a) + 1] = x
      /\ \A i \in 1..Len(a) : d[i] = a[i]
  BY <1>1, <1>2, ConcatProperties
<1> HIDE DEF d
<1>4. /\ e \in Seq(Message) /\ Len(e) = Len(a) + 2 /\ e[Len(a) + 2] = y /\ e[Len(a) + 1] = x
      /\ \A i \in 1..Len(a) : e[i] = a[i]
  <2>1. /\ e \in Seq(Message) /\ Len(e) = Len(a) + 2 /\ e[Len(d) + 1] = y
        /\ \A i \in 1..Len(d) : e[i] = d[i]
    BY <1>1, <1>2, <1>3, ConcatProperties
  <2> HIDE DEF e
  <2> QED BY <1>1, <1>3, <2>1
<1> HIDE DEF e
<1>5. /\ t \in Seq(Message) /\ Len(t) = Len(a) + 2 + Len(z)
      /\ \A i \in 1..Len(z) : t[Len(e) + i] = z[i]
      /\ \A i \in 1..Len(e) : t[i] = e[i]
  <2>1. e \in Seq(Message) /\ z \in Seq(Message)
    BY <1>4
  <2>2. /\ t \in Seq(Message) /\ Len(t) = Len(e) + Len(z)
        /\ \A i \in 1..Len(e) : t[i] = e[i]
    BY <2>1, ConcatProperties
  <2>3. ASSUME NEW i \in 1..Len(z) PROVE t[Len(e) + i] = z[i]
    <3>1. /\ Len(e) + i \in 1..(Len(e) + Len(z)) /\ ~(Len(e) + i <= Len(e))
          /\ Len(e) + i - Len(e) = i
      BY <1>1, <1>4
    <3> QED BY <2>1, <3>1, ConcatProperties
  <2> QED BY <1>4, <2>2, <2>3
<1> HIDE DEF t
<1>6. /\ \A i \in 1..Len(a) : t[i] = a[i]
      /\ t[Len(a) + 1] = x /\ t[Len(a) + 2] = y
      /\ \A i \in 1..Len(z) : t[Len(a) + 2 + i] = z[i]
  BY <1>1, <1>4, <1>5
<1>7. JoinedParts(t, a, x, y, z)
  BY <1>5, <1>6 DEF JoinedParts
<1> QED BY <1>7 DEF t, e, d

(* From a boundary on: no notice comes after another assistant message.      *)
Notices(ms) == {i \in Positions(ms) : HasNotice(ms[i])}
OneNotice(ms) ==
  \A i, j \in Positions(ms) : ms[i].role = "assistant" /\ i < j => ~HasNotice(ms[j])

LEMMA BoundaryShape ==
  ASSUME NEW ms, NEW s, Sendable(ms, s), NEW b \in 1..Len(ms), ms[b].role = "assistant",
         \A i \in Notices(ms) : i <= b
  PROVE  LET r == FromBoundary(ms, b).messages
         IN Sendable(r, s + 1) /\ Newest(r) = Newest(ms) /\ OneNotice(r)
<1> DEFINE before == {i \in Users(ms) : i < b}
           u == LastIn(before)
           a == SubSeq(ms, 1, s)
           z == SubSeq(ms, b, Len(ms))
           n == Len(ms) - b + 1
           r == FromBoundary(ms, b).messages
<1>0. ms \in Seq(Message)
  BY DEF Sendable
<1>1. /\ Len(ms) \in Nat /\ s \in Nat /\ s >= 1 /\ s < Len(ms) /\ Leading(ms) = s
      /\ b \in Nat /\ s + 1 < b
  <2>0. Len(ms) \in Nat /\ s \in Nat /\ Leading(ms) = s
    BY SendableFacts
  <2>1. Len(ms) \in Nat /\ s \in Nat /\ s >= 1 /\ s < Len(ms) /\ Leading(ms) = s
    BY <2>0 DEF Sendable
  <2>2. ~(b <= s) /\ b # s + 1
    BY DEF Sendable
  <2> QED BY <2>1, <2>2
<1>2. \A i \in 1..Len(ms) : ms[i] \in Message
  BY <1>0, Elements
<1>3. u \in Users(ms) /\ u < b /\ \A i \in before : i <= u
  <2>1. s + 1 \in before /\ before \subseteq 0..Len(ms)
    BY <1>1 DEF Users, Positions, Sendable
  <2> HIDE DEF before
  <2>2. u \in before /\ \A i \in before : i <= u
    BY <1>1, <2>1, LastOfSet
  <2> QED BY <2>2 DEF before
<1>4. u \in 1..Len(ms) /\ ms[u].role = "user" /\ ms[u] \in Message
  BY <1>2, <1>3 DEF Users, Positions
<1>5. a \in Seq(Message) /\ Len(a) = s /\ \A i \in 1..s : a[i] = ms[i]
  <2>1. s \in 0..Len(ms)
    BY <1>1
  <2> QED BY <1>0, <2>1, Prefix
<1>6. z \in Seq(Message) /\ Len(z) = n /\ \A i \in 1..n : z[i] = ms[b + i - 1]
  BY <1>0, Suffix
<1>7. r = a \o <<Recovery>> \o <<ms[u]>> \o z
  <2>1. u # 0
    BY <1>1, <1>4
  <2> QED BY <1>1, <2>1 DEF FromBoundary
<1>8. Recovery \in Message /\ Recovery.role = "system"
  BY DEF Recovery, System, Message, None
<1> HIDE DEF a, z, u, before, r
<1>9. n \in Nat
  BY <1>1
<1>10. /\ r \in Seq(Message) /\ Len(r) = s + 2 + n
       /\ \A i \in 1..s : r[i] = ms[i]
       /\ r[s + 1] = Recovery /\ r[s + 2] = ms[u]
       /\ \A i \in 1..n : r[s + 2 + i] = ms[b + i - 1]
  <2> DEFINE y == ms[u]
             x == Recovery
  <2>0. a \in Seq(Message) /\ z \in Seq(Message) /\ x \in Message /\ y \in Message
        /\ r = a \o <<x>> \o <<y>> \o z
    BY <1>4, <1>5, <1>6, <1>7, <1>8
  <2>1. /\ r \in Seq(Message) /\ Len(r) = Len(a) + 2 + Len(z)
        /\ \A i \in 1..Len(a) : r[i] = a[i]
        /\ r[Len(a) + 1] = Recovery /\ r[Len(a) + 2] = ms[u]
        /\ \A i \in 1..Len(z) : r[Len(a) + 2 + i] = z[i]
    <3> HIDE DEF x, y, n
    <3>1. /\ r \in Seq(Message) /\ Len(r) = Len(a) + 2 + Len(z)
          /\ \A i \in 1..Len(a) : r[i] = a[i]
          /\ r[Len(a) + 1] = x /\ r[Len(a) + 2] = y
          /\ \A i \in 1..Len(z) : r[Len(a) + 2 + i] = z[i]
      <4>1. JoinedParts(r, a, x, y, z)
        BY <2>0, Joined
      <4> QED BY <4>1 DEF JoinedParts
    <3> QED BY <3>1 DEF x, y
  <2> HIDE DEF n
  <2> QED BY <1>5, <1>6, <2>1
<1>11. /\ \A i \in 1..Len(r) : \/ i <= s + 1 /\ r[i].role = "system"
                               \/ i = s + 2 /\ r[i] = ms[u]
                               \/ /\ i > s + 2 /\ i - s - 2 \in 1..n /\ b + i - s - 3 \in b..Len(ms)
                                  /\ r[i] = ms[b + i - s - 3]
  <2> SUFFICES ASSUME NEW i \in 1..Len(r)
               PROVE  \/ i <= s + 1 /\ r[i].role = "system"
                      \/ i = s + 2 /\ r[i] = ms[u]
                      \/ /\ i > s + 2 /\ i - s - 2 \in 1..n /\ b + i - s - 3 \in b..Len(ms)
                         /\ r[i] = ms[b + i - s - 3]
    OBVIOUS
  <2>1. i \in 1..(s + 2 + n)
    BY <1>10
  <2>2. CASE i <= s
    BY <1>1, <1>10, <2>1, <2>2 DEF Sendable
  <2>3. CASE i = s + 1
    BY <1>8, <1>10, <2>3, <1>1
  <2>4. CASE i = s + 2
    BY <1>10, <2>4
  <2>5. CASE i > s + 2
    <3>1. i - s - 2 \in 1..n /\ b + i - s - 3 \in b..Len(ms)
          /\ s + 2 + (i - s - 2) = i /\ b + (i - s - 2) - 1 = b + i - s - 3
      BY <1>1, <2>1, <2>5
    <3>2. r[s + 2 + (i - s - 2)] = ms[b + (i - s - 2) - 1]
      BY <1>10, <3>1
    <3> QED BY <2>5, <3>1, <3>2
  <2> QED BY <1>1, <2>1, <2>2, <2>3, <2>4, <2>5
<1>12. \A j \in b..Len(ms) : /\ j - b + s + 3 \in 1..Len(r) /\ j - b + s + 3 > s + 2
                             /\ r[j - b + s + 3] = ms[j]
  <2> SUFFICES ASSUME NEW j \in b..Len(ms)
               PROVE  /\ j - b + s + 3 \in 1..Len(r) /\ j - b + s + 3 > s + 2
                      /\ r[j - b + s + 3] = ms[j]
    OBVIOUS
  <2>1. j - b + 1 \in 1..n /\ s + 2 + (j - b + 1) = j - b + s + 3 /\ b + (j - b + 1) - 1 = j
    BY <1>1
  <2>2. r[s + 2 + (j - b + 1)] = ms[b + (j - b + 1) - 1]
    BY <1>10, <2>1
  <2>3. s + 2 + (j - b + 1) \in 1..(s + 2 + n) /\ s + 2 + (j - b + 1) > s + 2
    BY <1>1, <2>1
  <2> QED BY <1>10, <2>1, <2>2, <2>3
<1>13. \A k \in b..Len(ms) :
         /\ k \in 1..Len(ms) /\ ms[k].role # "system"
         /\ k # b => k - 1 \in b..Len(ms) /\ k > b
         /\ k < Len(ms) => k + 1 \in b..Len(ms)
  <2> TAKE k \in b..Len(ms)
  <2>1. k \in 1..Len(ms) /\ ~(k <= s)
    BY <1>1
  <2> QED BY <1>1, <2>1 DEF Sendable
<1>14. Paired(r)
  <2>1. ASSUME NEW i \in 1..Len(r), r[i].role = "tool"
        PROVE  i > 1 /\ r[i - 1].role = "assistant" /\ r[i - 1].call = r[i].call
    <3> DEFINE k == b + i - s - 3
    <3>1. i > s + 2 /\ k \in b..Len(ms) /\ r[i] = ms[k]
      BY <1>4, <1>11, <2>1
    <3>2. k # b /\ k - 1 \in b..Len(ms) /\ k \in 1..Len(ms)
      BY <1>13, <2>1, <3>1
    <3>3. ms[k - 1].role = "assistant" /\ ms[k - 1].call = ms[k].call
      BY <2>1, <3>1, <3>2 DEF Sendable, Paired, Positions
    <3>4. (k - 1) - b + s + 3 = i - 1
      BY <1>1, <3>1
    <3>5. r[i - 1] = ms[k - 1]
      BY <1>12, <3>2, <3>4
    <3> HIDE DEF k
    <3> QED BY <1>1, <3>1, <3>3, <3>5
  <2>2. ASSUME NEW i \in 1..Len(r), r[i].role = "assistant", r[i].call # None
        PROVE  i < Len(r) /\ r[i + 1].role = "tool"
    <3> DEFINE k == b + i - s - 3
    <3>1. i > s + 2 /\ k \in b..Len(ms) /\ r[i] = ms[k]
      BY <1>4, <1>11, <2>2
    <3>2. k \in 1..Len(ms) /\ ms[k].role = "assistant" /\ ms[k].call # None
      BY <1>13, <2>2, <3>1
    <3>3. k < Len(ms) /\ ms[k + 1].role = "tool"
      BY <3>2 DEF Sendable, Paired, Positions
    <3>4. k + 1 \in b..Len(ms) /\ (k + 1) - b + s + 3 = i + 1
      BY <1>1, <1>13, <3>1, <3>3
    <3>5. r[i + 1] = ms[k + 1] /\ i + 1 \in 1..Len(r)
      BY <1>12, <3>4
    <3>6. Len(r) \in Nat
      BY <1>10, <1>1, <1>9
    <3> HIDE DEF k
    <3> QED BY <3>3, <3>5, <3>6
  <2> QED BY <2>1, <2>2 DEF Paired, Positions
<1>15. Sendable(r, s + 1)
  <2>1. s + 1 \in 1..(Len(r) - 1) /\ (s + 1) + 1 = s + 2
    <3>1. n >= 1
      BY <1>1
    <3> QED BY <1>1, <1>9, <1>10, <3>1
  <2>2. ASSUME NEW i \in 1..Len(r) PROVE r[i].role = "system" <=> i <= s + 1
    <3>1. CASE i <= s + 1 /\ r[i].role = "system"
      BY <3>1
    <3>2. CASE i = s + 2 /\ r[i] = ms[u]
      BY <1>1, <1>4, <3>2
    <3>3. CASE i > s + 2 /\ b + i - s - 3 \in b..Len(ms) /\ r[i] = ms[b + i - s - 3]
      <4>1. r[i].role # "system"
        <5> DEFINE k == b + i - s - 3
        <5>1. k \in b..Len(ms) /\ r[i] = ms[k]
          BY <3>3
        <5>2. \A j \in b..Len(ms) : j \in 1..Len(ms) /\ ~(j <= s)
          BY <1>1
        <5>3. \A j \in b..Len(ms) : ms[j].role # "system"
          BY <5>2 DEF Sendable
        <5> HIDE DEF k
        <5> QED BY <5>1, <5>3
      <4>2. ~(i <= s + 1)
        BY <1>1, <3>3
      <4> QED BY <4>1, <4>2
    <3> QED BY <1>11, <3>1, <3>2, <3>3
  <2> QED BY <1>4, <1>10, <1>14, <2>1, <2>2 DEF Sendable
<1>16. Newest(r) = Newest(ms)
  <2> DEFINE v == LastIn(Users(ms))
  <2>0. v \in (s + 1)..Len(ms) /\ ms[v].role = "user" /\ \A j \in Users(ms) : j <= v
    BY SendableFacts
  <2>1. v \in 1..Len(ms) /\ v \in Users(ms) /\ \A j \in Users(ms) : j <= v
    <3> HIDE DEF v
    <3> QED BY <1>1, <2>0 DEF Users, Positions
  <2> HIDE DEF v
  <2>2. ms[v].role = "user" /\ v # b
    BY <2>1 DEF Users
  <2>3. Users(r) \subseteq 0..Len(r) /\ Len(r) \in Nat
    BY <1>1, <1>9, <1>10 DEF Users, Positions
  <2>4. CASE v < b
    <3>1. v = u
      <4>1. v <= u /\ u <= v
        BY <1>3, <2>1, <2>4 DEF before
      <4> QED BY <1>4, <2>1, <4>1
    <3>2. s + 2 \in Users(r)
      BY <1>1, <1>4, <1>9, <1>10 DEF Users, Positions
    <3>3. ASSUME NEW j \in Users(r) PROVE j <= s + 2
      <4>1. j \in 1..Len(r) /\ r[j].role = "user"
        BY DEF Users, Positions
      <4>2. CASE j > s + 2 /\ b + j - s - 3 \in b..Len(ms) /\ r[j] = ms[b + j - s - 3]
        <5>1. b + j - s - 3 \in Users(ms)
          BY <1>13, <4>1, <4>2 DEF Users, Positions
        <5>2. b + j - s - 3 <= v
          BY <2>1, <5>1
        <5> QED BY <1>1, <2>1, <2>4, <4>2, <5>2
      <4> QED BY <1>1, <1>11, <4>1, <4>2
    <3>4. LastIn(Users(r)) = s + 2
      BY <2>3, <3>2, <3>3, NewestIs
    <3> QED BY <1>10, <3>1, <3>4 DEF Newest, v
  <2>5. CASE ~(v < b)
    <3> DEFINE w == v - b + s + 3
    <3>1. v \in b..Len(ms)
      BY <1>1, <2>1, <2>5
    <3>2. w \in 1..Len(r) /\ w > s + 2 /\ r[w] = ms[v]
      BY <1>12, <3>1
    <3>3. w \in Users(r)
      BY <2>2, <3>2 DEF Users, Positions
    <3>4. ASSUME NEW j \in Users(r) PROVE j <= w
      <4>1. j \in 1..Len(r) /\ r[j].role = "user"
        BY DEF Users, Positions
      <4>2. CASE j > s + 2 /\ b + j - s - 3 \in b..Len(ms) /\ r[j] = ms[b + j - s - 3]
        <5>1. b + j - s - 3 \in Users(ms)
          BY <1>13, <4>1, <4>2 DEF Users, Positions
        <5>2. b + j - s - 3 <= v
          BY <2>1, <5>1
        <5> QED BY <1>1, <2>1, <4>1, <5>2
      <4>3. CASE j <= s + 2
        BY <1>1, <3>2, <4>1, <4>3
      <4>4. j <= s + 1 \/ j = s + 2 \/ (j > s + 2 /\ b + j - s - 3 \in b..Len(ms) /\ r[j] = ms[b + j - s - 3])
        BY <1>11, <4>1
      <4>5. j <= s + 1 => j <= s + 2
        BY <1>1, <4>1
      <4>6. j = s + 2 => j <= s + 2
        BY <1>1
      <4> QED BY <4>2, <4>3, <4>4, <4>5, <4>6
    <3>5. LastIn(Users(r)) = w
      <4> HIDE DEF w
      <4> QED BY <2>3, <3>3, <3>4, NewestIs
    <3> QED BY <3>2, <3>5 DEF Newest, v
  <2> QED BY <2>4, <2>5
<1>17. OneNotice(r)
  <2> SUFFICES ASSUME NEW i \in 1..Len(r), NEW j \in 1..Len(r), r[i].role = "assistant", i < j,
                      HasNotice(r[j])
               PROVE  FALSE
    BY DEF OneNotice, Positions
  <2>1. i > s + 2
    BY <1>4, <1>11
  <2>2. j > s + 2 /\ b + j - s - 3 \in b..Len(ms) /\ r[j] = ms[b + j - s - 3]
    BY <1>1, <1>11, <2>1
  <2>3. b + j - s - 3 \in Notices(ms)
    BY <1>13, <2>2 DEF Notices, Positions
  <2>4. b + j - s - 3 <= b
    BY <2>3
  <2> QED BY <1>1, <2>1, <2>4
<1> QED BY <1>15, <1>16, <1>17 DEF r

(* After recovery only the newest user message is left.                      *)
LEMMA FreshShape ==
  ASSUME NEW ms, NEW s, Sendable(ms, s)
  PROVE  LET r == SubSeq(ms, 1, Leading(ms)) \o <<Recovery, ms[LastIn(Users(ms))]>>
         IN /\ Sendable(r, s + 1) /\ Newest(r) = Newest(ms)
            /\ \A i \in 1..Len(r) : r[i].role # "assistant"
<1> DEFINE u == LastIn(Users(ms))
           a == SubSeq(ms, 1, s)
           r == SubSeq(ms, 1, Leading(ms)) \o <<Recovery, ms[u]>>
<1>1. /\ Len(ms) \in Nat /\ s \in Nat /\ s >= 1 /\ s < Len(ms) /\ Leading(ms) = s
      /\ u \in 1..Len(ms) /\ ms[u].role = "user" /\ ms \in Seq(Message)
  <2>1. /\ Len(ms) \in Nat /\ s \in Nat /\ Leading(ms) = s /\ u \in (s + 1)..Len(ms)
        /\ ms[u].role = "user"
    BY SendableFacts
  <2> HIDE DEF u
  <2> QED BY <2>1 DEF Sendable
<1>2. ms[u] \in Message /\ Recovery \in Message /\ Recovery.role = "system"
  BY <1>1, Elements DEF Recovery, System, Message, None
<1>3. a \in Seq(Message) /\ Len(a) = s /\ \A i \in 1..s : a[i] = ms[i]
  <2>1. s \in 0..Len(ms)
    BY <1>1
  <2> QED BY <1>1, <2>1, Prefix
<1>4. r = a \o <<Recovery, ms[u]>>
  BY <1>1
<1> HIDE DEF a, u, r
<1>5. /\ <<Recovery, ms[u]>> \in Seq(Message) /\ Len(<<Recovery, ms[u]>>) = 2
      /\ <<Recovery, ms[u]>>[1] = Recovery /\ <<Recovery, ms[u]>>[2] = ms[u]
  BY <1>2
<1>6. /\ r \in Seq(Message) /\ Len(r) = s + 2 /\ r[s + 1] = Recovery /\ r[s + 2] = ms[u]
      /\ \A i \in 1..s : r[i] = ms[i]
  BY <1>1, <1>3, <1>4, <1>5, ConcatProperties
<1>7. \A i \in 1..Len(r) : (i <= s + 1 /\ r[i].role = "system") \/ (i = s + 2 /\ r[i].role = "user")
  <2> TAKE i \in 1..Len(r)
  <2>1. i \in 1..s \/ i = s + 1 \/ i = s + 2
    BY <1>1, <1>6
  <2>2. CASE i \in 1..s
    BY <1>1, <1>6, <2>2 DEF Sendable
  <2> QED BY <1>1, <1>2, <1>6, <2>1, <2>2
<1>8. Paired(r) /\ \A i \in 1..Len(r) : r[i].role # "assistant"
  BY <1>7 DEF Paired, Positions
<1>9. Sendable(r, s + 1)
  <2>1. s + 1 \in 1..(Len(r) - 1) /\ (s + 1) + 1 = s + 2
    BY <1>1, <1>6
  <2>2. \A i \in 1..Len(r) : r[i].role = "system" <=> i <= s + 1
    BY <1>1, <1>7
  <2> QED BY <1>1, <1>6, <1>8, <2>1, <2>2 DEF Sendable
<1>10. Newest(r) = Newest(ms)
  <2>1. s + 2 \in Users(r) /\ Users(r) \subseteq 0..Len(r) /\ Len(r) \in Nat
    BY <1>1, <1>6 DEF Users, Positions
  <2>2. \A j \in Users(r) : j <= s + 2
    BY <1>1, <1>6 DEF Users, Positions
  <2>3. LastIn(Users(r)) = s + 2
    BY <2>1, <2>2, NewestIs
  <2> QED BY <1>6, <2>3 DEF Newest, u
<1> QED BY <1>8, <1>9, <1>10 DEF r, u

-----------------------------------------------------------------------------
(* What a pass makes of messages that may be sent.                           *)
Complete(ms) ==
  \A i \in Positions(ms) :
    ms[i].role = "assistant" /\ InToolContext(ms, i) => ms[i].reasoning # None

PassOk(w, ms, c, ns) ==
  /\ \E s : Sendable(w.messages, s)
  /\ Newest(w.messages) = Newest(ms)
  /\ Sound(w.cache) /\ DOMAIN c \subseteq DOMAIN w.cache
  /\ \A i \in w.missing : i \in 1..Len(w.messages) /\ w.messages[i].role = "assistant"
  /\ w.missing = {} /\ ns \notin Disabled => Complete(w.messages)

(* In a transcript that may be sent, the last message before an answer that  *)
(* is not an assistant's tells whether the answer is one to tool results.    *)
LEMMA ContextNeeds ==
  ASSUME NEW ms, NEW s, Sendable(ms, s), NEW i \in 1..Len(ms), ms[i].role = "assistant",
         InToolContext(ms, i)
  PROVE  Needs(ms[i], SubSeq(ms, 1, i - 1))
<1> DEFINE prior == SubSeq(ms, 1, i - 1)
           said == {j \in Positions(prior) : prior[j].role # "assistant"}
<1>1. ms \in Seq(Message) /\ Len(ms) \in Nat /\ i - 1 \in 0..Len(ms) /\ i \in Nat /\ s \in Nat
  <2>1. ms \in Seq(Message)
    BY DEF Sendable
  <2>2. Len(ms) \in Nat
    BY <2>1, Elements
  <2> QED BY <2>1, <2>2 DEF Sendable
<1>2. /\ prior \in Seq(Message) /\ Len(prior) = i - 1
      /\ \A j \in 1..(i - 1) : prior[j] = ms[j]
  BY <1>1, Prefix
<1>3. CASE ms[i].call # None
  BY <1>3 DEF Needs
<1>4. CASE ms[i].call = None
  <2>1. PICK j \in 1..(i - 1) : ms[j].role = "tool" /\ \A k \in j..i : ms[k].role # "user"
    BY <1>4 DEF InToolContext
  <2>2. j \in said /\ said \subseteq 0..(i - 1) /\ i - 1 \in Nat
    BY <1>1, <1>2, <2>1 DEF Positions
  <2>3. LastIn(said) \in said /\ j <= LastIn(said)
    <3> HIDE DEF said
    <3> QED BY <2>2, LastOfSet
  <2> DEFINE l == LastIn(said)
  <2>4. l \in 1..(i - 1) /\ prior[l] = ms[l] /\ ms[l].role # "assistant"
    BY <1>1, <1>2, <2>3 DEF Positions
  <2> HIDE DEF l
  <2>5. j <= l
    BY <2>3 DEF l
  <2>6. ~(j <= s) /\ j \in Nat /\ l \in Nat /\ l \in 1..Len(ms)
    <3>1. j \in 1..Len(ms)
      BY <1>1, <2>1
    <3> QED BY <1>1, <2>1, <2>4, <3>1 DEF Sendable
  <2>7. ms[l].role # "system"
    <3>1. ~(l <= s)
      BY <1>1, <2>5, <2>6
    <3> QED BY <2>6, <3>1 DEF Sendable
  <2>8. ms[l].role # "user"
    <3>1. l \in j..i
      BY <1>1, <2>4, <2>5, <2>6
    <3> QED BY <2>1, <3>1
  <2>9. ms[l].role = "tool"
    <3>1. ms[l] \in Message
      BY <1>1, <2>6, Elements
    <3> QED BY <2>4, <2>7, <2>8, <3>1 DEF Message
  <2>10. prior[LastIn(said)].role = "tool" /\ said # {}
    BY <2>2, <2>4, <2>9 DEF l
  <2> HIDE DEF l
  <2> QED BY <2>10 DEF Needs
<1> QED BY <1>3, <1>4

LEMMA AlikeContext ==
  ASSUME NEW p, NEW q, Alike(p, q), NEW i \in 1..Len(q), InToolContext(q, i), Len(p) \in Nat
  PROVE  InToolContext(p, i)
<1>1. Len(p) = Len(q) /\ \A j \in 1..Len(p) : q[j].role = p[j].role /\ q[j].call = p[j].call
  BY DEF Alike, Similar, Canonical, Positions
<1>2. CASE q[i].call # None
  BY <1>1, <1>2 DEF InToolContext
<1>3. CASE q[i].call = None
  <2>1. PICK j \in 1..(i - 1) : q[j].role = "tool" /\ \A k \in j..i : q[k].role # "user"
    BY <1>3 DEF InToolContext
  <2>2. \A k \in j..i : k \in 1..Len(p)
    BY <1>1, <2>1
  <2>3. j \in 1..Len(p)
    BY <1>1, <2>1
  <2>4. p[j].role = "tool" /\ \A k \in j..i : p[k].role # "user"
    BY <1>1, <2>1, <2>2, <2>3
  <2> QED BY <2>4 DEF InToolContext
<1> QED BY <1>2, <1>3

LEMMA PassKeeps ==
  ASSUME NEW ms, NEW s, Sendable(ms, s), NEW c, Sound(c), NEW ns
  PROVE  /\ PassOk(NormalizedAll(ms, c, ns), ms, c, ns)
         /\ Alike(ms, NormalizedAll(ms, c, ns).messages)
         /\ \A j \in NormalizedAll(ms, c, ns).missing :
              /\ j \in 1..Len(ms) /\ ms[j].role = "assistant"
              /\ SignatureKey(ms[j], SubSeq(ms, 1, j - 1), ns) \notin DOMAIN c
<1> DEFINE w == NormalizedAll(ms, c, ns)
           q == w.messages
<1>1. ms \in Seq(Message) /\ Len(ms) \in Nat
  BY Elements DEF Sendable
<1>2. PassInv(ms, c, ns, Len(ms))
  BY <1>1, PassFacts
<1>3. /\ q \in Seq(Message) /\ Len(q) = Len(ms)
      /\ \A j \in 1..Len(ms) : Similar(ms[j], q[j])
      /\ Sound(w.cache) /\ DOMAIN c \subseteq DOMAIN w.cache
      /\ w.missing \subseteq 1..Len(ms)
      /\ \A j \in 1..Len(ms) :
           ms[j].role = "assistant" /\ Needs(ms[j], SubSeq(ms, 1, j - 1))
           => j \in w.missing \/ q[j].reasoning # None
      /\ \A j \in w.missing :
           /\ ms[j].role = "assistant"
           /\ SignatureKey(ms[j], SubSeq(ms, 1, j - 1), ns) \notin DOMAIN c
  BY <1>2 DEF PassInv, NormalizedAll
<1> HIDE DEF w, q
<1>4. Alike(ms, q)
  BY <1>3 DEF Alike, Positions
<1>5. Sendable(q, s) /\ Newest(q) = Newest(ms)
  BY <1>3, <1>4, AlikeSendable
<1>6. \A i \in 1..Len(ms) : q[i].role = ms[i].role
  BY <1>3 DEF Similar, Canonical
<1>7. ASSUME w.missing = {}, NEW i \in Positions(q), q[i].role = "assistant",
             InToolContext(q, i)
      PROVE  q[i].reasoning # None
  <2>1. i \in 1..Len(ms) /\ i \in 1..Len(q) /\ ms[i].role = "assistant"
    BY <1>3, <1>6, <1>7 DEF Positions
  <2>2. InToolContext(ms, i)
    BY <1>1, <1>4, <1>7, <2>1, AlikeContext
  <2>3. Needs(ms[i], SubSeq(ms, 1, i - 1))
    BY <2>1, <2>2, ContextNeeds
  <2> QED BY <1>3, <1>7, <2>1, <2>3
<1>8. \A i \in w.missing : i \in 1..Len(q) /\ q[i].role = "assistant"
  BY <1>3, <1>6
<1>9. PassOk(w, ms, c, ns)
  BY <1>3, <1>5, <1>7, <1>8 DEF PassOk, Complete, q
<1> QED BY <1>3, <1>4, <1>9 DEF w, q

LEMMA AlikeNotices ==
  ASSUME NEW p, NEW q, Alike(p, q), OneNotice(p)
  PROVE  OneNotice(q)
<1>1. Len(p) = Len(q) /\ \A j \in 1..Len(p) : q[j].role = p[j].role /\ q[j].notice = p[j].notice
  BY DEF Alike, Similar, Canonical, Positions
<1> QED BY <1>1 DEF OneNotice, Positions, HasNotice

(* Before recovery: either nothing is missing, or no notice follows what is. *)
LEMMA BegunFacts ==
  ASSUME NEW ms, NEW s, Sendable(ms, s), Sound(cache), NEW ns
  PROVE  /\ PassOk(Begun(ms, ns), ms, cache, ns)
         /\ \/ Begun(ms, ns).missing = {}
            \/ strategy = "reject"
            \/ OneNotice(Begun(ms, ns).messages)
         /\ NormalizedAll(ms, cache, ns).missing = {} => Begun(ms, ns).missing = {}
<1> DEFINE first == NormalizedAll(ms, cache, ns)
           b == LastIn(Notices(ms))
           r == FromBoundary(ms, b).messages
           second == NormalizedAll(r, first.cache, ns)
           w == Begun(ms, ns)
<1>0. w = IF first.missing = {} \/ strategy = "reject" \/ b = 0 THEN first ELSE second
  BY DEF Begun, Notices
<1>1. PassOk(first, ms, cache, ns) /\ Alike(ms, first.messages)
  BY PassKeeps
<1>2. ms \in Seq(Message) /\ Len(ms) \in Nat
  BY Elements DEF Sendable
<1>3. Notices(ms) \subseteq 0..Len(ms) /\ 0 \notin Notices(ms)
  BY <1>2 DEF Notices, Positions
<1>4. Notices(ms) # {} => b \in Notices(ms) /\ \A i \in Notices(ms) : i <= b
  BY <1>2, <1>3, LastOfSet
<1>5. CASE first.missing = {} \/ strategy = "reject"
  <2>1. w = first
    BY <1>0, <1>5
  <2> HIDE DEF w, first
  <2> QED BY <1>1, <1>5, <2>1 DEF w, first
<1>6. CASE ~(first.missing = {} \/ strategy = "reject") /\ b = 0
  <2>1. w = first
    BY <1>0, <1>6
  <2>2. Notices(ms) = {}
    BY <1>3, <1>4, <1>6
  <2>3. OneNotice(ms)
    BY <2>2 DEF OneNotice, Notices
  <2> HIDE DEF w, first
  <2>4. OneNotice(first.messages)
    BY <1>1, <2>3, AlikeNotices
  <2> QED BY <1>1, <1>6, <2>1, <2>4 DEF w, first
<1>7. CASE ~(first.missing = {} \/ strategy = "reject" \/ b = 0)
  <2>1. w = second
    BY <1>0, <1>7
  <2>2. b \in Notices(ms) /\ \A i \in Notices(ms) : i <= b
    BY <1>4, <1>7 DEF LastIn
  <2>3. b \in 1..Len(ms) /\ ms[b].role = "assistant"
    BY <2>2 DEF Notices, Positions, HasNotice
  <2> HIDE DEF b
  <2>4. Sendable(r, s + 1) /\ Newest(r) = Newest(ms) /\ OneNotice(r)
    BY <2>2, <2>3, BoundaryShape
  <2> HIDE DEF r, first
  <2>5. Sound(first.cache) /\ DOMAIN cache \subseteq DOMAIN first.cache
    BY <1>1 DEF PassOk
  <2>6. PassOk(second, r, first.cache, ns) /\ Alike(r, second.messages)
    BY <2>4, <2>5, PassKeeps
  <2> HIDE DEF second, w
  <2>7. OneNotice(second.messages)
    BY <2>4, <2>6, AlikeNotices
  <2>8. PassOk(second, ms, cache, ns)
    BY <2>4, <2>5, <2>6 DEF PassOk
  <2> QED BY <1>7, <2>1, <2>7, <2>8 DEF w, first
<1> QED BY <1>5, <1>6, <1>7

LEMMA RoundStart ==
  ASSUME NEW ms \in Seq(Message), NEW ns
  PROVE  Rounds(ms, ns)[0] = [pass |-> Start(ms, ns), notice |-> FALSE, rounds |-> 0]
BY RoundSteps

LEMMA RoundNext ==
  ASSUME NEW ms \in Seq(Message), NEW ns, NEW i \in 1..Len(ms)
  PROVE  Rounds(ms, ns)[i] = NextRound(Rounds(ms, ns)[i - 1], i, ms, ns)
BY RoundSteps

(* What a recovery round leaves: nothing is missing.                         *)
Repaired(after, k, ms, c, ns) ==
  /\ PassOk(after.pass, ms, c, ns) /\ after.pass.missing = {}
  /\ after.rounds = k /\ after.notice \in BOOLEAN

(* What is left after the second branch of the recovery.                     *)
Fresh(q) == SubSeq(q, 1, Leading(q)) \o <<Recovery, q[LastIn(Users(q))]>>

Refreshed(after, before, k, ns) ==
  /\ after.pass = NormalizedAll(Fresh(before.pass.messages), before.pass.cache, ns)
  /\ after.notice \in BOOLEAN /\ after.rounds = k

(* A recovery round, when no notice follows what is missing, takes the       *)
(* second branch.                                                            *)
LEMMA RoundIs ==
  ASSUME NEW before, NEW k, NEW ms, NEW c, NEW ns, PassOk(before.pass, ms, c, ns),
         before.pass.missing # {}, OneNotice(before.pass.messages), before.notice \in BOOLEAN
  PROVE  Refreshed(NextRound(before, k, ms, ns), before, k, ns)
<1> DEFINE q == before.pass.messages
           missing == before.pass.missing
           r == Recovered(q, missing)
           fresh == Fresh(q)
<1>1. PICK s : Sendable(q, s)
  BY DEF PassOk
<1>2. /\ Len(q) \in Nat /\ s \in Nat /\ Leading(q) = s /\ LastIn(Users(q)) \in (s + 1)..Len(q)
      /\ q[LastIn(Users(q))].role = "user" /\ q[s + 1].role = "user" /\ 1 <= s
  <2>1. /\ Len(q) \in Nat /\ s \in Nat /\ Leading(q) = s
        /\ LastIn(Users(q)) \in (s + 1)..Len(q) /\ q[LastIn(Users(q))].role = "user"
    BY <1>1, SendableFacts
  <2> HIDE DEF q
  <2> QED BY <1>1, <2>1 DEF Sendable
<1>3. PICK j \in missing : j \in 1..Len(q) /\ q[j].role = "assistant"
  BY DEF PassOk
<1>4. {i \in Positions(q) : HasNotice(q[i]) /\ \E m \in missing : m < i} = {}
  <2> SUFFICES ASSUME NEW i \in Positions(q), HasNotice(q[i]), NEW m \in missing, m < i
               PROVE  FALSE
    OBVIOUS
  <2>1. m \in Positions(q) /\ q[m].role = "assistant"
    BY DEF PassOk, Positions
  <2> QED BY <2>1 DEF OneNotice
<1>5. r = [messages |-> fresh, dropped |-> Len(q) - Leading(q) - 1, notice |-> TRUE]
  <2> DEFINE S == {i \in Positions(q) : HasNotice(q[i]) /\ \E m \in missing : m < i}
             b == LastIn(S)
             u == LastIn(Users(q))
  <2>1. b = 0 /\ u # 0
    <3>1. S = {}
      BY <1>4
    <3> HIDE DEF S
    <3>2. LastIn(S) = 0
      BY <3>1 DEF LastIn
    <3> QED BY <1>2, <3>2
  <2>2. r = IF b # 0 THEN FromBoundary(q, b)
            ELSE IF u = 0 THEN [messages |-> q, dropped |-> 0, notice |-> FALSE]
            ELSE [messages |-> SubSeq(q, 1, Leading(q)) \o <<Recovery, q[u]>>,
                  dropped |-> Len(q) - Leading(q) - 1, notice |-> TRUE]
    BY DEF Recovered
  <2>3. fresh = SubSeq(q, 1, Leading(q)) \o <<Recovery, q[u]>>
    BY DEF Fresh
  <2> HIDE DEF b, u, fresh
  <2> QED BY <2>1, <2>2, <2>3
<1>6. r.dropped # 0
  <2>1. ~(j <= s) /\ j # s + 1
    <3>1. j <= s => q[j].role = "system"
      BY <1>1, <1>3 DEF Sendable
    <3> HIDE DEF q, missing
    <3> QED BY <1>2, <1>3, <3>1
  <2>2. Len(q) - Leading(q) - 1 # 0
    BY <1>2, <1>3, <2>1
  <2> QED BY <1>5, <2>2
<1> HIDE DEF fresh, r
<1>7. r.messages = fresh /\ r.notice = TRUE
  BY <1>5
<1>8. NextRound(before, k, ms, ns) =
        [pass |-> NormalizedAll(r.messages, before.pass.cache, ns),
         notice |-> before.notice \/ (r.notice /\ Scope(ms, ns) \notin noticed),
         rounds |-> k]
  BY <1>6 DEF NextRound, r
<1> DEFINE after == NextRound(before, k, ms, ns)
<1>9. /\ after.pass = NormalizedAll(fresh, before.pass.cache, ns)
      /\ after.notice \in BOOLEAN /\ after.rounds = k
  BY <1>7, <1>8
<1> HIDE DEF after
<1>10. Refreshed(after, before, k, ns)
  BY <1>9 DEF Refreshed, fresh
<1> QED BY <1>10 DEF after

(* It keeps the newest user message only, so nothing is missing after it.    *)
LEMMA RoundFacts ==
  ASSUME NEW before, NEW k, NEW ms, NEW c, NEW ns, PassOk(before.pass, ms, c, ns),
         before.pass.missing # {}, OneNotice(before.pass.messages), before.notice \in BOOLEAN
  PROVE  Repaired(NextRound(before, k, ms, ns), k, ms, c, ns)
<1> DEFINE q == before.pass.messages
           fresh == Fresh(q)
           w == NormalizedAll(fresh, before.pass.cache, ns)
           after == NextRound(before, k, ms, ns)
<1>1. PICK s : Sendable(q, s)
  BY DEF PassOk
<1>2. /\ Sendable(fresh, s + 1) /\ Newest(fresh) = Newest(q)
      /\ \A i \in 1..Len(fresh) : fresh[i].role # "assistant"
  <2> HIDE DEF q
  <2> QED BY <1>1, FreshShape DEF Fresh
<1>3. after.pass = w /\ after.notice \in BOOLEAN /\ after.rounds = k
  <2>1. Refreshed(NextRound(before, k, ms, ns), before, k, ns)
    BY RoundIs
  <2> QED BY <2>1 DEF Refreshed
<1>4. Sound(before.pass.cache) /\ DOMAIN c \subseteq DOMAIN before.pass.cache
      /\ Newest(q) = Newest(ms)
  BY DEF PassOk
<1>5. /\ PassOk(w, fresh, before.pass.cache, ns)
      /\ \A i \in w.missing : i \in 1..Len(fresh) /\ fresh[i].role = "assistant"
  <2> HIDE DEF fresh
  <2> QED BY <1>2, <1>4, PassKeeps
<1>6. w.missing = {}
  <2> HIDE DEF w, fresh
  <2> QED BY <1>2, <1>5
<1> HIDE DEF w, fresh, q
<1>7. PassOk(w, ms, c, ns)
  BY <1>2, <1>4, <1>5 DEF PassOk
<1> HIDE DEF after
<1>8. Repaired(after, k, ms, c, ns)
  BY <1>3, <1>6, <1>7 DEF Repaired
<1> QED BY <1>8 DEF after

(* Nothing happens once nothing is missing.                                  *)
LEMMA RoundsRest ==
  ASSUME NEW ms \in Seq(Message), NEW ns, NEW k \in 0..Len(ms),
         Rounds(ms, ns)[k].pass.missing = {}
  PROVE  Rounds(ms, ns)[Len(ms)] = Rounds(ms, ns)[k]
<1> DEFINE bad == {i \in k..Len(ms) : Rounds(ms, ns)[i] # Rounds(ms, ns)[k]}
<1>1. Len(ms) \in Nat /\ k \in Nat
  BY Elements
<1>2. ASSUME bad # {} PROVE FALSE
  <2>1. bad \subseteq Nat
    BY <1>1
  <2>2. PICK i \in bad : \A j \in bad : i <= j
    <3> HIDE DEF bad
    <3> QED BY <1>2, <2>1, Smallest
  <2>3. i \in 1..Len(ms) /\ i - 1 \in k..Len(ms) /\ ~(i <= i - 1)
    BY <1>1, <2>2
  <2>4. Rounds(ms, ns)[i - 1] = Rounds(ms, ns)[k]
    BY <2>2, <2>3
  <2>5. Rounds(ms, ns)[i] = NextRound(Rounds(ms, ns)[i - 1], i, ms, ns)
    BY <2>3, RoundNext
  <2>6. Rounds(ms, ns)[i] = Rounds(ms, ns)[i - 1]
    BY <2>4, <2>5 DEF NextRound
  <2> QED BY <2>2, <2>4, <2>6
<1>3. Len(ms) \in k..Len(ms) /\ Len(ms) \notin bad
  BY <1>1, <1>2
<1> QED BY <1>3

(* Before the first round.                                                   *)
StartOk(w, ms, ns) ==
  /\ PassOk(w, ms, cache, ns)
  /\ w.missing = {} \/ strategy = "reject" \/ OneNotice(w.messages)
  /\ ns \in Disabled \/ NormalizedAll(ms, cache, ns).missing = {} => w.missing = {}

LEMMA StartFacts ==
  ASSUME NEW ms, NEW s, Sendable(ms, s), Sound(cache), NEW ns
  PROVE  StartOk(Start(ms, ns), ms, ns)
<1> DEFINE start == Start(ms, ns)
<1>1. CASE ns \in Disabled
  <2>1. start = [messages |-> ms, missing |-> {}, cache |-> cache]
    BY <1>1 DEF Start
  <2> HIDE DEF start
  <2>2. StartOk(start, ms, ns)
    BY <1>1, <2>1 DEF PassOk, StartOk
  <2> QED BY <2>2 DEF start
<1>2. CASE ns \notin Disabled
  <2>1. start = Begun(ms, ns)
    BY <1>2 DEF Start
  <2>2. /\ PassOk(Begun(ms, ns), ms, cache, ns)
        /\ \/ Begun(ms, ns).missing = {}
           \/ strategy = "reject"
           \/ OneNotice(Begun(ms, ns).messages)
        /\ NormalizedAll(ms, cache, ns).missing = {} => Begun(ms, ns).missing = {}
    BY BegunFacts
  <2> HIDE DEF start
  <2>3. StartOk(start, ms, ns)
    BY <1>2, <2>1, <2>2 DEF StartOk
  <2> QED BY <2>3 DEF start
<1> QED BY <1>1, <1>2

(* The request is what it was before the first round, or after it.           *)
Unrounded(ms, ns) == [pass |-> Start(ms, ns), notice |-> FALSE, rounds |-> 0]
OneRound(p, ms, ns) ==
  p = IF strategy = "reject" \/ Start(ms, ns).missing = {} THEN Unrounded(ms, ns)
      ELSE NextRound(Unrounded(ms, ns), 1, ms, ns)

LEMMA RoundWhenNeeded ==
  ASSUME NEW ms, NEW s, Sendable(ms, s), Sound(cache), NEW ns,
         ~(strategy = "reject" \/ Start(ms, ns).missing = {})
  PROVE  Repaired(NextRound(Unrounded(ms, ns), 1, ms, ns), 1, ms, cache, ns)
<1> DEFINE a == Unrounded(ms, ns)
<1>1. a.pass = Start(ms, ns) /\ a.notice = FALSE
  BY DEF Unrounded
<1> HIDE DEF a
<1>2. PassOk(a.pass, ms, cache, ns) /\ a.pass.missing # {} /\ OneNotice(a.pass.messages)
      /\ a.notice \in BOOLEAN
  <2>1. StartOk(Start(ms, ns), ms, ns)
    BY StartFacts
  <2> QED BY <1>1, <2>1 DEF StartOk
<1>3. Repaired(NextRound(a, 1, ms, ns), 1, ms, cache, ns)
  BY <1>2, RoundFacts
<1> QED BY <1>3 DEF a

LEMMA PreparedIs ==
  ASSUME NEW ms, NEW s, Sendable(ms, s), Sound(cache), NEW ns
  PROVE  OneRound(Prepared(ms, ns), ms, ns)
<1> DEFINE R == Rounds(ms, ns)
           p == Prepared(ms, ns)
<1>1. ms \in Seq(Message) /\ Len(ms) \in Nat /\ 1 \in 1..Len(ms) /\ 0 \in 0..Len(ms)
      /\ 1 \in 0..Len(ms)
  <2>1. ms \in Seq(Message) /\ Len(ms) \in Nat
    BY Elements DEF Sendable
  <2> QED BY <2>1 DEF Sendable
<1>2. R[0] = Unrounded(ms, ns)
  BY <1>1, RoundStart DEF Unrounded
<1>3. R[1] = NextRound(R[0], 1, ms, ns)
  <2>1. 1 - 1 = 0
    OBVIOUS
  <2> QED BY <1>1, <2>1, RoundNext
<1>4. p = R[IF strategy = "reject" THEN 0 ELSE Len(ms)]
  BY DEF Prepared
<1>5. Start(ms, ns).missing = {} => R[Len(ms)] = R[0]
  BY <1>1, <1>2, RoundsRest DEF Unrounded
<1> HIDE DEF p
<1>6. CASE strategy = "reject" \/ Start(ms, ns).missing = {}
  <2>1. p = Unrounded(ms, ns)
    BY <1>2, <1>4, <1>5, <1>6
  <2>2. OneRound(p, ms, ns)
    BY <1>6, <2>1 DEF OneRound
  <2> QED BY <2>2 DEF p
<1>7. CASE ~(strategy = "reject" \/ Start(ms, ns).missing = {})
  <2>1. Repaired(NextRound(Unrounded(ms, ns), 1, ms, ns), 1, ms, cache, ns)
    BY <1>7, RoundWhenNeeded
  <2>2. R[1].pass.missing = {}
    BY <1>2, <1>3, <2>1 DEF Repaired
  <2>3. p = R[1]
    BY <1>1, <1>4, <1>7, <2>2, RoundsRest
  <2>4. OneRound(p, ms, ns)
    BY <1>2, <1>3, <1>7, <2>3 DEF OneRound
  <2> QED BY <2>4 DEF p
<1> QED BY <1>6, <1>7

(* What the bridge makes of a transcript that may be sent.                   *)
PreparedOk(p, ms, ns) ==
  /\ PassOk(p.pass, ms, cache, ns)
  /\ p.notice \in BOOLEAN /\ p.rounds \in {0, 1}
  /\ strategy # "reject" => p.pass.missing = {}
  /\ ns \in Disabled \/ NormalizedAll(ms, cache, ns).missing = {}
       => p.rounds = 0 /\ p.pass.missing = {}

LEMMA PreparedFacts ==
  ASSUME NEW ms, NEW s, Sendable(ms, s), Sound(cache), NEW ns
  PROVE  PreparedOk(Prepared(ms, ns), ms, ns)
<1> DEFINE start == Start(ms, ns)
           p == Prepared(ms, ns)
<1>1. StartOk(start, ms, ns)
  BY StartFacts
<1>2. OneRound(p, ms, ns)
  BY PreparedIs
<1> HIDE DEF start, p
<1>3. CASE strategy = "reject" \/ start.missing = {}
  <2>1. p.pass = start /\ p.notice = FALSE /\ p.rounds = 0
    BY <1>2, <1>3 DEF OneRound, Unrounded, start
  <2>2. PreparedOk(p, ms, ns)
    BY <1>1, <1>3, <2>1 DEF PreparedOk, StartOk
  <2> QED BY <2>2 DEF p
<1>4. CASE ~(strategy = "reject" \/ start.missing = {})
  <2>1. Repaired(NextRound(Unrounded(ms, ns), 1, ms, ns), 1, ms, cache, ns)
    BY <1>4, RoundWhenNeeded DEF start
  <2>2. Repaired(p, 1, ms, cache, ns)
    BY <1>2, <1>4, <2>1 DEF OneRound, start
  <2>3. PreparedOk(p, ms, ns)
    BY <1>1, <1>4, <2>2 DEF PreparedOk, StartOk, Repaired
  <2> QED BY <2>3 DEF p
<1> QED BY <1>3, <1>4

-----------------------------------------------------------------------------
(* The transcripts clients hold.                                             *)
TalkOk(ms) ==
  /\ ms \in Seq(Message) /\ Len(ms) >= 1
  /\ \A i \in 1..Len(ms) : ms[i].role = "system" <=> i = 1
  /\ Len(ms) > 1 => ms[2].role = "user"
  /\ \A i \in 1..Len(ms) : ms[i].role = "tool"
       => i > 1 /\ ms[i - 1].role = "assistant" /\ ms[i - 1].call = ms[i].call
  /\ \A i \in 1..Len(ms) : ms[i].role = "assistant" /\ ms[i].call # None /\ i < Len(ms)
       => ms[i + 1].role = "tool"

LEMMA TalkSendable ==
  ASSUME NEW ms, TalkOk(ms), Last(ms).role \in {"user", "tool"}
  PROVE  Sendable(ms, 1)
<1>1. ms \in Seq(Message) /\ Len(ms) \in Nat /\ Len(ms) >= 1
  BY Elements DEF TalkOk
<1>2. Len(ms) # 1
  BY <1>1 DEF TalkOk, Last
<1>3. 1 \in 1..(Len(ms) - 1) /\ Len(ms) > 1 /\ \A i \in 1..Len(ms) : (i <= 1) <=> i = 1
  <2> DEFINE n == Len(ms)
  <2>1. n \in Nat /\ n >= 1 /\ n # 1
    BY <1>1, <1>2
  <2> HIDE DEF n
  <2>2. 1 \in 1..(n - 1) /\ n > 1 /\ \A i \in 1..n : (i <= 1) <=> i = 1
    BY <2>1
  <2> QED BY <2>2 DEF n
<1>4. ms[1 + 1].role = "user"
  BY <1>3 DEF TalkOk
<1>5. Paired(ms)
  <2>1. ASSUME NEW i \in 1..Len(ms), ms[i].role = "assistant", ms[i].call # None
        PROVE  i < Len(ms) /\ ms[i + 1].role = "tool"
    <3>1. i # Len(ms)
      BY <2>1 DEF Last
    <3>2. i < Len(ms)
      BY <1>1, <3>1
    <3> QED BY <2>1, <3>2 DEF TalkOk
  <2> QED BY <2>1 DEF Paired, Positions, TalkOk
<1> QED BY <1>1, <1>3, <1>4, <1>5 DEF Sendable, TalkOk

(* What a client may add.                                                    *)
Fits(ms, m) ==
  /\ m \in Message /\ m.role # "system"
  /\ m.role # "user" => Last(ms).role # "system"
  /\ m.role = "tool" => Last(ms).role = "assistant" /\ Last(ms).call = m.call
  /\ Last(ms).role = "assistant" /\ Last(ms).call # None => m.role = "tool"

LEMMA TalkGrows ==
  ASSUME NEW ms, TalkOk(ms), NEW m, Fits(ms, m)
  PROVE  TalkOk(Append(ms, m))
<1> DEFINE t == Append(ms, m)
           n == Len(ms)
<1>1. ms \in Seq(Message) /\ n \in Nat /\ n >= 1 /\ m \in Message
  BY Elements DEF TalkOk, Fits
<1>2. t \in Seq(Message) /\ Len(t) = n + 1 /\ t[n + 1] = m /\ \A i \in 1..n : t[i] = ms[i]
  BY <1>1, AppendProperties
<1> HIDE DEF t
<1>3. \A i \in 1..Len(t) : i \in 1..n \/ (i = n + 1 /\ i > 1 /\ i - 1 = n)
  BY <1>1, <1>2
<1>4. 1 \in 1..n /\ n \in 1..n /\ t[n] = Last(ms) /\ (n = 1 => Last(ms).role = "system")
  BY <1>1, <1>2 DEF Last, TalkOk
<1>5. \A i \in 1..Len(t) : t[i].role = "system" <=> i = 1
  <2>1. \A i \in 1..n : t[i].role = "system" <=> i = 1
    BY <1>2 DEF TalkOk
  <2>2. m.role # "system"
    BY DEF Fits
  <2> QED BY <1>2, <1>3, <2>1, <2>2
<1>6. Len(t) > 1 => t[2].role = "user"
  <2>1. CASE n = 1
    BY <1>2, <1>4, <2>1 DEF Fits
  <2>2. CASE n # 1
    <3> HIDE DEF n
    <3>1. n > 1 /\ 2 \in 1..n
      BY <1>1, <2>2
    <3>2. Len(ms) > 1
      BY <3>1 DEF n
    <3> QED BY <1>2, <3>1, <3>2 DEF TalkOk
  <2> QED BY <2>1, <2>2
<1>7. ASSUME NEW i \in 1..Len(t), t[i].role = "tool"
      PROVE  i > 1 /\ t[i - 1].role = "assistant" /\ t[i - 1].call = t[i].call
  <2>1. CASE i \in 1..n
    <3>1. i > 1 /\ ms[i - 1].role = "assistant" /\ ms[i - 1].call = ms[i].call
      BY <1>2, <1>7, <2>1 DEF TalkOk
    <3>2. i - 1 \in 1..n
      BY <1>1, <2>1, <3>1
    <3> QED BY <1>2, <2>1, <3>1, <3>2
  <2>2. CASE i = n + 1 /\ i > 1 /\ i - 1 = n
    BY <1>2, <1>4, <1>7, <2>2 DEF Fits
  <2> QED BY <1>3, <2>1, <2>2
<1>8. ASSUME NEW i \in 1..Len(t), t[i].role = "assistant", t[i].call # None, i < Len(t)
      PROVE  t[i + 1].role = "tool"
  <2>1. i \in 1..n
    BY <1>1, <1>2, <1>8
  <2>2. CASE i < n
    <3>1. ms[i + 1].role = "tool" /\ i + 1 \in 1..n
      BY <1>1, <1>2, <1>8, <2>1, <2>2 DEF TalkOk
    <3> QED BY <1>2, <3>1
  <2>3. CASE i = n
    BY <1>2, <1>4, <1>8, <2>3 DEF Fits
  <2> QED BY <1>1, <2>1, <2>2, <2>3
<1>9. Len(t) >= 1
  BY <1>1, <1>2
<1>10. TalkOk(t)
  BY <1>2, <1>5, <1>6, <1>7, <1>8, <1>9 DEF TalkOk
<1> QED BY <1>10 DEF t

LEMMA TalkRewinds ==
  ASSUME NEW ms, TalkOk(ms), NEW u \in Users(ms)
  PROVE  TalkOk(SubSeq(ms, 1, u - 1))
<1> DEFINE t == SubSeq(ms, 1, u - 1)
           n == u - 1
<1>1. ms \in Seq(Message) /\ Len(ms) \in Nat /\ Len(ms) >= 1
  BY Elements DEF TalkOk
<1>2. u \in 1..Len(ms) /\ u # 1
  BY <1>1 DEF TalkOk, Users, Positions
<1>3. n \in 0..Len(ms) /\ n >= 1 /\ n < Len(ms) /\ n \in Nat
  BY <1>1, <1>2
<1>4. t \in Seq(Message) /\ Len(t) = n /\ \A i \in 1..n : t[i] = ms[i]
  BY <1>1, <1>3, Prefix
<1> HIDE DEF t, n
<1>5. \A i \in 1..n : i \in 1..Len(ms) /\ (i > 1 => i - 1 \in 1..n) /\ (i < n => i + 1 \in 1..n)
  BY <1>1, <1>3
<1>6. \A i \in 1..n : t[i].role = "system" <=> i = 1
  BY <1>4, <1>5 DEF TalkOk
<1>7. n > 1 => t[2].role = "user"
  <2>1. n > 1 => 2 \in 1..n /\ Len(ms) > 1
    BY <1>1, <1>3
  <2> QED BY <1>4, <2>1 DEF TalkOk
<1>8. \A i \in 1..n : t[i].role = "tool"
        => i > 1 /\ t[i - 1].role = "assistant" /\ t[i - 1].call = t[i].call
  BY <1>4, <1>5 DEF TalkOk
<1>9. \A i \in 1..n : t[i].role = "assistant" /\ t[i].call # None /\ i < n
        => t[i + 1].role = "tool"
  <2> SUFFICES ASSUME NEW i \in 1..n, t[i].role = "assistant", t[i].call # None, i < n
               PROVE  t[i + 1].role = "tool"
    OBVIOUS
  <2>1. i \in 1..Len(ms) /\ i < Len(ms) /\ i + 1 \in 1..n
    BY <1>1, <1>3
  <2>2. ms[i].role = "assistant" /\ ms[i].call # None
    BY <1>4
  <2>3. ms[i + 1].role = "tool"
    BY <2>1, <2>2 DEF TalkOk
  <2> QED BY <1>4, <2>1, <2>3
<1>10. TalkOk(t)
  BY <1>3, <1>4, <1>6, <1>7, <1>8, <1>9 DEF TalkOk
<1> QED BY <1>10 DEF t, n

-----------------------------------------------------------------------------
(* The invariant: transcripts are well formed, what was sent for them may be *)
(* sent, and the store holds answers.                                        *)
RequestOk(r) ==
  /\ r.n \in Nat \ {None} /\ r.notice \in BOOLEAN /\ r.rounds \in {0, 1}
  /\ TalkOk(r.talk) /\ Last(r.talk).role \in {"user", "tool"}
  /\ \E s : Sendable(r.messages, s)
  /\ Newest(r.messages) = Newest(r.talk)
  /\ r.ns \notin Disabled => Complete(r.messages)

TalkInv == DOMAIN talk = Conversation /\ \A c \in Conversation : TalkOk(talk[c])
PendingInv ==
  DOMAIN pending = Conversation /\ \A c \in Conversation : \A r \in pending[c] : RequestOk(r)
StoreInv == Sound(cache) /\ answers \in Nat /\ strategy \in {"recover", "reject"}
IInv == TalkInv /\ PendingInv /\ StoreInv

LEMMA InitInv == Init => IInv
<1> SUFFICES ASSUME Init PROVE IInv
  OBVIOUS
<1> DEFINE m == System("prompt")
           t == <<m>>
<1>1. m \in Message /\ m.role = "system"
  BY DEF System, Message, None
<1> HIDE DEF m
<1>2. t \in Seq(Message) /\ Len(t) = 1 /\ t[1] = m
  BY <1>1
<1> HIDE DEF t
<1>3. TalkOk(t)
  BY <1>1, <1>2 DEF TalkOk
<1>4. TalkInv
  BY <1>3 DEF Init, TalkInv, t, m
<1>5. PendingInv
  BY DEF Init, PendingInv
<1>6. StoreInv
  BY StrategyAssumption DEF Init, StoreInv, Sound
<1> QED BY <1>4, <1>5, <1>6 DEF IInv

(* The transcript of one conversation changes, or none.                      *)
LEMMA TalkInvSays ==
  ASSUME TalkInv, NEW c \in Conversation, NEW t, TalkOk(t),
         talk' = [talk EXCEPT ![c] = t]
  PROVE  TalkInv'
BY DEF TalkInv

LEMMA UserSaysInv ==
  ASSUME IInv, NEW c \in Conversation, NEW t \in Prompt, UserSays(c, t)
  PROVE  IInv'
<1> DEFINE m == User(t)
           new == Append(talk[c], m)
<1>1. m \in Message /\ m.role = "user"
  BY DEF User, System, Message, None
<1>2. Fits(talk[c], m)
  BY <1>1 DEF UserSays, CallIsOpen, LastOf, Fits, Last
<1>3. TalkOk(new)
  <2> HIDE DEF m
  <2> QED BY <1>2, TalkGrows DEF IInv, TalkInv
<1>4. talk' = [talk EXCEPT ![c] = new]
  BY DEF UserSays, Says, IInv, TalkInv
<1>5. TalkInv'
  <2> HIDE DEF new
  <2> QED BY <1>3, <1>4, TalkInvSays DEF IInv
<1> QED BY <1>5 DEF UserSays, IInv, PendingInv, StoreInv, counts

LEMMA ToolReturnsInv ==
  ASSUME IInv, NEW c \in Conversation, ToolReturns(c)
  PROVE  IInv'
<1> DEFINE l == Last(talk[c])
           m == ToolResult(l.call)
           new == Append(talk[c], m)
<1>1. l.role = "assistant" /\ l.call # None /\ l \in Message
  <2>1. talk[c] \in Seq(Message) /\ Len(talk[c]) >= 1
    BY DEF IInv, TalkInv, TalkOk
  <2>2. Len(talk[c]) \in 1..Len(talk[c])
    BY <2>1, Elements
  <2> QED BY <2>1, <2>2, Elements DEF ToolReturns, CallIsOpen, LastOf, Last
<1>2. m \in Message /\ m.role = "tool" /\ m.call = l.call
  <2> HIDE DEF l
  <2>1. l.call \in Nat
    BY <1>1 DEF Message
  <2> QED BY <2>1 DEF ToolResult, System, Message, None
<1> HIDE DEF m
<1>3. Fits(talk[c], m)
  BY <1>1, <1>2 DEF Fits
<1>4. TalkOk(new)
  BY <1>3, TalkGrows DEF IInv, TalkInv
<1>5. talk' = [talk EXCEPT ![c] = new]
  BY DEF ToolReturns, Says, IInv, TalkInv, LastOf, Last, m
<1>6. TalkInv'
  <2> HIDE DEF new
  <2> QED BY <1>4, <1>5, TalkInvSays DEF IInv
<1> QED BY <1>6 DEF ToolReturns, IInv, PendingInv, StoreInv, counts

LEMMA RewindInv ==
  ASSUME IInv, NEW c \in Conversation, NEW i \in Users(talk[c]), Rewind(c, i - 1)
  PROVE  IInv'
<1> DEFINE new == SubSeq(talk[c], 1, i - 1)
<1>1. TalkOk(new)
  BY TalkRewinds DEF IInv, TalkInv
<1>2. talk' = [talk EXCEPT ![c] = new]
  BY DEF Rewind, IInv, TalkInv
<1>3. TalkInv'
  <2> HIDE DEF new
  <2> QED BY <1>1, <1>2, TalkInvSays DEF IInv
<1> QED BY <1>3 DEF Rewind, IInv, PendingInv, StoreInv, counts

(* What asking sends and stores.                                             *)
LEMMA AskPrepares ==
  ASSUME IInv, NEW c \in Conversation, NEW ns, Ask(c, ns)
  PROVE  PreparedOk(Prepared(talk[c], ns), talk[c], ns)
<1>1. TalkOk(talk[c]) /\ Last(talk[c]).role \in {"user", "tool"} /\ Sound(cache)
  BY DEF IInv, TalkInv, StoreInv, Ask, LastOf, Last
<1>2. Sendable(talk[c], 1)
  BY <1>1, TalkSendable
<1> QED BY <1>1, <1>2, PreparedFacts

LEMMA AskInv ==
  ASSUME IInv, NEW c \in Conversation, NEW ns, Ask(c, ns)
  PROVE  IInv'
<1> DEFINE p == Prepared(talk[c], ns)
           request == [n |-> answers + 1, ns |-> ns, talk |-> talk[c],
                       messages |-> p.pass.messages, notice |-> p.notice, rounds |-> p.rounds]
           rejected == strategy = "reject" /\ p.pass.missing # {}
<1>1. PreparedOk(p, talk[c], ns)
  BY AskPrepares
<1>2. /\ cache' = p.pass.cache /\ talk' = talk /\ strategy' = strategy
      /\ rejected => pending' = pending /\ answers' = answers
      /\ ~rejected => /\ pending' = [pending EXCEPT ![c] = @ \cup {request}]
                      /\ answers' = answers + 1
  BY DEF Ask
<1> HIDE DEF p
<1>3. TalkOk(talk[c]) /\ Last(talk[c]).role \in {"user", "tool"}
  BY DEF IInv, TalkInv, Ask, LastOf, Last
<1>4. TalkInv'
  BY <1>2 DEF IInv, TalkInv
<1>5. StoreInv'
  BY <1>1, <1>2 DEF IInv, StoreInv, PreparedOk, PassOk
<1>6. ~rejected => RequestOk(request)
  <2> SUFFICES ASSUME ~rejected PROVE RequestOk(request)
    OBVIOUS
  <2>1. p.pass.missing = {}
    BY <1>1 DEF PreparedOk
  <2>2. ns \notin Disabled => Complete(p.pass.messages)
    BY <1>1, <2>1 DEF PreparedOk, PassOk
  <2>3. /\ \E s : Sendable(p.pass.messages, s)
        /\ Newest(p.pass.messages) = Newest(talk[c])
        /\ p.notice \in BOOLEAN /\ p.rounds \in {0, 1}
    BY <1>1 DEF PreparedOk, PassOk
  <2>4. /\ request.n = answers + 1 /\ request.ns = ns /\ request.talk = talk[c]
        /\ request.messages = p.pass.messages /\ request.notice = p.notice
        /\ request.rounds = p.rounds
    OBVIOUS
  <2>5. answers + 1 \in Nat \ {None}
    BY DEF IInv, StoreInv, None
  <2> HIDE DEF request
  <2> QED BY <1>3, <2>2, <2>3, <2>4, <2>5 DEF RequestOk
<1>7. PendingInv'
  <2> HIDE DEF request, rejected
  <2>1. CASE rejected
    BY <1>2, <2>1 DEF IInv, PendingInv
  <2>2. CASE ~rejected
    BY <1>2, <1>6, <2>2 DEF IInv, PendingInv
  <2> QED BY <2>1, <2>2
<1> QED BY <1>4, <1>5, <1>7 DEF IInv

LEMMA AnswerInv ==
  ASSUME IInv, NEW c \in Conversation, NEW request \in pending[c],
         NEW withCall \in BOOLEAN, NEW arrives \in BOOLEAN, Answer(c, request, withCall, arrives)
  PROVE  IInv'
<1> DEFINE m == Assistant(request.n, withCall, request.notice)
           new == Append(talk[c], m)
<1>1. RequestOk(request)
  BY DEF IInv, PendingInv
<1>2. m \in Message /\ m.role = "assistant"
  BY <1>1 DEF Assistant, Message, RequestOk, None
<1>3. StoreInv'
  <2>1. request.n \in Nat \ {None} /\ Sound(cache)
    BY <1>1 DEF RequestOk, IInv, StoreInv
  <2>2. cache' = cache \/ cache' = With(cache, AnswerKeys(m, request), request.n)
    BY DEF Answer, Recorded
  <2> DEFINE keys == AnswerKeys(m, request)
  <2> HIDE DEF keys
  <2>3. Sound(cache')
    <3>1. Sound(With(cache, keys, request.n))
      BY <2>1, WithSound
    <3>2. cache' = cache \/ cache' = With(cache, keys, request.n)
      BY <2>2 DEF keys
    <3> QED BY <2>1, <3>1, <3>2
  <2> QED BY <2>3 DEF IInv, StoreInv, Answer, counts, Sound
<1>4. PendingInv'
  <2>1. pending' = [pending EXCEPT ![c] = @ \ {request}]
    BY DEF Answer
  <2> QED BY <2>1 DEF IInv, PendingInv
<1>5. TalkInv'
  <2>1. CASE talk' = talk
    BY <2>1 DEF IInv, TalkInv
  <2>2. CASE talk[c] = request.talk /\ Says(c, m)
    <3>1. Fits(talk[c], m)
      <4> HIDE DEF m
      <4> QED BY <1>1, <1>2, <2>2 DEF Fits, RequestOk
    <3>2. TalkOk(new)
      <4> HIDE DEF m
      <4> QED BY <3>1, TalkGrows DEF IInv, TalkInv
    <3>3. talk' = [talk EXCEPT ![c] = new]
      BY <2>2 DEF Says, IInv, TalkInv
    <3> HIDE DEF new
    <3> QED BY <3>2, <3>3, TalkInvSays DEF IInv
  <2> QED BY <2>1, <2>2 DEF Answer
<1> QED BY <1>3, <1>4, <1>5 DEF IInv

LEMMA FailInv ==
  ASSUME IInv, NEW c \in Conversation, NEW request \in pending[c], Fail(c, request)
  PROVE  IInv'
BY DEF Fail, IInv, TalkInv, PendingInv, StoreInv, counts

LEMMA LoseInv == IInv /\ Lose => IInv'
<1> SUFFICES ASSUME IInv, Lose PROVE IInv'
  OBVIOUS
<1>1. PICK gone : cache' = [k \in DOMAIN cache \ gone |-> cache[k]]
  BY DEF Lose
<1>2. Sound(cache')
  BY <1>1 DEF IInv, StoreInv, Sound
<1> QED BY <1>2 DEF Lose, IInv, TalkInv, PendingInv, StoreInv, Sound

LEMMA NextInv == IInv /\ [Next]_vars => IInv'
<1> SUFFICES ASSUME IInv, [Next]_vars PROVE IInv'
  OBVIOUS
<1>1. ASSUME NEW c \in Conversation, NEW t \in Prompt, UserSays(c, t) PROVE IInv'
  BY <1>1, UserSaysInv
<1>2. ASSUME NEW c \in Conversation, ToolReturns(c) PROVE IInv'
  BY <1>2, ToolReturnsInv
<1>3. ASSUME NEW c \in Conversation, NEW i \in Users(talk[c]), Rewind(c, i - 1) PROVE IInv'
  BY <1>3, RewindInv
<1>4. ASSUME NEW c \in Conversation, NEW ns \in Namespace[c], Ask(c, ns) PROVE IInv'
  BY <1>4, AskInv
<1>5. ASSUME NEW c \in Conversation, NEW request \in pending[c],
             NEW withCall \in BOOLEAN, NEW arrives \in BOOLEAN,
             Answer(c, request, withCall, arrives)
      PROVE  IInv'
  BY <1>5, AnswerInv
<1>6. ASSUME NEW c \in Conversation, NEW request \in pending[c], Fail(c, request) PROVE IInv'
  BY <1>6, FailInv
<1>7. CASE Lose
  BY <1>7, LoseInv
<1>8. CASE UNCHANGED vars
  BY <1>8 DEF vars, counts, IInv, TalkInv, PendingInv, StoreInv
<1> QED BY <1>1, <1>2, <1>3, <1>4, <1>5, <1>6, <1>7, <1>8 DEF Next

THEOREM Invariance == Spec => []IInv
<1>1. Init => IInv
  BY InitInv
<1>2. IInv /\ [Next]_vars => IInv'
  BY NextInv
<1> QED BY <1>1, <1>2, PTL DEF Spec

-----------------------------------------------------------------------------
LEMMA RequestsOk == IInv => \A r \in Requests : RequestOk(r)
BY DEF IInv, PendingInv, Requests

(* Every thinking request sent upstream keeps the contract of DeepSeek: each *)
(* assistant message with a tool call, or after a tool result of its turn,   *)
(* has reasoning, whatever the store lost (prepare_upstream_request).        *)
THEOREM ContractIsHonoured == Spec => []ContractHonoured
<1>1. IInv => ContractHonoured
  <2> SUFFICES ASSUME IInv, NEW r \in Requests, r.ns \notin Disabled,
                      NEW i \in Positions(r.messages),
                      r.messages[i].role = "assistant", InToolContext(r.messages, i)
               PROVE  r.messages[i].reasoning # None
    BY DEF ContractHonoured
  <2>1. Complete(r.messages)
    BY RequestsOk DEF RequestOk
  <2> QED BY <2>1 DEF Complete
<1> QED BY <1>1, Invariance, PTL

(* What recovery leaves of a conversation has its tool calls and results in  *)
(* pairs, and ends with the newest user message's turn                       *)
(* (recover_messages_from_missing_reasoning).                                *)
THEOREM RequestsAreWellFormed == Spec => []RequestsWellFormed
<1>1. IInv => RequestsWellFormed
  <2> SUFFICES ASSUME IInv, NEW r \in Requests
               PROVE  /\ Paired(r.messages)
                      /\ Newest(r.messages) = Newest(r.talk)
    BY DEF RequestsWellFormed, Paired, Newest
  <2> QED BY RequestsOk DEF RequestOk, Sendable
<1> QED BY <1>1, Invariance, PTL

(* The recovery loop ends after one round, with nothing missing: the notice  *)
(* it adds is the only message it can still add.                             *)
THEOREM RecoveryTakesOneRound == Spec => []RecoveryIsOneRound
<1>1. IInv => RecoveryIsOneRound
  BY RequestsOk DEF RequestOk, RecoveryIsOneRound
<1> QED BY <1>1, Invariance, PTL

-----------------------------------------------------------------------------
(* Before the first loss: the answers of a transcript are in the store, by   *)
(* their signature in the scope of what the client held before them.         *)
Remembered(ms, c, ns) ==
  \A j \in 1..Len(ms) :
    ms[j].role = "assistant" => SignatureKey(ms[j], SubSeq(ms, 1, j - 1), ns) \in DOMAIN c

(* Each client keeps to one namespace, say.                                  *)
NamespaceIsKept == \A c \in Conversation : \E ns : Namespace[c] = {ns}

TalkRemembered ==
  \A c \in Conversation : \A ns \in Namespace[c] :
    ns \notin Disabled => Remembered(talk[c], cache, ns)
RoundsAreZero ==
  \A c \in Conversation : \A r \in pending[c] : r.ns \in Namespace[c] /\ r.rounds = 0
NothingLostInv ==
  /\ losses \in Nat
  /\ losses = 0 => rejects = {} /\ TalkRemembered /\ RoundsAreZero

(* Messages added keep what came before each message.                        *)
LEMMA PrefixOfAppend ==
  ASSUME NEW ms \in Seq(Message), NEW m \in Message, NEW n \in 0..Len(ms)
  PROVE  SubSeq(Append(ms, m), 1, n) = SubSeq(ms, 1, n)
<1> DEFINE t == Append(ms, m)
<1>1. t \in Seq(Message) /\ Len(t) = Len(ms) + 1 /\ \A i \in 1..Len(ms) : t[i] = ms[i]
  BY AppendProperties
<1>2. Len(ms) \in Nat
  BY Elements
<1> HIDE DEF t
<1>3. SubSeq(t, 1, n) = [i \in 1..n |-> t[i]] /\ SubSeq(ms, 1, n) = [i \in 1..n |-> ms[i]]
  BY <1>1, <1>2
<1>4. \A i \in 1..n : t[i] = ms[i]
  BY <1>1, <1>2
<1>5. SubSeq(t, 1, n) = SubSeq(ms, 1, n)
  BY <1>3, <1>4
<1> QED BY <1>5 DEF t

LEMMA PrefixOfPrefix ==
  ASSUME NEW ms \in Seq(Message), NEW k \in 0..Len(ms), NEW n \in 0..k
  PROVE  SubSeq(SubSeq(ms, 1, k), 1, n) = SubSeq(ms, 1, n)
<1> DEFINE t == SubSeq(ms, 1, k)
<1>1. t \in Seq(Message) /\ Len(t) = k /\ \A i \in 1..k : t[i] = ms[i]
  BY Prefix
<1>2. Len(ms) \in Nat
  BY Elements
<1> HIDE DEF t
<1>3. SubSeq(t, 1, n) = [i \in 1..n |-> t[i]] /\ SubSeq(ms, 1, n) = [i \in 1..n |-> ms[i]]
  BY <1>1, <1>2
<1>4. \A i \in 1..n : t[i] = ms[i]
  BY <1>1, <1>2
<1>5. SubSeq(t, 1, n) = SubSeq(ms, 1, n)
  BY <1>3, <1>4
<1> QED BY <1>5 DEF t

LEMMA RememberedAppend ==
  ASSUME NEW ms \in Seq(Message), NEW m \in Message, NEW c, NEW ns, Remembered(ms, c, ns),
         m.role = "assistant" => SignatureKey(m, ms, ns) \in DOMAIN c
  PROVE  Remembered(Append(ms, m), c, ns)
<1> DEFINE t == Append(ms, m)
<1>1. Len(ms) \in Nat /\ Len(t) = Len(ms) + 1 /\ t[Len(ms) + 1] = m
      /\ \A i \in 1..Len(ms) : t[i] = ms[i]
  BY Elements, AppendProperties
<1> SUFFICES ASSUME NEW j \in 1..Len(t), t[j].role = "assistant"
             PROVE  SignatureKey(t[j], SubSeq(t, 1, j - 1), ns) \in DOMAIN c
  BY DEF Remembered
<1>2. j - 1 \in 0..Len(ms)
  BY <1>1
<1>3. SubSeq(t, 1, j - 1) = SubSeq(ms, 1, j - 1)
  BY <1>2, PrefixOfAppend
<1> HIDE DEF t
<1>4. CASE j \in 1..Len(ms)
  BY <1>1, <1>3, <1>4 DEF Remembered
<1>5. CASE j = Len(ms) + 1
  <2>1. SubSeq(ms, 1, j - 1) = ms
    <3>1. j - 1 = Len(ms)
      BY <1>1, <1>5
    <3>2. SubSeq(ms, 1, Len(ms)) = [i \in 1..Len(ms) |-> ms[i]]
      BY <1>1
    <3>3. DOMAIN ms = 1..Len(ms)
      BY Elements
    <3> QED BY <3>1, <3>2, <3>3
  <2> QED BY <1>1, <1>3, <1>5, <2>1
<1> QED BY <1>1, <1>4, <1>5

LEMMA RememberedPrefix ==
  ASSUME NEW ms \in Seq(Message), NEW k \in 0..Len(ms), NEW c, NEW ns, Remembered(ms, c, ns)
  PROVE  Remembered(SubSeq(ms, 1, k), c, ns)
<1> DEFINE t == SubSeq(ms, 1, k)
<1>1. Len(ms) \in Nat /\ Len(t) = k /\ \A i \in 1..k : t[i] = ms[i]
  BY Elements, Prefix
<1> SUFFICES ASSUME NEW j \in 1..k, t[j].role = "assistant"
             PROVE  SignatureKey(t[j], SubSeq(t, 1, j - 1), ns) \in DOMAIN c
  BY <1>1 DEF Remembered
<1>2. j - 1 \in 0..k /\ j \in 1..Len(ms)
  BY <1>1
<1>3. SubSeq(t, 1, j - 1) = SubSeq(ms, 1, j - 1)
  BY <1>2, PrefixOfPrefix
<1> HIDE DEF t
<1> QED BY <1>1, <1>2, <1>3 DEF Remembered

LEMMA RememberedMore ==
  ASSUME NEW ms, NEW c, NEW d, NEW ns, Remembered(ms, c, ns), DOMAIN c \subseteq DOMAIN d
  PROVE  Remembered(ms, d, ns)
BY DEF Remembered

(* What is remembered is found: nothing is missing in the first pass.        *)
LEMMA NothingMissing ==
  ASSUME NEW ms, NEW s, Sendable(ms, s), NEW c, Sound(c), NEW ns, Remembered(ms, c, ns)
  PROVE  NormalizedAll(ms, c, ns).missing = {}
<1> DEFINE missing == NormalizedAll(ms, c, ns).missing
<1>1. \A j \in missing :
        /\ j \in 1..Len(ms) /\ ms[j].role = "assistant"
        /\ SignatureKey(ms[j], SubSeq(ms, 1, j - 1), ns) \notin DOMAIN c
  BY PassKeeps
<1> HIDE DEF missing
<1>2. missing = {}
  BY <1>1 DEF Remembered
<1> QED BY <1>2 DEF missing

(* A client's transcript grows by a message that is no answer, or shrinks.   *)
LEMMA ClientKeepsMemory ==
  ASSUME IInv, TalkRemembered, NEW c \in Conversation, NEW t, cache' = cache,
         talk' = [talk EXCEPT ![c] = t],
         \/ \E m \in Message : m.role # "assistant" /\ t = Append(talk[c], m)
         \/ \E k \in 0..Len(talk[c]) : t = SubSeq(talk[c], 1, k)
  PROVE  TalkRemembered'
<1> SUFFICES ASSUME NEW d \in Conversation, NEW ns \in Namespace[d], ns \notin Disabled
             PROVE  Remembered(talk'[d], cache', ns)
  BY DEF TalkRemembered
<1>1. Remembered(talk[d], cache, ns) /\ DOMAIN talk = Conversation
  BY DEF TalkRemembered, IInv, TalkInv
<1>2. CASE d # c
  BY <1>1, <1>2
<1>3. CASE d = c
  <2>1. talk'[d] = t /\ talk[c] \in Seq(Message) /\ Remembered(talk[c], cache, ns)
    BY <1>1, <1>3 DEF IInv, TalkInv, TalkOk
  <2>2. CASE \E m \in Message : m.role # "assistant" /\ t = Append(talk[c], m)
    <3>1. PICK m \in Message : m.role # "assistant" /\ t = Append(talk[c], m)
      BY <2>2
    <3>2. Remembered(Append(talk[c], m), cache, ns)
      BY <2>1, <3>1, RememberedAppend
    <3> QED BY <2>1, <3>1, <3>2
  <2>3. CASE \E k \in 0..Len(talk[c]) : t = SubSeq(talk[c], 1, k)
    <3>1. PICK k \in 0..Len(talk[c]) : t = SubSeq(talk[c], 1, k)
      BY <2>3
    <3>2. Remembered(SubSeq(talk[c], 1, k), cache, ns)
      BY <2>1, RememberedPrefix
    <3> QED BY <2>1, <3>1, <3>2
  <2> QED BY <2>2, <2>3
<1> QED BY <1>2, <1>3

LEMMA UserSaysMemory ==
  ASSUME IInv, NothingLostInv, NEW c \in Conversation, NEW t \in Prompt, UserSays(c, t)
  PROVE  NothingLostInv'
<1> DEFINE m == User(t)
<1>1. m \in Message /\ m.role # "assistant"
  BY DEF User, System, Message, None
<1>2. talk' = [talk EXCEPT ![c] = Append(talk[c], m)] /\ cache' = cache
  BY DEF UserSays, Says, IInv, TalkInv
<1> HIDE DEF m
<1>3. TalkRemembered => TalkRemembered'
  BY <1>1, <1>2, ClientKeepsMemory
<1> QED BY <1>3 DEF NothingLostInv, UserSays, counts, history, RoundsAreZero

LEMMA ToolReturnsMemory ==
  ASSUME IInv, NothingLostInv, NEW c \in Conversation, ToolReturns(c)
  PROVE  NothingLostInv'
<1> DEFINE l == Last(talk[c])
           m == ToolResult(l.call)
<1>1. l \in Message
  <2>1. talk[c] \in Seq(Message) /\ Len(talk[c]) >= 1
    BY DEF IInv, TalkInv, TalkOk
  <2>2. Len(talk[c]) \in 1..Len(talk[c])
    BY <2>1, Elements
  <2> QED BY <2>1, <2>2, Elements DEF Last
<1>2. m \in Message /\ m.role # "assistant"
  <2> HIDE DEF l
  <2>1. l.call \in Nat
    BY <1>1 DEF Message
  <2> QED BY <2>1 DEF ToolResult, System, Message, None
<1>3. talk' = [talk EXCEPT ![c] = Append(talk[c], m)] /\ cache' = cache
  BY DEF ToolReturns, Says, IInv, TalkInv, LastOf, Last
<1> HIDE DEF m
<1>4. TalkRemembered => TalkRemembered'
  BY <1>2, <1>3, ClientKeepsMemory
<1> QED BY <1>4 DEF NothingLostInv, ToolReturns, counts, history, RoundsAreZero

LEMMA RewindMemory ==
  ASSUME IInv, NothingLostInv, NEW c \in Conversation, NEW i \in Users(talk[c]),
         Rewind(c, i - 1)
  PROVE  NothingLostInv'
<1>1. talk' = [talk EXCEPT ![c] = SubSeq(talk[c], 1, i - 1)] /\ cache' = cache
  BY DEF Rewind, IInv, TalkInv
<1>2. i - 1 \in 0..Len(talk[c])
  <2>1. talk[c] \in Seq(Message)
    BY DEF IInv, TalkInv, TalkOk
  <2>2. Len(talk[c]) \in Nat
    BY <2>1, Elements
  <2> QED BY <2>2 DEF Users, Positions
<1>3. TalkRemembered => TalkRemembered'
  BY <1>1, <1>2, ClientKeepsMemory
<1> QED BY <1>3 DEF NothingLostInv, Rewind, counts, history, RoundsAreZero

LEMMA AskMemory ==
  ASSUME IInv, NothingLostInv, NEW c \in Conversation, NEW ns \in Namespace[c], Ask(c, ns)
  PROVE  NothingLostInv'
<1> DEFINE p == Prepared(talk[c], ns)
           request == [n |-> answers + 1, ns |-> ns, talk |-> talk[c],
                       messages |-> p.pass.messages, notice |-> p.notice, rounds |-> p.rounds]
           rejected == strategy = "reject" /\ p.pass.missing # {}
<1>1. PreparedOk(p, talk[c], ns)
  BY AskPrepares
<1>2. /\ cache' = p.pass.cache /\ talk' = talk /\ losses' = losses
      /\ rejects' = IF rejected THEN rejects \cup {c} ELSE rejects
      /\ rejected => pending' = pending
      /\ ~rejected => pending' = [pending EXCEPT ![c] = @ \cup {request}]
  BY DEF Ask
<1>3. request.ns = ns /\ request.rounds = p.rounds
  OBVIOUS
<1> HIDE DEF p, request
<1> SUFFICES ASSUME losses = 0, rejects = {}, TalkRemembered, RoundsAreZero
             PROVE  rejects' = {} /\ TalkRemembered' /\ RoundsAreZero'
  BY <1>2 DEF NothingLostInv
<1>4. DOMAIN cache \subseteq DOMAIN cache'
  BY <1>1, <1>2 DEF PreparedOk, PassOk
<1>5. p.rounds = 0 /\ p.pass.missing = {}
  <2>1. CASE ns \in Disabled
    BY <1>1, <2>1 DEF PreparedOk
  <2>2. CASE ns \notin Disabled
    <3>1. Remembered(talk[c], cache, ns) /\ Sound(cache)
      BY <2>2 DEF TalkRemembered, IInv, StoreInv
    <3>2. TalkOk(talk[c]) /\ Last(talk[c]).role \in {"user", "tool"}
      BY DEF IInv, TalkInv, Ask, LastOf, Last
    <3>3. Sendable(talk[c], 1)
      BY <3>2, TalkSendable
    <3>4. NormalizedAll(talk[c], cache, ns).missing = {}
      BY <3>1, <3>3, NothingMissing
    <3> QED BY <1>1, <3>4 DEF PreparedOk
  <2> QED BY <2>1, <2>2
<1>6. rejects' = {} /\ pending' = [pending EXCEPT ![c] = @ \cup {request}]
  BY <1>2, <1>5
<1>7. TalkRemembered'
  <2> SUFFICES ASSUME NEW d \in Conversation, NEW n \in Namespace[d], n \notin Disabled
               PROVE  Remembered(talk'[d], cache', n)
    BY DEF TalkRemembered
  <2>1. Remembered(talk[d], cache, n)
    BY DEF TalkRemembered
  <2> QED BY <1>2, <1>4, <2>1, RememberedMore
<1>8. RoundsAreZero'
  BY <1>3, <1>5, <1>6 DEF RoundsAreZero, IInv, PendingInv
<1> QED BY <1>6, <1>7, <1>8

(* The answer is recorded under its signature in the client's transcript.    *)
LEMMA AnswerIsRecorded ==
  ASSUME NEW m, NEW request
  PROVE  SignatureKey(m, request.talk, request.ns) \in AnswerKeys(m, request)
<1> DEFINE k == SignatureKey(m, request.talk, request.ns)
           keys == ToSet(ScopedKeys(m, request.talk, request.ns)
                         \o PortableKeys(m, request.talk, request.ns))
<1>1. k \in keys
  BY KeyList
<1>2. request.talk \in Contexts(request)
  BY DEF Contexts
<1>3. keys \subseteq AnswerKeys(m, request)
  <2> HIDE DEF k
  <2> QED BY <1>2 DEF AnswerKeys
<1> HIDE DEF k, keys
<1>4. k \in AnswerKeys(m, request)
  BY <1>1, <1>3
<1> QED BY <1>4 DEF k

LEMMA AnswerMemory ==
  ASSUME NamespaceIsKept, IInv, NothingLostInv, NEW c \in Conversation,
         NEW request \in pending[c], NEW withCall \in BOOLEAN, NEW arrives \in BOOLEAN,
         Answer(c, request, withCall, arrives)
  PROVE  NothingLostInv'
<1> DEFINE m == Assistant(request.n, withCall, request.notice)
           keys == AnswerKeys(m, request)
<1>1. RequestOk(request) /\ m \in Message /\ Sound(cache)
  <2>1. RequestOk(request)
    BY DEF IInv, PendingInv
  <2> QED BY <2>1 DEF Assistant, Message, RequestOk, None, IInv, StoreInv
<1>2. /\ pending' = [pending EXCEPT ![c] = @ \ {request}]
      /\ request.ns \in Disabled => cache' = cache
      /\ request.ns \notin Disabled => cache' = With(cache, keys, request.n)
      /\ talk' = talk \/ (talk[c] = request.talk
                          /\ talk' = [talk EXCEPT ![c] = Append(talk[c], m)])
      /\ losses' = losses /\ rejects' = rejects
  BY DEF Answer, Recorded, Says, counts, IInv, TalkInv
<1> HIDE DEF m, keys
<1> SUFFICES ASSUME losses = 0, rejects = {}, TalkRemembered, RoundsAreZero
             PROVE  TalkRemembered' /\ RoundsAreZero'
  BY <1>2 DEF NothingLostInv
<1>3. RoundsAreZero'
  BY <1>2 DEF RoundsAreZero, IInv, PendingInv
<1>4. request.ns \notin Disabled => DOMAIN cache' = DOMAIN cache \cup keys
  <2>1. request.n \in Nat \ {None}
    BY <1>1 DEF RequestOk
  <2> QED BY <1>1, <1>2, <2>1, WithSound
<1>5. DOMAIN cache \subseteq DOMAIN cache'
  BY <1>2, <1>4
<1>6. TalkRemembered'
  <2> SUFFICES ASSUME NEW d \in Conversation, NEW ns \in Namespace[d], ns \notin Disabled
               PROVE  Remembered(talk'[d], cache', ns)
    BY DEF TalkRemembered
  <2>1. Remembered(talk[d], cache', ns)
    <3>1. Remembered(talk[d], cache, ns)
      BY DEF TalkRemembered
    <3> QED BY <1>5, <3>1, RememberedMore
  <2>2. CASE talk'[d] = talk[d]
    BY <2>1, <2>2
  <2>3. CASE talk'[d] # talk[d]
    <3>1. d = c /\ talk[c] = request.talk /\ talk'[d] = Append(talk[c], m)
      BY <1>2, <2>3 DEF IInv, TalkInv
    <3>2. request.ns = ns
      BY <3>1 DEF RoundsAreZero, NamespaceIsKept
    <3>3. SignatureKey(m, talk[c], ns) \in DOMAIN cache'
      <4>1. SignatureKey(m, request.talk, request.ns) \in keys
        BY AnswerIsRecorded DEF keys
      <4> QED BY <1>4, <3>1, <3>2, <4>1
    <3>4. talk[c] \in Seq(Message)
      BY DEF IInv, TalkInv, TalkOk
    <3>5. Remembered(Append(talk[c], m), cache', ns)
      <4>1. PICK t : t = talk[c]
        OBVIOUS
      <4>2. PICK s : s = cache'
        OBVIOUS
      <4>3. Remembered(t, s, ns) /\ t \in Seq(Message) /\ SignatureKey(m, t, ns) \in DOMAIN s
        BY <2>1, <3>1, <3>3, <3>4, <4>1, <4>2
      <4>4. Remembered(Append(t, m), s, ns)
        BY <1>1, <4>3, RememberedAppend
      <4> QED BY <4>1, <4>2, <4>4
    <3> QED BY <3>1, <3>5
  <2> QED BY <2>2, <2>3
<1> QED BY <1>3, <1>6

LEMMA NothingLostNext ==
  NamespaceIsKept /\ IInv /\ NothingLostInv /\ [Next]_vars => NothingLostInv'
<1> SUFFICES ASSUME NamespaceIsKept, IInv, NothingLostInv, [Next]_vars PROVE NothingLostInv'
  OBVIOUS
<1>1. ASSUME NEW c \in Conversation, NEW t \in Prompt, UserSays(c, t) PROVE NothingLostInv'
  BY <1>1, UserSaysMemory
<1>2. ASSUME NEW c \in Conversation, ToolReturns(c) PROVE NothingLostInv'
  BY <1>2, ToolReturnsMemory
<1>3. ASSUME NEW c \in Conversation, NEW i \in Users(talk[c]), Rewind(c, i - 1)
      PROVE  NothingLostInv'
  BY <1>3, RewindMemory
<1>4. ASSUME NEW c \in Conversation, NEW ns \in Namespace[c], Ask(c, ns) PROVE NothingLostInv'
  BY <1>4, AskMemory
<1>5. ASSUME NEW c \in Conversation, NEW request \in pending[c],
             NEW withCall \in BOOLEAN, NEW arrives \in BOOLEAN,
             Answer(c, request, withCall, arrives)
      PROVE  NothingLostInv'
  BY <1>5, AnswerMemory
<1>6. ASSUME NEW c \in Conversation, NEW request \in pending[c], Fail(c, request)
      PROVE  NothingLostInv'
  <2>1. /\ pending' = [pending EXCEPT ![c] = @ \ {request}]
        /\ talk' = talk /\ cache' = cache /\ losses' = losses /\ rejects' = rejects
    BY <1>6 DEF Fail, counts, history
  <2>2. RoundsAreZero => RoundsAreZero'
    BY <2>1 DEF RoundsAreZero, IInv, PendingInv
  <2>3. TalkRemembered => TalkRemembered'
    BY <2>1 DEF TalkRemembered
  <2> QED BY <2>1, <2>2, <2>3 DEF NothingLostInv
<1>7. CASE Lose
  BY <1>7 DEF Lose, NothingLostInv
<1>8. CASE UNCHANGED vars
  BY <1>8 DEF vars, counts, history, NothingLostInv, TalkRemembered, RoundsAreZero
<1> QED BY <1>1, <1>2, <1>3, <1>4, <1>5, <1>6, <1>7, <1>8 DEF Next

(* Before the first loss no request is rejected and none is recovered,       *)
(* wherever in the conversation the client goes back to and whatever became  *)
(* of its answers: for clients that keep to one namespace, the only          *)
(* assumption (store_assistant_message, normalize_message).                  *)
THEOREM NothingIsMissingBeforeLoss ==
  ASSUME NamespaceIsKept
  PROVE  Spec => []NothingMissingBeforeLoss
<1>1. Init => NothingLostInv
  <2> SUFFICES ASSUME Init PROVE NothingLostInv
    OBVIOUS
  <2>1. \A c \in Conversation : talk[c] = <<System("prompt")>> /\ pending[c] = {}
    BY DEF Init
  <2>2. TalkRemembered
    <3> SUFFICES ASSUME NEW c \in Conversation, NEW ns
                 PROVE  Remembered(talk[c], cache, ns)
      BY DEF TalkRemembered
    <3>1. Len(talk[c]) = 1 /\ talk[c][1].role = "system"
      BY <2>1 DEF System
    <3> QED BY <3>1 DEF Remembered
  <2>3. RoundsAreZero
    BY <2>1 DEF RoundsAreZero
  <2> QED BY <2>2, <2>3 DEF Init, NothingLostInv
<1>2. IInv /\ NothingLostInv /\ [Next]_vars => NothingLostInv'
  BY NothingLostNext
<1>3. NothingLostInv => NothingMissingBeforeLoss
  BY DEF NothingLostInv, RoundsAreZero, NothingMissingBeforeLoss, Requests
<1> QED BY <1>1, <1>2, <1>3, Invariance, PTL DEF Spec

=============================================================================
