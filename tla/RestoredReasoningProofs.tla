---------------------- MODULE RestoredReasoningProofs ----------------------
(***************************************************************************)
(* The reasoning a message is given belongs to its turn, a call sent with  *)
(* its whole history gets its own, and recovery converges: proofs about    *)
(* ReasoningRepair, continued.                                             *)
(***************************************************************************)
EXTENDS ReasoningRepairProofs

-----------------------------------------------------------------------------
(* Without system messages nothing is left out.                              *)
LEMMA NothingToLeaveOut ==
  ASSUME NEW S, NEW x \in Seq(S), \A i \in 1..Len(x) : x[i].role # "system"
  PROVE  NoSystem(x) = x
<1> DEFINE N == Len(x)
           Step(f, i) == IF i = 0 THEN <<>>
                         ELSE IF x[i].role = "system" THEN f[i - 1]
                         ELSE Append(f[i - 1], x[i])
           Is(f) == f = [i \in 0..N |-> Step(f, i)]
           whole == [i \in 0..N |-> SubSeq(x, 1, i)]
           kept == CHOOSE f : Is(f)
<1>1. N \in Nat /\ \A i \in 1..N : x[i] \in S
  BY LenProperties, ElementOfSeq
<1>2. \A n \in 0..N : /\ SubSeq(x, 1, n) \in Seq(S) /\ Len(SubSeq(x, 1, n)) = n
                      /\ \A i \in 1..n : SubSeq(x, 1, n)[i] = x[i]
  <2> TAKE n \in 0..N
  <2>1. \A i \in 1..n : x[i] \in S
    BY <1>1
  <2>2. SubSeq(x, 1, n) = [i \in 1..n |-> x[i]]
    BY <1>1
  <2>3. \A f \in [1..n -> S] : f \in Seq(S)
    BY <1>1, SeqDef
  <2>4. SubSeq(x, 1, n) \in Seq(S) /\ DOMAIN SubSeq(x, 1, n) = 1..n
    BY <2>1, <2>2, <2>3
  <2> QED BY <1>1, <2>2, <2>4, LenProperties
<1>3. \A n \in 1..N : SubSeq(x, 1, n) = Append(SubSeq(x, 1, n - 1), x[n])
  <2> TAKE n \in 1..N
  <2> DEFINE a == SubSeq(x, 1, n - 1)
             b == SubSeq(x, 1, n)
  <2>1. n - 1 \in 0..N /\ n \in 0..N /\ x[n] \in S
    BY <1>1
  <2>2. /\ a \in Seq(S) /\ Len(a) = n - 1 /\ \A i \in 1..(n - 1) : a[i] = x[i]
        /\ b \in Seq(S) /\ Len(b) = n /\ \A i \in 1..n : b[i] = x[i]
    BY <1>2, <2>1
  <2> HIDE DEF a, b
  <2>3. /\ Append(a, x[n]) \in Seq(S) /\ Len(Append(a, x[n])) = n
        /\ \A i \in 1..(n - 1) : Append(a, x[n])[i] = a[i]
        /\ Append(a, x[n])[n] = x[n]
    BY <1>1, <2>1, <2>2, AppendProperties
  <2>4. \A i \in 1..n : b[i] = Append(a, x[n])[i]
    <3> TAKE i \in 1..n
    <3>1. i \in 1..(n - 1) \/ i = n
      BY <1>1
    <3> QED BY <2>2, <2>3, <3>1
  <2>5. b = Append(a, x[n])
    BY <2>2, <2>3, <2>4, SeqEqual
  <2> QED BY <2>5 DEF a, b
<1>4. Is(whole)
  <2>1. \A i \in 0..N : whole[i] = Step(whole, i)
    <3> TAKE i \in 0..N
    <3>1. CASE i = 0
      <4>1. SubSeq(x, 1, 0) = <<>>
        OBVIOUS
      <4> QED BY <3>1, <4>1
    <3>2. CASE i # 0
      <4>1. i \in 1..N /\ i - 1 \in 0..N
        BY <1>1, <3>2
      <4> QED BY <1>3, <3>2, <4>1
    <3> QED BY <3>1, <3>2
  <2>2. whole = [i \in 0..N |-> whole[i]]
    OBVIOUS
  <2> HIDE DEF whole
  <2> QED BY <2>1, <2>2
<1>5. NoSystem(x) = kept[N]
  BY DEF NoSystem
<1>6. Is(kept)
  <2> HIDE DEF Is, whole
  <2> QED BY <1>4
<1> HIDE DEF kept
<1>7. \A i \in 0..N : kept[i] = Step(kept, i)
  BY <1>6
<1> DEFINE bad == {n \in 0..N : kept[n] # SubSeq(x, 1, n)}
<1>8. ASSUME bad # {} PROVE FALSE
  <2>1. bad \subseteq Nat
    BY <1>1
  <2>2. PICK n \in bad : \A m \in bad : n <= m
    <3> HIDE DEF bad
    <3> QED BY <1>8, <2>1, Smallest
  <2>3. CASE n = 0
    <3>1. kept[0] = <<>> /\ SubSeq(x, 1, 0) = <<>>
      BY <1>1, <1>7
    <3> QED BY <2>2, <2>3, <3>1
  <2>4. CASE n # 0
    <3>1. n \in 1..N /\ n - 1 \in 0..N /\ ~(n <= n - 1)
      BY <1>1, <2>2, <2>4
    <3>2. kept[n - 1] = SubSeq(x, 1, n - 1)
      BY <2>2, <3>1
    <3>3. kept[n] = Append(kept[n - 1], x[n])
      BY <1>7, <2>4, <3>1
    <3> QED BY <1>3, <2>2, <3>1, <3>2, <3>3
  <2> QED BY <2>3, <2>4
<1>9. kept[N] = SubSeq(x, 1, N)
  BY <1>1, <1>8
<1>10. SubSeq(x, 1, N) = x
  <2>1. N \in 0..N
    BY <1>1
  <2>2. SubSeq(x, 1, N) \in Seq(S) /\ Len(SubSeq(x, 1, N)) = N
        /\ \A i \in 1..N : SubSeq(x, 1, N)[i] = x[i]
    BY <1>2, <2>1
  <2> QED BY <2>2, SeqEqual
<1> QED BY <1>5, <1>9, <1>10

-----------------------------------------------------------------------------
(* What stands before an answer: system messages, and then a user message.   *)
Turnable(p, s) ==
  /\ p \in Seq(Message)
  /\ s \in 0..(Len(p) - 1)
  /\ \A i \in 1..Len(p) : p[i].role = "system" <=> i <= s
  /\ p[s + 1].role = "user"

(* The canonical messages from position a on.                                *)
From(p, a) == [i \in 1..(Len(p) - a + 1) |-> Canonical(p[a + i - 1])]

(* From the newest user message on.                                          *)
Turn(t) == SubSeq(t, LastIn(Users(t)), Len(t))

LEMMA TurnableFacts ==
  ASSUME NEW p, NEW s, Turnable(p, s)
  PROVE  /\ p \in Seq(Message) /\ Len(p) \in Nat /\ s \in Nat
         /\ LastIn(Users(p)) \in (s + 1)..Len(p)
         /\ p[LastIn(Users(p))].role = "user"
         /\ \A j \in Users(p) : j <= LastIn(Users(p))
<1>1. p \in Seq(Message) /\ Len(p) \in Nat /\ s \in Nat /\ s + 1 \in 1..Len(p)
  <2>1. p \in Seq(Message) /\ Len(p) \in Nat
    BY Elements DEF Turnable
  <2> QED BY <2>1 DEF Turnable
<1>2. /\ Users(p) \subseteq (s + 1)..Len(p) /\ s + 1 \in Users(p)
      /\ \A j \in Users(p) : p[j].role = "user"
  <2>1. \A j \in 1..Len(p) : p[j].role = "user" => ~(j <= s)
    BY DEF Turnable
  <2> QED BY <1>1, <2>1 DEF Users, Positions, Turnable
<1>3. LastIn(Users(p)) \in Users(p) /\ \A j \in Users(p) : j <= LastIn(Users(p))
  <2>1. Users(p) \subseteq 0..Len(p) /\ Users(p) # {}
    BY <1>1, <1>2
  <2> QED BY <1>1, <2>1, LastOfSet
<1> QED BY <1>1, <1>2, <1>3

LEMMA FromSequence ==
  ASSUME NEW p \in Seq(Message), NEW a \in 1..Len(p)
  PROVE  /\ From(p, a) \in Seq({Canonical(m) : m \in Message})
         /\ Len(From(p, a)) = Len(p) - a + 1
         /\ \A i \in 1..(Len(p) - a + 1) : /\ From(p, a)[i] = Canonical(p[a + i - 1])
                                           /\ From(p, a)[i].role = p[a + i - 1].role
                                           /\ a + i - 1 \in 1..Len(p)
<1> DEFINE C == {Canonical(m) : m \in Message}
           n == Len(p) - a + 1
<1>1. Len(p) \in Nat /\ n \in Nat /\ \A i \in 1..n : a + i - 1 \in 1..Len(p)
  BY Elements
<1>2. \A i \in 1..n : Canonical(p[a + i - 1]) \in C
  BY <1>1, Elements
<1> HIDE DEF C
<1>3. From(p, a) = [i \in 1..n |-> Canonical(p[a + i - 1])]
  BY DEF From
<1> HIDE DEF n
<1>4. \A f \in [1..n -> C] : f \in Seq(C)
  BY <1>1, SeqDef
<1>5. From(p, a) \in Seq(C) /\ DOMAIN From(p, a) = 1..n
  BY <1>2, <1>3, <1>4
<1>6. Len(From(p, a)) = n
  BY <1>1, <1>5, LenProperties
<1>7. \A i \in 1..n : From(p, a)[i] = Canonical(p[a + i - 1])
  BY <1>3
<1>8. \A i \in 1..n : From(p, a)[i].role = p[a + i - 1].role
  <2>1. \A m : Canonical(m).role = m.role
    BY DEF Canonical
  <2> QED BY <1>7, <2>1
<1> QED BY <1>1, <1>5, <1>6, <1>7, <1>8 DEF n, C

LEMMA CanonFrom ==
  ASSUME NEW p \in Seq(Message), NEW a \in 1..Len(p)
  PROVE  Canon(SubSeq(p, a, Len(p))) = From(p, a)
<1> DEFINE q == SubSeq(p, a, Len(p))
           n == Len(p) - a + 1
<1>1. Len(q) = n /\ \A i \in 1..n : q[i] = p[a + i - 1]
  BY Suffix
<1> HIDE DEF q, n
<1>2. Canon(q) = [i \in 1..n |-> Canonical(p[a + i - 1])]
  BY <1>1 DEF Canon, Positions
<1> QED BY <1>2 DEF From, q, n

(* The newest user message of a transcript is that of its end.               *)
LEMMA TurnOfEnd ==
  ASSUME NEW p, NEW s, Turnable(p, s), NEW a \in 1..LastIn(Users(p))
  PROVE  Turn(From(p, a)) = From(p, LastIn(Users(p)))
<1> DEFINE u == LastIn(Users(p))
           n == Len(p)
           t == From(p, a)
           v == u - a + 1
<1>1. p \in Seq(Message) /\ n \in Nat /\ s \in Nat /\ u \in (s + 1)..n /\ p[u].role = "user"
      /\ \A j \in Users(p) : j <= u
  BY TurnableFacts
<1> HIDE DEF u, n
<1>2. u \in 1..n /\ a \in 1..n /\ a \in 1..u /\ v \in 1..(n - a + 1) /\ a + v - 1 = u
  BY <1>1 DEF u
<1>3. /\ Len(t) = n - a + 1
      /\ \A i \in 1..(n - a + 1) : t[i] = Canonical(p[a + i - 1]) /\ t[i].role = p[a + i - 1].role
                                   /\ a + i - 1 \in 1..n
  BY <1>1, <1>2, FromSequence DEF n
<1> HIDE DEF t
<1>4. v \in Users(t) /\ Users(t) \subseteq 0..(n - a + 1) /\ n - a + 1 \in Nat
  BY <1>1, <1>2, <1>3 DEF Users, Positions
<1>5. \A j \in Users(t) : j <= v
  <2> SUFFICES ASSUME NEW j \in 1..(n - a + 1), t[j].role = "user" PROVE j <= v
    BY <1>3 DEF Users, Positions
  <2>1. a + j - 1 \in Users(p)
    BY <1>3 DEF Users, Positions, n
  <2>2. a + j - 1 <= u
    BY <1>1, <2>1
  <2> QED BY <1>1, <1>2, <2>2
<1>6. LastIn(Users(t)) = v
  <2> HIDE DEF v
  <2> QED BY <1>4, <1>5, NewestIs
<1>7. Turn(t) = [i \in 1..(n - u + 1) |-> t[v + i - 1]]
  <2>1. Turn(t) = SubSeq(t, v, n - a + 1)
    BY <1>3, <1>6 DEF Turn
  <2>2. SubSeq(t, v, n - a + 1) = [i \in 1..((n - a + 1) - v + 1) |-> t[i + v - 1]]
    BY <1>1, <1>2
  <2>3. (n - a + 1) - v + 1 = n - u + 1
    BY <1>1, <1>2
  <2>4. \A i \in 1..(n - u + 1) : i + v - 1 = v + i - 1
    BY <1>1, <1>2
  <2> HIDE DEF v
  <2> QED BY <2>1, <2>2, <2>3, <2>4
<1>8. \A i \in 1..(n - u + 1) : t[v + i - 1] = Canonical(p[u + i - 1])
  <2> TAKE i \in 1..(n - u + 1)
  <2>1. v + i - 1 \in 1..(n - a + 1) /\ a + (v + i - 1) - 1 = u + i - 1
    BY <1>1, <1>2
  <2> QED BY <1>3, <2>1
<1>9. Turn(t) = [i \in 1..(n - u + 1) |-> Canonical(p[u + i - 1])]
  <2> HIDE DEF v
  <2> QED BY <1>7, <1>8
<1> QED BY <1>9 DEF From, t, u, n

LEMMA TurnStartIs ==
  ASSUME NEW p, NEW s, Turnable(p, s)
  PROVE  TurnStart(p) \in 1..LastIn(Users(p)) /\ s < TurnStart(p)
<1> DEFINE u == LastIn(Users(p))
           run == {i \in 1..u : \A j \in i..u : p[j].role = "user"}
<1>1. Len(p) \in Nat /\ s \in Nat /\ u \in (s + 1)..Len(p) /\ p[u].role = "user"
  BY TurnableFacts
<1>2. TurnStart(p) = IF u = 0 THEN 1 ELSE CHOOSE i \in run : \A j \in run : i <= j
  BY DEF TurnStart
<1> HIDE DEF u
<1>3. u \in run /\ run \subseteq Nat
  <2>1. u \in 1..u /\ \A j \in u..u : j = u
    BY <1>1
  <2> QED BY <1>1, <2>1
<1>4. TurnStart(p) \in run
  <2>1. u # 0
    BY <1>1
  <2> HIDE DEF run
  <2>2. \E i \in run : \A j \in run : i <= j
    BY <1>3, Smallest
  <2> QED BY <1>2, <2>1, <2>2
<1>5. ASSUME TurnStart(p) <= s PROVE FALSE
  <2> DEFINE i == TurnStart(p)
  <2>1. i \in i..u /\ i \in 1..Len(p)
    BY <1>1, <1>4
  <2>2. p[i].role = "user"
    BY <1>4, <2>1
  <2>3. p[i].role = "system"
    BY <1>5, <2>1 DEF Turnable
  <2> QED BY <2>2, <2>3
<1>6. TurnStart(p) \in 1..u
  BY <1>4
<1> QED BY <1>1, <1>5, <1>6 DEF u

(* From a user message on no system message is left out.                     *)
LEMMA AllFrom ==
  ASSUME NEW p, NEW s, Turnable(p, s), NEW a \in 1..LastIn(Users(p)), s < a
  PROVE  NoSystem(Canon(SubSeq(p, a, Len(p)))) = From(p, a)
<1> DEFINE t == From(p, a)
           C == {Canonical(m) : m \in Message}
<1>1. p \in Seq(Message) /\ Len(p) \in Nat /\ s \in Nat /\ a \in 1..Len(p)
  <2>1. /\ p \in Seq(Message) /\ Len(p) \in Nat /\ s \in Nat
        /\ LastIn(Users(p)) \in (s + 1)..Len(p)
    BY TurnableFacts
  <2> QED BY <2>1
<1>2. Canon(SubSeq(p, a, Len(p))) = t
  BY <1>1, CanonFrom
<1>3. /\ t \in Seq(C) /\ Len(t) = Len(p) - a + 1
      /\ \A i \in 1..(Len(p) - a + 1) : /\ t[i].role = p[a + i - 1].role
                                        /\ a + i - 1 \in 1..Len(p)
  BY <1>1, FromSequence
<1>4. \A i \in 1..Len(t) : t[i].role # "system"
  <2> HIDE DEF t
  <2> SUFFICES ASSUME NEW i \in 1..(Len(p) - a + 1) PROVE t[i].role # "system"
    BY <1>3
  <2>1. ~(a + i - 1 <= s)
    BY <1>1
  <2> QED BY <1>3, <2>1 DEF Turnable
<1> HIDE DEF t, C
<1>5. NoSystem(t) = t
  BY <1>3, <1>4, NothingToLeaveOut
<1> QED BY <1>2, <1>5 DEF t

(* The scope and the turn context of a message both tell its turn.           *)
LEMMA SameTurn ==
  ASSUME NEW p, NEW s, Turnable(p, s)
  PROVE  /\ SinceUser(p) = From(p, LastIn(Users(p)))
         /\ Turn(Canon(p)) = SinceUser(p)
         /\ Turn(TurnContext(p)) = SinceUser(p)
<1> DEFINE u == LastIn(Users(p))
           a == TurnStart(p)
<1>1. p \in Seq(Message) /\ Len(p) \in Nat /\ s \in Nat /\ u \in (s + 1)..Len(p)
  BY TurnableFacts
<1>2. a \in 1..u /\ s < a
  BY TurnStartIs
<1> HIDE DEF u, a
<1>3. ASSUME NEW b \in 1..u, s < b
      PROVE  NoSystem(Canon(SubSeq(p, b, Len(p)))) = From(p, b)
  BY <1>3, AllFrom DEF u
<1>4. SinceUser(p) = From(p, u)
  <2>1. u # 0 /\ u \in 1..u /\ s < u
    BY <1>1
  <2>2. SinceUser(p) = NoSystem(Canon(SubSeq(p, u, Len(p))))
    BY <2>1 DEF SinceUser, u
  <2> QED BY <1>3, <2>1, <2>2
<1>5. TurnContext(p) = From(p, a)
  BY <1>2, <1>3 DEF TurnContext, a
<1>6. Canon(p) = From(p, 1)
  <2>1. Canon(p) = [i \in 1..Len(p) |-> Canonical(p[i])]
    BY DEF Canon, Positions
  <2>2. Len(p) - 1 + 1 = Len(p) /\ \A i \in 1..Len(p) : 1 + i - 1 = i
    BY <1>1
  <2>3. From(p, 1) = [i \in 1..Len(p) |-> Canonical(p[i])]
    BY <2>2 DEF From
  <2> QED BY <2>1, <2>3
<1>7. 1 \in 1..u
  BY <1>1
<1> QED BY <1>2, <1>4, <1>5, <1>6, <1>7, TurnOfEnd DEF u

-----------------------------------------------------------------------------
(* An answer's reasoning is right where it was recorded: in its namespace,   *)
(* after the newest user message of one of its contexts and what came since. *)
Given(v, t, b) == v \in DOMAIN b /\ \E p \in b[v].contexts : t = <<b[v].ns, SinceUser(p)>>

(* The namespace and the turn that a key is about.                           *)
KeyTurn(k) == <<k[2][1], Turn(k[2][2])>>

Right(c, b) == \A k \in DOMAIN c : Given(c[k], KeyTurn(k), b)
GivenAll(q, ns, b) ==
  \A i \in 1..Len(q) : q[i].reasoning # None
    => Given(q[i].reasoning, <<ns, SinceUser(SubSeq(q, 1, i - 1))>>, b)

(* The keys of a message, in every form.                                     *)
KeySet(kind, context, m) ==
  {<<kind, context, "signature", <<m.text, m.notice, m.call>>>>,
   <<kind, context, "tool_call", <<m.call>>>>, <<kind, context, "tool_name", <<>>>>}

LEMMA KeysOneContext ==
  ASSUME NEW kind, NEW context, NEW m
  PROVE  KeysIn(kind, context, m) \in Seq(KeySet(kind, context, m))
<1> DEFINE x == <<kind, context, "signature", <<m.text, m.notice, m.call>>>>
           y == <<kind, context, "tool_call", <<m.call>>>>
           z == <<kind, context, "tool_name", <<>>>>
           S == KeySet(kind, context, m)
<1>1. KeysIn(kind, context, m) = <<x>> \o (IF m.call = None THEN <<>> ELSE <<y, z>>)
  BY DEF KeysIn
<1>2. x \in S /\ y \in S /\ z \in S
  BY DEF KeySet
<1> HIDE DEF x, y, z, S
<1>3. <<x>> \in Seq(S) /\ <<y, z>> \in Seq(S) /\ <<>> \in Seq(S)
  BY <1>2
<1>4. (IF m.call = None THEN <<>> ELSE <<y, z>>) \in Seq(S)
  BY <1>3
<1> DEFINE rest == IF m.call = None THEN <<>> ELSE <<y, z>>
<1> HIDE DEF rest
<1>5. <<x>> \o rest \in Seq(S)
  BY <1>3, <1>4, ConcatProperties DEF rest
<1> QED BY <1>1, <1>5 DEF S, rest

(* All the keys of a message are about the turn it answers in.               *)
LEMMA KeysOfTurn ==
  ASSUME NEW m, NEW prior, NEW s, Turnable(prior, s), NEW ns
  PROVE  /\ ScopedKeys(m, prior, ns) \o PortableKeys(m, prior, ns)
              \in Seq({k \in KeySet("scope", Scope(prior, ns), m)
                             \cup KeySet("turn", <<ns, TurnContext(prior)>>, m) :
                         KeyTurn(k) = <<ns, SinceUser(prior)>>})
         /\ PortableKeys(m, prior, ns)
              \in Seq({k \in KeySet("scope", Scope(prior, ns), m)
                             \cup KeySet("turn", <<ns, TurnContext(prior)>>, m) :
                         KeyTurn(k) = <<ns, SinceUser(prior)>>})
<1> DEFINE S == KeySet("scope", Scope(prior, ns), m)
           P == KeySet("turn", <<ns, TurnContext(prior)>>, m)
           T == {k \in S \cup P : KeyTurn(k) = <<ns, SinceUser(prior)>>}
           scoped == ScopedKeys(m, prior, ns)
           portable == PortableKeys(m, prior, ns)
<1>1. \A kind, context : \A k \in KeySet(kind, context, m) : k[2] = context
  BY DEF KeySet
<1>2. Turn(Canon(prior)) = SinceUser(prior) /\ Turn(TurnContext(prior)) = SinceUser(prior)
  BY SameTurn
<1>3. \A k \in S : KeyTurn(k) = <<ns, SinceUser(prior)>>
  <2>1. \A k \in S : k[2] = <<ns, Canon(prior)>>
    BY <1>1 DEF Scope
  <2> HIDE DEF S
  <2> QED BY <1>2, <2>1 DEF KeyTurn
<1>4. \A k \in P : KeyTurn(k) = <<ns, SinceUser(prior)>>
  <2>1. \A k \in P : k[2] = <<ns, TurnContext(prior)>>
    BY <1>1
  <2> HIDE DEF P
  <2> QED BY <1>2, <2>1 DEF KeyTurn
<1>5. scoped \in Seq(S) /\ portable \in Seq(P)
  BY KeysOneContext DEF ScopedKeys, PortableKeys
<1>6. S \subseteq T /\ P \subseteq T
  BY <1>3, <1>4
<1> HIDE DEF S, P, T, scoped, portable
<1>7. scoped \in Seq(T) /\ portable \in Seq(T)
  BY <1>5, <1>6
<1>8. scoped \o portable \in Seq(T)
  BY <1>7, ConcatProperties
<1> QED BY <1>7, <1>8 DEF S, P, T, scoped, portable

LEMMA WithRight ==
  ASSUME NEW c, NEW b, Right(c, b), NEW keys, NEW v, \A k \in keys : Given(v, KeyTurn(k), b)
  PROVE  Right(With(c, keys, v), b)
BY DEF Right, With

(* One message: what it is given is right, and so is what is backfilled.     *)
NormalizedRightly(w, prior, ns, b) ==
  /\ Right(w.cache, b)
  /\ \E x \in Message :
       /\ w.messages = Append(prior, x)
       /\ x.reasoning # None => Given(x.reasoning, <<ns, SinceUser(prior)>>, b)

LEMMA NormalizedRight ==
  ASSUME NEW st, st.messages \in Seq(Message), Sound(st.cache), NEW ns, NEW b,
         Right(st.cache, b), NEW m \in Message, m.reasoning = None,
         m.role = "assistant" => \E s : Turnable(st.messages, s)
  PROVE  NormalizedRightly(Normalized(st, m, ns), st.messages, ns, b)
<1> DEFINE prior == st.messages
           scoped == ScopedKeys(m, prior, ns)
           portable == PortableKeys(m, prior, ns)
           keys == scoped \o portable
           hits == {j \in Positions(keys) : keys[j] \in DOMAIN st.cache}
           lacks == m.role = "assistant" /\ m.reasoning = None /\ Needs(m, prior)
           hit == IF hits = {} THEN None ELSE st.cache[keys[Min(hits)]]
           x == IF lacks THEN [m EXCEPT !.reasoning = hit] ELSE m
           w == Normalized(st, m, ns)
           t == <<ns, SinceUser(prior)>>
           T == {k \in KeySet("scope", Scope(prior, ns), m)
                       \cup KeySet("turn", <<ns, TurnContext(prior)>>, m) : KeyTurn(k) = t}
<1>1. /\ w.messages = Append(prior, x)
      /\ w.cache = IF lacks /\ hits # {} /\ Min(hits) <= Len(scoped)
                   THEN With(st.cache, ToSet(portable), hit) ELSE st.cache
  BY DEF Normalized
<1>2. lacks => keys \in Seq(T) /\ portable \in Seq(T)
  BY KeysOfTurn
<1>3. \A k \in T : KeyTurn(k) = t
  OBVIOUS
<1> HIDE DEF keys, portable, scoped, T, t, w
<1>4. hits # {} => Min(hits) \in hits
  <2>1. hits \subseteq Nat
    BY DEF Positions
  <2> HIDE DEF hits
  <2> QED BY <2>1, MinOfHits
<1>5. hits # {} => Min(hits) \in 1..Len(keys) /\ keys[Min(hits)] \in DOMAIN st.cache
  BY <1>4 DEF Positions
<1> HIDE DEF hits
<1>6. lacks /\ hits # {} => Given(hit, t, b)
  <2> SUFFICES ASSUME lacks, hits # {} PROVE Given(hit, t, b)
    OBVIOUS
  <2> DEFINE k == keys[Min(hits)]
  <2>1. k \in T /\ k \in DOMAIN st.cache /\ hit = st.cache[k]
    BY <1>2, <1>5, ElementOfSeq
  <2> HIDE DEF k, hit
  <2>2. Given(st.cache[k], KeyTurn(k), b)
    BY <2>1 DEF Right
  <2> QED BY <1>3, <2>1, <2>2
<1>7. hit \in Nat
  BY <1>5 DEF Sound, None
<1>8. hits = {} => hit = None
  OBVIOUS
<1> HIDE DEF hit, lacks
<1>9. x \in Message /\ (x.reasoning # None => lacks /\ x.reasoning = hit)
  BY <1>7 DEF Message
<1> HIDE DEF x
<1>10. x.reasoning # None => Given(x.reasoning, t, b)
  BY <1>6, <1>8, <1>9
<1>11. Right(w.cache, b)
  <2>1. CASE lacks /\ hits # {} /\ Min(hits) <= Len(scoped)
    <3> DEFINE ks == ToSet(portable)
    <3>1. \A k \in ks : k \in T
      BY <1>2, <2>1, ElementOfSeq, LenProperties DEF ToSet
    <3> HIDE DEF ks
    <3>2. \A k \in ks : Given(hit, KeyTurn(k), b)
      BY <1>3, <1>6, <2>1, <3>1
    <3>3. Right(With(st.cache, ks, hit), b)
      BY <3>2, WithRight
    <3> QED BY <1>1, <2>1, <3>3 DEF ks
  <2>2. CASE ~(lacks /\ hits # {} /\ Min(hits) <= Len(scoped))
    BY <1>1, <2>2
  <2> QED BY <2>1, <2>2
<1>12. NormalizedRightly(w, prior, ns, b)
  BY <1>1, <1>9, <1>10, <1>11 DEF NormalizedRightly, t
<1> QED BY <1>12 DEF w

-----------------------------------------------------------------------------
(* What the client sends carries no reasoning.                               *)
Bare == {m \in Message : m.reasoning = None}
Clean(q) == \A i \in 1..Len(q) : q[i].role # "assistant" => q[i].reasoning = None

LEMMA SendableTurnable ==
  ASSUME NEW ms, NEW s, Sendable(ms, s)
  PROVE  Turnable(ms, s)
<1>1. s \in 0..(Len(ms) - 1)
  <2>1. Len(ms) \in Nat
    BY Elements DEF Sendable
  <2> QED BY <2>1 DEF Sendable
<1> QED BY <1>1 DEF Sendable, Turnable

LEMMA PriorTurnable ==
  ASSUME NEW ms, NEW s, Sendable(ms, s), NEW i \in 1..Len(ms), ms[i].role = "assistant",
         NEW q \in Seq(Message), Len(q) = i - 1, \A j \in 1..(i - 1) : Similar(ms[j], q[j])
  PROVE  Turnable(q, s)
<1>1. Len(ms) \in Nat /\ s \in Nat /\ ~(i <= s) /\ i # s + 1
  <2>1. Len(ms) \in Nat /\ s \in Nat
    BY SendableFacts
  <2> QED BY <2>1 DEF Sendable
<1>2. s \in 0..(Len(q) - 1) /\ s + 1 \in 1..(i - 1)
  BY <1>1
<1>3. \A j \in 1..(i - 1) : q[j].role = ms[j].role /\ j \in 1..Len(ms)
  <2>1. \A m, w : Similar(m, w) => w.role = m.role
    BY DEF Similar, Canonical
  <2> QED BY <1>1, <2>1
<1>4. \A j \in 1..Len(q) : q[j].role = "system" <=> j <= s
  BY <1>3 DEF Sendable
<1>5. q[s + 1].role = "user"
  BY <1>2, <1>3 DEF Sendable
<1> QED BY <1>2, <1>4, <1>5 DEF Turnable

LEMMA GivenAppend ==
  ASSUME NEW prior \in Seq(Message), NEW x \in Message, NEW ns, NEW b, GivenAll(prior, ns, b),
         x.reasoning # None => Given(x.reasoning, <<ns, SinceUser(prior)>>, b)
  PROVE  GivenAll(Append(prior, x), ns, b)
<1> DEFINE q == Append(prior, x)
           n == Len(prior)
<1>1. n \in Nat /\ Len(q) = n + 1 /\ q[n + 1] = x /\ \A i \in 1..n : q[i] = prior[i]
  BY Elements, AppendProperties
<1>2. \A i \in 0..n : SubSeq(q, 1, i) = SubSeq(prior, 1, i)
  BY PrefixOfAppend
<1>3. SubSeq(prior, 1, n) = prior
  <2>1. SubSeq(prior, 1, n) = [i \in 1..n |-> prior[i]] /\ DOMAIN prior = 1..n
    BY <1>1, Elements
  <2> QED BY <2>1
<1> HIDE DEF q, n
<1> SUFFICES ASSUME NEW i \in 1..(n + 1), q[i].reasoning # None
             PROVE  Given(q[i].reasoning, <<ns, SinceUser(SubSeq(q, 1, i - 1))>>, b)
  BY <1>1 DEF GivenAll, q
<1>4. i - 1 \in 0..n /\ SubSeq(q, 1, i - 1) = SubSeq(prior, 1, i - 1)
  <2>1. i - 1 \in 0..n
    BY <1>1
  <2> QED BY <1>2, <2>1
<1>5. CASE i \in 1..n
  <2>1. i \in 1..Len(prior) /\ prior[i].reasoning # None /\ q[i] = prior[i]
    BY <1>1, <1>5 DEF n
  <2> QED BY <1>4, <2>1 DEF GivenAll
<1>6. CASE i = n + 1
  <2>1. i - 1 = n
    BY <1>1, <1>6
  <2> QED BY <1>1, <1>3, <1>4, <1>6, <2>1
<1> QED BY <1>1, <1>5, <1>6

PassRight(ms, c, ns, b, i) ==
  LET st == Pass(ms, c, ns)[i] IN Right(st.cache, b) /\ GivenAll(st.messages, ns, b)

LEMMA PassRightStep ==
  ASSUME NEW ms, NEW s, Sendable(ms, s), ms \in Seq(Bare), NEW c, Sound(c), NEW ns, NEW b,
         NEW i \in 1..Len(ms), PassRight(ms, c, ns, b, i - 1)
  PROVE  PassRight(ms, c, ns, b, i)
<1> DEFINE st == Pass(ms, c, ns)[i - 1]
           w == Pass(ms, c, ns)[i]
           m == ms[i]
<1>1. ms \in Seq(Message) /\ i - 1 \in 0..Len(ms) /\ m \in Message /\ m.reasoning = None
  <2>1. ms \in Seq(Message)
    BY DEF Sendable
  <2>2. m \in Bare
    BY ElementOfSeq, LenProperties
  <2>3. Len(ms) \in Nat
    BY <2>1, Elements
  <2> QED BY <2>1, <2>2, <2>3 DEF Bare
<1>2. w = Normalized(st, m, ns)
  BY <1>1, PassNext
<1>3. /\ st.messages \in Seq(Message) /\ Len(st.messages) = i - 1
      /\ \A j \in 1..(i - 1) : Similar(ms[j], st.messages[j])
      /\ Sound(st.cache)
  <2>1. PassInv(ms, c, ns, i - 1)
    BY <1>1, PassAlways
  <2> QED BY <2>1 DEF PassInv
<1>4. Right(st.cache, b) /\ GivenAll(st.messages, ns, b)
  BY DEF PassRight
<1> HIDE DEF st, w
<1>5. m.role = "assistant" => \E r : Turnable(st.messages, r)
  BY <1>3, PriorTurnable
<1> HIDE DEF m
<1>6. NormalizedRightly(w, st.messages, ns, b)
  BY <1>1, <1>2, <1>3, <1>4, <1>5, NormalizedRight
<1>7. PICK x \in Message :
        /\ w.messages = Append(st.messages, x)
        /\ x.reasoning # None => Given(x.reasoning, <<ns, SinceUser(st.messages)>>, b)
  BY <1>6 DEF NormalizedRightly
<1>8. GivenAll(w.messages, ns, b)
  BY <1>3, <1>4, <1>7, GivenAppend
<1> QED BY <1>6, <1>8 DEF NormalizedRightly, PassRight, w

(* What a pass over messages without reasoning leaves.                       *)
GivenRightly(w, ns, b) ==
  Right(w.cache, b) /\ GivenAll(w.messages, ns, b) /\ Clean(w.messages)

LEMMA PassGives ==
  ASSUME NEW ms, NEW s, Sendable(ms, s), ms \in Seq(Bare), NEW c, Sound(c), NEW ns, NEW b,
         Right(c, b)
  PROVE  GivenRightly(NormalizedAll(ms, c, ns), ns, b)
<1> DEFINE bad == {i \in 0..Len(ms) : ~PassRight(ms, c, ns, b, i)}
<1>1. Len(ms) \in Nat /\ ms \in Seq(Message)
  BY Elements DEF Sendable
<1>2. PassRight(ms, c, ns, b, 0)
  <2>1. Pass(ms, c, ns)[0] = [messages |-> <<>>, missing |-> {}, cache |-> c]
    BY <1>1, PassStart
  <2>2. Len(<<>>) = 0
    OBVIOUS
  <2> QED BY <2>1, <2>2 DEF PassRight, GivenAll
<1>3. ASSUME bad # {} PROVE FALSE
  <2>1. bad \subseteq Nat
    BY <1>1
  <2>2. PICK i \in bad : \A j \in bad : i <= j
    <3> HIDE DEF bad
    <3> QED BY <1>3, <2>1, Smallest
  <2>3. i \in 1..Len(ms) /\ i - 1 \in 0..Len(ms) /\ ~(i <= i - 1)
    BY <1>1, <1>2, <2>2
  <2>4. PassRight(ms, c, ns, b, i - 1)
    BY <2>2, <2>3
  <2> QED BY <2>2, <2>3, <2>4, PassRightStep
<1>4. PassRight(ms, c, ns, b, Len(ms))
  <2>1. Len(ms) \in 0..Len(ms) /\ Len(ms) \notin bad
    BY <1>1, <1>3
  <2> QED BY <2>1
<1> DEFINE w == NormalizedAll(ms, c, ns)
<1>5. Clean(w.messages)
  <2>1. PassInv(ms, c, ns, Len(ms))
    BY <1>1, PassFacts
  <2>2. Len(w.messages) = Len(ms) /\ \A j \in 1..Len(ms) : Similar(ms[j], w.messages[j])
    BY <2>1 DEF PassInv, NormalizedAll
  <2> HIDE DEF w
  <2>3. \A j \in 1..Len(ms) : ms[j].reasoning = None
    BY ElementOfSeq DEF Bare
  <2>4. \A j \in 1..Len(ms) : w.messages[j].role # "assistant" => w.messages[j] = ms[j]
    BY <2>2 DEF Similar, Canonical
  <2> QED BY <2>2, <2>3, <2>4 DEF Clean
<1> QED BY <1>4, <1>5 DEF GivenRightly, PassRight, NormalizedAll

-----------------------------------------------------------------------------
(* Recovery looks up messages that carry no reasoning.                       *)
LEMMA BareSeq ==
  ASSUME NEW ms \in Seq(Bare)
  PROVE  /\ Len(ms) \in Nat /\ \A i \in 1..Len(ms) : ms[i] \in Bare
         /\ \A a, z \in 0..Len(ms) : 1 <= a => SubSeq(ms, a, z) \in Seq(Bare)
<1>1. Len(ms) \in Nat /\ \A i \in 1..Len(ms) : ms[i] \in Bare
  BY LenProperties, ElementOfSeq
<1>2. ASSUME NEW a \in 0..Len(ms), NEW z \in 0..Len(ms), 1 <= a
      PROVE  SubSeq(ms, a, z) \in Seq(Bare)
  <2>1. a \in Int /\ z \in Int /\ \A i \in a..z : ms[i] \in Bare
    BY <1>1, <1>2
  <2> QED BY <2>1, SubSeqProperties
<1> QED BY <1>1, <1>2

LEMMA RecoveryBare == Recovery \in Bare
BY DEF Recovery, System, Message, Bare, None

LEMMA BoundaryBare ==
  ASSUME NEW ms, NEW s, Sendable(ms, s), ms \in Seq(Bare), NEW b \in 1..Len(ms)
  PROVE  FromBoundary(ms, b).messages \in Seq(Bare)
<1> DEFINE before == {i \in Users(ms) : i < b}
           user == LastIn(before)
           x == SubSeq(ms, 1, Leading(ms))
           y == IF user = 0 THEN <<>> ELSE <<ms[user]>>
           z == SubSeq(ms, b, Len(ms))
           r == <<Recovery>>
<1>1. FromBoundary(ms, b).messages = x \o r \o y \o z
  BY DEF FromBoundary
<1>2. Leading(ms) \in 0..Len(ms) /\ 1 \in 0..Len(ms) /\ b \in 0..Len(ms) /\ 1 <= b
      /\ Len(ms) \in 0..Len(ms) /\ 1 <= 1 /\ Len(ms) \in Nat
  <2>1. Leading(ms) = s /\ Len(ms) \in Nat /\ s \in Nat
    BY SendableFacts
  <2>2. s \in 0..Len(ms)
    BY <2>1 DEF Sendable
  <2> QED BY <2>1, <2>2
<1>3. x \in Seq(Bare) /\ z \in Seq(Bare)
  BY <1>2, BareSeq
<1>4. r \in Seq(Bare)
  BY RecoveryBare
<1>5. user = 0 \/ ms[user] \in Bare
  <2>1. before # {} => user \in before
    <3>1. before \subseteq 0..Len(ms)
      BY DEF Users, Positions
    <3> HIDE DEF before
    <3> QED BY <1>2, <3>1, LastOfSet
  <2>2. before = {} => user = 0
    BY DEF LastIn
  <2>3. user \in before => user \in 1..Len(ms)
    BY DEF Users, Positions
  <2> HIDE DEF user, before
  <2> QED BY <2>1, <2>2, <2>3, BareSeq
<1>6. y \in Seq(Bare)
  <2> HIDE DEF user
  <2>1. CASE user = 0
    BY <2>1
  <2>2. CASE user # 0
    <3>1. <<ms[user]>> \in Seq(Bare)
      BY <1>5, <2>2
    <3> QED BY <2>2, <3>1
  <2> QED BY <2>1, <2>2
<1> HIDE DEF x, y, z, r
<1>7. x \o r \in Seq(Bare)
  BY <1>3, <1>4, ConcatProperties
<1>8. x \o r \o y \in Seq(Bare)
  BY <1>6, <1>7, ConcatProperties
<1>9. x \o r \o y \o z \in Seq(Bare)
  BY <1>3, <1>8, ConcatProperties
<1> QED BY <1>1, <1>9

LEMMA FreshBare ==
  ASSUME NEW q, NEW s, Sendable(q, s), Clean(q)
  PROVE  Fresh(q) \in Seq(Bare)
<1> DEFINE x == SubSeq(q, 1, Leading(q))
           u == LastIn(Users(q))
           y == <<Recovery, q[u]>>
<1>1. q \in Seq(Message) /\ Len(q) \in Nat /\ s \in Nat /\ Leading(q) = s /\ s <= Len(q)
      /\ u \in 1..Len(q) /\ q[u].role = "user"
  <2>1. /\ Len(q) \in Nat /\ s \in Nat /\ Leading(q) = s /\ u \in (s + 1)..Len(q)
        /\ q[u].role = "user"
    BY SendableFacts
  <2> HIDE DEF u
  <2> QED BY <2>1 DEF Sendable
<1>2. \A i \in 1..Len(q) : q[i].role # "assistant" => q[i] \in Bare
  BY <1>1, Elements DEF Clean, Bare
<1>3. \A i \in 1..s : q[i] \in Bare
  <2> TAKE i \in 1..s
  <2>1. i \in 1..Len(q) /\ i <= s
    BY <1>1
  <2>2. q[i].role = "system"
    BY <2>1 DEF Sendable
  <2> QED BY <1>2, <2>1, <2>2
<1>4. x \in Seq(Bare)
  <2>1. 1 \in Int /\ s \in Int
    BY <1>1
  <2>2. SubSeq(q, 1, s) \in Seq(Bare)
    BY <1>3, <2>1, SubSeqProperties
  <2> QED BY <1>1, <2>2
<1>5. q[u] \in Bare
  <2> HIDE DEF u
  <2> QED BY <1>1, <1>2
<1>6. y \in Seq(Bare)
  <2>1. \A m \in Bare : <<Recovery, m>> \in Seq(Bare)
    BY RecoveryBare
  <2> HIDE DEF u
  <2> QED BY <1>5, <2>1
<1>7. Fresh(q) = x \o y
  BY DEF Fresh
<1> HIDE DEF x, y
<1> QED BY <1>4, <1>6, <1>7, ConcatProperties

(* Nothing is given to messages that are sent as they came.                  *)
LEMMA BareGiven ==
  ASSUME NEW ms \in Seq(Bare), NEW ns, NEW b
  PROVE  GivenAll(ms, ns, b) /\ Clean(ms)
<1>1. \A i \in 1..Len(ms) : ms[i].reasoning = None
  BY BareSeq DEF Bare
<1> QED BY <1>1 DEF GivenAll, Clean

LEMMA BegunGives ==
  ASSUME NEW ms, NEW s, Sendable(ms, s), ms \in Seq(Bare), Sound(cache), NEW ns, NEW b,
         Right(cache, b)
  PROVE  GivenRightly(Begun(ms, ns), ns, b)
<1> DEFINE first == NormalizedAll(ms, cache, ns)
           p == LastIn(Notices(ms))
           r == FromBoundary(ms, p).messages
           second == NormalizedAll(r, first.cache, ns)
           w == Begun(ms, ns)
<1>0. w = IF first.missing = {} \/ strategy = "reject" \/ p = 0 THEN first ELSE second
  BY DEF Begun, Notices
<1>1. GivenRightly(first, ns, b) /\ PassOk(first, ms, cache, ns)
  BY PassGives, PassKeeps
<1>2. CASE w = first
  <2> HIDE DEF w, first
  <2> QED BY <1>1, <1>2 DEF w
<1>3. CASE p # 0 /\ w = second
  <2>1. p \in Notices(ms) /\ \A i \in Notices(ms) : i <= p
    <3>1. Len(ms) \in Nat /\ Notices(ms) \subseteq 0..Len(ms)
      BY BareSeq DEF Notices, Positions
    <3>2. Notices(ms) # {}
      BY <1>3 DEF LastIn
    <3> QED BY <3>1, <3>2, LastOfSet
  <2>2. p \in 1..Len(ms) /\ ms[p].role = "assistant"
    BY <2>1 DEF Notices, Positions, HasNotice
  <2> HIDE DEF p
  <2>3. Sendable(r, s + 1) /\ r \in Seq(Bare)
    BY <2>1, <2>2, BoundaryShape, BoundaryBare
  <2> HIDE DEF r, first
  <2>4. Sound(first.cache) /\ Right(first.cache, b)
    BY <1>1 DEF PassOk, GivenRightly
  <2>5. GivenRightly(second, ns, b)
    BY <2>3, <2>4, PassGives
  <2> HIDE DEF second, w
  <2> QED BY <1>3, <2>5 DEF w
<1> HIDE DEF w, first, second, p
<1> QED BY <1>0, <1>2, <1>3

LEMMA StartGives ==
  ASSUME NEW ms, NEW s, Sendable(ms, s), ms \in Seq(Bare), Sound(cache), NEW ns, NEW b,
         Right(cache, b)
  PROVE  GivenRightly(Start(ms, ns), ns, b)
<1> DEFINE start == Start(ms, ns)
<1>1. CASE ns \in Disabled
  <2>1. start = [messages |-> ms, missing |-> {}, cache |-> cache]
    BY <1>1 DEF Start
  <2> HIDE DEF start
  <2>2. start.messages = ms /\ start.cache = cache
    BY <2>1
  <2>3. GivenRightly(start, ns, b)
    BY <2>2, BareGiven DEF GivenRightly
  <2> QED BY <2>3 DEF start
<1>2. CASE ns \notin Disabled
  <2>1. start = Begun(ms, ns)
    BY <1>2 DEF Start
  <2>2. GivenRightly(Begun(ms, ns), ns, b)
    BY BegunGives
  <2> HIDE DEF start
  <2>3. GivenRightly(start, ns, b)
    BY <2>1, <2>2
  <2> QED BY <2>3 DEF start
<1> QED BY <1>1, <1>2

LEMMA PreparedGives ==
  ASSUME NEW ms, NEW s, Sendable(ms, s), ms \in Seq(Bare), Sound(cache), NEW ns, NEW b,
         Right(cache, b)
  PROVE  GivenRightly(Prepared(ms, ns).pass, ns, b)
<1> DEFINE start == Start(ms, ns)
           p == Prepared(ms, ns)
           a == Unrounded(ms, ns)
<1>1. OneRound(p, ms, ns) /\ StartOk(start, ms, ns) /\ GivenRightly(start, ns, b)
  BY PreparedIs, StartFacts, StartGives
<1>2. a.pass = start /\ a.notice = FALSE
  BY DEF Unrounded
<1> HIDE DEF start, p, a
<1>3. CASE strategy = "reject" \/ start.missing = {}
  <2>1. p = a
    BY <1>1, <1>3 DEF OneRound, start, a
  <2>2. GivenRightly(p.pass, ns, b)
    BY <1>1, <1>2, <2>1
  <2> QED BY <2>2 DEF p
<1>4. CASE ~(strategy = "reject" \/ start.missing = {})
  <2> DEFINE q == start.messages
             w == NormalizedAll(Fresh(q), start.cache, ns)
  <2>1. PassOk(start, ms, cache, ns) /\ OneNotice(q) /\ start.missing # {}
    BY <1>1, <1>4 DEF StartOk
  <2>2. Refreshed(NextRound(a, 1, ms, ns), a, 1, ns)
    <3>1. /\ PassOk(a.pass, ms, cache, ns) /\ a.pass.missing # {} /\ OneNotice(a.pass.messages)
          /\ a.notice \in BOOLEAN
      BY <1>2, <2>1
    <3> QED BY <3>1, RoundIs
  <2>3. p.pass = w
    <3>1. p = NextRound(a, 1, ms, ns)
      BY <1>1, <1>4 DEF OneRound, start, a
    <3> QED BY <1>2, <2>2, <3>1 DEF Refreshed
  <2>4. Sound(start.cache) /\ Right(start.cache, b) /\ Clean(q)
    BY <1>1, <2>1 DEF PassOk, GivenRightly
  <2>5. PICK t : Sendable(q, t)
    BY <2>1 DEF PassOk
  <2> HIDE DEF q
  <2>6. Sendable(Fresh(q), t + 1) /\ Fresh(q) \in Seq(Bare)
    BY <2>4, <2>5, FreshShape, FreshBare DEF Fresh
  <2> DEFINE f == Fresh(q)
             d == start.cache
  <2>7. Sendable(f, t + 1) /\ f \in Seq(Bare) /\ Sound(d) /\ Right(d, b)
    BY <2>4, <2>6
  <2>8. w = NormalizedAll(f, d, ns)
    OBVIOUS
  <2> HIDE DEF f, d, w
  <2>9. GivenRightly(w, ns, b)
    BY <2>7, <2>8, PassGives
  <2> QED BY <2>3, <2>9 DEF p
<1> QED BY <1>3, <1>4

-----------------------------------------------------------------------------
(* The invariant: clients send no reasoning, an answer is recorded once, and *)
(* what the store and the requests hold is right.                            *)
BareInv == \A c \in Conversation : talk[c] \in Seq(Bare)
NumberInv ==
  /\ DOMAIN born \subseteq 1..answers
  /\ \A c \in Conversation : \A r \in pending[c] : r.n \in 1..answers /\ r.n \notin DOMAIN born
  /\ \A c, d \in Conversation : \A r \in pending[c] : \A q \in pending[d] :
       r.n = q.n => c = d /\ r = q
GivenInv ==
  /\ Right(cache, born)
  /\ \A c \in Conversation : \A r \in pending[c] : GivenAll(r.messages, r.ns, born)
TurnsInv == BareInv /\ NumberInv /\ GivenInv

LEMMA TurnsInit == Init => TurnsInv
<1> SUFFICES ASSUME Init PROVE TurnsInv
  OBVIOUS
<1> DEFINE m == System("prompt")
<1>1. m \in Bare
  BY DEF System, Message, Bare, None
<1> HIDE DEF m
<1>2. <<m>> \in Seq(Bare)
  BY <1>1
<1>3. BareInv
  BY <1>2 DEF Init, BareInv, m
<1>4. NumberInv
  BY DEF Init, NumberInv
<1>5. GivenInv
  BY DEF Init, GivenInv, Right
<1> QED BY <1>3, <1>4, <1>5 DEF TurnsInv

(* Nothing but one transcript changes.                                       *)
LEMMA TurnsTalk ==
  ASSUME IInv, TurnsInv, NEW c \in Conversation, NEW t \in Seq(Bare),
         talk' = [talk EXCEPT ![c] = t], UNCHANGED <<pending, cache, answers, born>>
  PROVE  TurnsInv'
<1>1. BareInv'
  BY DEF TurnsInv, BareInv, IInv, TalkInv
<1> QED BY <1>1 DEF TurnsInv, NumberInv, GivenInv

LEMMA BareGrows ==
  ASSUME NEW ms \in Seq(Bare), NEW m \in Bare
  PROVE  Append(ms, m) \in Seq(Bare)
BY AppendProperties

LEMMA ClientTurns ==
  ASSUME IInv, TurnsInv, NEW c \in Conversation,
         \/ \E t \in Prompt : UserSays(c, t)
         \/ ToolReturns(c)
         \/ \E i \in Users(talk[c]) : Rewind(c, i - 1)
  PROVE  TurnsInv'
<1>0. talk[c] \in Seq(Bare) /\ DOMAIN talk = Conversation /\ TalkOk(talk[c])
  BY DEF TurnsInv, BareInv, IInv, TalkInv
<1>1. ASSUME NEW t \in Prompt, UserSays(c, t) PROVE TurnsInv'
  <2> DEFINE m == User(t)
  <2>1. m \in Bare
    BY DEF User, System, Message, Bare, None
  <2>2. talk' = [talk EXCEPT ![c] = Append(talk[c], m)]
    BY <1>0, <1>1 DEF UserSays, Says
  <2>3. UNCHANGED <<pending, cache, answers, born>>
    BY <1>1 DEF UserSays, counts, history
  <2> HIDE DEF m
  <2> QED BY <1>0, <2>1, <2>2, <2>3, BareGrows, TurnsTalk
<1>2. ASSUME ToolReturns(c) PROVE TurnsInv'
  <2> DEFINE l == Last(talk[c])
             m == ToolResult(l.call)
  <2>1. l \in Message
    <3>1. Len(talk[c]) \in 1..Len(talk[c]) /\ talk[c] \in Seq(Message)
      BY <1>0, Elements DEF TalkOk
    <3> QED BY <3>1, Elements DEF Last
  <2>2. m \in Bare
    <3> HIDE DEF l
    <3>1. l.call \in Nat
      BY <2>1 DEF Message
    <3> QED BY <3>1 DEF ToolResult, System, Message, Bare, None
  <2>3. talk' = [talk EXCEPT ![c] = Append(talk[c], m)]
    BY <1>0, <1>2 DEF ToolReturns, Says, LastOf, Last
  <2>4. UNCHANGED <<pending, cache, answers, born>>
    BY <1>2 DEF ToolReturns, counts, history
  <2> HIDE DEF m
  <2> QED BY <1>0, <2>2, <2>3, <2>4, BareGrows, TurnsTalk
<1>3. ASSUME NEW i \in Users(talk[c]), Rewind(c, i - 1) PROVE TurnsInv'
  <2> DEFINE t == SubSeq(talk[c], 1, i - 1)
  <2>1. 1 \in 0..Len(talk[c]) /\ i - 1 \in 0..Len(talk[c]) /\ 1 <= 1
    BY <1>0, BareSeq DEF Users, Positions
  <2>2. t \in Seq(Bare)
    BY <1>0, <2>1, BareSeq
  <2>3. talk' = [talk EXCEPT ![c] = t]
    BY <1>0, <1>3 DEF Rewind
  <2>4. UNCHANGED <<pending, cache, answers, born>>
    BY <1>3 DEF Rewind, counts, history
  <2> HIDE DEF t
  <2> QED BY <2>2, <2>3, <2>4, TurnsTalk
<1> QED BY <1>1, <1>2, <1>3

LEMMA AskTurns ==
  ASSUME IInv, TurnsInv, NEW c \in Conversation, NEW ns, Ask(c, ns)
  PROVE  TurnsInv'
<1> DEFINE p == Prepared(talk[c], ns)
           request == [n |-> answers + 1, ns |-> ns, talk |-> talk[c],
                       messages |-> p.pass.messages, notice |-> p.notice, rounds |-> p.rounds]
           rejected == strategy = "reject" /\ p.pass.missing # {}
<1>1. GivenRightly(p.pass, ns, born)
  <2>1. TalkOk(talk[c]) /\ Last(talk[c]).role \in {"user", "tool"} /\ Sound(cache)
    BY DEF IInv, TalkInv, StoreInv, Ask, LastOf, Last
  <2>2. Sendable(talk[c], 1)
    BY <2>1, TalkSendable
  <2>3. talk[c] \in Seq(Bare) /\ Right(cache, born)
    BY DEF TurnsInv, BareInv, GivenInv
  <2> QED BY <2>1, <2>2, <2>3, PreparedGives
<1>2. /\ cache' = p.pass.cache /\ talk' = talk /\ born' = born
      /\ rejected => pending' = pending /\ answers' = answers
      /\ ~rejected => /\ pending' = [pending EXCEPT ![c] = @ \cup {request}]
                      /\ answers' = answers + 1
  BY DEF Ask
<1>3. request.n = answers + 1 /\ request.ns = ns /\ request.messages = p.pass.messages
  OBVIOUS
<1> HIDE DEF p, request, rejected
<1>4. answers \in Nat /\ DOMAIN pending = Conversation
  BY DEF IInv, StoreInv, PendingInv
<1>5. BareInv'
  BY <1>2 DEF TurnsInv, BareInv
<1>6. CASE rejected
  <2>1. NumberInv'
    BY <1>2, <1>6 DEF TurnsInv, NumberInv
  <2>2. GivenInv'
    BY <1>1, <1>2, <1>6 DEF TurnsInv, GivenInv, GivenRightly
  <2> QED BY <1>5, <2>1, <2>2 DEF TurnsInv
<1>7. CASE ~rejected
  <2>1. \A d \in Conversation : \A r \in pending'[d] :
          r \in pending[d] \/ (d = c /\ r = request)
    BY <1>2, <1>4, <1>7
  <2>2. \A d \in Conversation : \A r \in pending[d] :
          r.n \in 1..answers /\ r.n \notin DOMAIN born /\ r.n # request.n
    BY <1>3, <1>4 DEF TurnsInv, NumberInv
  <2>3. /\ DOMAIN born' \subseteq 1..answers' /\ 1..answers \subseteq 1..answers'
        /\ request.n \in 1..answers' /\ request.n \notin DOMAIN born'
    BY <1>2, <1>3, <1>4, <1>7 DEF TurnsInv, NumberInv
  <2>4. ASSUME NEW d \in Conversation, NEW r \in pending'[d]
        PROVE  r.n \in 1..answers' /\ r.n \notin DOMAIN born'
    BY <1>2, <2>1, <2>2, <2>3
  <2>5. ASSUME NEW d \in Conversation, NEW e \in Conversation, NEW r \in pending'[d],
               NEW q \in pending'[e], r.n = q.n
        PROVE  d = e /\ r = q
    BY <2>1, <2>2, <2>5 DEF TurnsInv, NumberInv
  <2>6. NumberInv'
    BY <2>3, <2>4, <2>5 DEF NumberInv
  <2>7. GivenAll(request.messages, request.ns, born)
    BY <1>1, <1>3 DEF GivenRightly
  <2>8. GivenInv'
    BY <1>1, <1>2, <2>1, <2>7 DEF TurnsInv, GivenInv, GivenRightly
  <2> QED BY <1>5, <2>6, <2>8 DEF TurnsInv
<1> QED BY <1>6, <1>7

(* An answer recorded later changes nothing about those before.              *)
LEMMA GivenMore ==
  ASSUME NEW b, NEW n, n \notin DOMAIN b, NEW rec, NEW v, NEW t, Given(v, t, b)
  PROVE  Given(v, t, With(b, {n}, rec))
BY DEF Given, With

LEMMA RightMore ==
  ASSUME NEW b, NEW n, n \notin DOMAIN b, NEW rec, NEW c, Right(c, b)
  PROVE  Right(c, With(b, {n}, rec))
BY GivenMore DEF Right

LEMMA GivenAllMore ==
  ASSUME NEW b, NEW n, n \notin DOMAIN b, NEW rec, NEW q, NEW ns, GivenAll(q, ns, b)
  PROVE  GivenAll(q, ns, With(b, {n}, rec))
BY GivenMore DEF GivenAll

(* The keys of an answer are about the turns it was asked for in.            *)
LEMMA AnswerKeysRight ==
  ASSUME NEW request, RequestOk(request), NEW m, NEW b,
         request.n \in DOMAIN b, b[request.n].ns = request.ns,
         b[request.n].contexts = Contexts(request), NEW k \in AnswerKeys(m, request)
  PROVE  Given(request.n, KeyTurn(k), b)
<1>1. PICK prior \in Contexts(request) :
        k \in ToSet(ScopedKeys(m, prior, request.ns) \o PortableKeys(m, prior, request.ns))
  BY DEF AnswerKeys
<1>2. \E s : Turnable(prior, s)
  <2>1. CASE prior = request.talk
    <3>1. Sendable(prior, 1)
      BY <2>1, TalkSendable DEF RequestOk
    <3> QED BY <3>1, SendableTurnable
  <2>2. CASE prior = request.messages
    <3>1. PICK s : Sendable(prior, s)
      BY <2>2 DEF RequestOk
    <3> QED BY <3>1, SendableTurnable
  <2> QED BY <2>1, <2>2 DEF Contexts
<1> DEFINE ns == request.ns
           keys == ScopedKeys(m, prior, ns) \o PortableKeys(m, prior, ns)
           T == {j \in KeySet("scope", Scope(prior, ns), m)
                         \cup KeySet("turn", <<ns, TurnContext(prior)>>, m) :
                   KeyTurn(j) = <<ns, SinceUser(prior)>>}
<1>3. keys \in Seq(T)
  BY <1>2, KeysOfTurn
<1>4. \A j \in T : KeyTurn(j) = <<ns, SinceUser(prior)>>
  OBVIOUS
<1>5. k \in ToSet(keys)
  BY <1>1
<1> HIDE DEF keys, T
<1>6. k \in T
  BY <1>3, <1>5, ElementOfSeq, LenProperties DEF ToSet
<1>7. KeyTurn(k) = <<b[request.n].ns, SinceUser(prior)>> /\ prior \in b[request.n].contexts
  BY <1>1, <1>4, <1>6
<1> QED BY <1>7 DEF Given

LEMMA AnswerTurns ==
  ASSUME IInv, TurnsInv, NEW c \in Conversation, NEW request \in pending[c],
         NEW withCall \in BOOLEAN, NEW arrives \in BOOLEAN, Answer(c, request, withCall, arrives)
  PROVE  TurnsInv'
<1> DEFINE m == Assistant(request.n, withCall, request.notice)
           n == request.n
           rec == [ns |-> request.ns, contexts |-> Contexts(request)]
           keys == AnswerKeys(m, request)
<1>1. /\ RequestOk(request) /\ n \in 1..answers /\ n \notin DOMAIN born
      /\ \A d \in Conversation : \A r \in pending[d] :
           r.n \in 1..answers /\ r.n \notin DOMAIN born /\ (r.n = n => d = c /\ r = request)
  BY DEF IInv, PendingInv, TurnsInv, NumberInv
<1>2. m \in Bare
  BY <1>1 DEF Assistant, Message, Bare, RequestOk, None
<1>3. /\ pending' = [pending EXCEPT ![c] = @ \ {request}] /\ answers' = answers
      /\ request.ns \in Disabled => cache' = cache /\ born' = born
      /\ request.ns \notin Disabled => cache' = With(cache, keys, n) /\ born' = With(born, {n}, rec)
      /\ talk' = talk \/ talk' = [talk EXCEPT ![c] = Append(talk[c], m)]
  BY DEF Answer, Recorded, Says, counts, IInv, TalkInv
<1>4. rec.ns = request.ns /\ rec.contexts = Contexts(request)
  OBVIOUS
<1> HIDE DEF m, rec, keys
<1>5. BareInv'
  <2>1. Append(talk[c], m) \in Seq(Bare)
    BY <1>2, BareGrows DEF TurnsInv, BareInv
  <2> QED BY <1>3, <2>1 DEF TurnsInv, BareInv, IInv, TalkInv
<1>6. \A d \in Conversation : \A r \in pending'[d] : r \in pending[d] /\ r.n # n
  BY <1>1, <1>3 DEF IInv, PendingInv
<1>7. DOMAIN born' \subseteq DOMAIN born \cup {n}
  BY <1>3 DEF With
<1>8. NumberInv'
  <2>1. DOMAIN born' \subseteq 1..answers'
    BY <1>1, <1>3, <1>7 DEF TurnsInv, NumberInv
  <2>2. \A d \in Conversation : \A r \in pending'[d] : r.n \in 1..answers' /\ r.n \notin DOMAIN born'
    BY <1>1, <1>3, <1>6, <1>7
  <2>3. \A d, e \in Conversation : \A r \in pending'[d] : \A q \in pending'[e] :
          r.n = q.n => d = e /\ r = q
    BY <1>6 DEF TurnsInv, NumberInv
  <2> QED BY <2>1, <2>2, <2>3 DEF NumberInv
<1>9. Right(cache, born) /\ \A d \in Conversation : \A r \in pending[d] : GivenAll(r.messages, r.ns, born)
  BY DEF TurnsInv, GivenInv
<1>10. GivenInv'
  <2>1. CASE request.ns \in Disabled
    BY <1>3, <1>6, <1>9, <2>1 DEF GivenInv
  <2>2. CASE request.ns \notin Disabled
    <3> DEFINE b == With(born, {n}, rec)
    <3>1. n \in DOMAIN b /\ b[n] = rec
      BY DEF With
    <3>2. Right(cache, b) /\ \A d \in Conversation : \A r \in pending[d] : GivenAll(r.messages, r.ns, b)
      BY <1>1, <1>9, RightMore, GivenAllMore
    <3>3. born' = b /\ cache' = With(cache, keys, n)
      BY <1>3, <2>2
    <3> HIDE DEF b
    <3>4. \A k \in keys : Given(n, KeyTurn(k), b)
      BY <1>1, <1>4, <3>1, AnswerKeysRight DEF keys
    <3> HIDE DEF n
    <3>5. Right(With(cache, keys, n), b)
      BY <3>2, <3>4, WithRight
    <3> QED BY <1>6, <3>2, <3>3, <3>5 DEF GivenInv
  <2> QED BY <2>1, <2>2
<1> QED BY <1>5, <1>8, <1>10 DEF TurnsInv

LEMMA TurnsNext == IInv /\ TurnsInv /\ [Next]_vars => TurnsInv'
<1> SUFFICES ASSUME IInv, TurnsInv, [Next]_vars PROVE TurnsInv'
  OBVIOUS
<1>1. ASSUME NEW c \in Conversation,
             \/ \E t \in Prompt : UserSays(c, t)
             \/ ToolReturns(c)
             \/ \E i \in Users(talk[c]) : Rewind(c, i - 1)
      PROVE  TurnsInv'
  BY <1>1, ClientTurns
<1>2. ASSUME NEW c \in Conversation, NEW ns \in Namespace[c], Ask(c, ns) PROVE TurnsInv'
  BY <1>2, AskTurns
<1>3. ASSUME NEW c \in Conversation, NEW request \in pending[c],
             NEW withCall \in BOOLEAN, NEW arrives \in BOOLEAN,
             Answer(c, request, withCall, arrives)
      PROVE  TurnsInv'
  BY <1>3, AnswerTurns
<1>4. ASSUME NEW c \in Conversation, NEW request \in pending[c], Fail(c, request) PROVE TurnsInv'
  <2>1. /\ pending' = [pending EXCEPT ![c] = @ \ {request}]
        /\ UNCHANGED <<talk, cache, answers, born>>
    BY <1>4 DEF Fail, counts, history
  <2>2. \A d \in Conversation : \A r \in pending'[d] : r \in pending[d]
    BY <2>1 DEF IInv, PendingInv
  <2>3. NumberInv'
    BY <2>1, <2>2 DEF TurnsInv, NumberInv
  <2>4. GivenInv'
    BY <2>1, <2>2 DEF TurnsInv, GivenInv
  <2> QED BY <2>1, <2>3, <2>4 DEF TurnsInv, BareInv
<1>5. CASE Lose
  <2>1. PICK gone : cache' = [k \in DOMAIN cache \ gone |-> cache[k]]
    BY <1>5 DEF Lose
  <2>2. UNCHANGED <<talk, pending, answers, born>>
    BY <1>5 DEF Lose
  <2>3. Right(cache', born)
    BY <2>1 DEF TurnsInv, GivenInv, Right
  <2>4. GivenInv'
    BY <2>2, <2>3 DEF TurnsInv, GivenInv
  <2> QED BY <2>2, <2>4 DEF TurnsInv, BareInv, NumberInv
<1>6. CASE UNCHANGED vars
  BY <1>6 DEF vars, counts, history, TurnsInv, BareInv, NumberInv, GivenInv
<1> QED BY <1>1, <1>2, <1>3, <1>4, <1>5, <1>6 DEF Next

(* The reasoning a message of a request is given, by whichever key, is that  *)
(* of an answer recorded in the namespace of the request, after the same     *)
(* newest user message and the same calls, results and answers since         *)
(* (normalize_message, the backfill of the portable keys,                    *)
(* turn_context_signature): whatever is lost, repeated or edited in between. *)
THEOREM ReasoningIsOfItsTurn == Spec => []RestoredIsOfThisTurn
<1>1. TurnsInv => RestoredIsOfThisTurn
  <2> SUFFICES ASSUME TurnsInv, NEW r \in Requests, NEW i \in Positions(r.messages),
                      r.messages[i].reasoning # None
               PROVE  Given(r.messages[i].reasoning,
                            <<r.ns, SinceUser(SubSeq(r.messages, 1, i - 1))>>, born)
    BY DEF RestoredIsOfThisTurn, Given
  <2>1. GivenAll(r.messages, r.ns, born)
    BY DEF Requests, TurnsInv, GivenInv
  <2> QED BY <2>1 DEF GivenAll, Positions
<1>2. Init => TurnsInv
  BY TurnsInit
<1>3. IInv /\ TurnsInv /\ [Next]_vars => TurnsInv'
  BY TurnsNext
<1> QED BY <1>1, <1>2, <1>3, Invariance, PTL DEF Spec

-----------------------------------------------------------------------------
(* Calls and their own reasoning.  The id of a call is the number of its     *)
(* answer.  Under the scoped signature of a call there is nothing else:      *)
(* nobody but its answer is recorded there, and backfilling writes portable  *)
(* keys only.                                                                *)
IsSigned(k) == k[1] = "scope" /\ k[3] = "signature" /\ k[4][3] # None
Signed(c) == \A k \in DOMAIN c : IsSigned(k) => c[k] = k[4][3]

(* The calls whose signature is in the store are given their own reasoning.  *)
GivenOwn(q, ns, c) ==
  \A i \in 1..Len(q) :
    /\ q[i].reasoning # None /\ q[i].call # None
    /\ SignatureKey(q[i], SubSeq(q, 1, i - 1), ns) \in DOMAIN c
    => q[i].reasoning = q[i].call

LEMMA SignatureIsSigned ==
  ASSUME NEW m, NEW prior, NEW ns, m.call # None
  PROVE  /\ IsSigned(SignatureKey(m, prior, ns))
         /\ SignatureKey(m, prior, ns)[4][3] = m.call
BY DEF IsSigned, SignatureKey

(* The keys of a message, by kind.                                           *)
LEMMA KeysByKind ==
  ASSUME NEW m, NEW prior, NEW ns, NEW k
  PROVE  /\ k \in ToSet(PortableKeys(m, prior, ns)) => ~IsSigned(k)
         /\ k \in ToSet(ScopedKeys(m, prior, ns) \o PortableKeys(m, prior, ns)) /\ IsSigned(k)
            => k[4][3] = m.call
<1> DEFINE S == KeySet("scope", Scope(prior, ns), m)
           P == KeySet("turn", <<ns, TurnContext(prior)>>, m)
           scoped == ScopedKeys(m, prior, ns)
           portable == PortableKeys(m, prior, ns)
<1>1. scoped \in Seq(S) /\ portable \in Seq(P)
  BY KeysOneContext DEF ScopedKeys, PortableKeys
<1>2. \A kind, context : \A j \in KeySet(kind, context, m) :
        j[1] = kind /\ (j[3] = "signature" => j[4] = <<m.text, m.notice, m.call>>)
  BY DEF KeySet
<1>3. (\A j \in S : IsSigned(j) => j[4][3] = m.call) /\ (\A j \in P : ~IsSigned(j))
  BY <1>2 DEF IsSigned
<1> HIDE DEF S, P, scoped, portable
<1>4. portable \in Seq(S \cup P) /\ scoped \in Seq(S \cup P)
  BY <1>1
<1>5. scoped \o portable \in Seq(S \cup P)
  BY <1>4, ConcatProperties
<1>6. \A T : \A x \in Seq(T) : \A j \in ToSet(x) : j \in T
  BY ElementOfSeq, LenProperties DEF ToSet
<1>7. k \in ToSet(portable) => k \in P
  BY <1>1, <1>6
<1>8. k \in ToSet(scoped \o portable) => k \in S \cup P
  BY <1>5, <1>6
<1> QED BY <1>3, <1>7, <1>8 DEF scoped, portable

(* One message.                                                              *)
NormalizedOwn(w, prior, ns, c) ==
  /\ Signed(w.cache)
  /\ \E x \in Message :
       /\ w.messages = Append(prior, x)
       /\ x.reasoning # None /\ x.call # None /\ SignatureKey(x, prior, ns) \in DOMAIN c
          => x.reasoning = x.call

LEMMA NormalizedGivesOwn ==
  ASSUME NEW st, Sound(st.cache), Signed(st.cache), NEW c, DOMAIN c \subseteq DOMAIN st.cache,
         NEW ns, NEW m \in Message, m.reasoning = None
  PROVE  NormalizedOwn(Normalized(st, m, ns), st.messages, ns, c)
<1> DEFINE prior == st.messages
           scoped == ScopedKeys(m, prior, ns)
           portable == PortableKeys(m, prior, ns)
           keys == scoped \o portable
           hits == {j \in Positions(keys) : keys[j] \in DOMAIN st.cache}
           lacks == m.role = "assistant" /\ m.reasoning = None /\ Needs(m, prior)
           hit == IF hits = {} THEN None ELSE st.cache[keys[Min(hits)]]
           x == IF lacks THEN [m EXCEPT !.reasoning = hit] ELSE m
           w == Normalized(st, m, ns)
           own == SignatureKey(m, prior, ns)
<1>1. /\ w.messages = Append(prior, x)
      /\ w.cache = IF lacks /\ hits # {} /\ Min(hits) <= Len(scoped)
                   THEN With(st.cache, ToSet(portable), hit) ELSE st.cache
  BY DEF Normalized
<1>2. Len(keys) \in Nat \ {0} /\ keys[1] = own
  BY KeyList
<1>3. \A k \in ToSet(portable) : ~IsSigned(k)
  BY KeysByKind
<1>4. m.call # None => IsSigned(own) /\ own[4][3] = m.call
  BY SignatureIsSigned
<1> HIDE DEF keys, portable, scoped, w, own
<1>5. hits \subseteq Nat /\ (hits # {} => Min(hits) \in hits /\ \A j \in hits : Min(hits) <= j)
  <2>1. hits \subseteq Nat
    BY DEF Positions
  <2> HIDE DEF hits
  <2> QED BY <2>1, MinOfHits
<1>6. own \in DOMAIN st.cache => hits # {} /\ Min(hits) = 1
  <2> SUFFICES ASSUME own \in DOMAIN st.cache PROVE hits # {} /\ Min(hits) = 1
    OBVIOUS
  <2>1. 1 \in hits /\ \A j \in hits : j >= 1
    BY <1>2 DEF Positions
  <2> HIDE DEF hits
  <2>2. Min(hits) <= 1 /\ Min(hits) >= 1 /\ Min(hits) \in Nat
    BY <1>5, <2>1
  <2> QED BY <2>1, <2>2
<1>7. own \in DOMAIN st.cache => hit = st.cache[own]
  <2> HIDE DEF hits
  <2> QED BY <1>2, <1>6
<1>8. own \in DOMAIN st.cache /\ m.call # None => hit = m.call
  BY <1>4, <1>7 DEF Signed
<1>9. hit \in Nat
  <2>1. hits # {} => keys[Min(hits)] \in DOMAIN st.cache
    BY <1>5
  <2> HIDE DEF hits
  <2> QED BY <2>1 DEF Sound, None
<1> HIDE DEF hit, lacks, hits
<1>10. x \in Message /\ x.text = m.text /\ x.notice = m.notice /\ x.call = m.call
       /\ (x.reasoning # None => lacks /\ x.reasoning = hit)
  BY <1>9 DEF Message
<1>11. SignatureKey(x, prior, ns) = own
  <2> HIDE DEF x
  <2> QED BY <1>10 DEF SignatureKey, own
<1> HIDE DEF x
<1>12. x.reasoning # None /\ x.call # None /\ SignatureKey(x, prior, ns) \in DOMAIN c
       => x.reasoning = x.call
  BY <1>8, <1>10, <1>11
<1>13. Signed(w.cache)
  <2> DEFINE ks == ToSet(portable)
  <2>1. \A k \in ks : ~IsSigned(k)
    BY <1>3
  <2> HIDE DEF ks
  <2>2. Signed(With(st.cache, ks, hit))
    BY <2>1 DEF Signed, With
  <2>3. w.cache = With(st.cache, ks, hit) \/ w.cache = st.cache
    BY <1>1 DEF ks
  <2> QED BY <2>2, <2>3
<1>14. NormalizedOwn(w, prior, ns, c)
  BY <1>1, <1>10, <1>12, <1>13 DEF NormalizedOwn
<1> QED BY <1>14 DEF w

LEMMA OwnAppend ==
  ASSUME NEW prior \in Seq(Message), NEW x \in Message, NEW ns, NEW c, GivenOwn(prior, ns, c),
         x.reasoning # None /\ x.call # None /\ SignatureKey(x, prior, ns) \in DOMAIN c
           => x.reasoning = x.call
  PROVE  GivenOwn(Append(prior, x), ns, c)
<1> DEFINE q == Append(prior, x)
           n == Len(prior)
<1>1. n \in Nat /\ Len(q) = n + 1 /\ q[n + 1] = x /\ \A i \in 1..n : q[i] = prior[i]
  BY Elements, AppendProperties
<1>2. \A i \in 0..n : SubSeq(q, 1, i) = SubSeq(prior, 1, i)
  BY PrefixOfAppend
<1>3. SubSeq(prior, 1, n) = prior
  <2>1. SubSeq(prior, 1, n) = [i \in 1..n |-> prior[i]] /\ DOMAIN prior = 1..n
    BY <1>1, Elements
  <2> QED BY <2>1
<1> HIDE DEF q, n
<1> SUFFICES ASSUME NEW i \in 1..(n + 1), q[i].reasoning # None, q[i].call # None,
                    SignatureKey(q[i], SubSeq(q, 1, i - 1), ns) \in DOMAIN c
             PROVE  q[i].reasoning = q[i].call
  BY <1>1 DEF GivenOwn, q
<1>4. i - 1 \in 0..n /\ SubSeq(q, 1, i - 1) = SubSeq(prior, 1, i - 1)
  <2>1. i - 1 \in 0..n
    BY <1>1
  <2> QED BY <1>2, <2>1
<1>5. CASE i \in 1..n
  <2>1. i \in 1..Len(prior) /\ q[i] = prior[i]
    BY <1>1, <1>5 DEF n
  <2> QED BY <1>4, <2>1 DEF GivenOwn
<1>6. CASE i = n + 1
  <2>1. i - 1 = n
    BY <1>1, <1>6
  <2> QED BY <1>1, <1>3, <1>4, <1>6, <2>1
<1> QED BY <1>1, <1>5, <1>6

(* What the store knows stays, so more calls get their own later on.         *)
LEMMA OwnLess ==
  ASSUME NEW q, NEW ns, NEW c, NEW d, GivenOwn(q, ns, d), DOMAIN c \subseteq DOMAIN d
  PROVE  GivenOwn(q, ns, c)
BY DEF GivenOwn

PassOwn(ms, c, ns, i) ==
  LET st == Pass(ms, c, ns)[i] IN Signed(st.cache) /\ GivenOwn(st.messages, ns, c)

LEMMA PassOwnStep ==
  ASSUME NEW ms, NEW s, Sendable(ms, s), ms \in Seq(Bare), NEW c, Sound(c), NEW ns,
         NEW i \in 1..Len(ms), PassOwn(ms, c, ns, i - 1)
  PROVE  PassOwn(ms, c, ns, i)
<1> DEFINE st == Pass(ms, c, ns)[i - 1]
           w == Pass(ms, c, ns)[i]
           m == ms[i]
<1>1. ms \in Seq(Message) /\ i - 1 \in 0..Len(ms) /\ m \in Message /\ m.reasoning = None
  <2>1. ms \in Seq(Message)
    BY DEF Sendable
  <2>2. m \in Bare
    BY ElementOfSeq, LenProperties
  <2>3. Len(ms) \in Nat
    BY <2>1, Elements
  <2> QED BY <2>1, <2>2, <2>3 DEF Bare
<1>2. w = Normalized(st, m, ns)
  BY <1>1, PassNext
<1>3. st.messages \in Seq(Message) /\ Sound(st.cache) /\ DOMAIN c \subseteq DOMAIN st.cache
  <2>1. PassInv(ms, c, ns, i - 1)
    BY <1>1, PassAlways
  <2> QED BY <2>1 DEF PassInv
<1>4. Signed(st.cache) /\ GivenOwn(st.messages, ns, c)
  BY DEF PassOwn
<1> HIDE DEF st, w, m
<1>5. NormalizedOwn(w, st.messages, ns, c)
  BY <1>1, <1>2, <1>3, <1>4, NormalizedGivesOwn
<1>6. PICK x \in Message :
        /\ w.messages = Append(st.messages, x)
        /\ x.reasoning # None /\ x.call # None /\ SignatureKey(x, st.messages, ns) \in DOMAIN c
           => x.reasoning = x.call
  BY <1>5 DEF NormalizedOwn
<1>7. GivenOwn(w.messages, ns, c)
  BY <1>3, <1>4, <1>6, OwnAppend
<1> QED BY <1>5, <1>7 DEF NormalizedOwn, PassOwn, w

OwnRightly(w, ns, c) == Signed(w.cache) /\ GivenOwn(w.messages, ns, c)

LEMMA PassGivesOwn ==
  ASSUME NEW ms, NEW s, Sendable(ms, s), ms \in Seq(Bare), NEW c, Sound(c), NEW ns, Signed(c)
  PROVE  OwnRightly(NormalizedAll(ms, c, ns), ns, c)
<1> DEFINE bad == {i \in 0..Len(ms) : ~PassOwn(ms, c, ns, i)}
<1>1. Len(ms) \in Nat /\ ms \in Seq(Message)
  BY Elements DEF Sendable
<1>2. PassOwn(ms, c, ns, 0)
  <2>1. Pass(ms, c, ns)[0] = [messages |-> <<>>, missing |-> {}, cache |-> c]
    BY <1>1, PassStart
  <2>2. Len(<<>>) = 0
    OBVIOUS
  <2> QED BY <2>1, <2>2 DEF PassOwn, GivenOwn
<1>3. ASSUME bad # {} PROVE FALSE
  <2>1. bad \subseteq Nat
    BY <1>1
  <2>2. PICK i \in bad : \A j \in bad : i <= j
    <3> HIDE DEF bad
    <3> QED BY <1>3, <2>1, Smallest
  <2>3. i \in 1..Len(ms) /\ i - 1 \in 0..Len(ms) /\ ~(i <= i - 1)
    BY <1>1, <1>2, <2>2
  <2>4. PassOwn(ms, c, ns, i - 1)
    BY <2>2, <2>3
  <2> QED BY <2>2, <2>3, <2>4, PassOwnStep
<1>4. PassOwn(ms, c, ns, Len(ms))
  <2>1. Len(ms) \in 0..Len(ms) /\ Len(ms) \notin bad
    BY <1>1, <1>3
  <2> QED BY <2>1
<1> QED BY <1>4 DEF OwnRightly, PassOwn, NormalizedAll

(* The same of a request: the first pass, the one after the last notice, and *)
(* that of the recovery.                                                     *)
LEMMA BegunGivesOwn ==
  ASSUME NEW ms, NEW s, Sendable(ms, s), ms \in Seq(Bare), Sound(cache), Signed(cache), NEW ns
  PROVE  OwnRightly(Begun(ms, ns), ns, cache)
<1> DEFINE first == NormalizedAll(ms, cache, ns)
           p == LastIn(Notices(ms))
           r == FromBoundary(ms, p).messages
           second == NormalizedAll(r, first.cache, ns)
           w == Begun(ms, ns)
<1>0. w = IF first.missing = {} \/ strategy = "reject" \/ p = 0 THEN first ELSE second
  BY DEF Begun, Notices
<1>1. OwnRightly(first, ns, cache) /\ PassOk(first, ms, cache, ns)
  BY PassGivesOwn, PassKeeps
<1>2. CASE w = first
  <2> HIDE DEF w, first
  <2> QED BY <1>1, <1>2 DEF w
<1>3. CASE p # 0 /\ w = second
  <2>1. p \in Notices(ms) /\ \A i \in Notices(ms) : i <= p
    <3>1. Len(ms) \in Nat /\ Notices(ms) \subseteq 0..Len(ms)
      BY BareSeq DEF Notices, Positions
    <3>2. Notices(ms) # {}
      BY <1>3 DEF LastIn
    <3> QED BY <3>1, <3>2, LastOfSet
  <2>2. p \in 1..Len(ms) /\ ms[p].role = "assistant"
    BY <2>1 DEF Notices, Positions, HasNotice
  <2> HIDE DEF p
  <2>3. Sendable(r, s + 1) /\ r \in Seq(Bare)
    BY <2>1, <2>2, BoundaryShape, BoundaryBare
  <2> HIDE DEF r, first
  <2>4. Sound(first.cache) /\ Signed(first.cache) /\ DOMAIN cache \subseteq DOMAIN first.cache
    BY <1>1 DEF PassOk, OwnRightly
  <2>5. OwnRightly(second, ns, first.cache)
    BY <2>3, <2>4, PassGivesOwn
  <2> HIDE DEF second, w
  <2>6. OwnRightly(second, ns, cache)
    BY <2>4, <2>5, OwnLess DEF OwnRightly
  <2> QED BY <1>3, <2>6 DEF w
<1> HIDE DEF w, first, second, p
<1> QED BY <1>0, <1>2, <1>3

LEMMA StartGivesOwn ==
  ASSUME NEW ms, NEW s, Sendable(ms, s), ms \in Seq(Bare), Sound(cache), Signed(cache), NEW ns
  PROVE  OwnRightly(Start(ms, ns), ns, cache)
<1> DEFINE start == Start(ms, ns)
<1>1. CASE ns \in Disabled
  <2>1. start = [messages |-> ms, missing |-> {}, cache |-> cache]
    BY <1>1 DEF Start
  <2> HIDE DEF start
  <2>2. start.messages = ms /\ start.cache = cache
    BY <2>1
  <2>3. \A i \in 1..Len(ms) : ms[i].reasoning = None
    BY BareSeq DEF Bare
  <2>4. OwnRightly(start, ns, cache)
    BY <2>2, <2>3 DEF OwnRightly, GivenOwn
  <2> QED BY <2>4 DEF start
<1>2. CASE ns \notin Disabled
  <2>1. start = Begun(ms, ns)
    BY <1>2 DEF Start
  <2>2. OwnRightly(Begun(ms, ns), ns, cache)
    BY BegunGivesOwn
  <2> HIDE DEF start
  <2>3. OwnRightly(start, ns, cache)
    BY <2>1, <2>2
  <2> QED BY <2>3 DEF start
<1> QED BY <1>1, <1>2

LEMMA PreparedGivesOwn ==
  ASSUME NEW ms, NEW s, Sendable(ms, s), ms \in Seq(Bare), Sound(cache), Signed(cache), NEW ns,
         NEW b, Right(cache, b)
  PROVE  OwnRightly(Prepared(ms, ns).pass, ns, cache)
<1> DEFINE start == Start(ms, ns)
           p == Prepared(ms, ns)
           a == Unrounded(ms, ns)
<1>1. /\ OneRound(p, ms, ns) /\ StartOk(start, ms, ns) /\ OwnRightly(start, ns, cache)
      /\ GivenRightly(start, ns, b)
  BY PreparedIs, StartFacts, StartGives, StartGivesOwn
<1>2. a.pass = start /\ a.notice = FALSE
  BY DEF Unrounded
<1> HIDE DEF start, p, a
<1>3. CASE strategy = "reject" \/ start.missing = {}
  <2>1. p = a
    BY <1>1, <1>3 DEF OneRound, start, a
  <2>2. OwnRightly(p.pass, ns, cache)
    BY <1>1, <1>2, <2>1
  <2> QED BY <2>2 DEF p
<1>4. CASE ~(strategy = "reject" \/ start.missing = {})
  <2> DEFINE q == start.messages
             w == NormalizedAll(Fresh(q), start.cache, ns)
  <2>1. PassOk(start, ms, cache, ns) /\ OneNotice(q) /\ start.missing # {}
    BY <1>1, <1>4 DEF StartOk
  <2>2. Refreshed(NextRound(a, 1, ms, ns), a, 1, ns)
    <3>1. /\ PassOk(a.pass, ms, cache, ns) /\ a.pass.missing # {} /\ OneNotice(a.pass.messages)
          /\ a.notice \in BOOLEAN
      BY <1>2, <2>1
    <3> QED BY <3>1, RoundIs
  <2>3. p.pass = w
    <3>1. p = NextRound(a, 1, ms, ns)
      BY <1>1, <1>4 DEF OneRound, start, a
    <3> QED BY <1>2, <2>2, <3>1 DEF Refreshed
  <2>4. Sound(start.cache) /\ Signed(start.cache) /\ Clean(q)
        /\ DOMAIN cache \subseteq DOMAIN start.cache
    BY <1>1, <2>1 DEF PassOk, GivenRightly, OwnRightly
  <2>5. PICK t : Sendable(q, t)
    BY <2>1 DEF PassOk
  <2> HIDE DEF q
  <2>6. Sendable(Fresh(q), t + 1) /\ Fresh(q) \in Seq(Bare)
    BY <2>4, <2>5, FreshShape, FreshBare DEF Fresh
  <2> DEFINE f == Fresh(q)
             d == start.cache
  <2>7. Sendable(f, t + 1) /\ f \in Seq(Bare) /\ Sound(d) /\ Signed(d)
    BY <2>4, <2>6
  <2>8. w = NormalizedAll(f, d, ns) /\ DOMAIN cache \subseteq DOMAIN d
    BY <2>4
  <2> HIDE DEF f, d, w
  <2>9. OwnRightly(w, ns, d)
    BY <2>7, <2>8, PassGivesOwn
  <2>10. OwnRightly(w, ns, cache)
    BY <2>8, <2>9, OwnLess DEF OwnRightly
  <2> QED BY <2>3, <2>10 DEF p
<1> QED BY <1>3, <1>4

-----------------------------------------------------------------------------
(* No request that is on its way has the number of a call in ms.             *)
Answered(ms, n, sent) ==
  \A i \in 1..Len(ms) : ms[i].call # None => ms[i].call \in 1..n /\ ms[i].call \notin sent

(* The calls of ms that were recorded are in the store, in their place.      *)
Kept(ms, c, b) ==
  \A i \in 1..Len(ms) :
    ms[i].role = "assistant" /\ ms[i].call # None /\ ms[i].call \in DOMAIN b
      => SignatureKey(ms[i], SubSeq(ms, 1, i - 1), b[ms[i].call].ns) \in DOMAIN c

Sent == {r.n : r \in Requests}

AnsweredInv ==
  \A c \in Conversation : /\ Answered(talk[c], answers, Sent)
                          /\ \A r \in pending[c] : Answered(r.talk, answers, Sent)
KeptInv == losses = 0 => \A c \in Conversation : Kept(talk[c], cache, born)
OwnInv ==
  losses \in Nat /\ Signed(cache) /\ AnsweredInv /\ KeptInv /\ CallsGetOwnReasoning

LEMMA AnsweredAppend ==
  ASSUME NEW ms \in Seq(Message), NEW m \in Message, NEW n, NEW sent, Answered(ms, n, sent),
         m.call # None => m.call \in 1..n /\ m.call \notin sent
  PROVE  Answered(Append(ms, m), n, sent)
<1> DEFINE t == Append(ms, m)
<1>1. Len(ms) \in Nat /\ Len(t) = Len(ms) + 1 /\ t[Len(ms) + 1] = m
      /\ \A i \in 1..Len(ms) : t[i] = ms[i]
  BY Elements, AppendProperties
<1> HIDE DEF t
<1>2. \A i \in 1..Len(t) : i \in 1..Len(ms) \/ i = Len(ms) + 1
  BY <1>1
<1>3. Answered(t, n, sent)
  BY <1>1, <1>2 DEF Answered
<1> QED BY <1>3 DEF t

LEMMA AnsweredPrefix ==
  ASSUME NEW ms \in Seq(Message), NEW k \in 0..Len(ms), NEW n, NEW sent, Answered(ms, n, sent)
  PROVE  Answered(SubSeq(ms, 1, k), n, sent)
<1> DEFINE t == SubSeq(ms, 1, k)
<1>1. Len(ms) \in Nat /\ Len(t) = k /\ \A i \in 1..k : t[i] = ms[i]
  BY Elements, Prefix
<1> HIDE DEF t
<1>2. \A i \in 1..Len(t) : i \in 1..Len(ms)
  BY <1>1
<1>3. Answered(t, n, sent)
  BY <1>1, <1>2 DEF Answered
<1> QED BY <1>3 DEF t

LEMMA AnsweredLater ==
  ASSUME NEW ms, NEW n \in Nat, NEW k \in Nat, n <= k, NEW sent, NEW more,
         more \subseteq sent \cup ((n + 1)..k), Answered(ms, n, sent)
  PROVE  Answered(ms, k, more)
<1> SUFFICES ASSUME NEW i \in 1..Len(ms), ms[i].call # None
             PROVE  ms[i].call \in 1..k /\ ms[i].call \notin more
  BY DEF Answered
<1>1. ms[i].call \in 1..n /\ ms[i].call \notin sent
  BY DEF Answered
<1> QED BY <1>1

LEMMA KeptAppend ==
  ASSUME NEW ms \in Seq(Message), NEW m \in Message, NEW c, NEW b, Kept(ms, c, b),
         m.role = "assistant" /\ m.call # None /\ m.call \in DOMAIN b
           => SignatureKey(m, ms, b[m.call].ns) \in DOMAIN c
  PROVE  Kept(Append(ms, m), c, b)
<1> DEFINE t == Append(ms, m)
<1>1. Len(ms) \in Nat /\ Len(t) = Len(ms) + 1 /\ t[Len(ms) + 1] = m
      /\ \A i \in 1..Len(ms) : t[i] = ms[i]
  BY Elements, AppendProperties
<1> SUFFICES ASSUME NEW j \in 1..Len(t), t[j].role = "assistant", t[j].call # None,
                    t[j].call \in DOMAIN b
             PROVE  SignatureKey(t[j], SubSeq(t, 1, j - 1), b[t[j].call].ns) \in DOMAIN c
  BY DEF Kept
<1>2. j - 1 \in 0..Len(ms)
  BY <1>1
<1>3. SubSeq(t, 1, j - 1) = SubSeq(ms, 1, j - 1)
  BY <1>2, PrefixOfAppend
<1> HIDE DEF t
<1>4. CASE j \in 1..Len(ms)
  BY <1>1, <1>3, <1>4 DEF Kept
<1>5. CASE j = Len(ms) + 1
  <2>1. SubSeq(ms, 1, j - 1) = ms
    <3>1. j - 1 = Len(ms)
      BY <1>1, <1>5
    <3>2. SubSeq(ms, 1, Len(ms)) = [i \in 1..Len(ms) |-> ms[i]]
      BY <1>1
    <3>3. DOMAIN ms = 1..Len(ms)
      BY Elements
    <3> QED BY <3>1, <3>2, <3>3
  <2> QED BY <1>1, <1>3, <1>5, <2>1
<1> QED BY <1>1, <1>4, <1>5

LEMMA KeptPrefix ==
  ASSUME NEW ms \in Seq(Message), NEW k \in 0..Len(ms), NEW c, NEW b, Kept(ms, c, b)
  PROVE  Kept(SubSeq(ms, 1, k), c, b)
<1> DEFINE t == SubSeq(ms, 1, k)
<1>1. Len(ms) \in Nat /\ Len(t) = k /\ \A i \in 1..k : t[i] = ms[i]
  BY Elements, Prefix
<1> SUFFICES ASSUME NEW j \in 1..k, t[j].role = "assistant", t[j].call # None,
                    t[j].call \in DOMAIN b
             PROVE  SignatureKey(t[j], SubSeq(t, 1, j - 1), b[t[j].call].ns) \in DOMAIN c
  BY <1>1 DEF Kept
<1>2. j - 1 \in 0..k /\ j \in 1..Len(ms)
  BY <1>1
<1>3. SubSeq(t, 1, j - 1) = SubSeq(ms, 1, j - 1)
  BY <1>2, PrefixOfPrefix
<1> HIDE DEF t
<1> QED BY <1>1, <1>2, <1>3 DEF Kept

(* A larger store, and an answer recorded that ms has no call of.            *)
LEMMA KeptMore ==
  ASSUME NEW ms, NEW c, NEW d, DOMAIN c \subseteq DOMAIN d, NEW b, Kept(ms, c, b)
  PROVE  Kept(ms, d, b)
BY DEF Kept

LEMMA KeptLater ==
  ASSUME NEW ms, NEW c, NEW b, Kept(ms, c, b), NEW n, NEW k, NEW sent, Answered(ms, k, sent),
         n \in sent, NEW rec
  PROVE  Kept(ms, c, With(b, {n}, rec))
<1> DEFINE e == With(b, {n}, rec)
<1>1. DOMAIN e = DOMAIN b \cup {n} /\ \A j \in DOMAIN b : j # n => e[j] = b[j]
  BY DEF With
<1> HIDE DEF e
<1>2. \A i \in 1..Len(ms) : ms[i].call # None => ms[i].call # n
  BY DEF Answered
<1>3. Kept(ms, c, e)
  BY <1>1, <1>2 DEF Kept
<1> QED BY <1>3 DEF e

(* Transcripts with one canonical form have the same signatures.             *)
LEMMA SameSignature ==
  ASSUME NEW p \in Seq(Message), NEW q \in Seq(Message), Canon(p) = Canon(q), NEW ns,
         NEW i \in 1..Len(p)
  PROVE  /\ i \in 1..Len(q) /\ p[i].role = q[i].role /\ p[i].call = q[i].call
         /\ SignatureKey(p[i], SubSeq(p, 1, i - 1), ns) = SignatureKey(q[i], SubSeq(q, 1, i - 1), ns)
<1>1. Len(p) \in Nat /\ Len(q) \in Nat
  BY Elements
<1>2. \A r : /\ DOMAIN Canon(r) = 1..Len(r)
             /\ \A j \in 1..Len(r) : Canon(r)[j] = Canonical(r[j])
  BY DEF Canon, Positions
<1>3. 1..Len(p) = 1..Len(q) /\ \A j \in 1..Len(p) : Canonical(p[j]) = Canonical(q[j])
  BY <1>2
<1>4. \A j \in 1..Len(p) : /\ p[j].role = q[j].role /\ p[j].call = q[j].call
                           /\ p[j].text = q[j].text /\ p[j].notice = q[j].notice
  <2>1. \A m, w \in Message : Canonical(m) = Canonical(w)
          => m.role = w.role /\ m.call = w.call /\ m.text = w.text /\ m.notice = w.notice
    BY DEF Canonical
  <2>2. \A j \in 1..Len(p) : p[j] \in Message /\ q[j] \in Message
    BY <1>3, Elements
  <2> QED BY <1>3, <2>1, <2>2
<1> DEFINE a == SubSeq(p, 1, i - 1)
           b == SubSeq(q, 1, i - 1)
<1>5. i - 1 \in 0..Len(p) /\ i - 1 \in 0..Len(q)
  BY <1>1, <1>3
<1>6. Len(a) = i - 1 /\ Len(b) = i - 1 /\ \A j \in 1..(i - 1) : a[j] = p[j] /\ b[j] = q[j]
  BY <1>5, Prefix
<1>7. \A j \in 1..(i - 1) : j \in 1..Len(p)
  BY <1>1
<1> HIDE DEF a, b
<1>8. Canon(a) = Canon(b)
  <2>1. \A j \in 1..(i - 1) : Canonical(a[j]) = Canonical(b[j])
    BY <1>3, <1>6, <1>7
  <2> QED BY <1>6, <2>1 DEF Canon, Positions
<1>9. SignatureKey(p[i], a, ns) = SignatureKey(q[i], b, ns)
  BY <1>4, <1>8 DEF SignatureKey, Scope
<1> QED BY <1>3, <1>4, <1>9 DEF a, b

LEMMA OwnInit == Init => OwnInv
<1> SUFFICES ASSUME Init PROVE OwnInv
  OBVIOUS
<1>1. \A c \in Conversation : talk[c] = <<System("prompt")>> /\ pending[c] = {}
  BY DEF Init
<1>2. \A c \in Conversation : Len(talk[c]) = 1 /\ talk[c][1].role = "system" /\ talk[c][1].call = None
  BY <1>1 DEF System
<1>3. AnsweredInv
  BY <1>1, <1>2 DEF AnsweredInv, Answered
<1>4. KeptInv
  BY <1>2 DEF KeptInv, Kept
<1>5. Requests = {}
  BY <1>1 DEF Requests
<1> QED BY <1>3, <1>4, <1>5 DEF Init, OwnInv, Signed, CallsGetOwnReasoning

(* Nothing but one transcript changes.                                       *)
LEMMA OwnTalk ==
  ASSUME IInv, OwnInv, NEW c \in Conversation, NEW t, Answered(t, answers, Sent),
         Kept(talk[c], cache, born) => Kept(t, cache, born),
         talk' = [talk EXCEPT ![c] = t], UNCHANGED <<pending, cache, answers, born, losses>>
  PROVE  OwnInv'
<1>1. Requests' = Requests /\ Sent' = Sent
  BY DEF Requests, Sent
<1>2. \A d \in Conversation : talk'[d] = talk[d] \/ (d = c /\ talk'[d] = t)
  BY DEF IInv, TalkInv
<1>3. AnsweredInv'
  BY <1>1, <1>2 DEF OwnInv, AnsweredInv
<1>4. KeptInv'
  BY <1>2 DEF OwnInv, KeptInv
<1>5. CallsGetOwnReasoning'
  BY <1>1 DEF OwnInv, CallsGetOwnReasoning, Mistaken
<1> QED BY <1>3, <1>4, <1>5 DEF OwnInv

LEMMA OwnSays ==
  ASSUME IInv, OwnInv, NEW c \in Conversation, NEW m \in Message, m.role # "assistant",
         m.call # None => m.call \in 1..answers /\ m.call \notin Sent,
         talk' = [talk EXCEPT ![c] = Append(talk[c], m)],
         UNCHANGED <<pending, cache, answers, born, losses>>
  PROVE  OwnInv'
<1> DEFINE t == Append(talk[c], m)
<1>1. talk[c] \in Seq(Message) /\ Answered(talk[c], answers, Sent)
  BY DEF IInv, TalkInv, TalkOk, OwnInv, AnsweredInv
<1>2. Answered(t, answers, Sent)
  BY <1>1, AnsweredAppend
<1>3. Kept(talk[c], cache, born) => Kept(t, cache, born)
  BY <1>1, KeptAppend
<1> HIDE DEF t
<1>4. talk' = [talk EXCEPT ![c] = t]
  BY DEF t
<1> QED BY <1>2, <1>3, <1>4, OwnTalk

LEMMA ClientOwn ==
  ASSUME IInv, OwnInv, NEW c \in Conversation,
         \/ \E t \in Prompt : UserSays(c, t)
         \/ ToolReturns(c)
         \/ \E i \in Users(talk[c]) : Rewind(c, i - 1)
  PROVE  OwnInv'
<1>0. /\ talk[c] \in Seq(Message) /\ DOMAIN talk = Conversation /\ TalkOk(talk[c])
      /\ Answered(talk[c], answers, Sent)
  BY DEF IInv, TalkInv, TalkOk, OwnInv, AnsweredInv
<1>1. ASSUME NEW t \in Prompt, UserSays(c, t) PROVE OwnInv'
  <2> DEFINE m == User(t)
  <2>1. m \in Message /\ m.role # "assistant" /\ m.call = None
    BY DEF User, System, Message, None
  <2>2. talk' = [talk EXCEPT ![c] = Append(talk[c], m)]
    BY <1>0, <1>1 DEF UserSays, Says
  <2>3. UNCHANGED <<pending, cache, answers, born, losses>>
    BY <1>1 DEF UserSays, counts, history
  <2> HIDE DEF m
  <2> QED BY <2>1, <2>2, <2>3, OwnSays
<1>2. ASSUME ToolReturns(c) PROVE OwnInv'
  <2> DEFINE l == Last(talk[c])
             m == ToolResult(l.call)
  <2>1. Len(talk[c]) \in 1..Len(talk[c])
    BY <1>0, Elements DEF TalkOk
  <2>2. l \in Message /\ (l.call # None => l.call \in 1..answers /\ l.call \notin Sent)
    <3>1. l = talk[c][Len(talk[c])]
      BY DEF Last
    <3> HIDE DEF l
    <3> QED BY <1>0, <2>1, <3>1, Elements DEF Answered
  <2>3. m \in Message /\ m.role # "assistant" /\ m.call = l.call
    <3> HIDE DEF l
    <3>1. l.call \in Nat
      BY <2>2 DEF Message
    <3> QED BY <3>1 DEF ToolResult, System, Message, None
  <2>4. talk' = [talk EXCEPT ![c] = Append(talk[c], m)]
    BY <1>0, <1>2 DEF ToolReturns, Says, LastOf, Last
  <2>5. UNCHANGED <<pending, cache, answers, born, losses>>
    BY <1>2 DEF ToolReturns, counts, history
  <2> HIDE DEF m, l
  <2> QED BY <2>2, <2>3, <2>4, <2>5, OwnSays
<1>3. ASSUME NEW i \in Users(talk[c]), Rewind(c, i - 1) PROVE OwnInv'
  <2> DEFINE t == SubSeq(talk[c], 1, i - 1)
  <2>1. i - 1 \in 0..Len(talk[c])
    <3>1. Len(talk[c]) \in Nat
      BY <1>0, Elements
    <3> QED BY <3>1 DEF Users, Positions
  <2>2. Answered(t, answers, Sent)
    BY <1>0, <2>1, AnsweredPrefix
  <2>3. Kept(talk[c], cache, born) => Kept(t, cache, born)
    BY <1>0, <2>1, KeptPrefix
  <2>4. talk' = [talk EXCEPT ![c] = t]
    BY <1>0, <1>3 DEF Rewind
  <2>5. UNCHANGED <<pending, cache, answers, born, losses>>
    BY <1>3 DEF Rewind, counts, history
  <2> HIDE DEF t
  <2> QED BY <2>2, <2>3, <2>4, <2>5, OwnTalk
<1> QED BY <1>1, <1>2, <1>3

(* A request prepared from a transcript whose calls are in the store.        *)
LEMMA AskedOwn ==
  ASSUME NEW r, NEW ms \in Seq(Message), r.messages \in Seq(Message), r.talk = ms,
         Clean(r.messages), GivenOwn(r.messages, r.ns, cache),
         losses = 0 => Kept(ms, cache, born), Canon(r.messages) = Canon(r.talk),
         NEW i \in Positions(r.messages)
  PROVE  ~Mistaken(r, i)
<1> DEFINE q == r.messages
           m == q[i]
<1> SUFFICES ASSUME m.call # None, m.reasoning \notin {None, m.call}, losses = 0,
                    m.call \in DOMAIN born, born[m.call].ns = r.ns
             PROVE  FALSE
  BY DEF Mistaken
<1>1. q \in Seq(Message) /\ i \in 1..Len(q) /\ Canon(q) = Canon(ms)
  BY DEF Positions
<1>2. m.role = "assistant"
  BY <1>1 DEF Clean
<1> HIDE DEF q
<1>3. /\ i \in 1..Len(ms) /\ q[i].role = ms[i].role /\ q[i].call = ms[i].call
      /\ SignatureKey(q[i], SubSeq(q, 1, i - 1), r.ns) = SignatureKey(ms[i], SubSeq(ms, 1, i - 1), r.ns)
  BY <1>1, SameSignature
<1>4. SignatureKey(q[i], SubSeq(q, 1, i - 1), r.ns) \in DOMAIN cache
  BY <1>2, <1>3 DEF Kept
<1>5. m.reasoning = m.call
  BY <1>1, <1>4 DEF GivenOwn, q
<1> QED BY <1>5

LEMMA AskOwn ==
  ASSUME IInv, TurnsInv, OwnInv, NEW c \in Conversation, NEW ns, Ask(c, ns)
  PROVE  OwnInv'
<1> DEFINE p == Prepared(talk[c], ns)
           request == [n |-> answers + 1, ns |-> ns, talk |-> talk[c],
                       messages |-> p.pass.messages, notice |-> p.notice, rounds |-> p.rounds]
           rejected == strategy = "reject" /\ p.pass.missing # {}
<1>1. /\ GivenRightly(p.pass, ns, born) /\ OwnRightly(p.pass, ns, cache)
      /\ p.pass.messages \in Seq(Message) /\ DOMAIN cache \subseteq DOMAIN p.pass.cache
  <2>1. TalkOk(talk[c]) /\ Last(talk[c]).role \in {"user", "tool"} /\ Sound(cache)
    BY DEF IInv, TalkInv, StoreInv, Ask, LastOf, Last
  <2>2. Sendable(talk[c], 1)
    BY <2>1, TalkSendable
  <2>3. talk[c] \in Seq(Bare) /\ Right(cache, born) /\ Signed(cache)
    BY DEF TurnsInv, BareInv, GivenInv, OwnInv
  <2>4. PreparedOk(p, talk[c], ns)
    BY <2>1, <2>2, PreparedFacts
  <2> HIDE DEF p
  <2>5. p.pass.messages \in Seq(Message) /\ DOMAIN cache \subseteq DOMAIN p.pass.cache
    BY <2>4 DEF PreparedOk, PassOk, Sendable
  <2>6. GivenRightly(p.pass, ns, born) /\ OwnRightly(p.pass, ns, cache)
    BY <2>1, <2>2, <2>3, PreparedGives, PreparedGivesOwn DEF p
  <2> QED BY <2>5, <2>6
<1>2. /\ cache' = p.pass.cache /\ talk' = talk /\ born' = born /\ losses' = losses
      /\ rejected => pending' = pending /\ answers' = answers
      /\ ~rejected => /\ pending' = [pending EXCEPT ![c] = @ \cup {request}]
                      /\ answers' = answers + 1
  BY DEF Ask
<1>3. /\ request.n = answers + 1 /\ request.ns = ns /\ request.messages = p.pass.messages
      /\ request.talk = talk[c]
  OBVIOUS
<1> HIDE DEF p, request, rejected
<1>4. answers \in Nat /\ DOMAIN pending = Conversation /\ talk[c] \in Seq(Message)
  BY DEF IInv, StoreInv, PendingInv, TalkInv, TalkOk
<1>5. Signed(cache') /\ DOMAIN cache \subseteq DOMAIN cache'
  BY <1>1, <1>2 DEF OwnRightly
<1>6. KeptInv'
  BY <1>2, <1>5, KeptMore DEF OwnInv, KeptInv
<1>7. CASE rejected
  <2>1. Requests' = Requests /\ Sent' = Sent
    BY <1>2, <1>7 DEF Requests, Sent
  <2>2. AnsweredInv'
    BY <1>2, <1>7, <2>1 DEF OwnInv, AnsweredInv
  <2>3. CallsGetOwnReasoning'
    BY <1>2, <2>1 DEF OwnInv, CallsGetOwnReasoning, Mistaken
  <2> QED BY <1>2, <1>5, <1>6, <2>2, <2>3 DEF OwnInv
<1>8. CASE ~rejected
  <2>1. \A d \in Conversation : \A r \in pending'[d] :
          r \in pending[d] \/ (d = c /\ r = request)
    BY <1>2, <1>4, <1>8
  <2>2. \A r \in Requests' : r \in Requests \/ r = request
    BY <2>1 DEF Requests
  <2>3. Sent' \subseteq Sent \cup ((answers + 1)..answers')
    <3>1. request.n \in (answers + 1)..answers'
      BY <1>2, <1>3, <1>4, <1>8
    <3> QED BY <2>2, <3>1 DEF Sent
  <2>4. \A ms : Answered(ms, answers, Sent) => Answered(ms, answers', Sent')
    <3>1. answers' \in Nat /\ answers <= answers'
      BY <1>2, <1>4, <1>8
    <3> QED BY <1>4, <2>3, <3>1, AnsweredLater
  <2>5. AnsweredInv'
    BY <1>2, <1>3, <2>1, <2>4 DEF OwnInv, AnsweredInv
  <2>6. \A r, i : Mistaken(r, i)' <=> Mistaken(r, i)
    BY <1>2 DEF Mistaken
  <2>7. ASSUME NEW i \in Positions(request.messages), Canon(request.messages) = Canon(request.talk)
        PROVE  ~Mistaken(request, i)
    <3>1. losses = 0 => Kept(talk[c], cache, born)
      BY DEF OwnInv, KeptInv
    <3>2. Clean(request.messages) /\ GivenOwn(request.messages, request.ns, cache)
      BY <1>1, <1>3 DEF GivenRightly, OwnRightly
    <3> QED BY <1>1, <1>3, <1>4, <2>7, <3>1, <3>2, AskedOwn
  <2>8. CallsGetOwnReasoning'
    BY <2>2, <2>6, <2>7 DEF OwnInv, CallsGetOwnReasoning
  <2> QED BY <1>2, <1>5, <1>6, <2>5, <2>8 DEF OwnInv
<1> QED BY <1>7, <1>8

(* The keys of an answer: its signatures are its own.                        *)
LEMMA AnswerKeysSigned ==
  ASSUME NEW m, NEW request, NEW k \in AnswerKeys(m, request), IsSigned(k)
  PROVE  k[4][3] = m.call
<1>1. PICK prior \in Contexts(request) :
        k \in ToSet(ScopedKeys(m, prior, request.ns) \o PortableKeys(m, prior, request.ns))
  BY DEF AnswerKeys
<1> QED BY <1>1, KeysByKind

LEMMA AnswerOwn ==
  ASSUME IInv, TurnsInv, OwnInv, NEW c \in Conversation, NEW request \in pending[c],
         NEW withCall \in BOOLEAN, NEW arrives \in BOOLEAN, Answer(c, request, withCall, arrives)
  PROVE  OwnInv'
<1> DEFINE n == request.n
           m == Assistant(n, withCall, request.notice)
           rec == [ns |-> request.ns, contexts |-> Contexts(request)]
           keys == AnswerKeys(m, request)
<1>1. /\ RequestOk(request) /\ n \in 1..answers /\ n \notin DOMAIN born /\ n \in Sent
      /\ \A d \in Conversation : \A r \in pending[d] : r.n = n => d = c /\ r = request
  BY DEF IInv, PendingInv, TurnsInv, NumberInv, Sent, Requests
<1>2. m \in Message /\ m.call \in {None, n} /\ n # None
  BY <1>1 DEF Assistant, Message, RequestOk, None
<1>3. /\ pending' = [pending EXCEPT ![c] = @ \ {request}] /\ answers' = answers
      /\ losses' = losses
      /\ request.ns \in Disabled => cache' = cache /\ born' = born
      /\ request.ns \notin Disabled => cache' = With(cache, keys, n) /\ born' = With(born, {n}, rec)
      /\ \/ talk' = talk
         \/ talk[c] = request.talk /\ talk' = [talk EXCEPT ![c] = Append(talk[c], m)]
  BY DEF Answer, Recorded, Says, counts, IInv, TalkInv
<1>4. rec.ns = request.ns
  OBVIOUS
<1> HIDE DEF m, rec, keys
<1>5. \A d \in Conversation : \A r \in pending'[d] : r \in pending[d] /\ r.n # n
  BY <1>1, <1>3 DEF IInv, PendingInv
<1>6. Requests' \subseteq Requests /\ Sent' \subseteq Sent /\ n \notin Sent'
  BY <1>5 DEF Requests, Sent
<1>7. DOMAIN cache' = DOMAIN cache \/ (request.ns \notin Disabled /\ DOMAIN cache' = DOMAIN cache \cup keys)
  BY <1>3 DEF With
<1>8. Signed(cache')
  <2>1. CASE request.ns \in Disabled
    BY <1>3, <2>1 DEF OwnInv
  <2>2. CASE request.ns \notin Disabled
    <3>1. \A k \in keys : IsSigned(k) => k[4][3] = n
      <4> TAKE k \in keys
      <4>1. IsSigned(k) => k[4][3] = m.call /\ k[4][3] # None
        BY AnswerKeysSigned DEF keys, IsSigned
      <4> QED BY <1>2, <4>1
    <3>2. Signed(With(cache, keys, n))
      <4> HIDE DEF n
      <4> QED BY <3>1 DEF OwnInv, Signed, With
    <3> QED BY <1>3, <2>2, <3>2
  <2> QED BY <2>1, <2>2
<1>9. \A ms : Answered(ms, answers, Sent) => Answered(ms, answers', Sent')
  BY <1>3, <1>6 DEF Answered
<1>10. \A d \in Conversation : talk'[d] = talk[d]
         \/ (d = c /\ talk[c] = request.talk /\ talk'[d] = Append(talk[c], m))
  BY <1>3 DEF IInv, TalkInv
<1>11. talk[c] \in Seq(Message)
  BY DEF IInv, TalkInv, TalkOk
<1>12. AnsweredInv'
  <2>1. ASSUME NEW d \in Conversation PROVE Answered(talk'[d], answers', Sent')
    <3>1. Answered(talk[d], answers', Sent')
      BY <1>9 DEF OwnInv, AnsweredInv
    <3>2. m.call # None => m.call \in 1..answers' /\ m.call \notin Sent'
      BY <1>1, <1>2, <1>3, <1>6
    <3>3. d = c => Answered(Append(talk[c], m), answers', Sent')
      BY <1>2, <1>11, <3>1, <3>2, AnsweredAppend
    <3> QED BY <1>10, <3>1, <3>3
  <2>2. ASSUME NEW d \in Conversation, NEW r \in pending'[d]
        PROVE  Answered(r.talk, answers', Sent')
    BY <1>5, <1>9 DEF OwnInv, AnsweredInv
  <2> QED BY <2>1, <2>2 DEF AnsweredInv
<1>13. KeptInv'
  <2> SUFFICES ASSUME losses = 0, NEW d \in Conversation PROVE Kept(talk'[d], cache', born')
    BY <1>3 DEF KeptInv
  <2>1. Kept(talk[d], cache', born')
    <3>1. Kept(talk[d], cache, born) /\ Answered(talk[d], answers, Sent)
      BY DEF OwnInv, KeptInv, AnsweredInv
    <3>2. Kept(talk[d], cache, born')
      <4>1. Kept(talk[d], cache, With(born, {n}, rec))
        <5> HIDE DEF n
        <5> QED BY <1>1, <3>1, KeptLater
      <4> QED BY <1>3, <3>1, <4>1
    <3> QED BY <1>7, <3>2, KeptMore
  <2>2. ASSUME d = c, talk[c] = request.talk
        PROVE  Kept(Append(talk[c], m), cache', born')
    <3>1. ASSUME m.call # None, m.call \in DOMAIN born'
          PROVE  SignatureKey(m, talk[c], born'[m.call].ns) \in DOMAIN cache'
      <4>1. m.call = n
        BY <1>2, <3>1
      <4>2. request.ns \notin Disabled
        BY <1>1, <1>3, <3>1, <4>1
      <4>3. born'[n] = rec
        <5> HIDE DEF n
        <5> QED BY <1>3, <4>2 DEF With
      <4>4. DOMAIN cache' = DOMAIN cache \cup keys
        BY <1>3, <4>2 DEF With
      <4>5. SignatureKey(m, request.talk, request.ns) \in keys
        BY AnswerIsRecorded DEF keys
      <4> QED BY <1>4, <2>2, <4>1, <4>3, <4>4, <4>5
    <3>2. Kept(talk[c], cache', born')
      BY <2>1, <2>2
    <3> DEFINE t == talk[c]
               s == cache'
               b == born'
    <3>3. /\ t \in Seq(Message) /\ Kept(t, s, b)
          /\ m.role = "assistant" /\ m.call # None /\ m.call \in DOMAIN b
               => SignatureKey(m, t, b[m.call].ns) \in DOMAIN s
      BY <1>11, <3>1, <3>2
    <3> HIDE DEF t, s, b
    <3>4. Kept(Append(t, m), s, b)
      BY <1>2, <3>3, KeptAppend
    <3> QED BY <3>4 DEF t, s, b
  <2> QED BY <1>10, <2>1, <2>2
<1>14. CallsGetOwnReasoning'
  <2> SUFFICES ASSUME NEW r \in Requests', Canon(r.messages) = Canon(r.talk),
                      NEW i \in Positions(r.messages), Mistaken(r, i)'
               PROVE  FALSE
    BY DEF CallsGetOwnReasoning
  <2>1. r \in Requests /\ ~Mistaken(r, i)
    BY <1>6 DEF OwnInv, CallsGetOwnReasoning
  <2>2. r.messages \in Seq(Message) /\ r.talk \in Seq(Message) /\ Answered(r.talk, answers, Sent)
    <3>1. RequestOk(r) /\ Answered(r.talk, answers, Sent)
      BY <2>1, RequestsOk DEF Requests, OwnInv, AnsweredInv
    <3> QED BY <3>1 DEF RequestOk, TalkOk, Sendable
  <2> DEFINE x == r.messages[i].call
  <2>3. x # None /\ x \in DOMAIN born' /\ born'[x].ns = r.ns /\ losses = 0
        /\ r.messages[i].reasoning \notin {None, x}
    BY <1>3 DEF Mistaken
  <2>4. x # n
    <3>1. i \in 1..Len(r.talk) /\ r.messages[i].call = r.talk[i].call
      BY <2>2, SameSignature DEF Positions
    <3> QED BY <1>1, <2>2, <2>3, <3>1 DEF Answered
  <2>5. x \in DOMAIN born /\ born[x].ns = r.ns
    <3> HIDE DEF x, n
    <3>1. born' = born \/ born' = With(born, {n}, rec)
      BY <1>3
    <3> QED BY <2>3, <2>4, <3>1 DEF With
  <2> QED BY <2>1, <2>3, <2>5 DEF Mistaken
<1> QED BY <1>3, <1>8, <1>12, <1>13, <1>14 DEF OwnInv

LEMMA LoseOwn ==
  ASSUME OwnInv, Lose
  PROVE  OwnInv'
<1>1. PICK gone : cache' = [k \in DOMAIN cache \ gone |-> cache[k]]
  BY DEF Lose
<1>2. UNCHANGED <<talk, pending, answers, born>> /\ losses' = losses + 1
  BY DEF Lose
<1>3. losses' \in Nat /\ losses' # 0
  BY <1>2 DEF OwnInv
<1>4. Signed(cache')
  BY <1>1 DEF OwnInv, Signed
<1>5. AnsweredInv'
  <2>1. Sent' = Sent
    BY <1>2 DEF Sent, Requests
  <2> QED BY <1>2, <2>1 DEF OwnInv, AnsweredInv
<1>6. KeptInv' /\ CallsGetOwnReasoning'
  BY <1>3 DEF KeptInv, CallsGetOwnReasoning, Mistaken
<1> QED BY <1>3, <1>4, <1>5, <1>6 DEF OwnInv

LEMMA OwnNext == IInv /\ TurnsInv /\ OwnInv /\ [Next]_vars => OwnInv'
<1> SUFFICES ASSUME IInv, TurnsInv, OwnInv, [Next]_vars PROVE OwnInv'
  OBVIOUS
<1>1. ASSUME NEW c \in Conversation,
             \/ \E t \in Prompt : UserSays(c, t)
             \/ ToolReturns(c)
             \/ \E i \in Users(talk[c]) : Rewind(c, i - 1)
      PROVE  OwnInv'
  BY <1>1, ClientOwn
<1>2. ASSUME NEW c \in Conversation, NEW ns \in Namespace[c], Ask(c, ns) PROVE OwnInv'
  BY <1>2, AskOwn
<1>3. ASSUME NEW c \in Conversation, NEW request \in pending[c],
             NEW withCall \in BOOLEAN, NEW arrives \in BOOLEAN,
             Answer(c, request, withCall, arrives)
      PROVE  OwnInv'
  BY <1>3, AnswerOwn
<1>4. ASSUME NEW c \in Conversation, NEW request \in pending[c], Fail(c, request) PROVE OwnInv'
  <2>1. /\ pending' = [pending EXCEPT ![c] = @ \ {request}]
        /\ UNCHANGED <<talk, cache, answers, born, losses>>
    BY <1>4 DEF Fail, counts, history
  <2>2. \A d \in Conversation : \A r \in pending'[d] : r \in pending[d]
    BY <2>1 DEF IInv, PendingInv
  <2>3. Requests' \subseteq Requests /\ Sent' \subseteq Sent
    BY <2>2 DEF Requests, Sent
  <2>4. AnsweredInv'
    BY <2>1, <2>2, <2>3 DEF OwnInv, AnsweredInv, Answered
  <2>5. CallsGetOwnReasoning'
    BY <2>1, <2>3 DEF OwnInv, CallsGetOwnReasoning, Mistaken
  <2> QED BY <2>1, <2>4, <2>5 DEF OwnInv, KeptInv
<1>5. CASE Lose
  BY <1>5, LoseOwn
<1>6. CASE UNCHANGED vars
  BY <1>6 DEF vars, counts, history, OwnInv, AnsweredInv, KeptInv, CallsGetOwnReasoning,
              Mistaken, Requests, Sent
<1> QED BY <1>1, <1>2, <1>3, <1>4, <1>5, <1>6 DEF Next

(* In a request sent with its whole history every tool call that is given    *)
(* reasoning is given its own, if it was recorded in the request's namespace *)
(* and nothing was lost: its signature in the client's transcript is the     *)
(* first key, and only its own answer was ever recorded there                *)
(* (store_assistant_message, reasoning_lookup_keys, backfill_portable_aliases).*)
THEOREM CallsKeepTheirReasoning == Spec => []CallsGetOwnReasoning
<1>1. Init => TurnsInv /\ OwnInv
  BY TurnsInit, OwnInit
<1>2. IInv /\ TurnsInv /\ OwnInv /\ [Next]_vars => TurnsInv' /\ OwnInv'
  BY TurnsNext, OwnNext
<1>3. OwnInv => CallsGetOwnReasoning
  BY DEF OwnInv
<1> QED BY <1>1, <1>2, <1>3, Invariance, PTL DEF Spec

-----------------------------------------------------------------------------
(* An assistant message that needs reasoning is found under one of its keys. *)
HasKey(m, prior, ns, c) ==
  \E k \in ToSet(ScopedKeys(m, prior, ns) \o PortableKeys(m, prior, ns)) : k \in DOMAIN c
Found(ms, c, ns) ==
  \A i \in 1..Len(ms) :
    ms[i].role = "assistant" /\ Needs(ms[i], SubSeq(ms, 1, i - 1))
      => HasKey(ms[i], SubSeq(ms, 1, i - 1), ns, c)

TurnKey(m, prior, ns) ==
  <<"turn", <<ns, TurnContext(prior)>>, "signature", <<m.text, m.notice, m.call>>>>

LEMMA HasKeyMore ==
  ASSUME NEW m, NEW prior, NEW ns, NEW c, NEW d, DOMAIN c \subseteq DOMAIN d,
         HasKey(m, prior, ns, c)
  PROVE  HasKey(m, prior, ns, d)
BY DEF HasKey

LEMMA FoundMore ==
  ASSUME NEW ms, NEW ns, NEW c, NEW d, DOMAIN c \subseteq DOMAIN d, Found(ms, c, ns)
  PROVE  Found(ms, d, ns)
BY HasKeyMore DEF Found

(* The keys of a message: its signature in the scope, and in the turn.       *)
LEMMA TurnKeyIsKey ==
  ASSUME NEW m, NEW prior, NEW ns
  PROVE  TurnKey(m, prior, ns) \in ToSet(ScopedKeys(m, prior, ns) \o PortableKeys(m, prior, ns))
<1> DEFINE s == ScopedKeys(m, prior, ns)
           p == PortableKeys(m, prior, ns)
           S == KeySet("scope", Scope(prior, ns), m)
           P == KeySet("turn", <<ns, TurnContext(prior)>>, m)
           T == S \cup P
           x == TurnKey(m, prior, ns)
           y == <<"turn", <<ns, TurnContext(prior)>>, "tool_call", <<m.call>>>>
           z == <<"turn", <<ns, TurnContext(prior)>>, "tool_name", <<>>>>
<1>1. s \in Seq(S) /\ p \in Seq(P)
  BY KeysOneContext DEF ScopedKeys, PortableKeys
<1>2. p = <<x>> \o (IF m.call = None THEN <<>> ELSE <<y, z>>)
  BY DEF PortableKeys, KeysIn, TurnKey
<1>3. x \in P /\ y \in P /\ z \in P
  BY DEF KeySet, TurnKey
<1> HIDE DEF s, p, S, P, x, y, z
<1>4. s \in Seq(T) /\ p \in Seq(T)
  <2>1. \A A, B : A \subseteq B => Seq(A) \subseteq Seq(B)
    OBVIOUS
  <2> QED BY <1>1, <2>1
<1>5. Len(p) \in Nat \ {0} /\ p[1] = x
  <2> DEFINE rest == IF m.call = None THEN <<>> ELSE <<y, z>>
  <2>1. <<x>> \in Seq(P) /\ rest \in Seq(P) /\ Len(<<x>>) = 1 /\ <<x>>[1] = x
    BY <1>3
  <2> HIDE DEF rest
  <2>2. Len(<<x>> \o rest) = Len(<<x>>) + Len(rest) /\ (<<x>> \o rest)[1] = <<x>>[1]
        /\ Len(rest) \in Nat
    BY <2>1, ConcatProperties, LenProperties
  <2> QED BY <1>2, <2>1, <2>2 DEF rest
<1> HIDE DEF T
<1>6. s \o p \in Seq(T) /\ Len(s \o p) = Len(s) + Len(p) /\ Len(s) \in Nat
  BY <1>4, ConcatProperties, LenProperties
<1>7. Len(s) + 1 \in 1..(Len(s) + Len(p)) /\ ~(Len(s) + 1 <= Len(s))
  BY <1>5, <1>6
<1>8. (s \o p)[Len(s) + 1] = p[Len(s) + 1 - Len(s)] /\ Len(s) + 1 - Len(s) = 1
  BY <1>4, <1>6, <1>7, ConcatProperties
<1>9. Len(s) + 1 \in DOMAIN (s \o p)
  BY <1>6, <1>7, LenProperties
<1>10. x \in ToSet(s \o p)
  BY <1>5, <1>8, <1>9 DEF ToSet
<1> QED BY <1>10 DEF s, p, x

LEMMA SignatureHas ==
  ASSUME NEW m, NEW prior, NEW ns, NEW c, SignatureKey(m, prior, ns) \in DOMAIN c
  PROVE  HasKey(m, prior, ns, c)
BY KeyList DEF HasKey

(* What one reads of a transcript depends on no reasoning.                   *)
LEMMA CanonContext ==
  ASSUME NEW p, NEW s, Turnable(p, s), NEW q \in Seq(Message), Canon(p) = Canon(q)
  PROVE  TurnContext(p) = TurnContext(q)
<1>1. p \in Seq(Message) /\ Len(p) \in Nat /\ Len(q) \in Nat
  BY Elements DEF Turnable
<1>2. \A r : /\ DOMAIN Canon(r) = 1..Len(r)
             /\ \A j \in 1..Len(r) : Canon(r)[j] = Canonical(r[j])
  BY DEF Canon, Positions
<1>3. 1..Len(p) = 1..Len(q) /\ \A j \in 1..Len(p) : Canonical(p[j]) = Canonical(q[j])
  BY <1>2
<1>4. Len(p) = Len(q)
  <2>1. s \in 0..(Len(p) - 1)
    BY DEF Turnable
  <2>2. Len(p) \in 1..Len(q) /\ (Len(q) \in 1..Len(p) \/ Len(q) = 0)
    BY <1>1, <1>3, <2>1
  <2> QED BY <1>1, <1>3, <2>2
<1>5. \A j \in 1..Len(p) : p[j].role = q[j].role
  <2>1. \A m : Canonical(m).role = m.role
    BY DEF Canonical
  <2> QED BY <1>3, <2>1
<1>6. Users(p) = Users(q)
  BY <1>4, <1>5 DEF Users, Positions
<1> DEFINE u == LastIn(Users(p))
           a == TurnStart(p)
<1>7. u \in 1..Len(p) /\ a \in 1..Len(p)
  <2>1. a \in 1..u /\ u \in (s + 1)..Len(p) /\ s \in Nat
    BY TurnableFacts, TurnStartIs
  <2> QED BY <1>1, <2>1
<1> HIDE DEF u
<1>8. TurnStart(q) = a
  <2> DEFINE run(r) == {i \in 1..u : \A j \in i..u : r[j].role = "user"}
  <2>1. \A i \in 1..u : \A j \in i..u : j \in 1..Len(p)
    BY <1>1, <1>7
  <2>2. run(p) = run(q)
    BY <1>5, <2>1
  <2>3. a = IF u = 0 THEN 1 ELSE CHOOSE i \in run(p) : \A j \in run(p) : i <= j
    BY DEF TurnStart, u
  <2>4. TurnStart(q) = IF u = 0 THEN 1 ELSE CHOOSE i \in run(q) : \A j \in run(q) : i <= j
    BY <1>6 DEF TurnStart, u
  <2> HIDE DEF run, a
  <2> QED BY <2>2, <2>3, <2>4
<1> HIDE DEF a
<1>9. From(p, a) = From(q, a)
  <2>1. \A i \in 1..(Len(p) - a + 1) : a + i - 1 \in 1..Len(p)
    BY <1>1, <1>7
  <2> QED BY <1>3, <1>4, <2>1 DEF From
<1>10. Canon(SubSeq(p, a, Len(p))) = From(p, a) /\ Canon(SubSeq(q, a, Len(q))) = From(q, a)
  BY <1>1, <1>4, <1>7, CanonFrom
<1> QED BY <1>8, <1>9, <1>10 DEF TurnContext, a

LEMMA SameKeys ==
  ASSUME NEW p, NEW s, Turnable(p, s), NEW q \in Seq(Message), Canon(p) = Canon(q),
         NEW m, NEW ns
  PROVE  /\ ScopedKeys(m, p, ns) = ScopedKeys(m, q, ns)
         /\ PortableKeys(m, p, ns) = PortableKeys(m, q, ns)
<1>1. TurnContext(p) = TurnContext(q)
  BY CanonContext
<1> QED BY <1>1 DEF ScopedKeys, PortableKeys, Scope

-----------------------------------------------------------------------------
(* One message: it is found, or missing.                                     *)
NormalizedFinds(w, st, m, ns) ==
  /\ \/ w.missing = st.missing
     \/ /\ w.missing = st.missing \cup {Len(st.messages) + 1}
        /\ m.role = "assistant" /\ Needs(m, st.messages)
        /\ ~HasKey(m, st.messages, ns, st.cache)
  /\ m.role = "assistant" /\ Needs(m, st.messages) =>
       \/ Len(st.messages) + 1 \in w.missing
       \/ HasKey(m, st.messages, ns, st.cache)

LEMMA NormalizedFound ==
  ASSUME NEW st, NEW m \in Message, m.reasoning = None, NEW ns
  PROVE  NormalizedFinds(Normalized(st, m, ns), st, m, ns)
<1> DEFINE prior == st.messages
           keys == ScopedKeys(m, prior, ns) \o PortableKeys(m, prior, ns)
           hits == {j \in Positions(keys) : keys[j] \in DOMAIN st.cache}
           lacks == m.role = "assistant" /\ m.reasoning = None /\ Needs(m, prior)
           w == Normalized(st, m, ns)
<1>1. w.missing = IF lacks /\ hits = {} THEN st.missing \cup {Len(prior) + 1} ELSE st.missing
  BY DEF Normalized
<1>2. hits = {} <=> ~HasKey(m, prior, ns, st.cache)
  <2>1. DOMAIN keys = Positions(keys)
    <3> DEFINE T == KeySet("scope", Scope(prior, ns), m)
                    \cup KeySet("turn", <<ns, TurnContext(prior)>>, m)
               S == KeySet("scope", Scope(prior, ns), m)
               P == KeySet("turn", <<ns, TurnContext(prior)>>, m)
               k == ScopedKeys(m, prior, ns)
               l == PortableKeys(m, prior, ns)
    <3>1. k \in Seq(S) /\ l \in Seq(P)
      BY KeysOneContext DEF ScopedKeys, PortableKeys
    <3> HIDE DEF S, P, k, l
    <3>2. k \in Seq(S \cup P) /\ l \in Seq(S \cup P)
      <4>1. \A A, B : A \subseteq B => Seq(A) \subseteq Seq(B)
        OBVIOUS
      <4> QED BY <3>1, <4>1
    <3>3. k \o l \in Seq(S \cup P)
      BY <3>2, ConcatProperties
    <3>4. DOMAIN (k \o l) = Positions(k \o l)
      <4> HIDE DEF S, P, k, l
      <4> DEFINE kl == k \o l
                 U == S \cup P
      <4> HIDE DEF kl, U
      <4>1. kl \in Seq(U)
        BY <3>3 DEF kl, U
      <4>2. DOMAIN kl = 1..Len(kl)
        BY <4>1, LenProperties
      <4> QED BY <4>2 DEF Positions, kl
    <3> QED BY <3>4 DEF k, l
  <2>2. HasKey(m, prior, ns, st.cache) <=> \E k \in ToSet(keys) : k \in DOMAIN st.cache
    BY DEF HasKey
  <2> HIDE DEF keys
  <2> QED BY <2>1, <2>2 DEF ToSet
<1> HIDE DEF hits, w
<1>3. NormalizedFinds(w, st, m, ns)
  BY <1>1, <1>2 DEF NormalizedFinds
<1> QED BY <1>3 DEF w

(* What a pass finds and what it misses.                                     *)
PassFound(ms, c, ns, i) ==
  LET st == Pass(ms, c, ns)[i] IN
  /\ \A j \in st.missing :
       /\ j \in 1..i /\ ms[j].role = "assistant" /\ Needs(ms[j], SubSeq(ms, 1, j - 1))
       /\ ~HasKey(ms[j], SubSeq(ms, 1, j - 1), ns, c)
  /\ \A j \in 1..i :
       ms[j].role = "assistant" /\ Needs(ms[j], SubSeq(ms, 1, j - 1))
         => j \in st.missing \/ HasKey(ms[j], SubSeq(ms, 1, j - 1), ns, st.cache)

(* The messages before an answer, as they are and as the pass leaves them.   *)
LEMMA SamePrior ==
  ASSUME NEW ms, NEW s, Sendable(ms, s), NEW i \in 1..Len(ms), ms[i].role = "assistant",
         NEW q \in Seq(Message), Len(q) = i - 1, \A j \in 1..(i - 1) : Similar(ms[j], q[j]),
         NEW ns, NEW c
  PROVE  /\ Needs(ms[i], q) <=> Needs(ms[i], SubSeq(ms, 1, i - 1))
         /\ HasKey(ms[i], q, ns, c) <=> HasKey(ms[i], SubSeq(ms, 1, i - 1), ns, c)
<1> DEFINE before == SubSeq(ms, 1, i - 1)
           m == ms[i]
<1>1. ms \in Seq(Message) /\ Len(ms) \in Nat /\ i - 1 \in 0..Len(ms)
  <2>1. ms \in Seq(Message) /\ Len(ms) \in Nat
    BY Elements DEF Sendable
  <2> QED BY <2>1
<1>2. /\ before \in Seq(Message) /\ Len(before) = i - 1
      /\ \A j \in 1..(i - 1) : before[j] = ms[j]
  BY <1>1, Prefix
<1>3. Turnable(q, s)
  BY PriorTurnable
<1> HIDE DEF before, m
<1>4. Alike(before, q)
  BY <1>2 DEF Alike, Positions
<1>5. Canon(q) = Canon(before) /\ (Needs(m, q) <=> Needs(m, before))
  BY <1>2, <1>4, AlikeFacts
<1>6. /\ ScopedKeys(m, q, ns) = ScopedKeys(m, before, ns)
      /\ PortableKeys(m, q, ns) = PortableKeys(m, before, ns)
  BY <1>2, <1>3, <1>5, SameKeys
<1> QED BY <1>5, <1>6 DEF HasKey, before, m

LEMMA PassFoundStep ==
  ASSUME NEW ms, NEW s, Sendable(ms, s), ms \in Seq(Bare), NEW c, Sound(c), NEW ns,
         NEW i \in 1..Len(ms), PassFound(ms, c, ns, i - 1)
  PROVE  PassFound(ms, c, ns, i)
<1> DEFINE st == Pass(ms, c, ns)[i - 1]
           w == Pass(ms, c, ns)[i]
           m == ms[i]
           prior == SubSeq(ms, 1, i - 1)
<1>1. ms \in Seq(Message) /\ i - 1 \in 0..Len(ms) /\ i \in Nat /\ m \in Message /\ m.reasoning = None
  <2>1. ms \in Seq(Message)
    BY DEF Sendable
  <2>2. m \in Bare
    BY ElementOfSeq, LenProperties
  <2>3. Len(ms) \in Nat
    BY <2>1, Elements
  <2> QED BY <2>1, <2>2, <2>3 DEF Bare
<1>2. w = Normalized(st, m, ns)
  BY <1>1, PassNext
<1>3. /\ st.messages \in Seq(Message) /\ Len(st.messages) = i - 1
      /\ \A j \in 1..(i - 1) : Similar(ms[j], st.messages[j])
      /\ Sound(st.cache) /\ DOMAIN c \subseteq DOMAIN st.cache
  <2>1. PassInv(ms, c, ns, i - 1)
    BY <1>1, PassAlways
  <2> QED BY <2>1 DEF PassInv
<1>4. DOMAIN st.cache \subseteq DOMAIN w.cache
  <2> HIDE DEF st, w, m
  <2>1. DOMAIN st.cache \subseteq DOMAIN Normalized(st, m, ns).cache
    BY <1>1, <1>3, NormalizedMessage
  <2> QED BY <1>2, <2>1
<1>5. /\ \A j \in st.missing :
           /\ j \in 1..(i - 1) /\ ms[j].role = "assistant" /\ Needs(ms[j], SubSeq(ms, 1, j - 1))
           /\ ~HasKey(ms[j], SubSeq(ms, 1, j - 1), ns, c)
      /\ \A j \in 1..(i - 1) :
           ms[j].role = "assistant" /\ Needs(ms[j], SubSeq(ms, 1, j - 1))
             => j \in st.missing \/ HasKey(ms[j], SubSeq(ms, 1, j - 1), ns, st.cache)
  BY DEF PassFound
<1> HIDE DEF st, w
<1>6. m.role = "assistant" =>
        /\ Needs(m, st.messages) <=> Needs(m, prior)
        /\ \A d : HasKey(m, st.messages, ns, d) <=> HasKey(m, prior, ns, d)
  BY <1>3, SamePrior
<1> HIDE DEF m, prior
<1>7. NormalizedFinds(w, st, m, ns)
  BY <1>1, <1>2, NormalizedFound
<1>8. Len(st.messages) + 1 = i
  BY <1>1, <1>3
<1>9. \/ w.missing = st.missing
      \/ /\ w.missing = st.missing \cup {i}
         /\ m.role = "assistant" /\ Needs(m, prior) /\ ~HasKey(m, prior, ns, st.cache)
  BY <1>6, <1>7, <1>8 DEF NormalizedFinds
<1>10. m.role = "assistant" /\ Needs(m, prior) => i \in w.missing \/ HasKey(m, prior, ns, st.cache)
  BY <1>6, <1>7, <1>8 DEF NormalizedFinds
<1>11. ASSUME NEW j \in w.missing
       PROVE  /\ j \in 1..i /\ ms[j].role = "assistant" /\ Needs(ms[j], SubSeq(ms, 1, j - 1))
              /\ ~HasKey(ms[j], SubSeq(ms, 1, j - 1), ns, c)
  <2>1. CASE j \in st.missing
    <3>1. j \in 1..i
      BY <1>1, <1>5, <2>1
    <3> QED BY <1>5, <2>1, <3>1
  <2>2. CASE j \notin st.missing
    <3>1. j = i /\ m.role = "assistant" /\ Needs(m, prior) /\ ~HasKey(m, prior, ns, st.cache)
      BY <1>9, <2>2
    <3>2. ~HasKey(m, prior, ns, c)
      BY <1>3, <3>1, HasKeyMore
    <3>3. i \in 1..i
      BY <1>1
    <3> QED BY <3>1, <3>2, <3>3 DEF m, prior
  <2> QED BY <2>1, <2>2
<1>12. ASSUME NEW j \in 1..i, ms[j].role = "assistant", Needs(ms[j], SubSeq(ms, 1, j - 1))
       PROVE  j \in w.missing \/ HasKey(ms[j], SubSeq(ms, 1, j - 1), ns, w.cache)
  <2>1. CASE j \in 1..(i - 1)
    <3>1. j \in st.missing \/ HasKey(ms[j], SubSeq(ms, 1, j - 1), ns, st.cache)
      BY <1>5, <1>12, <2>1
    <3> QED BY <1>4, <1>9, <3>1, HasKeyMore
  <2>2. CASE j = i
    <3>1. i \in w.missing \/ HasKey(m, prior, ns, st.cache)
      BY <1>10, <1>12, <2>2 DEF m, prior
    <3>2. i \in w.missing \/ HasKey(m, prior, ns, w.cache)
      BY <1>4, <3>1, HasKeyMore
    <3> QED BY <2>2, <3>2 DEF m, prior
  <2>3. j \in 1..(i - 1) \/ j = i
    BY <1>1
  <2> QED BY <2>1, <2>2, <2>3
<1> QED BY <1>11, <1>12 DEF PassFound, w

LEMMA PassFinds ==
  ASSUME NEW ms, NEW s, Sendable(ms, s), ms \in Seq(Bare), NEW c, Sound(c), NEW ns
  PROVE  /\ Found(ms, c, ns) => NormalizedAll(ms, c, ns).missing = {}
         /\ NormalizedAll(ms, c, ns).missing = {} => Found(ms, NormalizedAll(ms, c, ns).cache, ns)
<1> DEFINE bad == {i \in 0..Len(ms) : ~PassFound(ms, c, ns, i)}
           N == Len(ms)
           w == NormalizedAll(ms, c, ns)
<1>1. N \in Nat /\ ms \in Seq(Message)
  BY Elements DEF Sendable
<1>2. PassFound(ms, c, ns, 0)
  <2>1. Pass(ms, c, ns)[0] = [messages |-> <<>>, missing |-> {}, cache |-> c]
    BY <1>1, PassStart
  <2> QED BY <2>1 DEF PassFound
<1>3. ASSUME bad # {} PROVE FALSE
  <2>1. bad \subseteq Nat
    BY <1>1
  <2>2. PICK i \in bad : \A j \in bad : i <= j
    <3> HIDE DEF bad
    <3> QED BY <1>3, <2>1, Smallest
  <2>3. i \in 1..Len(ms) /\ i - 1 \in 0..Len(ms) /\ ~(i <= i - 1)
    BY <1>1, <1>2, <2>2
  <2>4. PassFound(ms, c, ns, i - 1)
    BY <2>2, <2>3
  <2> QED BY <2>2, <2>3, <2>4, PassFoundStep
<1>4. PassFound(ms, c, ns, N)
  <2>1. N \in 0..N /\ N \notin bad
    BY <1>1, <1>3
  <2> QED BY <2>1
<1>5. /\ \A j \in w.missing :
           /\ j \in 1..N /\ ms[j].role = "assistant" /\ Needs(ms[j], SubSeq(ms, 1, j - 1))
           /\ ~HasKey(ms[j], SubSeq(ms, 1, j - 1), ns, c)
      /\ \A j \in 1..N :
           ms[j].role = "assistant" /\ Needs(ms[j], SubSeq(ms, 1, j - 1))
             => j \in w.missing \/ HasKey(ms[j], SubSeq(ms, 1, j - 1), ns, w.cache)
  BY <1>4 DEF PassFound, NormalizedAll
<1> HIDE DEF w
<1>6. Found(ms, c, ns) => w.missing = {}
  BY <1>5 DEF Found
<1>7. w.missing = {} => Found(ms, w.cache, ns)
  BY <1>5 DEF Found
<1> QED BY <1>6, <1>7 DEF w

-----------------------------------------------------------------------------
(* What the second pass of a request keeps of the client's transcript: what  *)
(* follows its last notice, with the user message before it.                 *)
Cut(ms) == FromBoundary(ms, LastIn(Notices(ms))).messages
Shown(ms) == ms[LastIn(Notices(ms))]
Opening(ms, u) == SubSeq(ms, 1, 1) \o <<Recovery>> \o <<ms[u]>>

LEMMA FoundAppend ==
  ASSUME NEW ms \in Seq(Message), NEW m \in Message, NEW c, NEW ns, Found(ms, c, ns),
         m.role = "assistant" => HasKey(m, ms, ns, c)
  PROVE  Found(Append(ms, m), c, ns)
<1> DEFINE t == Append(ms, m)
           n == Len(ms)
<1>1. n \in Nat /\ Len(t) = n + 1 /\ t[n + 1] = m /\ \A i \in 1..n : t[i] = ms[i]
  BY Elements, AppendProperties
<1>2. \A j \in 0..n : SubSeq(t, 1, j) = SubSeq(ms, 1, j)
  BY PrefixOfAppend
<1>3. SubSeq(ms, 1, n) = ms
  <2>1. SubSeq(ms, 1, n) = [i \in 1..n |-> ms[i]] /\ DOMAIN ms = 1..n
    BY <1>1, Elements
  <2> QED BY <2>1
<1> HIDE DEF t, n
<1>4. ASSUME NEW j \in 1..(n + 1), t[j].role = "assistant", Needs(t[j], SubSeq(t, 1, j - 1))
      PROVE  HasKey(t[j], SubSeq(t, 1, j - 1), ns, c)
  <2>1. j - 1 \in 0..n /\ SubSeq(t, 1, j - 1) = SubSeq(ms, 1, j - 1)
    <3>1. j - 1 \in 0..n
      BY <1>1
    <3> QED BY <1>2, <3>1
  <2>2. CASE j \in 1..n
    <3>1. t[j] = ms[j] /\ j \in 1..Len(ms)
      BY <1>1, <2>2 DEF n
    <3> QED BY <1>4, <2>1, <3>1 DEF Found
  <2>3. CASE j = n + 1
    <3>1. j - 1 = n
      BY <1>1, <2>3
    <3> QED BY <1>1, <1>3, <1>4, <2>1, <2>3, <3>1
  <2> QED BY <1>1, <2>2, <2>3
<1>5. Found(t, c, ns)
  BY <1>1, <1>4 DEF Found
<1> QED BY <1>5 DEF t

LEMMA LastNotice ==
  ASSUME NEW ms \in Seq(Message), Notices(ms) # {}
  PROVE  /\ LastIn(Notices(ms)) \in 1..Len(ms) /\ HasNotice(ms[LastIn(Notices(ms))])
         /\ \A i \in Notices(ms) : i <= LastIn(Notices(ms))
<1>1. Len(ms) \in Nat /\ Notices(ms) \subseteq 0..Len(ms)
  BY Elements DEF Notices, Positions
<1>2. LastIn(Notices(ms)) \in Notices(ms) /\ \A i \in Notices(ms) : i <= LastIn(Notices(ms))
  BY <1>1, LastOfSet
<1> QED BY <1>2 DEF Notices, Positions

(* The last of a set of positions, told by what it is.                       *)
LEMMA LastIs ==
  ASSUME NEW N \in Nat, NEW S, S \subseteq 0..N, NEW u \in S, \A j \in S : j <= u
  PROVE  LastIn(S) = u
<1>1. LastIn(S) \in S /\ \A j \in S : j <= LastIn(S)
  BY LastOfSet
<1>2. u \in 0..N /\ LastIn(S) \in 0..N
  BY <1>1
<1>3. LastIn(S) <= u /\ u <= LastIn(S)
  BY <1>1
<1> QED BY <1>2, <1>3

LEMMA TalkFacts ==
  ASSUME NEW ms, TalkOk(ms)
  PROVE  /\ ms \in Seq(Message) /\ Len(ms) \in Nat /\ Leading(ms) = 1
         /\ Users(ms) \subseteq 2..Len(ms)
         /\ Len(ms) > 1 => 2 \in Users(ms)
<1>1. ms \in Seq(Message) /\ Len(ms) \in Nat /\ Len(ms) >= 1
  BY Elements DEF TalkOk
<1>2. Leading(ms) = 1
  <2> DEFINE S == {n \in 0..Len(ms) : \A i \in 1..n : ms[i].role = "system"}
  <2>1. 1 \in S
    BY <1>1 DEF TalkOk
  <2>2. \A n \in S : n <= 1
    <3> SUFFICES ASSUME NEW n \in S, ~(n <= 1) PROVE FALSE
      OBVIOUS
    <3>1. 2 \in 1..n /\ 2 \in 1..Len(ms) /\ 2 # 1
      BY <1>1
    <3> QED BY <3>1 DEF TalkOk
  <2>3. S \subseteq 0..Len(ms) /\ Leading(ms) = LastIn(S)
    BY DEF Leading
  <2> HIDE DEF S
  <2> QED BY <1>1, <2>1, <2>2, <2>3, LastIs
<1>3. Users(ms) \subseteq 2..Len(ms)
  <2> SUFFICES ASSUME NEW i \in 1..Len(ms), ms[i].role = "user" PROVE i \in 2..Len(ms)
    BY DEF Users, Positions
  <2>1. i # 1
    BY DEF TalkOk
  <2> QED BY <1>1, <2>1
<1>4. Len(ms) > 1 => 2 \in Users(ms)
  BY <1>1 DEF Users, Positions, TalkOk
<1> QED BY <1>1, <1>2, <1>3, <1>4

LEMMA StartShape ==
  ASSUME NEW ms, TalkOk(ms), NEW u \in Users(ms)
  PROVE  /\ Opening(ms, u) \in Seq(Message) /\ Len(Opening(ms, u)) = 3
         /\ Opening(ms, u)[3] = ms[u] /\ Turnable(Opening(ms, u), 2)
         /\ \A i \in 1..3 : Opening(ms, u)[i].role # "assistant"
<1> DEFINE a == SubSeq(ms, 1, 1)
           x == Recovery
           y == ms[u]
           t == a \o <<x>> \o <<y>>
<1>1. ms \in Seq(Message) /\ Len(ms) \in Nat /\ 1 \in 0..Len(ms) /\ ms[1].role = "system"
  <2>1. ms \in Seq(Message) /\ Len(ms) \in Nat
    BY TalkFacts
  <2> QED BY <2>1 DEF TalkOk
<1>2. a \in Seq(Message) /\ Len(a) = 1 /\ a[1] = ms[1]
  BY <1>1, Prefix
<1>3. y \in Message /\ y.role = "user"
  BY <1>1, Elements DEF Users, Positions
<1>4. x \in Message /\ x.role = "system"
  BY DEF Recovery, System, Message, None
<1> HIDE DEF a, x, y
<1>5. /\ a \o <<x>> \in Seq(Message) /\ Len(a \o <<x>>) = 2
      /\ (a \o <<x>>)[1] = a[1] /\ (a \o <<x>>)[2] = x
  <2>1. <<x>> \in Seq(Message) /\ Len(<<x>>) = 1 /\ <<x>>[1] = x
    BY <1>4
  <2> QED BY <1>2, <2>1, ConcatProperties
<1> DEFINE e == a \o <<x>>
<1> HIDE DEF e
<1>6. /\ e \o <<y>> \in Seq(Message) /\ Len(e \o <<y>>) = 3
      /\ (e \o <<y>>)[1] = e[1] /\ (e \o <<y>>)[2] = e[2] /\ (e \o <<y>>)[3] = y
  <2>1. <<y>> \in Seq(Message) /\ Len(<<y>>) = 1 /\ <<y>>[1] = y
    BY <1>3
  <2>2. e \in Seq(Message) /\ Len(e) = 2
    BY <1>5 DEF e
  <2> QED BY <2>1, <2>2, ConcatProperties
<1>7. t \in Seq(Message) /\ Len(t) = 3 /\ t[1] = ms[1] /\ t[2] = x /\ t[3] = y
  BY <1>2, <1>5, <1>6 DEF e
<1> HIDE DEF t
<1>8. \A i \in 1..3 : i = 1 \/ i = 2 \/ i = 3
  OBVIOUS
<1>9. \A i \in 1..3 : t[i].role = "system" <=> i <= 2
  BY <1>1, <1>3, <1>4, <1>7, <1>8
<1>10. Turnable(t, 2) /\ \A i \in 1..3 : t[i].role # "assistant"
  BY <1>1, <1>3, <1>4, <1>7, <1>8, <1>9 DEF Turnable
<1>11. t = Opening(ms, u)
  BY DEF t, a, x, y, Opening
<1> QED BY <1>7, <1>10, <1>11 DEF y

LEMMA BoundaryIs ==
  ASSUME NEW ms, TalkOk(ms), NEW b \in 1..Len(ms), ms[b].role = "assistant",
         NEW u \in Users(ms), u < b, \A i \in Users(ms) : i < b => i <= u
  PROVE  FromBoundary(ms, b).messages = Opening(ms, u) \o SubSeq(ms, b, Len(ms))
<1>1. LastIn({i \in Users(ms) : i < b}) = u
  <2> DEFINE S == {i \in Users(ms) : i < b}
  <2>1. S \subseteq 0..Len(ms) /\ Len(ms) \in Nat /\ u \in S /\ \A j \in S : j <= u
    <3>1. Users(ms) \subseteq 2..Len(ms) /\ Len(ms) \in Nat
      BY TalkFacts
    <3> QED BY <3>1
  <2> HIDE DEF S
  <2>2. LastIn(S) = u
    BY <2>1, LastIs
  <2> QED BY <2>2 DEF S
<1>2. Leading(ms) = 1 /\ u # 0
  <2>1. Leading(ms) = 1 /\ Users(ms) \subseteq 2..Len(ms)
    BY TalkFacts
  <2> QED BY <2>1
<1> QED BY <1>1, <1>2 DEF FromBoundary, Opening

(* The user message before an assistant's.                                   *)
LEMMA UserBefore ==
  ASSUME NEW ms, TalkOk(ms), NEW b \in 1..Len(ms), ms[b].role = "assistant"
  PROVE  \E u \in Users(ms) : u < b /\ \A i \in Users(ms) : i < b => i <= u
<1> DEFINE S == {i \in Users(ms) : i < b}
<1>1. /\ Len(ms) \in Nat /\ Users(ms) \subseteq 2..Len(ms)
      /\ Len(ms) > 1 => 2 \in Users(ms)
  BY TalkFacts
<1>2. b # 1 /\ b # 2
  <2>1. 1 \in 1..Len(ms) => ms[1].role = "system"
    BY DEF TalkOk
  <2>2. b = 2 => ms[2].role = "user"
    BY <1>1 DEF TalkOk
  <2> QED BY <1>1, <2>1, <2>2
<1>3. 2 \in S /\ S \subseteq 0..Len(ms)
  BY <1>1, <1>2
<1>4. LastIn(S) \in S /\ \A j \in S : j <= LastIn(S)
  <2> HIDE DEF S
  <2> QED BY <1>1, <1>3, LastOfSet
<1> QED BY <1>4

LEMMA ConcatAppend ==
  ASSUME NEW a \in Seq(Message), NEW z \in Seq(Message), NEW x \in Message
  PROVE  a \o Append(z, x) = Append(a \o z, x)
OBVIOUS

LEMMA SuffixAppend ==
  ASSUME NEW ms \in Seq(Message), NEW x \in Message, NEW b \in 1..Len(ms)
  PROVE  SubSeq(Append(ms, x), b, Len(ms) + 1) = Append(SubSeq(ms, b, Len(ms)), x)
<1> DEFINE t == Append(ms, x)
           n == Len(ms)
           z == SubSeq(ms, b, n)
           y == SubSeq(t, b, n + 1)
<1>1. n \in Nat /\ t \in Seq(Message) /\ Len(t) = n + 1 /\ t[n + 1] = x
      /\ \A i \in 1..n : t[i] = ms[i]
  BY Elements, AppendProperties
<1>2. z \in Seq(Message) /\ Len(z) = n - b + 1 /\ \A i \in 1..(n - b + 1) : z[i] = ms[b + i - 1]
  BY Suffix
<1> HIDE DEF t, z
<1>3. y \in Seq(Message) /\ Len(y) = (n + 1) - b + 1
      /\ \A i \in 1..((n + 1) - b + 1) : y[i] = t[b + i - 1]
  <2>1. b \in 1..Len(t)
    BY <1>1
  <2> QED BY <1>1, <2>1, Suffix
<1> HIDE DEF y, n
<1>4. /\ Append(z, x) \in Seq(Message) /\ Len(Append(z, x)) = n - b + 2
      /\ Append(z, x)[n - b + 2] = x
      /\ \A i \in 1..(n - b + 1) : Append(z, x)[i] = z[i]
  <2>1. /\ Append(z, x) \in Seq(Message) /\ Len(Append(z, x)) = Len(z) + 1
        /\ Append(z, x)[Len(z) + 1] = x
        /\ \A i \in 1..Len(z) : Append(z, x)[i] = z[i]
    BY <1>2, AppendProperties
  <2>2. Len(z) + 1 = n - b + 2
    BY <1>1, <1>2 DEF n
  <2> QED BY <1>2, <2>1, <2>2
<1>5. \A i \in 1..(n - b + 2) : y[i] = Append(z, x)[i]
  <2> TAKE i \in 1..(n - b + 2)
  <2>1. CASE i = n - b + 2
    <3>1. b + i - 1 = n + 1 /\ i \in 1..((n + 1) - b + 1)
      BY <1>1, <2>1 DEF n
    <3> QED BY <1>1, <1>3, <1>4, <2>1, <3>1
  <2>2. CASE i # n - b + 2
    <3>1. i \in 1..(n - b + 1) /\ b + i - 1 \in 1..n /\ i \in 1..((n + 1) - b + 1)
      BY <1>1, <2>2 DEF n
    <3> QED BY <1>1, <1>2, <1>3, <1>4, <3>1
  <2> QED BY <2>1, <2>2
<1>6. Len(y) = n - b + 2
  BY <1>1, <1>3 DEF n
<1>7. y = Append(z, x)
  BY <1>3, <1>4, <1>5, <1>6, SeqEqual
<1> QED BY <1>7 DEF y, z, t, n

(* A message that is no notice comes at the end of what is kept.             *)
LEMMA CutGrows ==
  ASSUME NEW ms, TalkOk(ms), Notices(ms) # {}, NEW x \in Message, ~HasNotice(x),
         TalkOk(Append(ms, x))
  PROVE  Notices(Append(ms, x)) # {} /\ Cut(Append(ms, x)) = Append(Cut(ms), x)
         /\ Cut(ms) \in Seq(Message) /\ Shown(Append(ms, x)) = Shown(ms)
<1> DEFINE t == Append(ms, x)
           n == Len(ms)
           b == LastIn(Notices(ms))
<1>1. ms \in Seq(Message) /\ n \in Nat
  BY TalkFacts
<1>2. Len(t) = n + 1 /\ t[n + 1] = x /\ \A i \in 1..n : t[i] = ms[i]
  BY <1>1, AppendProperties
<1>3. b \in 1..n /\ HasNotice(ms[b]) /\ \A i \in Notices(ms) : i <= b
  BY <1>1, LastNotice
<1>4. ms[b].role = "assistant"
  BY <1>3 DEF HasNotice
<1>5. PICK u \in Users(ms) : u < b /\ \A i \in Users(ms) : i < b => i <= u
  BY <1>3, <1>4, UserBefore
<1> HIDE DEF b, t
<1>6. Cut(ms) = Opening(ms, u) \o SubSeq(ms, b, n)
  BY <1>3, <1>4, <1>5, BoundaryIs DEF Cut, b
<1>7. \A i \in 1..Len(t) : i \in 1..n \/ i = n + 1
  BY <1>1, <1>2
<1>8. Notices(t) = Notices(ms)
  <2>1. \A i : i \in Notices(t) => i \in Notices(ms)
    BY <1>2, <1>7 DEF Notices, Positions
  <2>2. \A i : i \in Notices(ms) => i \in Notices(t)
    BY <1>1, <1>2 DEF Notices, Positions
  <2> QED BY <2>1, <2>2
<1>9. b \in 1..Len(t) /\ t[b].role = "assistant" /\ TalkOk(t)
  BY <1>1, <1>2, <1>3, <1>4 DEF t
<1>10. u \in Users(t) /\ \A i \in Users(t) : i < b => i <= u
  <2>1. u \in 1..n /\ ms[u].role = "user"
    BY <1>5 DEF Users, Positions
  <2>2. u \in Users(t)
    BY <1>1, <1>2, <2>1 DEF Users, Positions
  <2>3. ASSUME NEW i \in Users(t), i < b PROVE i <= u
    <3>1. i \in 1..n /\ t[i].role = "user"
      BY <1>1, <1>2, <1>3, <2>3 DEF Users, Positions
    <3>2. i \in Users(ms)
      BY <1>2, <3>1 DEF Users, Positions
    <3> QED BY <1>5, <2>3, <3>2
  <2> QED BY <2>2, <2>3
<1>11. Cut(t) = Opening(t, u) \o SubSeq(t, b, n + 1)
  <2>1. FromBoundary(t, b).messages = Opening(t, u) \o SubSeq(t, b, Len(t))
    BY <1>5, <1>9, <1>10, BoundaryIs
  <2> QED BY <1>2, <1>8, <2>1 DEF Cut, b
<1>12. Opening(t, u) = Opening(ms, u)
  <2>1. SubSeq(t, 1, 1) = SubSeq(ms, 1, 1)
    <3>1. 1 \in 0..n
      BY <1>1, <1>3
    <3> QED BY <1>1, <3>1, PrefixOfAppend DEF t
  <2>2. t[u] = ms[u]
    BY <1>2, <1>5 DEF Users, Positions
  <2> QED BY <2>1, <2>2 DEF Opening
<1>13. SubSeq(t, b, n + 1) = Append(SubSeq(ms, b, n), x)
  BY <1>1, <1>3, SuffixAppend DEF t
<1>14. Opening(ms, u) \in Seq(Message) /\ SubSeq(ms, b, n) \in Seq(Message)
  <2>1. Opening(ms, u) \in Seq(Message)
    BY StartShape
  <2> QED BY <1>1, <1>3, <2>1, Suffix
<1>15. Cut(t) = Append(Cut(ms), x) /\ Cut(ms) \in Seq(Message)
  <2> DEFINE a == Opening(ms, u)
             z == SubSeq(ms, b, n)
  <2>1. Cut(t) = a \o Append(z, x) /\ Cut(ms) = a \o z /\ a \in Seq(Message) /\ z \in Seq(Message)
    BY <1>6, <1>11, <1>12, <1>13, <1>14
  <2> HIDE DEF a, z
  <2>2. a \o Append(z, x) = Append(a \o z, x) /\ a \o z \in Seq(Message)
    BY <2>1, ConcatAppend, ConcatProperties
  <2> QED BY <2>1, <2>2
<1>16. Shown(t) = Shown(ms)
  BY <1>2, <1>3, <1>8 DEF Shown, b
<1> QED BY <1>8, <1>15, <1>16 DEF t

(* A notice is kept with the newest user message.                            *)
LEMMA CutOfNotice ==
  ASSUME NEW ms, TalkOk(ms), NEW x \in Message, HasNotice(x), TalkOk(Append(ms, x))
  PROVE  /\ Notices(Append(ms, x)) # {}
         /\ LastIn(Users(ms)) \in Users(ms)
         /\ Cut(Append(ms, x)) = Append(Opening(ms, LastIn(Users(ms))), x)
         /\ Shown(Append(ms, x)) = x
<1> DEFINE t == Append(ms, x)
           n == Len(ms)
           u == LastIn(Users(ms))
<1>1. ms \in Seq(Message) /\ n \in Nat /\ Users(ms) \subseteq 2..n /\ (n > 1 => 2 \in Users(ms))
  BY TalkFacts
<1>2. Len(t) = n + 1 /\ t[n + 1] = x /\ \A i \in 1..n : t[i] = ms[i]
  BY <1>1, AppendProperties
<1>3. TalkOk(t) /\ x.role = "assistant"
  BY DEF HasNotice
<1> HIDE DEF t
<1>4. n > 1
  <2>1. n >= 1
    BY DEF TalkOk
  <2>2. n # 1
    <3>1. n = 1 => t[2].role = "user"
      BY <1>2, <1>3 DEF TalkOk
    <3> QED BY <1>2, <1>3, <3>1
  <2> HIDE DEF n
  <2> QED BY <1>1, <2>1, <2>2
<1>5. u \in Users(ms) /\ \A i \in Users(ms) : i <= u
  <2>1. Users(ms) \subseteq 0..n /\ Users(ms) # {}
    BY <1>1, <1>4
  <2> QED BY <1>1, <2>1, LastOfSet
<1>6. n + 1 \in Notices(t) /\ Notices(t) \subseteq 0..(n + 1) /\ \A i \in Notices(t) : i <= n + 1
  BY <1>1, <1>2 DEF Notices, Positions
<1>7. LastIn(Notices(t)) = n + 1
  <2>1. n + 1 \in Nat
    BY <1>1
  <2> QED BY <1>6, <2>1, LastIs
<1> HIDE DEF u
<1>8. u \in Users(t) /\ u < n + 1 /\ \A i \in Users(t) : i < n + 1 => i <= u
  <2>1. u \in 1..n /\ ms[u].role = "user"
    BY <1>5 DEF Users, Positions
  <2>2. u \in Users(t)
    BY <1>1, <1>2, <2>1 DEF Users, Positions
  <2>3. ASSUME NEW i \in Users(t), i < n + 1 PROVE i <= u
    <3>1. i \in 1..n /\ t[i].role = "user"
      BY <1>1, <1>2, <2>3 DEF Users, Positions
    <3>2. i \in Users(ms)
      BY <1>2, <3>1 DEF Users, Positions
    <3> QED BY <1>5, <3>2
  <2> QED BY <1>1, <2>1, <2>2, <2>3
<1>9. Cut(t) = Opening(t, u) \o SubSeq(t, n + 1, n + 1)
  <2>1. n + 1 \in 1..Len(t) /\ t[n + 1].role = "assistant"
    BY <1>1, <1>2, <1>3
  <2>2. FromBoundary(t, n + 1).messages = Opening(t, u) \o SubSeq(t, n + 1, Len(t))
    BY <1>3, <1>8, <2>1, BoundaryIs
  <2> QED BY <1>2, <1>7, <2>2 DEF Cut
<1>10. Opening(t, u) = Opening(ms, u)
  <2>1. SubSeq(t, 1, 1) = SubSeq(ms, 1, 1)
    <3>1. 1 \in 0..n
      BY <1>1, <1>4
    <3> QED BY <1>1, <3>1, PrefixOfAppend DEF t
  <2>2. t[u] = ms[u]
    BY <1>2, <1>5 DEF Users, Positions
  <2> QED BY <2>1, <2>2 DEF Opening
<1>11. SubSeq(t, n + 1, n + 1) = <<x>>
  <2>1. t \in Seq(Message) /\ n + 1 \in 1..Len(t)
    BY <1>1, <1>2, <1>3 DEF TalkOk
  <2> DEFINE y == SubSeq(t, n + 1, Len(t))
  <2>2. y \in Seq(Message) /\ Len(y) = Len(t) - (n + 1) + 1
        /\ \A i \in 1..(Len(t) - (n + 1) + 1) : y[i] = t[(n + 1) + i - 1]
    BY <2>1, Suffix
  <2> HIDE DEF y
  <2>3. Len(y) = 1 /\ y[1] = x
    <3>1. Len(t) - (n + 1) + 1 = 1 /\ 1 \in 1..1 /\ (n + 1) + 1 - 1 = n + 1
      BY <1>1, <1>2
    <3> QED BY <1>2, <2>2, <3>1
  <2>4. <<x>> \in Seq(Message) /\ Len(<<x>>) = 1 /\ <<x>>[1] = x
    OBVIOUS
  <2>5. \A i \in 1..1 : i = 1
    OBVIOUS
  <2>6. y = <<x>>
    BY <2>2, <2>3, <2>4, <2>5, SeqEqual
  <2> QED BY <1>2, <2>6 DEF y
<1>12. Cut(t) = Append(Opening(ms, u), x)
  <2>1. Opening(ms, u) \in Seq(Message)
    BY <1>5, StartShape
  <2>2. Opening(ms, u) \o <<x>> = Append(Opening(ms, u), x)
    <3> DEFINE a == Opening(ms, u)
    <3> HIDE DEF a
    <3>1. a \in Seq(Message)
      BY <2>1 DEF a
    <3>2. a \o <<x>> = Append(a, x)
      BY <3>1
    <3> QED BY <3>2 DEF a
  <2> QED BY <1>9, <1>10, <1>11, <2>2
<1>13. Shown(t) = x
  BY <1>2, <1>7 DEF Shown
<1> QED BY <1>5, <1>6, <1>12, <1>13 DEF t, u

-----------------------------------------------------------------------------
(* The turn of a request that ends with its only user message is the message.*)
LEMMA ShortTurn ==
  ASSUME NEW p, NEW s, Turnable(p, s), Len(p) = s + 1
  PROVE  TurnContext(p) = <<Canonical(Newest(p))>>
<1>1. /\ p \in Seq(Message) /\ s \in Nat /\ LastIn(Users(p)) = s + 1 /\ TurnStart(p) = s + 1
  <2>1. p \in Seq(Message) /\ s \in Nat /\ LastIn(Users(p)) \in (s + 1)..Len(p)
    BY TurnableFacts
  <2>2. TurnStart(p) \in 1..LastIn(Users(p)) /\ s < TurnStart(p)
    BY TurnStartIs
  <2> QED BY <2>1, <2>2
<1>2. TurnContext(p) = From(p, s + 1)
  <2>1. s + 1 \in 1..LastIn(Users(p)) /\ s < s + 1
    BY <1>1
  <2>2. NoSystem(Canon(SubSeq(p, s + 1, Len(p)))) = From(p, s + 1)
    BY <2>1, AllFrom
  <2> QED BY <1>1, <2>2 DEF TurnContext
<1>3. From(p, s + 1) = [i \in 1..1 |-> Canonical(p[s + 1])]
  <2>1. Len(p) - (s + 1) + 1 = 1 /\ \A i \in 1..1 : s + 1 + i - 1 = s + 1
    BY <1>1
  <2>2. \A i \in 1..1 : Canonical(p[s + 1 + i - 1]) = Canonical(p[s + 1])
    BY <2>1
  <2> QED BY <2>1, <2>2 DEF From
<1>4. \A x : [i \in 1..1 |-> x] = <<x>>
  OBVIOUS
<1> QED BY <1>1, <1>2, <1>3, <1>4 DEF Newest

(* With the notice a request is the newest user message, whole.              *)
NoticeOfTurn(p, ms, ns) ==
  p.notice => ns \notin Disabled /\ TurnContext(p.pass.messages) = <<Canonical(Newest(ms))>>

LEMMA PreparedNotice ==
  ASSUME NEW ms, NEW s, Sendable(ms, s), Sound(cache), NEW ns
  PROVE  NoticeOfTurn(Prepared(ms, ns), ms, ns)
<1> DEFINE p == Prepared(ms, ns)
           before == Unrounded(ms, ns)
           q == before.pass.messages
           fresh == Fresh(q)
<1>1. OneRound(p, ms, ns) /\ StartOk(Start(ms, ns), ms, ns)
  BY PreparedIs, StartFacts
<1>2. CASE strategy = "reject" \/ Start(ms, ns).missing = {}
  <2>1. p.notice = FALSE
    BY <1>1, <1>2 DEF OneRound, Unrounded
  <2> QED BY <2>1 DEF NoticeOfTurn
<1>3. CASE ~(strategy = "reject" \/ Start(ms, ns).missing = {})
  <2>1. /\ PassOk(before.pass, ms, cache, ns) /\ before.pass.missing # {}
        /\ OneNotice(before.pass.messages) /\ before.notice \in BOOLEAN /\ ns \notin Disabled
    BY <1>1, <1>3 DEF StartOk, Unrounded
  <2> HIDE DEF before
  <2>2. Refreshed(NextRound(before, 1, ms, ns), before, 1, ns)
    BY <2>1, RoundIs
  <2>3. p = NextRound(before, 1, ms, ns)
    BY <1>1, <1>3 DEF OneRound, before
  <2> HIDE DEF p
  <2>4. p.pass = NormalizedAll(fresh, before.pass.cache, ns)
    BY <2>2, <2>3 DEF Refreshed
  <2>5. PICK r : Sendable(q, r)
    BY <2>1 DEF PassOk
  <2> HIDE DEF q
  <2>6. Sendable(fresh, r + 1) /\ Newest(fresh) = Newest(q)
    BY <2>5, FreshShape DEF Fresh
  <2>7. Len(fresh) = r + 2
    <3>1. /\ q \in Seq(Message) /\ Len(q) \in Nat /\ r \in Nat /\ Leading(q) = r /\ r \in 0..Len(q)
          /\ q[LastIn(Users(q))] \in Message
      <4>1. /\ q \in Seq(Message) /\ Len(q) \in Nat /\ r \in Nat /\ Leading(q) = r
            /\ LastIn(Users(q)) \in (r + 1)..Len(q)
        BY <2>5, SendableFacts DEF Sendable
      <4>2. LastIn(Users(q)) \in 1..Len(q)
        BY <4>1
      <4> QED BY <4>1, <4>2, Elements
    <3> DEFINE a == SubSeq(q, 1, r)
               x == Recovery
               y == q[LastIn(Users(q))]
    <3>2. a \in Seq(Message) /\ Len(a) = r
      BY <3>1, Prefix
    <3>3. x \in Message /\ y \in Message
      BY <3>1 DEF Recovery, System, Message, None
    <3>4. fresh = a \o <<x, y>>
      BY <3>1 DEF Fresh
    <3> HIDE DEF a, x, y, fresh
    <3>5. <<x, y>> \in Seq(Message) /\ Len(<<x, y>>) = 2
      BY <3>3
    <3>6. Len(a \o <<x, y>>) = r + 2
      BY <3>2, <3>5, ConcatProperties
    <3> QED BY <3>4, <3>6
  <2> HIDE DEF fresh
  <2>8. Sound(before.pass.cache) /\ Newest(q) = Newest(ms)
    BY <2>1 DEF PassOk, q
  <2> DEFINE w == NormalizedAll(fresh, before.pass.cache, ns).messages
  <2>9. Alike(fresh, w) /\ w \in Seq(Message)
    <3>1. /\ PassOk(NormalizedAll(fresh, before.pass.cache, ns), fresh, before.pass.cache, ns)
          /\ Alike(fresh, w)
      BY <2>6, <2>8, PassKeeps
    <3> QED BY <3>1 DEF PassOk, Sendable
  <2> HIDE DEF w
  <2>10. Sendable(w, r + 1) /\ Newest(w) = Newest(fresh) /\ Len(w) = r + 2
    BY <2>6, <2>7, <2>9, AlikeSendable DEF Alike
  <2>11. TurnContext(w) = <<Canonical(Newest(w))>>
    <3>1. Turnable(w, r + 1) /\ Len(w) = r + 1 + 1
      <4>1. r \in Nat
        BY <2>5, SendableFacts
      <4>2. Turnable(w, r + 1)
        BY <2>10, SendableTurnable
      <4> QED BY <2>10, <4>1, <4>2
    <3> QED BY <3>1, ShortTurn
  <2>12. p.pass.messages = w
    BY <2>4 DEF w
  <2>13. NoticeOfTurn(p, ms, ns)
    BY <2>1, <2>6, <2>8, <2>10, <2>11, <2>12 DEF NoticeOfTurn
  <2> QED BY <2>13 DEF p
<1> QED BY <1>2, <1>3

(* A transcript whose answers are found, or those that follow its last       *)
(* notice, is not recovered, and stays so.                                   *)
Settles(w, ms, ns) ==
  /\ strategy = "reject" \/ w.missing = {}
  /\ w.missing = {} => Found(ms, w.cache, ns) \/ Alike(Cut(ms), w.messages)

LEMMA BegunSettles ==
  ASSUME NEW ms, TalkOk(ms), NEW s, Sendable(ms, s), ms \in Seq(Bare), Sound(cache), NEW ns,
         Notices(ms) # {}, Found(ms, cache, ns) \/ Found(Cut(ms), cache, ns)
  PROVE  Settles(Begun(ms, ns), ms, ns)
<1> DEFINE first == NormalizedAll(ms, cache, ns)
           b == LastIn(Notices(ms))
           r == FromBoundary(ms, b).messages
           second == NormalizedAll(r, first.cache, ns)
           w == Begun(ms, ns)
<1>0. w = IF first.missing = {} \/ strategy = "reject" \/ b = 0 THEN first ELSE second
  BY DEF Begun, Notices
<1>1. PassOk(first, ms, cache, ns)
  BY PassKeeps
<1>2. /\ Found(ms, cache, ns) => first.missing = {}
      /\ first.missing = {} => Found(ms, first.cache, ns)
  BY PassFinds
<1>3. b \in 1..Len(ms) /\ HasNotice(ms[b]) /\ (\A i \in Notices(ms) : i <= b) /\ b # 0
  <2>1. ms \in Seq(Message)
    BY TalkFacts
  <2>2. b \in 1..Len(ms) /\ HasNotice(ms[b]) /\ \A i \in Notices(ms) : i <= b
    BY <2>1, LastNotice
  <2> QED BY <2>2
<1>4. ms[b].role = "assistant"
  BY <1>3 DEF HasNotice
<1>5. r = Cut(ms)
  BY DEF Cut
<1>6. Sendable(r, s + 1) /\ r \in Seq(Bare)
  <2> HIDE DEF b
  <2> QED BY <1>3, <1>4, BoundaryShape, BoundaryBare
<1> HIDE DEF first, b, r, w
<1>7. CASE first.missing = {} \/ strategy = "reject"
  <2>1. w = first
    BY <1>0, <1>7
  <2>2. Settles(w, ms, ns)
    BY <1>2, <1>7, <2>1 DEF Settles
  <2> QED BY <2>2 DEF w
<1>8. CASE ~(first.missing = {} \/ strategy = "reject")
  <2>1. w = second
    BY <1>0, <1>3, <1>8
  <2>2. Sound(first.cache) /\ DOMAIN cache \subseteq DOMAIN first.cache
    BY <1>1 DEF PassOk
  <2>3. Found(r, first.cache, ns)
    BY <1>2, <1>5, <1>8, <2>2, FoundMore
  <2>4. second.missing = {}
    BY <1>6, <2>2, <2>3, PassFinds
  <2>5. Alike(r, second.messages)
    BY <1>6, <2>2, PassKeeps
  <2> HIDE DEF second
  <2>6. Settles(w, ms, ns)
    BY <1>5, <2>1, <2>4, <2>5 DEF Settles
  <2> QED BY <2>6 DEF w
<1> QED BY <1>7, <1>8

LEMMA PreparedSettles ==
  ASSUME NEW ms, TalkOk(ms), NEW s, Sendable(ms, s), ms \in Seq(Bare), Sound(cache), NEW ns,
         ns \notin Disabled, Notices(ms) # {},
         Found(ms, cache, ns) \/ Found(Cut(ms), cache, ns)
  PROVE  Prepared(ms, ns).rounds = 0 /\ Settles(Prepared(ms, ns).pass, ms, ns)
<1>1. Start(ms, ns) = Begun(ms, ns)
  BY DEF Start
<1>2. Settles(Begun(ms, ns), ms, ns)
  BY BegunSettles
<1>3. OneRound(Prepared(ms, ns), ms, ns)
  BY PreparedIs
<1>4. strategy = "reject" \/ Start(ms, ns).missing = {}
  BY <1>1, <1>2 DEF Settles
<1>5. Prepared(ms, ns) = Unrounded(ms, ns)
  BY <1>3, <1>4 DEF OneRound
<1> QED BY <1>1, <1>2, <1>5 DEF Unrounded

-----------------------------------------------------------------------------
(* The turn of a transcript, told by where its user messages start.          *)
LEMMA TurnStartRun ==
  ASSUME NEW p, NEW s, Turnable(p, s)
  PROVE  /\ TurnStart(p) \in 1..LastIn(Users(p))
         /\ \A j \in TurnStart(p)..LastIn(Users(p)) : p[j].role = "user"
         /\ TurnStart(p) > 1 => p[TurnStart(p) - 1].role # "user"
<1> DEFINE u == LastIn(Users(p))
           run == {i \in 1..u : \A j \in i..u : p[j].role = "user"}
           a == TurnStart(p)
<1>1. u \in Nat /\ u \in 1..u /\ p[u].role = "user"
  <2>1. Len(p) \in Nat /\ s \in Nat /\ u \in (s + 1)..Len(p) /\ p[u].role = "user"
    BY TurnableFacts
  <2> QED BY <2>1
<1>2. a = IF u = 0 THEN 1 ELSE CHOOSE i \in run : \A j \in run : i <= j
  BY DEF TurnStart
<1> HIDE DEF u, a
<1>3. u \in run /\ run \subseteq Nat
  <2>1. \A j \in u..u : j = u
    BY <1>1
  <2> QED BY <1>1, <2>1
<1>4. a \in run /\ \A j \in run : a <= j
  <2>1. u # 0
    BY <1>1
  <2> HIDE DEF run
  <2>2. \E i \in run : \A j \in run : i <= j
    BY <1>3, Smallest
  <2> QED BY <1>2, <2>1, <2>2
<1>5. ASSUME a > 1, p[a - 1].role = "user" PROVE FALSE
  <2>1. \A j \in (a - 1)..u : j = a - 1 \/ j \in a..u
    BY <1>1, <1>4
  <2>2. a - 1 \in run
    BY <1>1, <1>4, <1>5, <2>1
  <2>3. a <= a - 1 /\ a \in Nat
    BY <1>3, <1>4, <2>2
  <2> QED BY <2>3
<1>6. a \in 1..u /\ \A j \in a..u : p[j].role = "user"
  BY <1>4
<1> QED BY <1>5, <1>6 DEF a, u

LEMMA TurnStartFrom ==
  ASSUME NEW p, NEW s, Turnable(p, s), NEW a \in 2..LastIn(Users(p)),
         \A j \in a..LastIn(Users(p)) : p[j].role = "user", p[a - 1].role # "user"
  PROVE  TurnStart(p) = a
<1> DEFINE u == LastIn(Users(p))
           i == TurnStart(p)
           run == {k \in 1..u : \A j \in k..u : p[j].role = "user"}
<1>1. u \in Nat
  <2>1. Len(p) \in Nat /\ s \in Nat /\ u \in (s + 1)..Len(p)
    BY TurnableFacts
  <2> QED BY <2>1
<1>2. i \in 1..u /\ (\A j \in i..u : p[j].role = "user") /\ (i > 1 => p[i - 1].role # "user")
  BY TurnStartRun
<1>3. a \in 2..u /\ (\A j \in a..u : p[j].role = "user") /\ p[a - 1].role # "user"
  OBVIOUS
<1> HIDE DEF u, i
<1>4. ~(i < a)
  <2>1. i < a => a - 1 \in i..u
    BY <1>1, <1>2, <1>3
  <2> QED BY <1>2, <1>3, <2>1
<1>5. ~(a < i)
  <2>1. a < i => i - 1 \in a..u /\ i > 1
    BY <1>1, <1>2, <1>3
  <2> QED BY <1>2, <1>3, <2>1
<1>6. i = a
  BY <1>1, <1>2, <1>3, <1>4, <1>5
<1> QED BY <1>6 DEF i

LEMMA TurnContextFrom ==
  ASSUME NEW p, NEW s, Turnable(p, s)
  PROVE  TurnContext(p) = From(p, TurnStart(p))
<1> DEFINE a == TurnStart(p)
<1>1. a \in 1..LastIn(Users(p)) /\ s < a
  BY TurnStartIs
<1> HIDE DEF a
<1>2. NoSystem(Canon(SubSeq(p, a, Len(p)))) = From(p, a)
  BY <1>1, AllFrom
<1> QED BY <1>2 DEF TurnContext, a

(* Transcripts that agree from a message on that is no user's, with a user's *)
(* after it, are in the same turn.                                           *)
LEMMA SameEnd ==
  ASSUME NEW p, NEW s, Turnable(p, s), NEW q, NEW r, Turnable(q, r),
         NEW k \in Nat \ {0}, NEW d \in Int, Len(p) = Len(q) + d, k + d >= 1,
         \A i \in k..Len(q) : p[i + d] = q[i],
         q[k].role # "user", k < LastIn(Users(q))
  PROVE  TurnContext(p) = TurnContext(q)
<1> DEFINE u == LastIn(Users(q))
           a == TurnStart(q)
           m == Len(p)
           n == Len(q)
<1>1. /\ m \in Nat /\ n \in Nat /\ u \in 1..n /\ q[u].role = "user" /\ m = n + d
      /\ \A j \in Users(q) : j <= u
  <2>1. /\ Len(q) \in Nat /\ r \in Nat /\ u \in (r + 1)..Len(q) /\ q[u].role = "user"
        /\ \A j \in Users(q) : j <= u
    BY TurnableFacts
  <2>2. Len(p) \in Nat
    BY TurnableFacts
  <2> QED BY <2>1, <2>2
<1>2. a \in 1..u /\ (\A j \in a..u : q[j].role = "user") /\ (a > 1 => q[a - 1].role # "user")
  BY TurnStartRun
<1>3. TurnContext(p) = From(p, TurnStart(p)) /\ TurnContext(q) = From(q, a)
  BY TurnContextFrom
<1>4. k < u /\ \A i \in k..n : p[i + d] = q[i]
  OBVIOUS
<1> HIDE DEF u, a
<1>5. k < a
  <2>1. ~(k < a) => k \in a..u
    BY <1>1, <1>2, <1>4
  <2> QED BY <1>2, <2>1
<1>6. LastIn(Users(p)) = u + d
  <2>1. u + d \in 1..m /\ p[u + d] = q[u]
    BY <1>1, <1>4 DEF m, n
  <2>2. u + d \in Users(p)
    BY <1>1, <2>1 DEF Users, Positions
  <2>3. ASSUME NEW j \in Users(p) PROVE j <= u + d
    <3>1. j \in 1..m /\ p[j].role = "user"
      BY DEF Users, Positions
    <3>2. CASE j - d <= u
      BY <1>1, <3>1, <3>2
    <3>3. CASE ~(j - d <= u)
      <4>1. j - d \in k..n /\ j - d \in 1..n /\ (j - d) + d = j
        BY <1>1, <1>4, <3>1, <3>3
      <4>2. q[j - d].role = "user"
        BY <1>4, <3>1, <4>1
      <4>3. j - d \in Users(q)
        BY <4>1, <4>2 DEF Users, Positions
      <4> QED BY <1>1, <3>3, <4>3
    <3> QED BY <3>2, <3>3
  <2>4. Users(p) \subseteq 0..m
    BY <1>1 DEF Users, Positions
  <2> DEFINE v == u + d
  <2> HIDE DEF v, m
  <2>5. LastIn(Users(p)) = v
    BY <1>1, <2>2, <2>3, <2>4, LastIs DEF v
  <2> QED BY <2>5 DEF v
<1>7. TurnStart(p) = a + d
  <2> DEFINE b == a + d
  <2>1. b \in 2..(u + d) /\ a - 1 \in k..n /\ (a - 1) + d = b - 1 /\ a > 1
    BY <1>1, <1>2, <1>4, <1>5
  <2>2. p[b - 1].role # "user"
    BY <1>2, <1>4, <2>1
  <2>3. ASSUME NEW j \in b..(u + d) PROVE p[j].role = "user"
    <3>1. j - d \in a..u /\ j - d \in k..n /\ (j - d) + d = j
      BY <1>1, <1>2, <1>5
    <3> QED BY <1>2, <1>4, <3>1
  <2> HIDE DEF b
  <2>4. TurnStart(p) = b
    BY <1>6, <2>1, <2>2, <2>3, TurnStartFrom
  <2> QED BY <2>4 DEF b
<1>8. From(p, a + d) = From(q, a)
  <2>1. m - (a + d) + 1 = n - a + 1
    BY <1>1, <1>2
  <2>2. ASSUME NEW i \in 1..(n - a + 1) PROVE p[(a + d) + i - 1] = q[a + i - 1]
    <3>1. a + i - 1 \in k..n /\ (a + i - 1) + d = (a + d) + i - 1
      BY <1>1, <1>2, <1>5
    <3>2. p[(a + i - 1) + d] = q[a + i - 1]
      BY <1>4, <3>1
    <3> QED BY <3>1, <3>2
  <2> DEFINE z == [i \in 1..(n - a + 1) |-> Canonical(q[a + i - 1])]
  <2>3. From(p, a + d) = [i \in 1..(n - a + 1) |-> Canonical(p[(a + d) + i - 1])]
    BY <2>1 DEF From
  <2>4. From(q, a) = z
    BY DEF From
  <2> HIDE DEF n, m
  <2>5. [i \in 1..(n - a + 1) |-> Canonical(p[(a + d) + i - 1])] = z
    BY <2>2
  <2> QED BY <2>3, <2>4, <2>5
<1> QED BY <1>3, <1>7, <1>8 DEF a

(* In a client's transcript answers do not follow one another, and a tool    *)
(* result is that of a call.                                                 *)
Spoken(ms) ==
  \A i \in 1..Len(ms) : /\ ms[i].role = "assistant" => i > 1 /\ ms[i - 1].role # "assistant"
                        /\ ms[i].role = "tool" => ms[i].call # None

LEMMA SpokenAppend ==
  ASSUME NEW ms, TalkOk(ms), Spoken(ms), NEW m \in Message,
         m.role = "assistant" => Last(ms).role # "assistant",
         m.role = "tool" => m.call # None
  PROVE  Spoken(Append(ms, m))
<1> DEFINE t == Append(ms, m)
           n == Len(ms)
<1>1. ms \in Seq(Message) /\ n \in Nat /\ n >= 1
  BY TalkFacts DEF TalkOk
<1>2. Len(t) = n + 1 /\ t[n + 1] = m /\ \A i \in 1..n : t[i] = ms[i]
  BY <1>1, AppendProperties
<1> HIDE DEF t, n
<1>3. n \in 1..n /\ t[n] = Last(ms)
  BY <1>1, <1>2 DEF Last, n
<1>4. ASSUME NEW i \in 1..(n + 1)
      PROVE  /\ t[i].role = "assistant" => i > 1 /\ t[i - 1].role # "assistant"
             /\ t[i].role = "tool" => t[i].call # None
  <2>1. CASE i = n + 1
    <3>1. i - 1 = n /\ i > 1
      BY <1>1, <2>1
    <3> QED BY <1>2, <1>3, <2>1, <3>1
  <2>2. CASE i # n + 1
    <3>1. i \in 1..n /\ t[i] = ms[i]
      BY <1>1, <1>2, <2>2
    <3>2. i > 1 => i - 1 \in 1..n
      BY <1>1, <3>1
    <3> QED BY <1>2, <3>1, <3>2 DEF Spoken, n
  <2> QED BY <2>1, <2>2
<1>5. Spoken(t)
  BY <1>2, <1>4 DEF Spoken
<1> QED BY <1>5 DEF t

LEMMA SpokenPrefix ==
  ASSUME NEW ms \in Seq(Message), Spoken(ms), NEW k \in 0..Len(ms)
  PROVE  Spoken(SubSeq(ms, 1, k))
<1> DEFINE t == SubSeq(ms, 1, k)
<1>1. Len(ms) \in Nat /\ Len(t) = k /\ \A i \in 1..k : t[i] = ms[i]
  BY Elements, Prefix
<1> HIDE DEF t
<1>2. ASSUME NEW i \in 1..k
      PROVE  /\ t[i].role = "assistant" => i > 1 /\ t[i - 1].role # "assistant"
             /\ t[i].role = "tool" => t[i].call # None
  <2>1. i \in 1..Len(ms) /\ (i > 1 => i - 1 \in 1..k)
    BY <1>1
  <2> QED BY <1>1, <2>1 DEF Spoken
<1>3. Spoken(t)
  BY <1>1, <1>2 DEF Spoken
<1> QED BY <1>3 DEF t

(* After a notice without a call the client's next message is the user's:    *)
(* what is kept from the notice on is in the same turn as the transcript.    *)
LEMMA SuffixTurn ==
  ASSUME NEW ms, TalkOk(ms), Spoken(ms), Last(ms).role \in {"user", "tool"},
         Notices(ms) # {}, Shown(ms).call = None
  PROVE  TurnContext(Cut(ms)) = TurnContext(ms)
<1> DEFINE b == LastIn(Notices(ms))
           n == Len(ms)
           q == Cut(ms)
           d == b - 4
<1>1. /\ ms \in Seq(Message) /\ n \in Nat /\ b \in 1..n /\ HasNotice(ms[b])
      /\ ms[b].call = None /\ \A i \in Notices(ms) : i <= b
  BY TalkFacts, LastNotice DEF Shown
<1>2. ms[b].role = "assistant"
  BY <1>1 DEF HasNotice
<1>3. PICK u \in Users(ms) : u < b /\ \A i \in Users(ms) : i < b => i <= u
  <2> HIDE DEF b
  <2> QED BY <1>1, <1>2, UserBefore
<1>4. Turnable(ms, 1) /\ Turnable(q, 2)
  <2>1. Sendable(ms, 1)
    BY TalkSendable
  <2>2. q = FromBoundary(ms, b).messages
    BY DEF Cut
  <2> HIDE DEF b, q
  <2> DEFINE s == 1
  <2>3. Sendable(ms, s) /\ s + 1 = 2
    BY <2>1
  <2> HIDE DEF s
  <2>4. Sendable(q, s + 1)
    BY <1>1, <1>2, <2>2, <2>3, BoundaryShape
  <2> QED BY <2>1, <2>3, <2>4, SendableTurnable
<1>5. q = Opening(ms, u) \o SubSeq(ms, b, n)
  <2>1. q = FromBoundary(ms, b).messages
    BY DEF Cut
  <2> HIDE DEF b, q
  <2> QED BY <1>1, <1>2, <1>3, <2>1, BoundaryIs
<1> HIDE DEF b, q
<1>6. Len(q) = 3 + (n - b + 1) /\ \A i \in 4..Len(q) : ms[i + d] = q[i]
  <2> DEFINE o == Opening(ms, u)
             z == SubSeq(ms, b, n)
  <2>1. o \in Seq(Message) /\ Len(o) = 3
    BY StartShape
  <2>2. z \in Seq(Message) /\ Len(z) = n - b + 1 /\ \A i \in 1..(n - b + 1) : z[i] = ms[b + i - 1]
    BY <1>1, Suffix
  <2>3. q = o \o z
    BY <1>5
  <2> HIDE DEF o, z
  <2>4. Len(o \o z) = Len(o) + Len(z)
    BY <2>1, <2>2, ConcatProperties
  <2>5. ASSUME NEW i \in 4..(3 + (n - b + 1)) PROVE ms[i + d] = (o \o z)[i]
    <3>1. i \in 1..(Len(o) + Len(z)) /\ ~(i <= Len(o)) /\ i - Len(o) = i - 3
          /\ i - 3 \in 1..(n - b + 1) /\ b + (i - 3) - 1 = i + d
      BY <1>1, <2>1, <2>2
    <3>2. (o \o z)[i] = z[i - 3]
      BY <2>1, <2>2, <3>1, ConcatProperties
    <3>3. z[i - 3] = ms[b + (i - 3) - 1]
      BY <2>2, <3>1
    <3> QED BY <3>1, <3>2, <3>3
  <2> QED BY <2>1, <2>2, <2>3, <2>4, <2>5
<1>7. b < n /\ ms[b + 1].role = "user"
  <2>1. ms[n].role \in {"user", "tool"}
    BY DEF Last
  <2>2. b # n
    BY <1>2, <2>1
  <2>3. b < n /\ b + 1 \in 1..n /\ b + 1 # 1 /\ (b + 1) - 1 = b
    BY <1>1, <2>2
  <2>4. ms[b + 1].role # "system"
    BY <2>3 DEF TalkOk
  <2>5. ms[b + 1].role # "assistant"
    BY <1>2, <2>3 DEF Spoken
  <2>6. ms[b + 1].role # "tool"
    <3>1. ms[b + 1].role = "tool" => ms[b + 1].call # None /\ ms[b].call = ms[b + 1].call
      BY <2>3 DEF Spoken, TalkOk
    <3> QED BY <1>1, <3>1
  <2>7. ms[b + 1] \in Message
    BY <1>1, <2>3, Elements
  <2> QED BY <2>3, <2>4, <2>5, <2>6, <2>7 DEF Message
<1>8. q[4].role # "user" /\ 4 < LastIn(Users(q))
  <2>1. 4 \in 4..Len(q) /\ 5 \in 4..Len(q) /\ 4 + d = b /\ 5 + d = b + 1 /\ 5 \in 1..Len(q)
    BY <1>1, <1>6, <1>7
  <2>2. q[4] = ms[b] /\ q[5] = ms[b + 1]
    BY <1>6, <2>1
  <2>3. 5 \in Users(q)
    BY <1>7, <2>1, <2>2 DEF Users, Positions
  <2>4. Len(q) \in Nat /\ LastIn(Users(q)) \in (2 + 1)..Len(q) /\ \A j \in Users(q) : j <= LastIn(Users(q))
    BY <1>4, TurnableFacts
  <2> QED BY <1>2, <2>2, <2>3, <2>4
<1>9. d \in Int /\ n = Len(q) + d /\ 4 + d >= 1
  BY <1>1, <1>6
<1> DEFINE k == 4
<1>10. /\ k \in Nat \ {0} /\ d \in Int /\ Len(ms) = Len(q) + d /\ k + d >= 1
       /\ (\A i \in k..Len(q) : ms[i + d] = q[i]) /\ q[k].role # "user" /\ k < LastIn(Users(q))
  BY <1>6, <1>8, <1>9
<1> HIDE DEF d, k, n
<1>11. TurnContext(ms) = TurnContext(q)
  BY <1>4, <1>10, SameEnd
<1> QED BY <1>11 DEF q

-----------------------------------------------------------------------------
(* What is settled stays so.  With the notice a request is its turn's user   *)
(* message.  Where nothing more is to be recovered the transcript, or what   *)
(* follows its last notice, is found; and a request prepared after that      *)
(* notice, which is known by the call that came with it, was sent as the one *)
(* or the other.                                                             *)
NoticeKept(r) ==
  r.notice => r.ns \notin Disabled /\ TurnContext(r.messages) = <<Canonical(Newest(r.talk))>>
Follows(ms, m) == m.call # None /\ \E i \in 1..Len(ms) : ms[i].call = m.call
SettledOk(ms, requests, ns, c) ==
  /\ ns \notin Disabled /\ Notices(ms) # {}
  /\ Found(ms, c, ns) \/ Found(Cut(ms), c, ns)
  /\ \A r \in requests : r.ns = ns /\ Follows(r.talk, Shown(ms))
       => Found(r.talk, c, ns) \/ Alike(Cut(r.talk), r.messages)
SettledInv ==
  /\ DOMAIN settled = Conversation
  /\ \A c \in Conversation :
       /\ Spoken(talk[c])
       /\ \A r \in pending[c] : NoticeKept(r)
       /\ \A ns \in settled[c] : SettledOk(talk[c], pending[c], ns, cache)

LEMMA SettledMore ==
  ASSUME NEW ms, NEW requests, NEW less, less \subseteq requests, NEW ns,
         NEW c, NEW d, DOMAIN c \subseteq DOMAIN d, SettledOk(ms, requests, ns, c)
  PROVE  SettledOk(ms, less, ns, d)
BY FoundMore DEF SettledOk

(* A message of the client.                                                  *)
LEMMA SettledSays ==
  ASSUME NEW ms, TalkOk(ms), NEW x \in Message, x.role # "assistant", TalkOk(Append(ms, x)),
         NEW ns, NEW c, NEW requests, SettledOk(ms, requests, ns, c)
  PROVE  SettledOk(Append(ms, x), requests, ns, c)
<1>1. Notices(Append(ms, x)) # {} /\ Cut(Append(ms, x)) = Append(Cut(ms), x)
      /\ Cut(ms) \in Seq(Message) /\ ms \in Seq(Message) /\ Shown(Append(ms, x)) = Shown(ms)
  <2>1. ~HasNotice(x)
    BY DEF HasNotice
  <2> QED BY <2>1, CutGrows, TalkFacts DEF SettledOk
<1>2. Found(ms, c, ns) => Found(Append(ms, x), c, ns)
  BY <1>1, FoundAppend
<1>3. Found(Cut(ms), c, ns) => Found(Append(Cut(ms), x), c, ns)
  BY <1>1, FoundAppend
<1> QED BY <1>1, <1>2, <1>3 DEF SettledOk

LEMMA ClientSettled ==
  ASSUME IInv, IInv', SettledInv, NEW c \in Conversation,
         NEW x \in Message, x.role # "assistant", x.role = "tool" => x.call # None,
         talk' = [talk EXCEPT ![c] = Append(talk[c], x)], UNCHANGED <<pending, cache, settled>>
  PROVE  SettledInv'
<1>1. /\ TalkOk(talk[c]) /\ talk'[c] = Append(talk[c], x) /\ TalkOk(talk'[c])
      /\ \A d \in Conversation : d # c => talk'[d] = talk[d]
  BY DEF IInv, TalkInv
<1>2. ASSUME NEW ns \in settled[c] PROVE SettledOk(talk'[c], pending[c], ns, cache)
  <2>1. SettledOk(talk[c], pending[c], ns, cache)
    BY DEF SettledInv
  <2> DEFINE ms == talk[c]
             requests == pending[c]
  <2>2. TalkOk(ms) /\ TalkOk(Append(ms, x)) /\ SettledOk(ms, requests, ns, cache)
    BY <1>1, <2>1
  <2> HIDE DEF ms, requests
  <2>3. SettledOk(Append(ms, x), requests, ns, cache)
    BY <2>2, SettledSays
  <2> QED BY <1>1, <2>3 DEF ms, requests
<1>3. Spoken(talk'[c])
  <2> DEFINE ms == talk[c]
  <2>1. TalkOk(ms) /\ Spoken(ms)
    BY <1>1 DEF SettledInv
  <2> HIDE DEF ms
  <2>2. Spoken(Append(ms, x))
    BY <2>1, SpokenAppend
  <2> QED BY <1>1, <2>2 DEF ms
<1>4. ASSUME NEW d \in Conversation
      PROVE  /\ Spoken(talk'[d])
             /\ \A r \in pending'[d] : NoticeKept(r)
             /\ \A ns \in settled'[d] : SettledOk(talk'[d], pending'[d], ns, cache')
  <2>1. CASE d = c
    BY <1>2, <1>3, <2>1 DEF SettledInv
  <2>2. CASE d # c
    BY <1>1, <2>2 DEF SettledInv
  <2> QED BY <2>1, <2>2
<1>5. DOMAIN settled' = Conversation
  BY DEF SettledInv
<1> QED BY <1>4, <1>5 DEF SettledInv, NoticeKept

LEMMA UserSaysSettled ==
  ASSUME IInv, IInv', SettledInv, NEW c \in Conversation, NEW t \in Prompt, UserSays(c, t)
  PROVE  SettledInv'
<1> DEFINE m == User(t)
<1>1. m \in Message /\ m.role = "user"
  BY DEF User, System, Message, None
<1>2. talk' = [talk EXCEPT ![c] = Append(talk[c], m)] /\ UNCHANGED <<pending, cache, settled>>
  BY DEF UserSays, Says, IInv, TalkInv, history
<1> HIDE DEF m
<1> QED BY <1>1, <1>2, ClientSettled

LEMMA ToolReturnsSettled ==
  ASSUME IInv, IInv', SettledInv, NEW c \in Conversation, ToolReturns(c)
  PROVE  SettledInv'
<1> DEFINE l == Last(talk[c])
           m == ToolResult(l.call)
<1>1. l \in Message /\ l.call # None
  <2>1. talk[c] \in Seq(Message) /\ Len(talk[c]) >= 1
    BY DEF IInv, TalkInv, TalkOk
  <2>2. Len(talk[c]) \in 1..Len(talk[c])
    BY <2>1, Elements
  <2> QED BY <2>1, <2>2, Elements DEF Last, ToolReturns, CallIsOpen, LastOf
<1>2. m \in Message /\ m.role = "tool" /\ m.call # None
  <2> HIDE DEF l
  <2>1. l.call \in Nat /\ l.call # None
    BY <1>1 DEF Message
  <2> QED BY <2>1 DEF ToolResult, System, Message, None
<1>3. talk' = [talk EXCEPT ![c] = Append(talk[c], m)] /\ UNCHANGED <<pending, cache, settled>>
  BY DEF ToolReturns, Says, IInv, TalkInv, LastOf, Last, history
<1> HIDE DEF m, l
<1> QED BY <1>2, <1>3, ClientSettled

(* Going back, the client has nothing settled.                               *)
LEMMA RewindSettled ==
  ASSUME IInv, SettledInv, NEW c \in Conversation, NEW i \in Users(talk[c]), Rewind(c, i - 1)
  PROVE  SettledInv'
<1> DEFINE t == SubSeq(talk[c], 1, i - 1)
<1>1. talk[c] \in Seq(Message) /\ i - 1 \in 0..Len(talk[c]) /\ DOMAIN talk = Conversation
  <2>1. TalkOk(talk[c]) /\ DOMAIN talk = Conversation
    BY DEF IInv, TalkInv
  <2>2. talk[c] \in Seq(Message) /\ Len(talk[c]) \in Nat /\ Users(talk[c]) \subseteq 2..Len(talk[c])
    BY <2>1, TalkFacts
  <2> QED BY <2>1, <2>2
<1>2. Spoken(t)
  <2> DEFINE ms == talk[c]
             k == i - 1
  <2>1. ms \in Seq(Message) /\ Spoken(ms) /\ k \in 0..Len(ms)
    BY <1>1 DEF SettledInv
  <2> HIDE DEF ms, k
  <2>2. Spoken(SubSeq(ms, 1, k))
    BY <2>1, SpokenPrefix
  <2> QED BY <2>2 DEF ms, k
<1>3. /\ talk' = [talk EXCEPT ![c] = t] /\ settled' = [settled EXCEPT ![c] = {}]
      /\ UNCHANGED <<pending, cache>>
  BY DEF Rewind
<1> HIDE DEF t
<1>4. ASSUME NEW d \in Conversation
      PROVE  /\ Spoken(talk'[d])
             /\ \A r \in pending'[d] : NoticeKept(r)
             /\ \A ns \in settled'[d] : SettledOk(talk'[d], pending'[d], ns, cache')
  <2>1. CASE d = c
    BY <1>1, <1>2, <1>3, <2>1 DEF SettledInv
  <2>2. CASE d # c
    BY <1>1, <1>3, <2>2 DEF SettledInv
  <2> QED BY <2>1, <2>2
<1>5. DOMAIN settled' = Conversation
  BY <1>3 DEF SettledInv
<1> QED BY <1>4, <1>5 DEF SettledInv, NoticeKept

(* A request: prepared from a settled transcript it is not recovered.        *)
LEMMA AskSettles ==
  ASSUME IInv, TurnsInv, SettledInv, NEW c \in Conversation, NEW ns, Ask(c, ns),
         ns \in settled[c]
  PROVE  Prepared(talk[c], ns).rounds = 0 /\ Settles(Prepared(talk[c], ns).pass, talk[c], ns)
<1>1. TalkOk(talk[c]) /\ Last(talk[c]).role \in {"user", "tool"} /\ Sound(cache)
      /\ talk[c] \in Seq(Bare)
  BY DEF IInv, TalkInv, StoreInv, Ask, LastOf, Last, TurnsInv, BareInv
<1>2. Sendable(talk[c], 1)
  BY <1>1, TalkSendable
<1>3. SettledOk(talk[c], pending[c], ns, cache)
  BY DEF SettledInv
<1> QED BY <1>1, <1>2, <1>3, PreparedSettles DEF SettledOk

LEMMA AskSettled ==
  ASSUME IInv, TurnsInv, SettledInv, NEW c \in Conversation, NEW ns, Ask(c, ns)
  PROVE  /\ SettledInv'
         /\ \A d \in Conversation : \A r \in pending'[d] \ pending[d] :
              r.ns \in settled[d] => r.rounds = 0
<1> DEFINE p == Prepared(talk[c], ns)
           request == [n |-> answers + 1, ns |-> ns, talk |-> talk[c],
                       messages |-> p.pass.messages, notice |-> p.notice, rounds |-> p.rounds]
           rejected == strategy = "reject" /\ p.pass.missing # {}
<1>1. DOMAIN cache \subseteq DOMAIN p.pass.cache
      /\ (strategy # "reject" => p.pass.missing = {}) /\ NoticeOfTurn(p, talk[c], ns)
  <2>1. TalkOk(talk[c]) /\ Last(talk[c]).role \in {"user", "tool"} /\ Sound(cache)
    BY DEF IInv, TalkInv, StoreInv, Ask, LastOf, Last
  <2>2. Sendable(talk[c], 1)
    BY <2>1, TalkSendable
  <2>3. PreparedOk(p, talk[c], ns) /\ NoticeOfTurn(p, talk[c], ns)
    BY <2>1, <2>2, PreparedFacts, PreparedNotice
  <2> HIDE DEF p
  <2> QED BY <2>3 DEF PreparedOk, PassOk
<1>2. /\ cache' = p.pass.cache /\ talk' = talk /\ settled' = settled
      /\ rejected => pending' = pending
      /\ ~rejected => pending' = [pending EXCEPT ![c] = @ \cup {request}]
  BY DEF Ask
<1>3. ns \in settled[c] => p.rounds = 0 /\ Settles(p.pass, talk[c], ns)
  BY AskSettles
<1>4. /\ request.ns = ns /\ request.messages = p.pass.messages /\ request.talk = talk[c]
      /\ request.rounds = p.rounds /\ request.notice = p.notice
  OBVIOUS
<1> HIDE DEF p, request
<1>5. DOMAIN pending = Conversation
  BY DEF IInv, PendingInv
<1>6. \A d \in Conversation : \A k \in settled[d] : SettledOk(talk[d], pending[d], k, cache')
  BY <1>1, <1>2, SettledMore DEF SettledInv
<1>7. CASE rejected
  BY <1>2, <1>6, <1>7 DEF SettledInv, NoticeKept
<1>8. CASE ~rejected
  <2>1. /\ pending'[c] = pending[c] \cup {request}
        /\ \A d \in Conversation : d # c => pending'[d] = pending[d]
    BY <1>2, <1>5, <1>8
  <2>2. p.pass.missing = {}
    BY <1>1, <1>8
  <2>3. NoticeKept(request)
    BY <1>1, <1>4 DEF NoticeKept, NoticeOfTurn
  <2>4. ASSUME NEW k \in settled[c]
        PROVE  SettledOk(talk[c], pending[c] \cup {request}, k, cache')
    <3>1. SettledOk(talk[c], pending[c], k, cache')
      BY <1>6
    <3>2. k = ns => Found(talk[c], cache', ns) \/ Alike(Cut(talk[c]), request.messages)
      BY <1>2, <1>3, <1>4, <2>2, <2>4 DEF Settles
    <3> QED BY <1>4, <3>1, <3>2 DEF SettledOk
  <2>5. ASSUME NEW d \in Conversation
        PROVE  /\ Spoken(talk'[d])
               /\ \A r \in pending'[d] : NoticeKept(r)
               /\ \A k \in settled'[d] : SettledOk(talk'[d], pending'[d], k, cache')
    <3>1. CASE d = c
      BY <1>2, <2>1, <2>3, <2>4, <3>1 DEF SettledInv
    <3>2. CASE d # c
      BY <1>2, <1>6, <2>1, <3>2 DEF SettledInv
    <3> QED BY <3>1, <3>2
  <2>6. SettledInv'
    BY <1>2, <2>5 DEF SettledInv, NoticeKept
  <2>7. \A d \in Conversation : \A r \in pending'[d] \ pending[d] :
          r.ns \in settled[d] => r.rounds = 0
    BY <1>3, <1>4, <2>1
  <2> QED BY <2>6, <2>7
<1> QED BY <1>7, <1>8

(* Where an answer is found: in every context it was recorded in.            *)
LEMMA AnswerHas ==
  ASSUME NEW m, NEW request, NEW prior \in Contexts(request), NEW c, NEW n
  PROVE  /\ SignatureKey(m, prior, request.ns) \in DOMAIN Recorded(c, m, n, request)
         /\ TurnKey(m, prior, request.ns) \in DOMAIN Recorded(c, m, n, request)
         /\ DOMAIN c \subseteq DOMAIN Recorded(c, m, n, request)
<1> DEFINE keys == ToSet(ScopedKeys(m, prior, request.ns) \o PortableKeys(m, prior, request.ns))
<1>1. DOMAIN Recorded(c, m, n, request) = DOMAIN c \cup AnswerKeys(m, request)
  BY DEF Recorded, With
<1>2. SignatureKey(m, prior, request.ns) \in keys /\ TurnKey(m, prior, request.ns) \in keys
  BY KeyList, TurnKeyIsKey
<1>3. keys \subseteq AnswerKeys(m, request)
  BY DEF AnswerKeys
<1> HIDE DEF keys
<1> QED BY <1>1, <1>2, <1>3

(* The answer with the notice settles its namespace: what follows the notice *)
(* is the answer, recorded for the turn that the next request will show.     *)
LEMMA NoticeSettles ==
  ASSUME NEW ms, TalkOk(ms), NEW x \in Message, HasNotice(x), TalkOk(Append(ms, x)),
         NEW request, request.talk = ms, request.notice, NoticeKept(request), NEW c, NEW n,
         NEW requests, \A r \in requests : ~Follows(r.talk, x)
  PROVE  SettledOk(Append(ms, x), requests, request.ns, Recorded(c, x, n, request))
<1> DEFINE u == LastIn(Users(ms))
           a == Opening(ms, u)
           ns == request.ns
           d == Recorded(c, x, n, request)
<1>1. /\ Notices(Append(ms, x)) # {} /\ u \in Users(ms)
      /\ Cut(Append(ms, x)) = Append(Opening(ms, u), x) /\ Shown(Append(ms, x)) = x
  BY CutOfNotice
<1>2. /\ a \in Seq(Message) /\ Len(a) = 3 /\ a[3] = ms[u] /\ Turnable(a, 2)
      /\ \A i \in 1..3 : a[i].role # "assistant"
  BY <1>1, StartShape
<1>3. TurnContext(request.messages) = <<Canonical(ms[u])>> /\ ns \notin Disabled
  BY DEF NoticeKept, Newest
<1>4. request.messages \in Contexts(request)
  BY DEF Contexts
<1>5. TurnKey(x, request.messages, ns) \in DOMAIN d
  BY <1>4, AnswerHas
<1> HIDE DEF u, a, d, ns
<1>6. TurnContext(a) = <<Canonical(ms[u])>>
  <2>1. LastIn(Users(a)) = 3
    <3>1. LastIn(Users(a)) \in (2 + 1)..Len(a)
      BY <1>2, TurnableFacts
    <3> QED BY <1>2, <3>1
  <2>2. TurnContext(a) = <<Canonical(Newest(a))>>
    <3>1. Len(a) = 2 + 1
      BY <1>2
    <3> QED BY <1>2, <3>1, ShortTurn
  <2> QED BY <1>2, <2>1, <2>2 DEF Newest
<1>7. TurnKey(x, a, ns) = TurnKey(x, request.messages, ns)
  BY <1>3, <1>6 DEF TurnKey
<1>8. HasKey(x, a, ns, d)
  BY <1>5, <1>7, TurnKeyIsKey DEF HasKey
<1>9. Found(a, d, ns)
  BY <1>2 DEF Found
<1>10. Found(Append(a, x), d, ns)
  BY <1>2, <1>8, <1>9, FoundAppend
<1>11. SettledOk(Append(ms, x), requests, ns, d)
  BY <1>1, <1>3, <1>10 DEF SettledOk, a
<1> QED BY <1>11 DEF ns, d

(* Another answer of a settled namespace is found where its request was, or, *)
(* after a notice that came with no call, in the turn it belongs to.         *)
LEMMA AnswerStaysSettled ==
  ASSUME NEW ms, TalkOk(ms), Spoken(ms), Last(ms).role \in {"user", "tool"},
         NEW x \in Message, ~HasNotice(x), TalkOk(Append(ms, x)),
         NEW request, request.talk = ms, request.messages \in Seq(Message), NEW c, NEW n,
         NEW requests, request \in requests, SettledOk(ms, requests, request.ns, c)
  PROVE  SettledOk(Append(ms, x), requests, request.ns, Recorded(c, x, n, request))
<1> DEFINE ns == request.ns
           q == request.messages
           d == Recorded(c, x, n, request)
           k == Cut(ms)
<1>1. /\ Notices(Append(ms, x)) # {} /\ Cut(Append(ms, x)) = Append(k, x)
      /\ k \in Seq(Message) /\ ms \in Seq(Message) /\ ns \notin Disabled
      /\ Shown(Append(ms, x)) = Shown(ms)
  BY CutGrows, TalkFacts DEF SettledOk
<1>2. /\ SignatureKey(x, ms, ns) \in DOMAIN d /\ SignatureKey(x, q, ns) \in DOMAIN d
      /\ TurnKey(x, ms, ns) \in DOMAIN d /\ DOMAIN c \subseteq DOMAIN d
  <2>1. ms \in Contexts(request) /\ q \in Contexts(request)
    BY DEF Contexts
  <2> QED BY <2>1, AnswerHas
<1>3. \/ Found(ms, c, ns)
      \/ Found(k, c, ns) /\ Alike(k, q)
      \/ Found(k, c, ns) /\ Shown(ms).call = None
  <2>1. Shown(ms).call # None => Follows(ms, Shown(ms))
    <3>1. LastIn(Notices(ms)) \in 1..Len(ms)
      BY <1>1, LastNotice DEF SettledOk
    <3> QED BY <3>1 DEF Follows, Shown
  <2> QED BY <2>1 DEF SettledOk
<1>4. SettledOk(ms, requests, ns, d)
  BY <1>2, SettledMore
<1>5. SettledOk(Append(ms, x), requests, ns, d)
        <=> Found(Append(ms, x), d, ns) \/ Found(Append(k, x), d, ns)
  BY <1>1, <1>4 DEF SettledOk
<1> HIDE DEF ns, q, d, k
<1>6. CASE Found(ms, c, ns)
  <2>1. Found(ms, d, ns) /\ HasKey(x, ms, ns, d)
    BY <1>2, <1>6, FoundMore, SignatureHas
  <2>2. Found(Append(ms, x), d, ns)
    BY <1>1, <2>1, FoundAppend
  <2> QED BY <1>5, <2>2 DEF ns, d
<1>7. CASE Found(k, c, ns) /\ Alike(k, q)
  <2>1. Canon(q) = Canon(k)
    BY <1>1, <1>7, AlikeFacts DEF q
  <2>2. SignatureKey(x, k, ns) = SignatureKey(x, q, ns)
    BY <2>1 DEF SignatureKey, Scope
  <2>3. Found(k, d, ns) /\ HasKey(x, k, ns, d)
    BY <1>2, <1>7, <2>2, FoundMore, SignatureHas
  <2>4. Found(Append(k, x), d, ns)
    BY <1>1, <2>3, FoundAppend
  <2> QED BY <1>5, <2>4 DEF ns, d
<1>8. CASE Found(k, c, ns) /\ Shown(ms).call = None
  <2>1. TurnContext(k) = TurnContext(ms)
    BY <1>8, SuffixTurn DEF k, SettledOk
  <2>2. TurnKey(x, k, ns) \in DOMAIN d
    BY <1>2, <2>1 DEF TurnKey
  <2>3. Found(k, d, ns) /\ HasKey(x, k, ns, d)
    BY <1>2, <1>8, <2>2, FoundMore, TurnKeyIsKey DEF HasKey
  <2>4. Found(Append(k, x), d, ns)
    BY <1>1, <2>3, FoundAppend
  <2> QED BY <1>5, <2>4 DEF ns, d
<1> QED BY <1>3, <1>6, <1>7, <1>8

LEMMA AnswerSettled ==
  ASSUME IInv, IInv', OwnInv, SettledInv, NEW c \in Conversation, NEW request \in pending[c],
         NEW withCall \in BOOLEAN, NEW arrives \in BOOLEAN, Answer(c, request, withCall, arrives)
  PROVE  SettledInv'
<1> DEFINE m == Assistant(request.n, withCall, request.notice)
           ms == talk[c]
           ns == request.ns
           d == Recorded(cache, m, request.n, request)
<1>1. RequestOk(request) /\ NoticeKept(request)
  BY DEF IInv, PendingInv, SettledInv
<1>2. /\ m \in Message /\ m.notice = request.notice /\ m.role = "assistant"
      /\ m.call \in {None, request.n}
  <2>1. request.n \in Nat /\ request.notice \in BOOLEAN
    BY <1>1 DEF RequestOk
  <2> QED BY <2>1 DEF Assistant, Message, None
<1>3. /\ pending' = [pending EXCEPT ![c] = @ \ {request}]
      /\ ns \in Disabled => cache' = cache
      /\ ns \notin Disabled => cache' = d
      /\ \/ talk' = talk /\ settled' = settled
         \/ /\ ms = request.talk
            /\ talk' = [talk EXCEPT ![c] = Append(@, m)]
            /\ settled' = [settled EXCEPT ![c] = IF m.notice THEN {ns} ELSE @ \cap {ns}]
  BY DEF Answer, Says
<1> HIDE DEF m
<1>4. /\ DOMAIN talk = Conversation /\ DOMAIN pending = Conversation /\ DOMAIN settled = Conversation
  BY DEF IInv, TalkInv, PendingInv, SettledInv
<1>5. DOMAIN cache \subseteq DOMAIN cache'
  <2>1. DOMAIN cache \subseteq DOMAIN d
    BY DEF Recorded, With
  <2> QED BY <1>3, <2>1
<1>6. \A e \in Conversation : pending'[e] \subseteq pending[e]
  BY <1>3, <1>4
<1>7. \A e \in Conversation : \A k \in settled[e] : SettledOk(talk[e], pending'[e], k, cache')
  BY <1>5, <1>6, SettledMore DEF SettledInv
<1>8. CASE talk' = talk /\ settled' = settled
  BY <1>6, <1>7, <1>8 DEF SettledInv, NoticeKept
<1>9. CASE ~(talk' = talk /\ settled' = settled)
  <2>1. /\ talk'[c] = Append(ms, m) /\ ms = request.talk /\ TalkOk(ms) /\ TalkOk(Append(ms, m))
        /\ settled'[c] = IF m.notice THEN {ns} ELSE settled[c] \cap {ns}
        /\ \A e \in Conversation : e # c => talk'[e] = talk[e] /\ settled'[e] = settled[e]
    <3>1. talk'[c] = Append(ms, m) /\ ms = request.talk
      BY <1>3, <1>4, <1>9
    <3>2. TalkOk(ms) /\ TalkOk(talk'[c])
      BY DEF IInv, TalkInv
    <3> QED BY <1>3, <1>4, <1>9, <3>1, <3>2
  <2>2. Spoken(ms) /\ Last(ms).role \in {"user", "tool"}
    BY <1>1, <2>1 DEF SettledInv, RequestOk
  <2>3. ASSUME NEW k \in settled'[c] PROVE SettledOk(Append(ms, m), pending'[c], k, cache')
    <3> DEFINE more == pending[c]
    <3>1. k = ns /\ pending'[c] \subseteq more
      BY <1>6, <2>1, <2>3
    <3>2. CASE m.notice
      <4>1. request.notice /\ HasNotice(m) /\ cache' = d
        BY <1>1, <1>2, <1>3, <3>2 DEF HasNotice, NoticeKept
      <4>2. \A r \in more : ~Follows(r.talk, m)
        <5>1. request.n \in Sent
          BY <1>4 DEF Sent, Requests
        <5>2. \A r \in more : Answered(r.talk, answers, Sent)
          BY DEF OwnInv, AnsweredInv
        <5> HIDE DEF more
        <5> QED BY <1>2, <5>1, <5>2 DEF Follows, Answered
      <4> HIDE DEF ms, more
      <4>3. SettledOk(Append(ms, m), more, request.ns, Recorded(cache, m, request.n, request))
        BY <1>1, <1>2, <2>1, <4>1, <4>2, NoticeSettles
      <4>4. SettledOk(Append(ms, m), more, k, cache')
        BY <3>1, <4>1, <4>3
      <4> QED BY <3>1, <4>4, SettledMore
    <3>3. CASE ~m.notice
      <4>1. ns \in settled[c]
        BY <2>1, <2>3, <3>3
      <4>2. SettledOk(ms, more, ns, cache) /\ request \in more
        BY <4>1 DEF SettledInv
      <4>3. ~HasNotice(m) /\ request.messages \in Seq(Message) /\ cache' = d
        BY <1>1, <1>3, <3>3, <4>2 DEF HasNotice, RequestOk, Sendable, SettledOk
      <4> HIDE DEF ms, more
      <4>4. SettledOk(Append(ms, m), more, request.ns, Recorded(cache, m, request.n, request))
        BY <1>1, <1>2, <2>1, <2>2, <4>2, <4>3, AnswerStaysSettled
      <4>5. SettledOk(Append(ms, m), more, k, cache')
        BY <3>1, <4>3, <4>4
      <4> QED BY <3>1, <4>5, SettledMore
    <3> QED BY <3>2, <3>3
  <2>4. Spoken(Append(ms, m))
    <3> HIDE DEF ms
    <3> QED BY <1>2, <2>1, <2>2, SpokenAppend
  <2>5. ASSUME NEW e \in Conversation
        PROVE  /\ Spoken(talk'[e])
               /\ \A r \in pending'[e] : NoticeKept(r)
               /\ \A k \in settled'[e] : SettledOk(talk'[e], pending'[e], k, cache')
    <3>1. CASE e = c
      BY <1>6, <2>1, <2>3, <2>4, <3>1 DEF SettledInv
    <3>2. CASE e # c
      BY <1>6, <1>7, <2>1, <3>2 DEF SettledInv
    <3> QED BY <3>1, <3>2
  <2>6. DOMAIN settled' = Conversation
    BY <1>3, <1>4
  <2> QED BY <2>5, <2>6 DEF SettledInv, NoticeKept
<1> QED BY <1>8, <1>9

(* What RecoveryConverges says of a step.                                    *)
NotAgain ==
  \A c \in Conversation : \A r \in pending'[c] \ pending[c] : r.ns \in settled[c] => r.rounds = 0

LEMMA SettledNext ==
  IInv /\ IInv' /\ TurnsInv /\ OwnInv /\ SettledInv /\ [Next]_vars => SettledInv' /\ NotAgain
<1> SUFFICES ASSUME IInv, IInv', TurnsInv, OwnInv, SettledInv, [Next]_vars
             PROVE  SettledInv' /\ NotAgain
  OBVIOUS
<1>0. ASSUME \A c \in Conversation : pending'[c] \subseteq pending[c] PROVE NotAgain
  BY <1>0 DEF NotAgain
<1>1. ASSUME NEW c \in Conversation, NEW t \in Prompt, UserSays(c, t)
      PROVE  SettledInv' /\ NotAgain
  BY <1>0, <1>1, UserSaysSettled DEF UserSays
<1>2. ASSUME NEW c \in Conversation, ToolReturns(c) PROVE SettledInv' /\ NotAgain
  BY <1>0, <1>2, ToolReturnsSettled DEF ToolReturns
<1>3. ASSUME NEW c \in Conversation, NEW i \in Users(talk[c]), Rewind(c, i - 1)
      PROVE  SettledInv' /\ NotAgain
  BY <1>0, <1>3, RewindSettled DEF Rewind
<1>4. ASSUME NEW c \in Conversation, NEW ns \in Namespace[c], Ask(c, ns)
      PROVE  SettledInv' /\ NotAgain
  BY <1>4, AskSettled DEF NotAgain
<1>5. ASSUME NEW c \in Conversation, NEW request \in pending[c],
             NEW withCall \in BOOLEAN, NEW arrives \in BOOLEAN,
             Answer(c, request, withCall, arrives)
      PROVE  SettledInv' /\ NotAgain
  <2>1. pending' = [pending EXCEPT ![c] = @ \ {request}] /\ DOMAIN pending = Conversation
    BY <1>5 DEF Answer, IInv, PendingInv
  <2>2. \A d \in Conversation : pending'[d] \subseteq pending[d]
    BY <2>1
  <2> QED BY <1>0, <1>5, <2>2, AnswerSettled
<1>6. ASSUME NEW c \in Conversation, NEW request \in pending[c], Fail(c, request)
      PROVE  SettledInv' /\ NotAgain
  <2>1. /\ pending' = [pending EXCEPT ![c] = @ \ {request}] /\ DOMAIN pending = Conversation
        /\ UNCHANGED <<talk, cache, settled>>
    BY <1>6 DEF Fail, history, IInv, PendingInv
  <2>2. \A d \in Conversation : pending'[d] \subseteq pending[d]
    BY <2>1
  <2>3. \A d \in Conversation : \A k \in settled[d] : SettledOk(talk[d], pending'[d], k, cache)
    BY <2>2, SettledMore DEF SettledInv
  <2>4. SettledInv'
    BY <2>1, <2>2, <2>3 DEF SettledInv, NoticeKept
  <2> QED BY <1>0, <2>2, <2>4
<1>7. CASE Lose
  <2>1. pending' = pending /\ talk' = talk /\ settled' = [c \in Conversation |-> {}]
    BY <1>7 DEF Lose
  <2> QED BY <1>0, <2>1 DEF SettledInv, NoticeKept
<1>8. CASE UNCHANGED vars
  <2>1. UNCHANGED <<pending, talk, settled, cache>>
    BY <1>8 DEF vars, history
  <2> QED BY <1>0, <2>1 DEF SettledInv, NoticeKept
<1> QED BY <1>1, <1>2, <1>3, <1>4, <1>5, <1>6, <1>7, <1>8 DEF Next

LEMMA SettledInit == Init => SettledInv
<1> SUFFICES ASSUME Init PROVE SettledInv
  OBVIOUS
<1> DEFINE m == System("prompt")
<1>1. m.role = "system"
  BY DEF System
<1> HIDE DEF m
<1>2. Len(<<m>>) = 1 /\ <<m>>[1] = m
  OBVIOUS
<1>3. Spoken(<<m>>)
  BY <1>1, <1>2 DEF Spoken
<1> QED BY <1>3 DEF Init, SettledInv, m

(* Once a client has an answer with the notice, no later request of that     *)
(* namespace is recovered again, until something is lost, an answer of       *)
(* another namespace comes in between or the client goes back, whatever it   *)
(* repeats and whichever answers do not reach it: the notice is found in the *)
(* transcript, and all that follows it is recorded under what the second     *)
(* pass reads (normalize_messages of the messages after the last notice,     *)
(* response_recording_contexts).                                             *)
THEOREM RecoveredOnce == Spec => RecoveryConverges
<1>1. Init => TurnsInv /\ OwnInv /\ SettledInv
  BY TurnsInit, OwnInit, SettledInit
<1>2. IInv /\ TurnsInv /\ [Next]_vars => TurnsInv'
  BY TurnsNext
<1>3. IInv /\ TurnsInv /\ OwnInv /\ [Next]_vars => OwnInv'
  BY OwnNext
<1>4. IInv /\ IInv' /\ TurnsInv /\ OwnInv /\ SettledInv /\ [Next]_vars => SettledInv' /\ NotAgain
  BY SettledNext
<1>5. RecoveryConverges <=> [][NotAgain]_vars
  BY PTL DEF RecoveryConverges, NotAgain
<1> QED BY <1>1, <1>2, <1>3, <1>4, <1>5, Invariance, PTL DEF Spec

=============================================================================
