------------------------- MODULE ValkeyStoreProofs -------------------------
(***************************************************************************)
(* Proofs about ValkeyStore, for every set of replicas and keys and every  *)
(* value of the bounds, with failures and crashes.                         *)
(***************************************************************************)
EXTENDS ValkeyStore, FiniteSetTheorems, TLAPS

(* Which commands an operation sends: SCAN is clear()'s, and SET and ZADD    *)
(* name a cache key.                                                         *)
PointOK(o) ==
  /\ o.pc = "scan" => o.call = "clear"
  /\ o.call = "clear" => o.pc \in {"scan", "delete", "delindex", "return"}
  /\ o.pc \in {"set", "zadd"} => o.key \in Key
PointsOK == \A r \in Replica : PointOK(op[r])

(* The progress of a clear(): a value from before the call that is still     *)
(* there has yet to be scanned, or was found and has yet to be deleted.      *)
ClearProgress ==
  \A r \in Replica :
    op[r].call = "clear" =>
      /\ op[r].pc = "scan" => earlier[r] \cap Live \subseteq op[r].todo \cup op[r].gone
      /\ op[r].pc = "delete" => earlier[r] \cap Live \subseteq op[r].todo
      /\ op[r].pc \in {"delindex", "return"} => earlier[r] \cap Live = {}

IInv == TypeOK /\ PointsOK /\ ClearProgress

-----------------------------------------------------------------------------
LEMMA ConstantFacts ==
  /\ MaxAge \in Nat /\ MaxRows \in Nat /\ Skew \in Nat /\ MaxTime \in Nat
  /\ Batch \in Nat \ {0} /\ Faults \in BOOLEAN /\ IndexKey \notin Key
BY NumbersAssumption, KeysAssumption

LEMMA WithoutDomain ==
  ASSUME NEW f, NEW ks
  PROVE  /\ DOMAIN Without(f, ks) = DOMAIN f \ ks
         /\ \A x \in DOMAIN f \ ks : Without(f, ks)[x] = f[x]
BY DEF Without

LEMMA WithoutType ==
  ASSUME NEW f, NEW ks, NEW T, NEW D, D = DOMAIN f, f \in [D -> T]
  PROVE  Without(f, ks) \in [D \ ks -> T]
BY DEF Without

LEMMA WithDomain ==
  ASSUME NEW f, NEW k, NEW e
  PROVE  /\ DOMAIN With(f, k, e) = DOMAIN f \cup {k}
         /\ With(f, k, e)[k] = e
         /\ \A x \in DOMAIN f \ {k} : With(f, k, e)[x] = f[x]
BY DEF With

LEMMA WithType ==
  ASSUME NEW T, NEW f, NEW k, NEW e \in T, NEW D, D = DOMAIN f, f \in [D -> T]
  PROVE  With(f, k, e) \in [D \cup {k} -> T]
BY DEF With

LEMMA NoKeysDomain == DOMAIN NoKeys = {} /\ NoKeys \in [{} -> Nat]
BY DEF NoKeys

(* The index is finite, so ZCARD is a number. *)
LEMMA IndexCounted ==
  ASSUME TypeOK
  PROVE  Cardinality(Indexed) \in Nat
BY FiniteAssumption, FS_Subset, FS_CardinalityType DEF TypeOK

LEMMA StartedIsOperation ==
  ASSUME NEW c \in Calls \cup {"none"}, NEW p \in Points \cup {"idle"},
         NEW k \in Key \cup {IndexKey}, NEW t \in Nat, NEW S \in SUBSET (Key \cup {IndexKey})
  PROVE  /\ Started(c, p, k, t, S) \in Operation
         /\ Started(c, p, k, t, S).call = c /\ Started(c, p, k, t, S).pc = p
         /\ Started(c, p, k, t, S).key = k /\ Started(c, p, k, t, S).todo = S
         /\ Started(c, p, k, t, S).gone = {}
BY DEF Started, Operation

LEMMA IdleIsOperation ==
  Idle \in Operation /\ PointOK(Idle) /\ Idle.call = "none" /\ Idle.pc = "idle"
BY StartedIsOperation DEF Idle, PointOK

(* What a step of one replica does to the operations in progress: the        *)
(* stepping replica's becomes o or Idle, the others stay.                    *)
LEMMA AdvanceFacts ==
  ASSUME TypeOK, NEW r \in Replica, NEW o \in Operation, Advance(r, o)
  PROVE  /\ op' \in [Replica -> Operation]
         /\ op'[r] \in {o, Idle}
         /\ \A s \in Replica \ {r} : op'[s] = op[s]
BY IdleIsOperation DEF Advance, TypeOK

(* Without faults a command does what it says.                               *)
LEMMA Exactly ==
  ASSUME TypeOK, ~Faults, NEW r \in Replica, NEW o, Advance(r, o)
  PROVE  op'[r] = o /\ \A s \in Replica \ {r} : op'[s] = op[s]
BY DEF Advance, TypeOK

(* A step that writes no value and takes no part in a clear() keeps what is  *)
(* known of every clear() in progress.                                       *)
LEMMA ClearUndisturbed ==
  ASSUME IInv, NEW r \in Replica,
         Live' \subseteq Live,
         \A s \in Replica : earlier'[s] \subseteq earlier[s],
         \A s \in Replica \ {r} : op'[s] = op[s],
         PointOK(op'[r]), op'[r] = op[r] \/ op'[r].call # "clear"
  PROVE  PointsOK' /\ ClearProgress'
BY DEF IInv, PointsOK, ClearProgress

-----------------------------------------------------------------------------
LEMMA InitIInv == Init => IInv
<1> SUFFICES ASSUME Init PROVE IInv
  OBVIOUS
<1> PICK K \in SUBSET Key : data = [k \in K |-> [at |-> 0, exp |-> MaxAge, ok |-> FALSE]]
  BY DEF Init
<1>1. Live = K /\ data \in [Live -> Entry]
  BY ConstantFacts DEF Live, Entry
<1>2. TypeOK
  BY <1>1, NoKeysDomain, IdleIsOperation DEF Init, TypeOK, Indexed
<1>3. PointsOK /\ ClearProgress
  BY IdleIsOperation DEF Init, PointsOK, ClearProgress
<1> QED BY <1>2, <1>3 DEF IInv

(* Time passes: what expires is gone, what stays keeps its type.             *)
LEMMA Passing ==
  ASSUME IInv, now' = now + 1, data' = Without(data, ExpiredAt(now + 1))
  PROVE  /\ Live' \subseteq Live /\ data' \in [Live' -> Entry] /\ now' \in Nat
<1>1. Live' = Live \ ExpiredAt(now + 1)
  BY DEF Live, Without
<1>2. \A k \in Live' : data'[k] = data[k]
  BY <1>1 DEF Live, Without
<1>3. data' \in [Live' -> Entry]
  BY <1>1, WithoutType DEF IInv, TypeOK, Live
<1> QED BY <1>1, <1>3 DEF IInv, TypeOK

(* Values only disappear: the others keep their type.                        *)
LEMMA Removing ==
  ASSUME IInv, NEW ks, data' = Without(data, ks), UNCHANGED now
  PROVE  Live' \subseteq Live /\ data' \in [Live' -> Entry]
<1>1. Live' = Live \ ks
  BY DEF Live, Without
<1>2. \A k \in Live' : data'[k] = data[k]
  BY <1>1 DEF Live, Without
<1>3. data' \in [Live' -> Entry]
  BY <1>1, WithoutType DEF IInv, TypeOK, Live
<1> QED BY <1>1, <1>3

LEMMA Unindexing ==
  ASSUME IInv, NEW ks, index' = Without(index, ks)
  PROVE  Indexed' \subseteq Key /\ index' \in [Indexed' -> Nat]
<1>1. Indexed' = Indexed \ ks
  BY WithoutDomain DEF Indexed
<1>2. index' \in [Indexed' -> Nat]
  BY <1>1, WithoutType DEF IInv, TypeOK, Indexed
<1> QED BY <1>1, <1>2 DEF IInv, TypeOK

LEMMA TickStep ==
  ASSUME IInv, Tick
  PROVE  IInv'
<1>1. Live' \subseteq Live /\ data' \in [Live' -> Entry] /\ now' \in Nat
  BY Passing DEF Tick
<1>2. TypeOK'
  BY <1>1 DEF Tick, IInv, TypeOK, Indexed
<1>3. PointsOK' /\ ClearProgress'
  BY <1>1 DEF Tick, IInv, PointsOK, ClearProgress
<1> QED BY <1>1, <1>2, <1>3 DEF IInv

LEMMA PutStep ==
  ASSUME IInv, NEW r \in Replica, Put(r)
  PROVE  IInv'
<1> USE ConstantFacts
<1>1. ASSUME NEW k \in Key, NEW t \in 0..now, BeginPut(r, k, t) PROVE IInv'
  <2> DEFINE o == Started("put", "set", k, t, {})
  <2>1. Live' \subseteq Live /\ data' \in [Live' -> Entry] /\ now' \in Nat
    BY <1>1, Passing DEF BeginPut
  <2>2. o \in Operation /\ op' = [op EXCEPT ![r] = o]
    BY <1>1, StartedIsOperation DEF BeginPut, IInv, TypeOK, Points, Calls
  <2>3. TypeOK'
    BY <1>1, <2>1, <2>2 DEF BeginPut, IInv, TypeOK, Indexed
  <2>4. o.call = "put" /\ PointOK(o)
    BY StartedIsOperation DEF PointOK, Points, Calls, IInv, TypeOK
  <2> HIDE DEF o
  <2>5. PointsOK' /\ ClearProgress'
    BY <1>1, <2>1, <2>2, <2>4, ClearUndisturbed DEF BeginPut, IInv, TypeOK
  <2> QED BY <2>1, <2>3, <2>5 DEF IInv
<1>2. ASSUME SetValue(r) PROVE IInv'
  <2> DEFINE o == [op[r] EXCEPT !.pc = "zadd"]
             e == [at |-> op[r].at, exp |-> now + MaxAge, ok |-> TRUE]
  <2>1. op[r] \in Operation /\ op[r].key \in Key \cup {IndexKey} /\ e \in Entry
    BY DEF IInv, TypeOK, Operation, Entry
  <2>2. o \in Operation /\ Advance(r, o) /\ o.pc = "zadd" /\ o.call = op[r].call
        /\ o.key = op[r].key
    BY <1>2, <2>1 DEF SetValue, Operation, Points
  <2>3. /\ Live' = Live \cup {op[r].key}
        /\ data'[op[r].key] = e
        /\ \A x \in Live \ {op[r].key} : data'[x] = data[x]
        /\ data' \in [Live' -> Entry]
    <3>1. data' = With(data, op[r].key, e)
      BY <1>2 DEF SetValue
    <3>2. data \in [Live -> Entry] /\ Live = DOMAIN data
      BY DEF IInv, TypeOK, Live
    <3> HIDE DEF e
    <3>3. DOMAIN With(data, op[r].key, e) = Live \cup {op[r].key}
      BY <3>2, WithDomain
    <3>4. With(data, op[r].key, e) \in [Live \cup {op[r].key} -> Entry]
      BY <3>2, <2>1, WithType
    <3>5. /\ With(data, op[r].key, e)[op[r].key] = e
          /\ \A x \in Live \ {op[r].key} : With(data, op[r].key, e)[x] = data[x]
      BY <3>2 DEF With
    <3>6. Live' = Live \cup {op[r].key}
      BY <3>1, <3>3 DEF Live
    <3> QED BY <3>1, <3>4, <3>5, <3>6
  <2>4. op[r].call # "clear" /\ op[r].pc = "set"
    BY <1>2 DEF SetValue, At, IInv, PointsOK, PointOK
  <2>6. /\ op' \in [Replica -> Operation] /\ op'[r] \in {o, Idle}
        /\ \A s \in Replica \ {r} : op'[s] = op[s]
    BY <2>2, AdvanceFacts DEF IInv
  <2>7. op[r].key \in Key
    BY <1>2 DEF SetValue, IInv, At, PointsOK, PointOK
  <2>8. TypeOK'
    BY <1>2, <2>3, <2>6, <2>7 DEF SetValue, IInv, TypeOK, Indexed
  <2>9. PointOK(op'[r]) /\ op'[r].call # "clear"
    BY <2>2, <2>4, <2>6, <2>7, IdleIsOperation DEF PointOK
  <2>10. \A s \in Replica : earlier'[s] \cap Live' \subseteq earlier[s] \cap Live
    BY <1>2, <2>3 DEF SetValue
  <2>11. PointsOK' /\ ClearProgress'
    BY <2>6, <2>9, <2>10 DEF IInv, PointsOK, ClearProgress
  <2> QED BY <2>8, <2>11 DEF IInv
<1>3. ASSUME AddToIndex(r) PROVE IInv'
  <2> DEFINE o == [op[r] EXCEPT !.pc = AgePoint]
  <2>1. op[r].pc = "zadd" /\ op[r] \in Operation /\ op[r].key \in Key /\ op[r].at \in Nat
        /\ op[r].call # "clear"
    BY <1>3 DEF AddToIndex, At, IInv, TypeOK, PointsOK, PointOK, Operation
  <2>2. o \in Operation /\ Advance(r, o) /\ o.call = op[r].call
        /\ o.pc \in {"byage", "card", "return"}
    BY <1>3, <2>1 DEF AddToIndex, AgePoint, RowsPoint, Operation, Points
  <2>3. /\ op' \in [Replica -> Operation] /\ op'[r] \in {o, Idle}
        /\ \A s \in Replica \ {r} : op'[s] = op[s]
    BY <2>2, AdvanceFacts DEF IInv
  <2>4. Indexed' \subseteq Key /\ index' \in [Indexed' -> Nat]
    <3>1. index' = With(index, op[r].key, op[r].at)
      BY <1>3 DEF AddToIndex
    <3>2. index \in [Indexed -> Nat] /\ Indexed = DOMAIN index /\ Indexed \subseteq Key
      BY DEF IInv, TypeOK, Indexed
    <3>3. Indexed' = Indexed \cup {op[r].key}
      BY <3>1, <3>2 DEF Indexed, With
    <3>4. index' \in [Indexed \cup {op[r].key} -> Nat]
      BY <2>1, <3>1, <3>2, WithType
    <3> QED BY <2>1, <3>2, <3>3, <3>4
  <2>5. TypeOK'
    BY <1>3, <2>3, <2>4 DEF AddToIndex, IInv, TypeOK, Live
  <2>6. PointOK(op'[r]) /\ op'[r].call # "clear"
    BY <2>1, <2>2, <2>3, IdleIsOperation DEF PointOK
  <2>7. PointsOK' /\ ClearProgress'
    BY <1>3, <2>3, <2>6, ClearUndisturbed DEF AddToIndex, Live
  <2> QED BY <2>5, <2>7 DEF IInv
<1> QED BY <1>1, <1>2, <1>3 DEF Put

(* A command that prunes, reads or removes: what is left to show of it.      *)
LEMMA CommandStep ==
  ASSUME IInv, NEW r \in Replica, NEW o \in Operation, Advance(r, o),
         PointOK(o), o.call = op[r].call, o.call # "clear",
         Live' \subseteq Live, data' \in [Live' -> Entry],
         Indexed' \subseteq Key, index' \in [Indexed' -> Nat],
         UNCHANGED <<now, closed, earlier, serving>>
  PROVE  IInv'
<1>1. /\ op' \in [Replica -> Operation] /\ op'[r] \in {o, Idle}
      /\ \A s \in Replica \ {r} : op'[s] = op[s]
  BY AdvanceFacts DEF IInv
<1>2. TypeOK'
  BY <1>1 DEF IInv, TypeOK
<1>3. PointOK(op'[r]) /\ op'[r].call # "clear"
  BY <1>1, IdleIsOperation
<1>4. PointsOK' /\ ClearProgress'
  BY <1>1, <1>3, ClearUndisturbed
<1> QED BY <1>2, <1>4 DEF IInv

(* The structures stay as they are. *)
LEMMA Unchanged ==
  ASSUME IInv, UNCHANGED <<data, now>>
  PROVE  Live' \subseteq Live /\ data' \in [Live' -> Entry]
BY DEF IInv, TypeOK, Live

LEMMA IndexUnchanged ==
  ASSUME IInv, UNCHANGED index
  PROVE  Indexed' \subseteq Key /\ index' \in [Indexed' -> Nat]
BY DEF IInv, TypeOK, Indexed

(* An operation begins without touching the server. *)
LEMMA BeginStep ==
  ASSUME IInv, NEW r \in Replica, NEW o \in Operation, op' = [op EXCEPT ![r] = o],
         PointOK(o), o.call # "clear",
         UNCHANGED <<data, index, now, closed, earlier, serving>>
  PROVE  IInv'
<1>1. Live' = Live /\ Indexed' = Indexed
  BY DEF Live, Indexed
<1>2. TypeOK'
  BY <1>1 DEF IInv, TypeOK
<1>3. PointsOK' /\ ClearProgress'
  BY <1>1, ClearUndisturbed DEF IInv, TypeOK
<1> QED BY <1>1, <1>2, <1>3, Unchanged DEF IInv

LEMMA PruneStep ==
  ASSUME IInv, NEW r \in Replica, Prune(r), ~(At(r, "delete") /\ op[r].call = "clear")
  PROVE  IInv'
<1> USE ConstantFacts
<1>0. op[r] \in Operation
  BY DEF IInv, TypeOK
<1>1. ASSUME NEW c \in {"prune", "stats"}, BeginPrune(r, c) PROVE IInv'
  <2> DEFINE p == IF c = "stats" /\ MaxAge = 0 THEN "card" ELSE AgePoint
             o == Started(c, p, IndexKey, 0, {})
  <2>1. p \in Points /\ p \notin {"set", "zadd", "scan"} /\ c \in Calls
    BY DEF AgePoint, RowsPoint, Points, Calls
  <2>2. op' = [op EXCEPT ![r] = o] /\ UNCHANGED <<data, index, now, closed, earlier, serving>>
    BY <1>1 DEF BeginPrune
  <2> HIDE DEF p
  <2>3. o \in Operation /\ PointOK(o) /\ o.call # "clear"
    BY <2>1, StartedIsOperation DEF PointOK
  <2> QED BY <2>2, <2>3, BeginStep
<1>2. ASSUME PruneIndexByAge(r) PROVE IInv'
  <2> DEFINE o == [op[r] EXCEPT !.pc = IF op[r].call = "stats" THEN "card" ELSE RowsPoint]
  <2>1. o \in Operation /\ o.call = op[r].call /\ o.pc \in {"card", "return"}
    BY <1>0 DEF RowsPoint, Operation, Points
  <2>2. PointOK(o) /\ o.call # "clear"
    BY <1>2, <2>1 DEF PruneIndexByAge, At, IInv, PointsOK, PointOK
  <2>3. Indexed' \subseteq Key /\ index' \in [Indexed' -> Nat]
    BY <1>2, Unindexing DEF PruneIndexByAge
  <2>4. Advance(r, o) /\ UNCHANGED <<data, now, closed, earlier, serving>>
    BY <1>2 DEF PruneIndexByAge
  <2> QED BY <2>1, <2>2, <2>3, <2>4, Unchanged, CommandStep
<1>3. ASSUME CountIndex(r) PROVE IInv'
  <2>1. PICK o : /\ Advance(r, o)
                 /\ \/ o = [op[r] EXCEPT !.pc = "return"]
                    \/ /\ Cardinality(Indexed) > MaxRows
                       /\ o = [op[r] EXCEPT !.pc = "range",
                                            !.overflow = Cardinality(Indexed) - MaxRows]
    BY <1>3, IndexCounted DEF CountIndex, Overflow, IInv
  <2>2. o \in Operation /\ o.call = op[r].call /\ o.pc \in {"return", "range"}
    <3>1. CASE o = [op[r] EXCEPT !.pc = "return"]
      BY <1>0, <3>1 DEF Operation, Points
    <3>2. CASE /\ Cardinality(Indexed) > MaxRows
               /\ o = [op[r] EXCEPT !.pc = "range", !.overflow = Cardinality(Indexed) - MaxRows]
      <4>1. Cardinality(Indexed) - MaxRows \in Nat
        BY <3>2, IndexCounted DEF IInv
      <4> QED BY <1>0, <3>2, <4>1 DEF Operation, Points
    <3> QED BY <2>1, <3>1, <3>2
  <2>3. PointOK(o) /\ o.call # "clear"
    BY <1>3, <2>2 DEF CountIndex, At, IInv, PointsOK, PointOK
  <2>4. UNCHANGED <<data, index, now, closed, earlier, serving>>
    BY <1>3 DEF CountIndex
  <2> QED BY <2>1, <2>2, <2>3, <2>4, Unchanged, IndexUnchanged, CommandStep
<1>4. ASSUME RangeOfIndex(r) PROVE IInv'
  <2>1. PICK S \in SUBSET Indexed :
          Advance(r, [op[r] EXCEPT !.pc = AfterRange(S),
                                   !.overflow = 0, !.todo = S, !.gone = S])
    BY <1>4 DEF RangeOfIndex
  <2> DEFINE o == [op[r] EXCEPT !.pc = AfterRange(S),
                                !.overflow = 0, !.todo = S, !.gone = S]
  <2>2. S \subseteq Key
    BY DEF IInv, TypeOK
  <2>3. o \in Operation /\ o.call = op[r].call /\ o.pc \in {"return", "delete"}
    BY <1>0, <2>2 DEF Operation, Points, AfterRange
  <2>4. PointOK(o) /\ o.call # "clear"
    BY <1>4, <2>3 DEF RangeOfIndex, At, IInv, PointsOK, PointOK
  <2>5. UNCHANGED <<data, index, now, closed, earlier, serving>>
    BY <1>4 DEF RangeOfIndex
  <2> QED BY <2>1, <2>3, <2>4, <2>5, Unchanged, IndexUnchanged, CommandStep
<1>5. ASSUME DeleteBatch(r) PROVE IInv'
  <2>1. op[r].pc = "delete" /\ op[r].call # "clear"
    BY <1>5 DEF DeleteBatch, At
  <2>2. PICK b \in SUBSET op[r].todo :
          /\ data' = Without(data, b)
          /\ index' = IF IndexKey \in b THEN Without(index, Indexed) ELSE index
          /\ Advance(r, [op[r] EXCEPT !.todo = @ \ b,
                           !.pc = AfterBatch(r, b)])
    BY <1>5 DEF DeleteBatch
  <2> DEFINE o == [op[r] EXCEPT !.todo = @ \ b,
                     !.pc = AfterBatch(r, b)]
  <2>3. DoneDeleting(r) = "zrem"
    BY <2>1 DEF DoneDeleting
  <2>4. o \in Operation /\ o.call = op[r].call /\ o.pc \in {"delete", "zrem"}
    BY <1>0, <2>3 DEF Operation, Points, AfterBatch
  <2>5. PointOK(o) /\ o.call # "clear"
    BY <2>1, <2>4 DEF PointOK
  <2>6. UNCHANGED <<now, closed, earlier, serving>>
    BY <1>5 DEF DeleteBatch
  <2>7. Indexed' \subseteq Key /\ index' \in [Indexed' -> Nat]
    BY <2>2, Unindexing, IndexUnchanged
  <2>8. Live' \subseteq Live /\ data' \in [Live' -> Entry]
    BY <2>2, <2>6, Removing
  <2> QED BY <2>2, <2>4, <2>5, <2>6, <2>7, <2>8, CommandStep
<1>6. ASSUME RemoveIndexEntries(r) PROVE IInv'
  <2>1. PICK b \in SUBSET op[r].gone :
          /\ index' = Without(index, b)
          /\ Advance(r, [op[r] EXCEPT !.gone = @ \ b,
                                      !.pc = IF b = op[r].gone THEN "return" ELSE "zrem"])
    BY <1>6 DEF RemoveIndexEntries
  <2> DEFINE o == [op[r] EXCEPT !.gone = @ \ b,
                                !.pc = IF b = op[r].gone THEN "return" ELSE "zrem"]
  <2>2. o \in Operation /\ o.call = op[r].call /\ o.pc \in {"return", "zrem"}
    BY <1>0 DEF Operation, Points
  <2>3. PointOK(o) /\ o.call # "clear"
    BY <1>6, <2>2 DEF RemoveIndexEntries, At, IInv, PointsOK, PointOK
  <2>4. UNCHANGED <<data, now, closed, earlier, serving>>
    BY <1>6 DEF RemoveIndexEntries
  <2> QED BY <2>1, <2>2, <2>3, <2>4, Unchanged, Unindexing, CommandStep
<1> QED BY <1>1, <1>2, <1>3, <1>4, <1>5, <1>6 DEF Prune

LEMMA GetStep ==
  ASSUME IInv, NEW r \in Replica, Get(r)
  PROVE  IInv'
<1> USE ConstantFacts
<1>0. op[r] \in Operation
  BY DEF IInv, TypeOK
<1>1. ASSUME NEW k \in Key, BeginGet(r, k) PROVE IInv'
  <2> DEFINE o == Started("get", "get", k, 0, {})
  <2>1. o \in Operation /\ PointOK(o) /\ o.call # "clear"
    BY StartedIsOperation DEF PointOK, Points, Calls
  <2> QED BY <1>1, <2>1, BeginStep DEF BeginGet
<1>2. ASSUME GetValue(r) PROVE IInv'
  <2> DEFINE p == IF op[r].key \notin Live THEN "miss"
                  ELSE IF data[op[r].key].ok THEN "return" ELSE "corrupt"
             o == [op[r] EXCEPT !.pc = p]
  <2>1. Advance(r, o) /\ UNCHANGED <<data, index, now, closed, earlier, serving>>
    BY <1>2 DEF GetValue
  <2>2. p \in {"miss", "return", "corrupt"}
    OBVIOUS
  <2> HIDE DEF p
  <2>3. o \in Operation /\ o.call = op[r].call /\ o.pc \in {"miss", "return", "corrupt"}
    BY <1>0, <2>2 DEF Operation, Points
  <2>4. PointOK(o) /\ o.call # "clear"
    BY <1>2, <2>3 DEF GetValue, At, IInv, PointsOK, PointOK
  <2> QED BY <2>1, <2>3, <2>4, Unchanged, IndexUnchanged, CommandStep
<1>3. ASSUME DropIndexEntry(r) PROVE IInv'
  <2> DEFINE o == [op[r] EXCEPT !.pc = "return"]
  <2>1. Advance(r, o) /\ UNCHANGED <<data, now, closed, earlier, serving>>
        /\ index' = Without(index, {op[r].key})
    BY <1>3 DEF DropIndexEntry
  <2>2. o \in Operation /\ o.call = op[r].call /\ o.pc = "return"
    BY <1>0 DEF Operation, Points
  <2>3. PointOK(o) /\ o.call # "clear"
    BY <1>3, <2>2 DEF DropIndexEntry, At, IInv, PointsOK, PointOK
  <2> QED BY <2>1, <2>2, <2>3, Unchanged, Unindexing, CommandStep
<1>4. ASSUME DropCorruptValue(r) PROVE IInv'
  <2> DEFINE o == [op[r] EXCEPT !.pc = "miss"]
  <2>1. Advance(r, o) /\ UNCHANGED <<index, now, closed, earlier, serving>>
        /\ data' = Without(data, {op[r].key})
    BY <1>4 DEF DropCorruptValue
  <2>2. o \in Operation /\ o.call = op[r].call /\ o.pc = "miss"
    BY <1>0 DEF Operation, Points
  <2>3. PointOK(o) /\ o.call # "clear"
    BY <1>4, <2>2 DEF DropCorruptValue, At, IInv, PointsOK, PointOK
  <2> QED BY <2>1, <2>2, <2>3, Removing, IndexUnchanged, CommandStep
<1> QED BY <1>1, <1>2, <1>3, <1>4 DEF Get

(* The steps of a clear(): each of them keeps its progress. *)
LEMMA ClearCommandStep ==
  ASSUME IInv, NEW r \in Replica, NEW o \in Operation, Advance(r, o),
         o.call = "clear", o.pc \in {"scan", "delete", "delindex", "return"},
         o.pc = "scan" => earlier[r] \cap Live' \subseteq o.todo \cup o.gone,
         o.pc = "delete" => earlier[r] \cap Live' \subseteq o.todo,
         o.pc \in {"delindex", "return"} => earlier[r] \cap Live' = {},
         Live' \subseteq Live, data' \in [Live' -> Entry],
         Indexed' \subseteq Key, index' \in [Indexed' -> Nat],
         UNCHANGED <<now, closed, earlier, serving>>
  PROVE  IInv'
<1>1. /\ op' \in [Replica -> Operation] /\ op'[r] \in {o, Idle}
      /\ \A s \in Replica \ {r} : op'[s] = op[s]
  BY AdvanceFacts DEF IInv
<1>2. TypeOK'
  BY <1>1 DEF IInv, TypeOK
<1>3. PointsOK'
  <2>1. PointOK(o)
    BY DEF PointOK
  <2> QED BY <1>1, <2>1, IdleIsOperation DEF IInv, PointsOK
<1>4. ClearProgress'
  <2> SUFFICES ASSUME NEW s \in Replica, op'[s].call = "clear"
               PROVE  /\ op'[s].pc = "scan" => earlier'[s] \cap Live' \subseteq op'[s].todo \cup op'[s].gone
                      /\ op'[s].pc = "delete" => earlier'[s] \cap Live' \subseteq op'[s].todo
                      /\ op'[s].pc \in {"delindex", "return"} => earlier'[s] \cap Live' = {}
    BY DEF ClearProgress
  <2>1. CASE s = r
    BY <1>1, <2>1, IdleIsOperation
  <2>2. CASE s # r
    BY <1>1, <2>2 DEF IInv, ClearProgress
  <2> QED BY <2>1, <2>2
<1> QED BY <1>2, <1>3, <1>4 DEF IInv

LEMMA ClearStep ==
  ASSUME IInv, NEW r \in Replica,
         Clear(r) \/ (DeleteBatch(r) /\ op[r].call = "clear")
  PROVE  IInv'
<1> USE ConstantFacts
<1>0. op[r] \in Operation
  BY DEF IInv, TypeOK
<1>1. ASSUME BeginClear(r) PROVE IInv'
  <2> DEFINE o == Started("clear", "scan", IndexKey, 0, Key \cup {IndexKey})
  <2>1. /\ o \in Operation /\ o.call = "clear" /\ o.pc = "scan"
        /\ o.todo = Key \cup {IndexKey}
    BY StartedIsOperation DEF Points, Calls
  <2>2. op' = [op EXCEPT ![r] = o] /\ earlier' = [earlier EXCEPT ![r] = Live]
        /\ UNCHANGED <<data, index, now, closed, serving>>
    BY <1>1 DEF BeginClear
  <2> HIDE DEF o
  <2>3. Live' = Live /\ Indexed' = Indexed /\ Live \subseteq Key
    BY <2>2 DEF Live, Indexed, IInv, TypeOK
  <2>4. TypeOK'
    BY <2>1, <2>2, <2>3 DEF IInv, TypeOK
  <2>5. PointsOK'
    BY <2>1, <2>2 DEF IInv, TypeOK, PointsOK, PointOK
  <2>6. ClearProgress'
    BY <2>1, <2>2, <2>3 DEF IInv, TypeOK, ClearProgress
  <2> QED BY <2>2, <2>4, <2>5, <2>6, Unchanged DEF IInv
<1>2. ASSUME NEW k \in Key \cup {IndexKey}, ScanKey(r, k) PROVE IInv'
  <2> DEFINE found == op[r].gone \cup {x \in {k} : Present(x)}
             left  == op[r].todo \ {k}
             next  == IF left # {} THEN [op[r] EXCEPT !.todo = left, !.gone = found]
                      ELSE [op[r] EXCEPT !.todo = found, !.gone = found,
                              !.pc = IF found = {} THEN "delindex" ELSE "delete"]
  <2>1. /\ op[r].pc = "scan" /\ op[r].call = "clear" /\ k \in op[r].todo
        /\ earlier[r] \cap Live \subseteq op[r].todo \cup op[r].gone
    BY <1>2 DEF ScanKey, At, IInv, PointsOK, PointOK, ClearProgress
  <2>2. Advance(r, next) /\ UNCHANGED <<data, index, now, closed, earlier, serving>>
    BY <1>2 DEF ScanKey
  <2>3. k \in Live => k \in found
    BY DEF Present, IInv, TypeOK
  <2>4. earlier[r] \cap Live \subseteq left \cup found
    BY <2>1, <2>3
  <2>5. left \in SUBSET (Key \cup {IndexKey}) /\ found \in SUBSET (Key \cup {IndexKey})
    BY <1>0 DEF Operation
  <2> HIDE DEF left, found
  <2>6. /\ next \in Operation /\ next.call = "clear"
        /\ next.pc \in {"scan", "delete", "delindex"}
        /\ next.pc = "scan" => next.todo = left /\ next.gone = found
        /\ next.pc = "delete" => next.todo = found /\ left = {}
        /\ next.pc = "delindex" => found = {} /\ left = {}
    BY <1>0, <2>1, <2>5 DEF Operation, Points
  <2>7. Live' = Live
    BY <2>2 DEF Live
  <2> HIDE DEF next
  <2> QED BY <2>2, <2>4, <2>6, <2>7, Unchanged, IndexUnchanged, ClearCommandStep
<1>3. ASSUME DeleteIndex(r) PROVE IInv'
  <2> DEFINE o == [op[r] EXCEPT !.pc = "return"]
  <2>1. Advance(r, o) /\ UNCHANGED <<data, now, closed, earlier, serving>>
        /\ index' = Without(index, Indexed) /\ op[r].pc = "delindex"
    BY <1>3 DEF DeleteIndex, At
  <2>2. o \in Operation /\ o.call = op[r].call /\ o.pc = "return"
    BY <1>0 DEF Operation, Points
  <2>3. Live' = Live
    BY <2>1 DEF Live
  <2> HIDE DEF o
  <2>4. CASE op[r].call = "clear"
    <3>1. earlier[r] \cap Live = {}
      BY <2>1, <2>4 DEF IInv, ClearProgress
    <3> QED BY <2>1, <2>2, <2>3, <2>4, <3>1, Unchanged, Unindexing, ClearCommandStep
  <2>5. CASE op[r].call # "clear"
    <3>1. PointOK(o)
      BY <2>2, <2>5 DEF PointOK
    <3> QED BY <2>1, <2>2, <2>5, <3>1, Unchanged, Unindexing, CommandStep
  <2> QED BY <2>4, <2>5
<1>4. ASSUME DeleteBatch(r), op[r].call = "clear" PROVE IInv'
  <2>1. PICK b \in SUBSET op[r].todo :
          /\ data' = Without(data, b)
          /\ index' = IF IndexKey \in b THEN Without(index, Indexed) ELSE index
          /\ Advance(r, [op[r] EXCEPT !.todo = @ \ b,
                           !.pc = AfterBatch(r, b)])
    BY <1>4 DEF DeleteBatch
  <2> DEFINE o == [op[r] EXCEPT !.todo = @ \ b,
                     !.pc = AfterBatch(r, b)]
  <2>2. DoneDeleting(r) \in {"return", "delindex"}
    BY <1>4 DEF DoneDeleting
  <2>3. /\ o \in Operation /\ o.call = op[r].call /\ o.todo = op[r].todo \ b
        /\ o.pc \in {"delete", "return", "delindex"}
        /\ o.pc # "delete" => b = op[r].todo
    BY <1>0, <2>2 DEF Operation, Points, AfterBatch
  <2>4. UNCHANGED <<now, closed, earlier, serving>> /\ op[r].pc = "delete"
    BY <1>4 DEF DeleteBatch, At
  <2>5. Indexed' \subseteq Key /\ index' \in [Indexed' -> Nat]
    BY <2>1, Unindexing, IndexUnchanged
  <2>6. Live' \subseteq Live /\ data' \in [Live' -> Entry]
    BY <2>1, <2>4, Removing
  <2>7. Live' = Live \ b
    BY <2>1 DEF Live, Without
  <2>8. earlier[r] \cap Live \subseteq op[r].todo
    BY <1>4, <2>4 DEF IInv, ClearProgress
  <2>9. Advance(r, o)
    BY <2>1
  <2> HIDE DEF o
  <2> QED BY <1>4, <2>3, <2>4, <2>5, <2>6, <2>7, <2>8, <2>9, ClearCommandStep
<1> QED BY <1>1, <1>2, <1>3, <1>4 DEF Clear

LEMMA EndStep ==
  ASSUME IInv, NEW r \in Replica, End(r)
  PROVE  IInv'
<1>1. CASE Return(r) \/ Abort(r)
  <2>1. op' = [op EXCEPT ![r] = Idle] /\ UNCHANGED <<data, index, now, closed, earlier, serving>>
    BY <1>1 DEF Return, Abort
  <2> QED BY <2>1, IdleIsOperation, BeginStep
<1>2. CASE Close(r) \/ Reopen(r)
  <2>1. closed' \in [Replica -> BOOLEAN] /\ UNCHANGED <<data, index, now, op, earlier, serving>>
    BY <1>2 DEF Close, Reopen, IInv, TypeOK
  <2>2. Live' = Live /\ Indexed' = Indexed
    BY <2>1 DEF Live, Indexed
  <2> QED BY <2>1, <2>2, Unchanged DEF IInv, TypeOK, PointsOK, ClearProgress
<1> QED BY <1>1, <1>2 DEF End

(* The inductive invariant of the shared store. *)
THEOREM Invariance == Spec => []IInv
<1>1. ASSUME IInv, [Next]_vars PROVE IInv'
  <2>1. CASE Tick
    BY <1>1, <2>1, TickStep
  <2>2. ASSUME NEW r \in serving, Put(r) \/ Prune(r) \/ Get(r) \/ Clear(r) \/ End(r)
        PROVE  IInv'
    <3>0. r \in Replica
      BY <1>1 DEF IInv, TypeOK
    <3>1. CASE Prune(r) /\ ~(At(r, "delete") /\ op[r].call = "clear")
      BY <1>1, <3>0, <3>1, PruneStep
    <3>2. CASE Prune(r) /\ At(r, "delete") /\ op[r].call = "clear"
      <4>1. op[r] # Idle
        BY <3>2, IdleIsOperation DEF At
      <4>2. DeleteBatch(r)
        BY <3>2, <4>1 DEF Prune, BeginPrune, PruneIndexByAge, CountIndex, RangeOfIndex,
                      RemoveIndexEntries, At
      <4> QED BY <1>1, <3>0, <3>2, <4>2, ClearStep
    <3> QED BY <1>1, <2>2, <3>0, <3>1, <3>2, PutStep, GetStep, ClearStep, EndStep
  <2>3. CASE UNCHANGED vars
    BY <1>1, <2>3, Unchanged, IndexUnchanged
       DEF vars, IInv, TypeOK, PointsOK, ClearProgress, Live, Indexed
  <2> QED BY <1>1, <2>1, <2>2, <2>3 DEF Next
<1>2. IInv /\ [Next]_vars => IInv'
  BY <1>1
<1> QED BY InitIInv, <1>2, PTL DEF Spec

(* The two server structures and the operations' locals keep their types. *)
THEOREM TypeCorrect == Spec => []TypeOK
BY Invariance, PTL DEF IInv

(* A clear() that returns has removed every value from before the call, under *)
(* any interleaving with other replicas, their failures and expiry.           *)
THEOREM ClearIsComplete == Spec => []ClearForgets
<1>1. IInv => ClearForgets
  BY DEF IInv, ClearProgress, ClearForgets, At
<1> QED BY Invariance, <1>1, PTL

=============================================================================
