----------------------- MODULE ValkeyFaultlessProofs -----------------------
(***************************************************************************)
(* Proofs about ValkeyStore when no command fails: first how far several   *)
(* replicas can make the index exceed max_rows, then what the comments of  *)
(* valkey_store.py take for granted of the index and of a put, which holds *)
(* for one replica that uses the server alone.                             *)
(***************************************************************************)
EXTENDS ValkeyStoreProofs

(* The puts that have found an overflow, and what they have yet to remove.   *)
Overflowing(r) == op[r].call = "put" /\ op[r].pc \in {"range", "delete", "zrem"}
Chosen(Q) ==
  {k \in Indexed : \E r \in Q : op[r].pc \in {"delete", "zrem"} /\ k \in op[r].gone}

Pruners == {r \in Replica : Pruning(r)}

(* When some of the puts that have found an overflow have removed what they  *)
(* have chosen, the index exceeds max_rows by no more than the others: the   *)
(* last of them to count the index has counted everything.                   *)
Covered(Q) ==
  LET bound == MaxRows + Cardinality(Pruners \ Q)
  IN \/ Cardinality(Indexed \ Chosen(Q)) <= bound
     \/ \E r \in Q : op[r].pc = "range" /\ Cardinality(Indexed) <= op[r].overflow + bound

Reserve == \A Q \in SUBSET {r \in Replica : Overflowing(r)} : Covered(Q)

(* An overflow that was counted is one.                                      *)
OverflowCounted == \A r \in Replica : op[r].pc = "range" => op[r].overflow > 0

(* Only a put writes.                                                        *)
PutsWrite == \A r \in Replica : op[r].pc \in {"set", "zadd"} => op[r].call = "put"

IndexInv == Reserve /\ OverflowCounted /\ PutsWrite

-----------------------------------------------------------------------------
LEMMA CountSubset ==
  ASSUME NEW T, IsFiniteSet(T), NEW S, S \subseteq T
  PROVE  Cardinality(S) \in Nat /\ Cardinality(T) \in Nat /\ Cardinality(S) <= Cardinality(T)
BY FS_Subset, FS_CardinalityType

LEMMA Finite ==
  ASSUME TypeOK
  PROVE  /\ \A S : S \subseteq Indexed => IsFiniteSet(S) /\ Cardinality(S) \in Nat
         /\ \A S : S \subseteq Pruners => IsFiniteSet(S) /\ Cardinality(S) \in Nat
<1>1. IsFiniteSet(Indexed) /\ IsFiniteSet(Pruners)
  BY FiniteAssumption, FS_Subset DEF TypeOK, Pruners
<1> QED BY <1>1, FS_Subset, FS_CardinalityType

(* An index within max_rows covers everybody.                                *)
LEMMA SmallCovers ==
  ASSUME TypeOK', Cardinality(Indexed') <= MaxRows
  PROVE  Reserve'
<1> SUFFICES ASSUME NEW Q, Q \subseteq {r \in Replica : Overflowing(r)}' PROVE Covered(Q)'
  BY DEF Reserve
<1>1. IsFiniteSet(Indexed') /\ IsFiniteSet(Pruners')
  BY FiniteAssumption, FS_Subset DEF TypeOK, Pruners
<1>2. /\ Cardinality(Indexed' \ Chosen(Q)') \in Nat /\ Cardinality(Indexed') \in Nat
      /\ Cardinality(Indexed' \ Chosen(Q)') <= Cardinality(Indexed')
      /\ Cardinality(Pruners' \ Q) \in Nat
  BY <1>1, CountSubset
<1> QED BY <1>2, ConstantFacts DEF Covered

(* What a step of one replica leaves of the cover: removing is free, and a   *)
(* put that goes on owes what it owed.                                       *)
LEMMA Shrinks ==
  ASSUME TypeOK, Reserve, NEW r \in Replica, Indexed' \subseteq Indexed,
         \A s \in Replica \ {r} : op'[s] = op[s],
         Pruning(r)' <=> Pruning(r),
         Overflowing(r)' =>
           \/ op'[r] = op[r]
           \/ /\ Overflowing(r) /\ {op[r].pc, op'[r].pc} \subseteq {"delete", "zrem"}
              /\ op[r].gone \cap Indexed' \subseteq op'[r].gone
  PROVE  Reserve'
<1> SUFFICES ASSUME NEW Q, Q \subseteq {q \in Replica : Overflowing(q)}' PROVE Covered(Q)'
  BY DEF Reserve
<1>1. Pruners' = Pruners
  BY DEF Pruners, Pruning
<1>2. Q \subseteq {q \in Replica : Overflowing(q)}
  BY DEF Overflowing
<1>3. Covered(Q)
  BY <1>2 DEF Reserve
<1>4. Indexed' \ Chosen(Q)' \subseteq Indexed \ Chosen(Q)
  BY <1>2 DEF Chosen, Overflowing
<1>5. /\ Cardinality(Indexed' \ Chosen(Q)') <= Cardinality(Indexed \ Chosen(Q))
      /\ Cardinality(Indexed') <= Cardinality(Indexed)
      /\ {Cardinality(Indexed' \ Chosen(Q)'), Cardinality(Indexed \ Chosen(Q)),
          Cardinality(Indexed'), Cardinality(Indexed)} \subseteq Nat
  BY <1>4, Finite, CountSubset
<1>6. Cardinality(Pruners \ Q) \in Nat
  BY Finite
<1>7. CASE Cardinality(Indexed \ Chosen(Q)) <= MaxRows + Cardinality(Pruners \ Q)
  BY <1>1, <1>5, <1>6, <1>7, ConstantFacts DEF Covered
<1>8. ASSUME NEW w \in Q, op[w].pc = "range",
             Cardinality(Indexed) <= op[w].overflow + (MaxRows + Cardinality(Pruners \ Q))
      PROVE  Covered(Q)'
  <2>1. op'[w] = op[w]
    BY <1>8 DEF Overflowing
  <2>2. op[w].overflow \in Nat
    BY <1>2 DEF TypeOK, Operation
  <2>3. Cardinality(Indexed') <= op'[w].overflow + (MaxRows + Cardinality(Pruners' \ Q))
    BY <1>1, <1>5, <1>6, <1>8, <2>1, <2>2, ConstantFacts
  <2> QED BY <1>8, <2>1, <2>3 DEF Covered
<1> QED BY <1>3, <1>7, <1>8 DEF Covered

(* The steps that matter are four.  A put adds its key and owes a prune.     *)
LEMMA AddStep ==
  ASSUME IInv, IndexInv, ~Faults, MaxRows > 0, NEW r \in Replica, AddToIndex(r)
  PROVE  Reserve'
<1> DEFINE o == [op[r] EXCEPT !.pc = AgePoint]
<1>1. op[r] \in Operation /\ op[r].pc = "zadd" /\ op[r].call = "put" /\ TypeOK
  BY DEF AddToIndex, At, IInv, TypeOK, IndexInv, PutsWrite
<1>2. o.call = "put" /\ o.pc \in {"byage", "card"}
  BY <1>1 DEF Operation, AgePoint, RowsPoint
<1>3. op'[r] = o /\ \A s \in Replica \ {r} : op'[s] = op[s]
  BY <1>1, Exactly DEF AddToIndex
<1> HIDE DEF o
<1> DEFINE k == op[r].key
<1>4. Indexed' = Indexed \cup {k}
  <2>1. index' = With(index, k, op[r].at)
    BY DEF AddToIndex
  <2> QED BY <2>1 DEF Indexed, With
<1> HIDE DEF k
<1>5. Pruners' = Pruners \cup {r} /\ r \notin Pruners
  BY <1>1, <1>2, <1>3 DEF Pruners, Pruning
<1> SUFFICES ASSUME NEW Q, Q \subseteq {q \in Replica : Overflowing(q)}' PROVE Covered(Q)'
  BY DEF Reserve
<1>6. Q \subseteq {q \in Replica : Overflowing(q)} /\ r \notin Q /\ \A q \in Q : op'[q] = op[q]
  BY <1>2, <1>3 DEF Overflowing
<1>7. Covered(Q)
  BY <1>6 DEF IndexInv, Reserve
<1>8. Cardinality(Pruners' \ Q) = Cardinality(Pruners \ Q) + 1 /\ Cardinality(Pruners \ Q) \in Nat
  <2>1. Pruners' \ Q = (Pruners \ Q) \cup {r} /\ r \notin Pruners \ Q
    BY <1>5, <1>6
  <2> QED BY <1>1, <2>1, Finite, FS_AddElement
<1>9. Indexed' \ Chosen(Q)' \subseteq (Indexed \ Chosen(Q)) \cup {k}
  BY <1>4, <1>6 DEF Chosen
<1>10. \A S : S \subseteq Indexed =>
         /\ Cardinality(S) \in Nat /\ Cardinality(S \cup {k}) \in Nat /\ IsFiniteSet(S \cup {k})
         /\ Cardinality(S \cup {k}) <= Cardinality(S) + 1
  BY <1>1, Finite, FS_AddElement, FS_CardinalityType
<1>11. /\ Cardinality(Indexed' \ Chosen(Q)') <= Cardinality(Indexed \ Chosen(Q)) + 1
       /\ Cardinality(Indexed') <= Cardinality(Indexed) + 1
       /\ {Cardinality(Indexed' \ Chosen(Q)'), Cardinality(Indexed \ Chosen(Q)),
           Cardinality(Indexed'), Cardinality(Indexed)} \subseteq Nat
  <2>1. /\ Cardinality(Indexed' \ Chosen(Q)') \in Nat
        /\ Cardinality(Indexed' \ Chosen(Q)') <= Cardinality((Indexed \ Chosen(Q)) \cup {k})
    BY <1>9, <1>10, CountSubset
  <2> QED BY <1>4, <1>10, <2>1
<1>12. CASE Cardinality(Indexed \ Chosen(Q)) <= MaxRows + Cardinality(Pruners \ Q)
  BY <1>8, <1>11, <1>12, ConstantFacts DEF Covered
<1>13. ASSUME NEW w \in Q, op[w].pc = "range",
              Cardinality(Indexed) <= op[w].overflow + (MaxRows + Cardinality(Pruners \ Q))
       PROVE  Covered(Q)'
  <2>1. op'[w] = op[w] /\ op[w].overflow \in Nat
    BY <1>1, <1>6 DEF TypeOK, Operation
  <2>2. Cardinality(Indexed') <= op'[w].overflow + (MaxRows + Cardinality(Pruners' \ Q))
    BY <1>8, <1>11, <1>13, <2>1, ConstantFacts
  <2> QED BY <1>13, <2>1, <2>2 DEF Covered
<1> QED BY <1>7, <1>12, <1>13 DEF Covered

(* It counts the index: either nothing is to be removed, or it covers all.   *)
LEMMA CountStep ==
  ASSUME IInv, IInv', IndexInv, ~Faults, MaxRows > 0, NEW r \in Replica, CountIndex(r),
         op[r].call = "put"
  PROVE  Reserve'
<1>1. op[r] \in Operation /\ op[r].pc = "card" /\ TypeOK /\ TypeOK'
  BY DEF CountIndex, At, IInv, TypeOK
<1>2. Indexed' = Indexed /\ Cardinality(Indexed) \in Nat
  BY <1>1, IndexCounted DEF CountIndex, Indexed
<1>3. CASE Cardinality(Indexed) <= MaxRows
  BY <1>1, <1>2, <1>3, SmallCovers
<1>4. CASE Cardinality(Indexed) > MaxRows
  <2> DEFINE n == Cardinality(Indexed) - MaxRows
             o == [op[r] EXCEPT !.pc = "range", !.overflow = n]
  <2>1. Advance(r, o) /\ n \in Nat /\ n > 0
    BY <1>2, <1>4, ConstantFacts DEF CountIndex, Overflow
  <2>2. op'[r] = o /\ \A s \in Replica \ {r} : op'[s] = op[s]
    BY <1>1, <2>1, Exactly
  <2> HIDE DEF n
  <2>3. o.call = "put" /\ o.pc = "range" /\ o.overflow = n
    BY <1>1, <2>1 DEF Operation
  <2> HIDE DEF o
  <2>4. Pruners' = Pruners
    BY <1>1, <2>2, <2>3 DEF Pruners, Pruning
  <2> SUFFICES ASSUME NEW Q, Q \subseteq {q \in Replica : Overflowing(q)}' PROVE Covered(Q)'
    BY DEF Reserve
  <2>5. CASE r \in Q
    <3>1. Cardinality(Pruners' \ Q) \in Nat
      BY <1>1, <2>4, Finite
    <3>2. Cardinality(Indexed') <= op'[r].overflow + (MaxRows + Cardinality(Pruners' \ Q))
      BY <1>2, <1>4, <2>2, <2>3, <3>1, ConstantFacts DEF n
    <3> QED BY <2>2, <2>3, <2>5, <3>2 DEF Covered
  <2>6. CASE r \notin Q
    <3>1. \A q \in Q : op'[q] = op[q]
      BY <2>2, <2>6
    <3>2. Q \subseteq {q \in Replica : Overflowing(q)}
      BY <3>1 DEF Overflowing
    <3>3. Covered(Q)
      BY <3>2 DEF IndexInv, Reserve
    <3>4. Chosen(Q)' = Chosen(Q)
      BY <1>2, <3>1 DEF Chosen
    <3> QED BY <1>2, <2>4, <3>1, <3>3, <3>4 DEF Covered
  <2> QED BY <2>5, <2>6
<1> QED BY <1>2, <1>3, <1>4, ConstantFacts

(* It chooses as many of the lowest entries as it has counted, or all.       *)
LEMMA RangeStep ==
  ASSUME IInv, IInv', IndexInv, ~Faults, MaxRows > 0, NEW r \in Replica, RangeOfIndex(r),
         op[r].call = "put"
  PROVE  Reserve'
<1>1. op[r] \in Operation /\ op[r].pc = "range" /\ TypeOK /\ TypeOK'
  BY DEF RangeOfIndex, At, IInv, TypeOK
<1>2. PICK S \in SUBSET Indexed :
        /\ IsLowest(S, op[r].overflow)
        /\ Advance(r, [op[r] EXCEPT !.pc = AfterRange(S), !.overflow = 0, !.todo = S, !.gone = S])
  BY DEF RangeOfIndex
<1> DEFINE o == [op[r] EXCEPT !.pc = AfterRange(S), !.overflow = 0, !.todo = S, !.gone = S]
<1>3. op'[r] = o /\ \A s \in Replica \ {r} : op'[s] = op[s]
  BY <1>1, <1>2, Exactly
<1>4. o.call = "put" /\ o.gone = S /\ o.pc = IF S = {} THEN "return" ELSE "delete"
  BY <1>1 DEF Operation, AfterRange
<1> HIDE DEF o
<1>5. Indexed' = Indexed /\ Cardinality(Indexed) \in Nat
  BY <1>1, IndexCounted DEF RangeOfIndex, Indexed
<1>6. op[r].overflow \in Nat /\ op[r].overflow > 0
  BY <1>1 DEF Operation, IndexInv, OverflowCounted
<1>7. Cardinality(S) \in Nat /\ (Cardinality(S) = op[r].overflow \/ S = Indexed)
  BY <1>1, <1>2, <1>6, Finite DEF IsLowest
<1>8. CASE S = {}
  <2>1. Indexed = {} /\ Cardinality(Indexed) = 0
    BY <1>6, <1>7, <1>8, FS_EmptySet
  <2> QED BY <1>1, <1>5, <2>1, SmallCovers, ConstantFacts
<1>9. CASE S # {}
  <2>1. Pruners' = Pruners /\ Overflowing(r) /\ Overflowing(r)'
    BY <1>1, <1>3, <1>4, <1>9 DEF Pruners, Pruning, Overflowing
  <2> SUFFICES ASSUME NEW Q, Q \subseteq {q \in Replica : Overflowing(q)}' PROVE Covered(Q)'
    BY DEF Reserve
  <2>2. Q \subseteq {q \in Replica : Overflowing(q)}
    BY <1>3, <2>1 DEF Overflowing
  <2>3. Covered(Q)
    BY <2>2 DEF IndexInv, Reserve
  <2>4. /\ Indexed' \ Chosen(Q)' \subseteq Indexed \ Chosen(Q)
        /\ r \in Q => Indexed' \ Chosen(Q)' \subseteq Indexed \ S
    BY <1>1, <1>3, <1>4, <1>5, <1>9 DEF Chosen
  <2>5. /\ Cardinality(Indexed' \ Chosen(Q)') \in Nat
        /\ Cardinality(Indexed \ Chosen(Q)) \in Nat
        /\ Cardinality(Indexed' \ Chosen(Q)') <= Cardinality(Indexed \ Chosen(Q))
        /\ Cardinality(Pruners \ Q) \in Nat
    BY <1>1, <2>4, Finite, CountSubset
  <2>6. CASE Cardinality(Indexed \ Chosen(Q)) <= MaxRows + Cardinality(Pruners \ Q)
    BY <2>1, <2>5, <2>6, ConstantFacts DEF Covered
  <2>7. ASSUME NEW w \in Q, op[w].pc = "range",
               Cardinality(Indexed) <= op[w].overflow + (MaxRows + Cardinality(Pruners \ Q))
        PROVE  Covered(Q)'
    <3>1. CASE w # r
      <4>1. op'[w] = op[w]
        BY <1>3, <3>1
      <4> QED BY <1>5, <2>1, <2>7, <4>1 DEF Covered
    <3>2. CASE w = r
      <4>1. /\ Cardinality(Indexed' \ Chosen(Q)') <= Cardinality(Indexed \ S)
            /\ Cardinality(Indexed \ S) \in Nat
        BY <1>1, <2>4, <2>7, <3>2, Finite, CountSubset
      <4>2. Cardinality(Indexed \ S) <= MaxRows + Cardinality(Pruners \ Q)
        <5>1. CASE S = Indexed
          <6>1. Indexed \ S = {}
            BY <5>1
          <6>2. Cardinality(Indexed \ S) = 0
            BY <6>1, FS_EmptySet
          <6> QED BY <2>5, <6>2, ConstantFacts
        <5>2. CASE Cardinality(S) = op[r].overflow
          <6>1. Cardinality(Indexed \ S) = Cardinality(Indexed) - Cardinality(Indexed \cap S)
            BY <1>1, Finite, FS_Difference
          <6>2. Indexed \cap S = S /\ Cardinality(Indexed \cap S) = Cardinality(S)
            OBVIOUS
          <6>3. Cardinality(Indexed) <= op[r].overflow + (MaxRows + Cardinality(Pruners \ Q))
            BY <2>7, <3>2
          <6> QED BY <1>5, <1>6, <2>5, <5>2, <6>1, <6>2, <6>3, ConstantFacts
        <5> QED BY <1>7, <5>1, <5>2
      <4> QED BY <2>1, <2>5, <4>1, <4>2, ConstantFacts DEF Covered
    <3> QED BY <3>1, <3>2
  <2> QED BY <2>3, <2>6, <2>7 DEF Covered
<1> QED BY <1>8, <1>9

(* It removes the last of what it has chosen.                                *)
LEMMA LastBatchStep ==
  ASSUME IInv, IndexInv, ~Faults, MaxRows > 0, NEW r \in Replica, op[r].call = "put",
         At(r, "zrem"), index' = Without(index, op[r].gone), op'[r].pc = "return",
         \A s \in Replica \ {r} : op'[s] = op[s]
  PROVE  Reserve'
<1>1. TypeOK /\ Overflowing(r) /\ Indexed' = Indexed \ op[r].gone /\ op[r].pc = "zrem"
  BY WithoutDomain DEF IInv, At, Overflowing, Indexed
<1>2. Pruners' = Pruners \ {r}
  BY DEF Pruners, Pruning
<1> SUFFICES ASSUME NEW Q, Q \subseteq {q \in Replica : Overflowing(q)}' PROVE Covered(Q)'
  BY DEF Reserve
<1> DEFINE R == Q \cup {r}
<1>3. r \notin Q /\ \A q \in Q : op'[q] = op[q]
  BY DEF Overflowing
<1>4. R \subseteq {q \in Replica : Overflowing(q)}
  BY <1>1, <1>3 DEF Overflowing
<1>5. Covered(R)
  BY <1>4 DEF IndexInv, Reserve
<1>6. Pruners' \ Q = Pruners \ R /\ Cardinality(Pruners' \ Q) = Cardinality(Pruners \ R)
  BY <1>2
<1>7. Indexed' \ Chosen(Q)' \subseteq Indexed \ Chosen(R) /\ Indexed' \subseteq Indexed
  BY <1>1, <1>3 DEF Chosen
<1> HIDE DEF R
<1>8. /\ Cardinality(Indexed' \ Chosen(Q)') <= Cardinality(Indexed \ Chosen(R))
      /\ Cardinality(Indexed') <= Cardinality(Indexed)
      /\ {Cardinality(Indexed' \ Chosen(Q)'), Cardinality(Indexed \ Chosen(R)),
          Cardinality(Indexed'), Cardinality(Indexed)} \subseteq Nat
      /\ Cardinality(Pruners \ R) \in Nat
  BY <1>1, <1>7, Finite, CountSubset
<1>9. CASE Cardinality(Indexed \ Chosen(R)) <= MaxRows + Cardinality(Pruners \ R)
  BY <1>6, <1>8, <1>9, ConstantFacts DEF Covered
<1>10. ASSUME NEW w \in R, op[w].pc = "range",
              Cardinality(Indexed) <= op[w].overflow + (MaxRows + Cardinality(Pruners \ R))
       PROVE  Covered(Q)'
  <2>1. w \in Q /\ op'[w] = op[w] /\ op[w].overflow \in Nat
    BY <1>1, <1>3, <1>4, <1>10 DEF R, TypeOK, Operation
  <2>2. Cardinality(Indexed') <= op'[w].overflow + (MaxRows + Cardinality(Pruners' \ Q))
    BY <1>6, <1>8, <1>10, <2>1, ConstantFacts
  <2> QED BY <1>10, <2>1, <2>2 DEF Covered
<1> QED BY <1>5, <1>9, <1>10 DEF Covered

-----------------------------------------------------------------------------
(* The steps of one replica, by what they do to its operation.               *)
LEMMA QuietStep ==
  ASSUME TypeOK, IndexInv, NEW r \in Replica, Indexed' \subseteq Indexed,
         \A s \in Replica \ {r} : op'[s] = op[s],
         op'[r].pc = "range" => op'[r].overflow > 0,
         op'[r].pc \in {"set", "zadd"} => op'[r].call = "put",
         Pruning(r)' <=> Pruning(r),
         Overflowing(r)' =>
           \/ op'[r] = op[r]
           \/ /\ Overflowing(r) /\ {op[r].pc, op'[r].pc} \subseteq {"delete", "zrem"}
              /\ op[r].gone \cap Indexed' \subseteq op'[r].gone
  PROVE  IndexInv'
<1>1. Reserve'
  BY Shrinks DEF IndexInv
<1>2. OverflowCounted' /\ PutsWrite'
  BY DEF IndexInv, OverflowCounted, PutsWrite
<1> QED BY <1>1, <1>2 DEF IndexInv

(* An operation that is no put neither owes a prune nor has an overflow.     *)
LEMMA OtherStep ==
  ASSUME TypeOK, IndexInv, ~Faults, NEW r \in Replica, NEW o, Advance(r, o),
         Indexed' \subseteq Indexed, op[r].call # "put", o.call # "put",
         o.pc \notin {"set", "zadd"}, o.pc = "range" => o.overflow > 0
  PROVE  IndexInv'
<1>1. op'[r] = o /\ \A s \in Replica \ {r} : op'[s] = op[s]
  BY Exactly
<1> QED BY <1>1, QuietStep DEF Pruning, Overflowing

(* The beginning of an operation.                                            *)
LEMMA BeginOther ==
  ASSUME TypeOK, IndexInv, NEW r \in Replica, op[r] = Idle, Indexed' = Indexed,
         NEW o, op' = [op EXCEPT ![r] = o],
         IF o.call = "put" THEN o.pc = "set" ELSE o.pc \notin {"set", "zadd", "range"}
  PROVE  IndexInv'
<1>1. op'[r] = o /\ \A s \in Replica \ {r} : op'[s] = op[s]
  BY DEF TypeOK
<1>2. ~Pruning(r) /\ ~Pruning(r)' /\ ~Overflowing(r)'
  BY <1>1, IdleIsOperation DEF Pruning, Overflowing
<1> QED BY <1>1, <1>2, QuietStep

LEMMA IndexStepPut ==
  ASSUME IInv, IInv', IndexInv, ~Faults, MaxRows > 0, NEW r \in Replica, Put(r)
  PROVE  IndexInv'
<1>0. TypeOK /\ op[r] \in Operation
  BY DEF IInv, TypeOK
<1>1. ASSUME NEW k \in Key, NEW t \in 0..now, BeginPut(r, k, t) PROVE IndexInv'
  <2>1. Indexed' = Indexed /\ t \in Nat
    BY <1>0, <1>1 DEF BeginPut, Indexed, TypeOK
  <2>2. Started("put", "set", k, t, {}).call = "put" /\ Started("put", "set", k, t, {}).pc = "set"
    BY DEF Started
  <2> QED BY <1>0, <1>1, <2>1, <2>2, BeginOther DEF BeginPut
<1>2. CASE SetValue(r)
  <2> DEFINE o == [op[r] EXCEPT !.pc = "zadd"]
  <2>1. o.call = "put" /\ o.pc = "zadd" /\ op[r].pc = "set"
    BY <1>0, <1>2 DEF SetValue, At, Operation, IndexInv, PutsWrite
  <2>2. op'[r] = o /\ \A s \in Replica \ {r} : op'[s] = op[s]
    BY <1>0, <1>2, Exactly DEF SetValue
  <2>3. Indexed' = Indexed
    BY <1>2 DEF SetValue, Indexed
  <2> HIDE DEF o
  <2>4. ~Pruning(r) /\ ~Pruning(r)' /\ ~Overflowing(r)'
    BY <2>1, <2>2 DEF Pruning, Overflowing
  <2> QED BY <1>0, <2>1, <2>2, <2>3, <2>4, QuietStep
<1>3. CASE AddToIndex(r)
  <2> DEFINE o == [op[r] EXCEPT !.pc = AgePoint]
  <2>1. o.pc \in {"byage", "card"}
    BY <1>0 DEF Operation, AgePoint, RowsPoint
  <2>2. op'[r] = o /\ \A s \in Replica \ {r} : op'[s] = op[s]
    BY <1>0, <1>3, Exactly DEF AddToIndex
  <2> HIDE DEF o
  <2>3. OverflowCounted' /\ PutsWrite'
    BY <2>1, <2>2 DEF IndexInv, OverflowCounted, PutsWrite
  <2> QED BY <1>3, <2>3, AddStep DEF IndexInv
<1> QED BY <1>1, <1>2, <1>3 DEF Put

(* What each command of a prune leaves, when it belongs to a put.            *)
LEMMA IndexStepPrune ==
  ASSUME IInv, IInv', IndexInv, ~Faults, MaxRows > 0, NEW r \in Replica, Prune(r)
  PROVE  IndexInv'
<1>0. TypeOK /\ op[r] \in Operation
  BY DEF IInv, TypeOK
<1>1. ASSUME NEW call \in {"prune", "stats"}, BeginPrune(r, call) PROVE IndexInv'
  <2> DEFINE p == IF call = "stats" /\ MaxAge = 0 THEN "card" ELSE AgePoint
             o == Started(call, p, IndexKey, 0, {})
  <2>1. o.pc \in {"byage", "card", "return"} /\ o.call # "put"
    BY DEF AgePoint, RowsPoint, Started
  <2>2. Indexed' = Indexed /\ op[r] = Idle /\ op' = [op EXCEPT ![r] = o]
    BY <1>1 DEF BeginPrune, Indexed
  <2> HIDE DEF o
  <2> QED BY <1>0, <2>1, <2>2, BeginOther
<1>2. CASE PruneIndexByAge(r)
  <2> DEFINE o == [op[r] EXCEPT !.pc = IF op[r].call = "stats" THEN "card" ELSE RowsPoint]
  <2>1. o.call = op[r].call /\ o.pc = "card" /\ op[r].pc = "byage"
    BY <1>0, <1>2 DEF PruneIndexByAge, At, Operation, RowsPoint
  <2>2. op'[r] = o /\ \A s \in Replica \ {r} : op'[s] = op[s]
    BY <1>0, <1>2, Exactly DEF PruneIndexByAge
  <2>3. Indexed' \subseteq Indexed
    BY <1>2 DEF PruneIndexByAge, Indexed, Without
  <2> HIDE DEF o
  <2>4. (Pruning(r)' <=> Pruning(r)) /\ ~Overflowing(r)'
    BY <2>1, <2>2 DEF Pruning, Overflowing
  <2> QED BY <1>0, <2>1, <2>2, <2>3, <2>4, QuietStep
<1>3. CASE CountIndex(r)
  <2> DEFINE n == Overflow(Cardinality(Indexed))
             o == IF op[r].call = "stats" \/ n = 0
                    THEN [op[r] EXCEPT !.pc = "return"]
                    ELSE [op[r] EXCEPT !.pc = "range", !.overflow = n]
  <2>1. Advance(r, o) /\ Indexed' = Indexed /\ n \in Nat
    BY <1>0, <1>3, IndexCounted, ConstantFacts DEF CountIndex, Indexed, Overflow
  <2> HIDE DEF n
  <2>2. /\ o.call = op[r].call /\ o.pc \in {"return", "range"}
        /\ o.pc = "range" => o.overflow > 0
    BY <1>0, <2>1 DEF Operation
  <2> HIDE DEF o
  <2>3. op'[r] = o /\ \A s \in Replica \ {r} : op'[s] = op[s]
    BY <1>0, <2>1, Exactly
  <2>4. OverflowCounted' /\ PutsWrite'
    BY <2>2, <2>3 DEF IndexInv, OverflowCounted, PutsWrite
  <2>5. CASE op[r].call = "put"
    BY <1>3, <2>4, <2>5, CountStep DEF IndexInv
  <2>6. CASE op[r].call # "put"
    BY <1>0, <2>1, <2>2, <2>6, OtherStep
  <2> QED BY <2>5, <2>6
<1>4. CASE RangeOfIndex(r)
  <2>1. PICK S \in SUBSET Indexed :
          Advance(r, [op[r] EXCEPT !.pc = AfterRange(S), !.overflow = 0, !.todo = S, !.gone = S])
    BY <1>4 DEF RangeOfIndex
  <2> DEFINE o == [op[r] EXCEPT !.pc = AfterRange(S), !.overflow = 0, !.todo = S, !.gone = S]
  <2>2. o.call = op[r].call /\ o.pc \in {"return", "delete"}
    BY <1>0 DEF Operation, AfterRange
  <2>3. op'[r] = o /\ \A s \in Replica \ {r} : op'[s] = op[s]
    BY <1>0, <2>1, Exactly
  <2>4. Indexed' = Indexed /\ Advance(r, o)
    BY <1>4, <2>1 DEF RangeOfIndex, Indexed
  <2> HIDE DEF o
  <2>5. OverflowCounted' /\ PutsWrite'
    BY <2>2, <2>3 DEF IndexInv, OverflowCounted, PutsWrite
  <2>6. CASE op[r].call = "put"
    BY <1>4, <2>5, <2>6, RangeStep DEF IndexInv
  <2>7. CASE op[r].call # "put"
    BY <1>0, <2>2, <2>4, <2>7, OtherStep
  <2> QED BY <2>6, <2>7
<1>5. CASE DeleteBatch(r)
  <2>1. PICK b \in SUBSET op[r].todo :
          /\ index' = IF IndexKey \in b THEN Without(index, Indexed) ELSE index
          /\ Advance(r, [op[r] EXCEPT !.todo = op[r].todo \ b, !.pc = AfterBatch(r, b)])
    BY <1>5 DEF DeleteBatch
  <2> DEFINE o == [op[r] EXCEPT !.todo = op[r].todo \ b, !.pc = AfterBatch(r, b)]
  <2>2. /\ o.call = op[r].call /\ o.gone = op[r].gone /\ op[r].pc = "delete"
        /\ o.pc \in {"delete", "zrem", "return", "delindex"}
        /\ op[r].call = "put" => o.pc \in {"delete", "zrem"}
    BY <1>0, <1>5 DEF Operation, AfterBatch, DoneDeleting, DeleteBatch, At
  <2>3. op'[r] = o /\ \A s \in Replica \ {r} : op'[s] = op[s]
    BY <1>0, <2>1, Exactly
  <2>4. Indexed' \subseteq Indexed
    BY <2>1 DEF Indexed, Without
  <2> HIDE DEF o
  <2>5. Pruning(r)' <=> Pruning(r)
    BY <2>2, <2>3 DEF Pruning
  <2>6. Overflowing(r)' => /\ Overflowing(r) /\ {op[r].pc, op'[r].pc} \subseteq {"delete", "zrem"}
                           /\ op[r].gone \cap Indexed' \subseteq op'[r].gone
    BY <2>2, <2>3 DEF Overflowing
  <2> QED BY <1>0, <2>2, <2>3, <2>4, <2>5, <2>6, QuietStep
<1>6. CASE RemoveIndexEntries(r)
  <2>1. PICK b \in SUBSET op[r].gone :
          /\ index' = Without(index, b)
          /\ Advance(r, [op[r] EXCEPT !.gone = op[r].gone \ b,
                                      !.pc = IF b = op[r].gone THEN "return" ELSE "zrem"])
    BY <1>6 DEF RemoveIndexEntries
  <2> DEFINE o == [op[r] EXCEPT !.gone = op[r].gone \ b,
                                !.pc = IF b = op[r].gone THEN "return" ELSE "zrem"]
  <2>2. /\ o.call = op[r].call /\ o.gone = op[r].gone \ b /\ op[r].pc = "zrem"
        /\ o.pc = IF b = op[r].gone THEN "return" ELSE "zrem"
    BY <1>0, <1>6 DEF Operation, RemoveIndexEntries, At
  <2>3. op'[r] = o /\ \A s \in Replica \ {r} : op'[s] = op[s]
    BY <1>0, <2>1, Exactly
  <2>4. Indexed' = Indexed \ b
    BY <2>1 DEF Indexed, Without
  <2> HIDE DEF o
  <2>5. CASE b # op[r].gone \/ op[r].call # "put"
    <3>1. Pruning(r)' <=> Pruning(r)
      BY <2>2, <2>3, <2>5 DEF Pruning
    <3>2. Overflowing(r)' => /\ Overflowing(r) /\ {op[r].pc, op'[r].pc} \subseteq {"delete", "zrem"}
                             /\ op[r].gone \cap Indexed' \subseteq op'[r].gone
      BY <2>2, <2>3, <2>4, <2>5 DEF Overflowing
    <3> QED BY <1>0, <2>2, <2>3, <2>4, <3>1, <3>2, QuietStep
  <2>6. CASE b = op[r].gone /\ op[r].call = "put"
    <3>1. OverflowCounted' /\ PutsWrite'
      BY <2>2, <2>3, <2>6 DEF IndexInv, OverflowCounted, PutsWrite
    <3>2. At(r, "zrem") /\ index' = Without(index, op[r].gone) /\ op'[r].pc = "return"
      BY <2>1, <2>2, <2>3, <2>6 DEF At
    <3> QED BY <2>3, <2>6, <3>1, <3>2, LastBatchStep DEF IndexInv
  <2> QED BY <2>5, <2>6
<1> QED BY <1>1, <1>2, <1>3, <1>4, <1>5, <1>6 DEF Prune

(* Reading and clearing remove index entries at most.                        *)
LEMMA IndexStepGet ==
  ASSUME IInv, IndexInv, ~Faults, NEW r \in Replica, Get(r)
  PROVE  IndexInv'
<1>0. TypeOK /\ op[r] \in Operation
  BY DEF IInv, TypeOK
<1>1. ASSUME NEW k \in Key, BeginGet(r, k) PROVE IndexInv'
  <2>1. Indexed' = Indexed
    BY <1>1 DEF BeginGet, Indexed
  <2>2. Started("get", "get", k, 0, {}).call = "get" /\ Started("get", "get", k, 0, {}).pc = "get"
    BY DEF Started
  <2> QED BY <1>0, <1>1, <2>1, <2>2, BeginOther DEF BeginGet
<1>2. ASSUME NEW p \in {"miss", "return", "corrupt"}, op[r].pc \in {"get", "miss", "corrupt"},
             Advance(r, [op[r] EXCEPT !.pc = p]), Indexed' \subseteq Indexed
      PROVE  IndexInv'
  <2>1. op'[r].pc = p /\ \A s \in Replica \ {r} : op'[s] = op[s]
    BY <1>0, <1>2, Exactly DEF Operation
  <2>2. ~Pruning(r) /\ ~Pruning(r)' /\ ~Overflowing(r)'
    BY <1>2, <2>1 DEF Pruning, Overflowing
  <2> QED BY <1>0, <1>2, <2>1, <2>2, QuietStep
<1>3. CASE GetValue(r) \/ DropIndexEntry(r) \/ DropCorruptValue(r)
  <2>1. Indexed' \subseteq Indexed
    BY <1>3 DEF GetValue, DropIndexEntry, DropCorruptValue, Indexed, Without
  <2>2. \E p \in {"miss", "return", "corrupt"} : Advance(r, [op[r] EXCEPT !.pc = p])
    BY <1>3 DEF GetValue, DropIndexEntry, DropCorruptValue
  <2>3. op[r].pc \in {"get", "miss", "corrupt"}
    BY <1>3 DEF GetValue, DropIndexEntry, DropCorruptValue, At
  <2> QED BY <1>2, <2>1, <2>2, <2>3
<1> QED BY <1>1, <1>3 DEF Get

LEMMA IndexStepClear ==
  ASSUME IInv, IndexInv, ~Faults, NEW r \in Replica, Clear(r)
  PROVE  IndexInv'
<1>0. TypeOK /\ op[r] \in Operation /\ PointOK(op[r])
  BY DEF IInv, TypeOK, PointsOK
<1>1. CASE BeginClear(r)
  <2>1. Indexed' = Indexed
    BY <1>1 DEF BeginClear, Indexed
  <2> DEFINE o == Started("clear", "scan", IndexKey, 0, Key \cup {IndexKey})
  <2>2. o.call = "clear" /\ o.pc = "scan"
    BY DEF Started
  <2> QED BY <1>0, <1>1, <2>1, <2>2, BeginOther DEF BeginClear
<1>2. ASSUME NEW k \in Key \cup {IndexKey}, ScanKey(r, k) PROVE IndexInv'
  <2> DEFINE found == op[r].gone \cup {x \in {k} : Present(x)}
             left == op[r].todo \ {k}
             o == IF left # {} THEN [op[r] EXCEPT !.todo = left, !.gone = found]
                  ELSE [op[r] EXCEPT !.todo = found, !.gone = found,
                                     !.pc = IF found = {} THEN "delindex" ELSE "delete"]
  <2>1. Advance(r, o) /\ op[r].pc = "scan" /\ Indexed' = Indexed
    BY <1>2 DEF ScanKey, At, Indexed
  <2>2. op[r].call = "clear"
    BY <1>0, <2>1 DEF PointOK
  <2> HIDE DEF found, left
  <2>3. o.call = "clear" /\ o.pc \in {"scan", "delindex", "delete"}
    BY <1>0, <2>1, <2>2 DEF Operation
  <2> HIDE DEF o
  <2> QED BY <1>0, <2>1, <2>2, <2>3, OtherStep
<1>3. CASE DeleteIndex(r)
  <2> DEFINE o == [op[r] EXCEPT !.pc = "return"]
  <2>1. Advance(r, o) /\ op[r].pc = "delindex" /\ Indexed' \subseteq Indexed
    BY <1>3 DEF DeleteIndex, At, Indexed, Without
  <2>2. op'[r] = o /\ \A s \in Replica \ {r} : op'[s] = op[s]
    BY <1>0, <2>1, Exactly
  <2>3. o.pc = "return"
    BY <1>0 DEF Operation
  <2> HIDE DEF o
  <2>4. ~Pruning(r) /\ ~Pruning(r)' /\ ~Overflowing(r)'
    BY <2>1, <2>2, <2>3 DEF Pruning, Overflowing
  <2> QED BY <1>0, <2>1, <2>2, <2>3, <2>4, QuietStep
<1> QED BY <1>1, <1>2, <1>3 DEF Clear

(* Steps that change neither the index nor an operation's place in its call. *)
LEMMA IndexStepStill ==
  ASSUME IndexInv, op' = op, UNCHANGED index
  PROVE  IndexInv'
BY DEF IndexInv, Reserve, Covered, Chosen, Pruners, Pruning, Overflowing, OverflowCounted,
       PutsWrite, Indexed

LEMMA IndexStepEnd ==
  ASSUME IInv, IndexInv, ~Faults, NEW r \in Replica, End(r)
  PROVE  IndexInv'
<1>1. CASE Return(r)
  <2>1. /\ op[r].pc = "return" /\ op' = [op EXCEPT ![r] = Idle] /\ Indexed' = Indexed
        /\ TypeOK
    BY <1>1 DEF Return, At, Indexed, IInv
  <2>2. /\ op'[r].pc = "idle" /\ op'[r].call = "none"
        /\ \A s \in Replica \ {r} : op'[s] = op[s]
    BY <2>1, IdleIsOperation DEF TypeOK
  <2>3. ~Pruning(r) /\ ~Pruning(r)' /\ ~Overflowing(r)'
    BY <2>1, <2>2 DEF Pruning, Overflowing
  <2> QED BY <2>1, <2>2, <2>3, QuietStep
<1>2. CASE Close(r) \/ Reopen(r)
  BY <1>2, IndexStepStill DEF Close, Reopen
<1> QED BY <1>1, <1>2 DEF End, Abort

(* The reserve of the index, inductive for replicas that do not fail.        *)
THEOREM IndexInvariance ==
  ASSUME ~Faults, MaxRows > 0
  PROVE  Spec => [](IInv /\ IndexInv)
<1>1. Init => IInv /\ IndexInv
  <2> SUFFICES ASSUME Init PROVE IInv /\ IndexInv
    OBVIOUS
  <2>1. IInv
    BY InitIInv
  <2>2. /\ \A r \in Replica : op[r].pc = "idle" /\ op[r].call = "none"
        /\ Indexed = {}
    BY IdleIsOperation, NoKeysDomain DEF Init, Indexed
  <2>3. {r \in Replica : Overflowing(r)} = {}
    BY <2>2 DEF Overflowing
  <2>4. Covered({})
    <3>1. Cardinality(Pruners \ {}) \in Nat
      BY <2>1, Finite DEF IInv
    <3>2. Indexed \ Chosen({}) = {} /\ Cardinality(Indexed \ Chosen({})) = 0
      BY <2>2, FS_EmptySet
    <3> QED BY <3>1, <3>2, ConstantFacts DEF Covered
  <2>5. Reserve
    BY <2>3, <2>4 DEF Reserve
  <2> QED BY <2>1, <2>2, <2>5 DEF IndexInv, OverflowCounted, PutsWrite
<1>2. ASSUME IInv, IInv', IndexInv, [Next]_vars PROVE IndexInv'
  <2>1. CASE Tick
    BY <1>2, <2>1, IndexStepStill DEF Tick
  <2>2. ASSUME NEW r \in serving, Put(r) \/ Prune(r) \/ Get(r) \/ Clear(r) \/ End(r)
        PROVE  IndexInv'
    <3>1. r \in Replica
      BY <1>2 DEF IInv, TypeOK
    <3> QED BY <1>2, <2>2, <3>1, IndexStepPut, IndexStepPrune, IndexStepGet, IndexStepClear, IndexStepEnd
  <2>3. CASE UNCHANGED vars
    BY <1>2, <2>3, IndexStepStill DEF vars
  <2> QED BY <1>2, <2>1, <2>2, <2>3 DEF Next
<1>3. IInv /\ IInv' /\ IndexInv /\ [Next]_vars => IndexInv'
  BY <1>2
<1> QED BY <1>1, <1>3, Invariance, PTL DEF Spec

(* However the counting, choosing and removing of the replicas interleave,   *)
(* the index exceeds max_rows by at most the number of puts that still owe   *)
(* their prune.                                                              *)
THEOREM IndexStaysBounded == Spec => []IndexBounded
<1>1. CASE MaxRows > 0 /\ ~Faults
  <2>1. ASSUME IInv, IndexInv PROVE IndexBounded
    <3>1. Covered({})
      BY <2>1 DEF IndexInv, Reserve
    <3>2. Chosen({}) = {}
      BY DEF Chosen
    <3>3. Indexed \ Chosen({}) = Indexed /\ Pruners \ {} = Pruners
      BY <3>2
    <3>4. Cardinality(Indexed) <= MaxRows + Cardinality(Pruners)
      BY <3>1, <3>3 DEF Covered
    <3> QED BY <3>4 DEF IndexBounded, Pruners
  <2>2. IInv /\ IndexInv => IndexBounded
    BY <2>1
  <2>3. Spec => [](IInv /\ IndexInv)
    BY <1>1, IndexInvariance
  <2> QED BY <2>2, <2>3, PTL
<1>2. CASE ~(MaxRows > 0 /\ ~Faults)
  <2>1. IndexBounded
    BY <1>2 DEF IndexBounded
  <2> QED BY <2>1, PTL
<1> QED BY <1>1, <1>2

-----------------------------------------------------------------------------

(* One replica.  Between the commands of its operation: which young values   *)
(* may be without an index entry, and what the prune has yet to delete.      *)
Young(k) == data[k].ok /\ (MaxAge > 0 => now < data[k].at + MaxAge)

YoungIndexed(r) ==
  op[r].call # "clear" =>
    \A k \in Live :
      Young(k) => \/ k \in Indexed /\ index[k] = data[k].at
                  \/ op[r].pc = "zadd" /\ op[r].key = k

EvictedOrDue(r) ==
  op[r].call # "clear" =>
    /\ op[r].pc = "delete" => op[r].todo \subseteq Key /\ op[r].gone \cap Live \subseteq op[r].todo
    /\ op[r].pc = "zrem" => op[r].gone \cap Live = {}
    /\ op[r].pc = "miss" => op[r].key \notin Live
    /\ op[r].pc = "corrupt" /\ op[r].key \in Live => ~data[op[r].key].ok

(* A put's clock is not ahead, and its value waits for its index entry; no   *)
(* prune is by an age that is not bounded.  A clear() meets no new value,    *)
(* and only it drops the whole index.                                        *)
PutUnderway(r) ==
  /\ op[r].pc \in {"set", "zadd"} => op[r].call = "put"
  /\ op[r].pc = "byage" => MaxAge > 0
  /\ op[r].call = "put" => op[r].at <= now
  /\ op[r].pc = "zadd" /\ op[r].key \in Live => data[op[r].key].at = op[r].at
ClearUnderway(r) ==
  /\ op[r].pc = "delindex" => op[r].call = "clear"
  /\ op[r].call = "clear" => Live \subseteq earlier[r]

AloneInv ==
  \A r \in Replica :
    serving = {r} => YoungIndexed(r) /\ EvictedOrDue(r) /\ PutUnderway(r) /\ ClearUnderway(r)

(* With a clock that is the server's, every put writes the highest score,    *)
(* so its prune removes other entries and other values.                      *)
PutPoints(r) ==
  op[r].call = "put" =>
    /\ op[r].pc \in {"set", "zadd", "byage", "card", "range", "delete", "zrem", "return"}
    /\ op[r].pc = "card" => MaxRows > 0

OwnEntryHighest(r) ==
  /\ \A l \in Indexed : index[l] < now
  /\ op[r].call = "put" =>
       /\ op[r].at < now
       /\ \A l \in Indexed \ {op[r].key} : index[l] < op[r].at
       /\ Pruning(r) /\ op[r].pc \notin {"delete", "zrem"} =>
            op[r].key \in Indexed /\ index[op[r].key] = op[r].at
       /\ op[r].pc = "range" => op[r].overflow < Cardinality(Indexed)
       /\ op[r].pc = "delete" => op[r].key \notin op[r].todo

OwnValueKept(r) ==
  op[r].call = "put" /\ op[r].pc # "set" =>
    \/ op[r].key \in Live /\ op[r].at + MaxAge <= data[op[r].key].exp
    \/ MaxAge > 0 /\ op[r].at + MaxAge <= now

EvictionInv ==
  \A r \in Replica : serving = {r} => PutPoints(r) /\ OwnEntryHighest(r) /\ OwnValueKept(r)

-----------------------------------------------------------------------------
LEMMA FewerValues ==
  ASSUME NEW b, data' = Without(data, b)
  PROVE  Live' = Live \ b /\ \A k \in Live' : k \in Live /\ data'[k] = data[k]
BY DEF Live, Without

LEMMA FewerEntries ==
  ASSUME NEW b, index' = Without(index, b)
  PROVE  Indexed' = Indexed \ b /\ \A k \in Indexed' : k \in Indexed /\ index'[k] = index[k]
BY DEF Indexed, Without

(* A value that is young was young before.                                   *)
LEMMA YoungBefore ==
  ASSUME TypeOK, TypeOK', now' \in {now, now + 1}, NEW k \in Live, data'[k] = data[k], Young(k)'
  PROVE  Young(k)
<1>1. data \in [Live -> Entry] /\ now \in Nat
  BY DEF TypeOK
<1>2. data[k] \in Entry
  BY <1>1
<1> QED BY <1>1, <1>2, ConstantFacts DEF Young, Entry

(* The replicas of the deployment stay the same.                             *)
LEMMA ServingStays ==
  ASSUME [Next]_vars
  PROVE  serving' = serving
BY DEF Next, vars, Tick, Put, BeginPut, SetValue, AddToIndex, Prune, BeginPrune,
       PruneIndexByAge, CountIndex, RangeOfIndex, DeleteBatch, RemoveIndexEntries,
       Get, BeginGet, GetValue, DropIndexEntry, DropCorruptValue, Clear, BeginClear,
       ScanKey, DeleteIndex, End, Return, Abort, Close, Reopen

(* What a step has to show, when the only replica is r.                      *)
LEMMA AloneParts ==
  ASSUME NEW r \in Replica, serving' = {r}, YoungIndexed(r)', EvictedOrDue(r)', PutUnderway(r)',
         ClearUnderway(r)'
  PROVE  AloneInv'
BY DEF AloneInv

(* Time passes: at most, values disappear.                                   *)
LEMMA AloneTick ==
  ASSUME IInv, IInv', AloneInv, NEW r \in Replica, serving = {r}, serving' = {r}, Tick
  PROVE  AloneInv'
<1>1. /\ TypeOK /\ TypeOK' /\ now' = now + 1 /\ Live' \subseteq Live
      /\ \A k \in Live' : k \in Live /\ data'[k] = data[k]
      /\ UNCHANGED <<Indexed, index, op, earlier>> /\ op[r] \in Operation /\ now \in Nat
  BY FewerValues DEF IInv, Tick, Indexed, TypeOK
<1>2. YoungIndexed(r) /\ EvictedOrDue(r) /\ PutUnderway(r) /\ ClearUnderway(r)
  BY DEF AloneInv
<1>3. YoungIndexed(r)'
  BY <1>1, <1>2, YoungBefore DEF YoungIndexed
<1>4. EvictedOrDue(r)'
  BY <1>1, <1>2 DEF EvictedOrDue
<1>5. PutUnderway(r)' /\ ClearUnderway(r)'
  BY <1>1, <1>2 DEF PutUnderway, ClearUnderway, Operation
<1> QED BY <1>3, <1>4, <1>5, AloneParts

(* A step that neither writes nor removes a value and leaves the index       *)
(* entries of those that are there.                                          *)
LEMMA AloneStill ==
  ASSUME TypeOK, AloneInv, NEW r \in Replica, serving = {r}, serving' = {r},
         UNCHANGED <<data, now>>,
         \A k \in Live : Young(k) /\ k \in Indexed /\ index[k] = data[k].at
                         => k \in Indexed' /\ index'[k] = index[k],
         op'[r].call # "clear" => op[r].call # "clear" /\ op[r].pc # "zadd",
         op'[r].pc \notin {"set", "zadd"}, op'[r].pc = "byage" => MaxAge > 0, op'[r].pc = "delindex" => op'[r].call = "clear",
         op'[r].call = "put" => op'[r].at <= now,
         op'[r].call = "clear" => Live \subseteq earlier'[r],
         EvictedOrDue(r)'
  PROVE  AloneInv'
<1>1. Live' = Live /\ \A k : Young(k)' <=> Young(k)
  BY DEF Live, Young
<1>2. YoungIndexed(r)'
  BY <1>1 DEF AloneInv, YoungIndexed
<1>3. PutUnderway(r)' /\ ClearUnderway(r)'
  BY <1>1 DEF PutUnderway, ClearUnderway
<1> QED BY <1>2, <1>3, AloneParts

LEMMA AlonePut ==
  ASSUME IInv, IInv', AloneInv, ~Faults, NEW r \in Replica, serving = {r}, serving' = {r}, Put(r)
  PROVE  AloneInv'
<1>0. /\ TypeOK /\ TypeOK' /\ op[r] \in Operation /\ r \in Replica /\ now \in Nat
      /\ YoungIndexed(r) /\ EvictedOrDue(r) /\ PutUnderway(r) /\ ClearUnderway(r)
  BY DEF IInv, TypeOK, AloneInv
<1>1. ASSUME NEW k \in Key, NEW t \in 0..now, BeginPut(r, k, t) PROVE AloneInv'
  <2> DEFINE o == Started("put", "set", k, t, {})
  <2>1. o.call = "put" /\ o.pc = "set" /\ o.key = k /\ o.at = t
    BY DEF Started
  <2>2. op'[r] = o /\ now' = now + 1 /\ UNCHANGED index /\ t \in Nat /\ t <= now
    BY <1>0, <1>1 DEF BeginPut, TypeOK
  <2> HIDE DEF o
  <2>3. Live' \subseteq Live /\ \A l \in Live' : l \in Live /\ data'[l] = data[l]
    BY <1>1, FewerValues DEF BeginPut
  <2>4. op[r].call = "none" /\ op[r].pc = "idle"
    BY <1>1, IdleIsOperation DEF BeginPut
  <2>5. YoungIndexed(r)'
    BY <1>0, <2>1, <2>2, <2>3, <2>4, YoungBefore DEF YoungIndexed, Indexed
  <2>6. EvictedOrDue(r)'
    BY <2>1, <2>2 DEF EvictedOrDue
  <2>7. PutUnderway(r)' /\ ClearUnderway(r)'
    BY <1>0, <2>1, <2>2 DEF PutUnderway, ClearUnderway
  <2> QED BY <2>5, <2>6, <2>7, AloneParts
<1>2. CASE SetValue(r)
  <2> DEFINE o == [op[r] EXCEPT !.pc = "zadd"]
             v == [at |-> op[r].at, exp |-> now + MaxAge, ok |-> TRUE]
  <2>1. /\ op[r].pc = "set" /\ op[r].call = "put" /\ op[r].at <= now
        /\ o.call = "put" /\ o.pc = "zadd" /\ o.key = op[r].key /\ o.at = op[r].at
    BY <1>0, <1>2 DEF SetValue, At, PutUnderway, Operation
  <2>2. op'[r] = o
    BY <1>0, <1>2, Exactly DEF SetValue
  <2>3. data' = With(data, op[r].key, v) /\ UNCHANGED <<index, now>> /\ v.at = op[r].at
    BY <1>2 DEF SetValue
  <2> HIDE DEF o, v
  <2>4. /\ Live' = Live \cup {op[r].key} /\ data'[op[r].key] = v
        /\ \A l \in Live \ {op[r].key} : data'[l] = data[l]
    BY <2>3 DEF Live, With
  <2>5. YoungIndexed(r)'
    BY <1>0, <2>1, <2>2, <2>3, <2>4, YoungBefore DEF YoungIndexed, Indexed
  <2>6. EvictedOrDue(r)'
    BY <2>1, <2>2 DEF EvictedOrDue
  <2>7. PutUnderway(r)' /\ ClearUnderway(r)'
    BY <2>1, <2>2, <2>3, <2>4 DEF PutUnderway, ClearUnderway
  <2> QED BY <2>5, <2>6, <2>7, AloneParts
<1>3. CASE AddToIndex(r)
  <2> DEFINE o == [op[r] EXCEPT !.pc = AgePoint]
  <2>1. /\ op[r].pc = "zadd" /\ op[r].call = "put" /\ op[r].at <= now
        /\ o.call = "put" /\ o.pc \in {"byage", "card", "return"} /\ o.at = op[r].at
        /\ o.pc = "byage" => MaxAge > 0
    BY <1>0, <1>3 DEF AddToIndex, At, PutUnderway, Operation, AgePoint, RowsPoint
  <2>2. op'[r] = o
    BY <1>0, <1>3, Exactly DEF AddToIndex
  <2>3. index' = With(index, op[r].key, op[r].at) /\ UNCHANGED <<data, now>>
    BY <1>3 DEF AddToIndex
  <2> HIDE DEF o
  <2>4. /\ Indexed' = Indexed \cup {op[r].key} /\ index'[op[r].key] = op[r].at
        /\ \A l \in Indexed \ {op[r].key} : index'[l] = index[l]
    BY <2>3 DEF Indexed, With
  <2>5. Live' = Live /\ \A k : Young(k)' <=> Young(k)
    BY <2>3 DEF Live, Young
  <2>6. op[r].key \in Live => data[op[r].key].at = op[r].at
    BY <1>0, <2>1 DEF PutUnderway
  <2>7. YoungIndexed(r)'
    BY <1>0, <2>1, <2>3, <2>4, <2>5, <2>6 DEF YoungIndexed
  <2>8. EvictedOrDue(r)'
    BY <2>1, <2>2 DEF EvictedOrDue
  <2>9. PutUnderway(r)' /\ ClearUnderway(r)'
    BY <2>1, <2>2, <2>3 DEF PutUnderway, ClearUnderway
  <2> QED BY <2>7, <2>8, <2>9, AloneParts
<1> QED BY <1>1, <1>2, <1>3 DEF Put

LEMMA AlonePrune ==
  ASSUME IInv, IInv', AloneInv, ~Faults, NEW r \in Replica, serving = {r}, serving' = {r}, Prune(r)
  PROVE  AloneInv'
<1>0. /\ TypeOK /\ TypeOK' /\ op[r] \in Operation /\ r \in Replica /\ now \in Nat
      /\ YoungIndexed(r) /\ EvictedOrDue(r) /\ PutUnderway(r) /\ ClearUnderway(r)
      /\ PointOK(op[r])
  BY DEF IInv, TypeOK, AloneInv, PointsOK
<1>1. ASSUME NEW call \in {"prune", "stats"}, BeginPrune(r, call) PROVE AloneInv'
  <2> DEFINE o == Started(call, IF call = "stats" /\ MaxAge = 0 THEN "card" ELSE AgePoint,
                          IndexKey, 0, {})
  <2>1. o.pc \in {"byage", "card", "return"} /\ (o.pc = "byage" => MaxAge > 0) /\ o.call = call
    BY DEF AgePoint, RowsPoint, Started
  <2>2. UNCHANGED <<data, index, now>> /\ op'[r] = o /\ op[r].pc = "idle" /\ op[r].call = "none"
    BY <1>0, <1>1, IdleIsOperation DEF BeginPrune, TypeOK
  <2> HIDE DEF o
  <2>3. EvictedOrDue(r)'
    BY <2>1, <2>2 DEF EvictedOrDue
  <2> QED BY <1>0, <2>1, <2>2, <2>3, AloneStill DEF Indexed
<1>2. CASE PruneIndexByAge(r)
  <2> DEFINE o == [op[r] EXCEPT !.pc = IF op[r].call = "stats" THEN "card" ELSE RowsPoint]
             present == IF op[r].call = "put" THEN op[r].at ELSE now
  <2>1. /\ o.call = op[r].call /\ o.pc \in {"card", "return"} /\ op[r].pc = "byage"
        /\ o.at = op[r].at /\ op[r].call # "clear" /\ MaxAge > 0
    BY <1>0, <1>2 DEF PruneIndexByAge, At, Operation, RowsPoint, PointOK, PutUnderway
  <2>2. op'[r] = o
    BY <1>0, <1>2, Exactly DEF PruneIndexByAge
  <2>3. UNCHANGED <<data, now>> /\ index' = Without(index, {k \in Indexed : index[k] + MaxAge <= present})
    BY <1>2 DEF PruneIndexByAge
  <2>4. present \in Nat /\ present <= now
    BY <1>0 DEF PutUnderway, Operation
  <2> HIDE DEF o, present
  <2>5. ASSUME NEW k \in Live, Young(k), k \in Indexed, index[k] = data[k].at
        PROVE  k \in Indexed' /\ index'[k] = index[k]
    <3>1. data[k].at \in Nat
      BY <1>0 DEF TypeOK, Entry
    <3>2. now < index[k] + MaxAge
      BY <2>1, <2>5 DEF Young
    <3>3. ~(index[k] + MaxAge <= present)
      BY <1>0, <2>4, <2>5, <3>1, <3>2, ConstantFacts
    <3> QED BY <2>3, <2>5, <3>3, FewerEntries
  <2>6. EvictedOrDue(r)'
    BY <2>1, <2>2 DEF EvictedOrDue
  <2> QED BY <1>0, <2>1, <2>2, <2>3, <2>5, <2>6, AloneStill DEF PutUnderway
<1>3. CASE CountIndex(r)
  <2> DEFINE n == Overflow(Cardinality(Indexed))
             o == IF op[r].call = "stats" \/ n = 0
                    THEN [op[r] EXCEPT !.pc = "return"]
                    ELSE [op[r] EXCEPT !.pc = "range", !.overflow = n]
  <2>1. /\ UNCHANGED <<data, index, now>> /\ op'[r] = o /\ op[r].pc = "card"
        /\ op[r].call # "clear"
    BY <1>0, <1>3, Exactly DEF CountIndex, At, PointOK
  <2> HIDE DEF n
  <2>2. o.call = op[r].call /\ o.pc \in {"return", "range"} /\ o.at = op[r].at
    BY <1>0 DEF Operation
  <2> HIDE DEF o
  <2>3. EvictedOrDue(r)'
    BY <2>1, <2>2 DEF EvictedOrDue
  <2> QED BY <1>0, <2>1, <2>2, <2>3, AloneStill DEF Indexed, PutUnderway
<1>4. CASE RangeOfIndex(r)
  <2>1. PICK S \in SUBSET Indexed :
          Advance(r, [op[r] EXCEPT !.pc = AfterRange(S), !.overflow = 0, !.todo = S, !.gone = S])
    BY <1>4 DEF RangeOfIndex
  <2> DEFINE o == [op[r] EXCEPT !.pc = AfterRange(S), !.overflow = 0, !.todo = S, !.gone = S]
  <2>2. /\ UNCHANGED <<data, index, now>> /\ op'[r] = o /\ op[r].pc = "range"
        /\ op[r].call # "clear"
    BY <1>0, <1>4, <2>1, Exactly DEF RangeOfIndex, At, PointOK
  <2>3. /\ o.call = op[r].call /\ o.pc \in {"return", "delete"} /\ o.at = op[r].at
        /\ o.todo = S /\ o.gone = S
    BY <1>0 DEF Operation, AfterRange
  <2> HIDE DEF o
  <2>4. S \subseteq Key
    BY <1>0 DEF TypeOK
  <2>5. EvictedOrDue(r)'
    BY <2>2, <2>3, <2>4 DEF EvictedOrDue
  <2> QED BY <1>0, <2>2, <2>3, <2>5, AloneStill DEF Indexed, PutUnderway
<1>5. CASE DeleteBatch(r)
  <2>1. PICK b \in SUBSET op[r].todo :
          /\ data' = Without(data, b) /\ UNCHANGED <<now, earlier>>
          /\ index' = IF IndexKey \in b THEN Without(index, Indexed) ELSE index
          /\ Advance(r, [op[r] EXCEPT !.todo = op[r].todo \ b, !.pc = AfterBatch(r, b)])
    BY <1>5 DEF DeleteBatch
  <2> DEFINE o == [op[r] EXCEPT !.todo = op[r].todo \ b, !.pc = AfterBatch(r, b)]
  <2>2. op'[r] = o /\ op[r].pc = "delete"
    BY <1>0, <1>5, <2>1, Exactly DEF DeleteBatch, At
  <2>3. /\ o.call = op[r].call /\ o.gone = op[r].gone /\ o.todo = op[r].todo \ b /\ o.at = op[r].at
        /\ o.pc = IF b # op[r].todo THEN "delete"
                  ELSE IF op[r].call # "clear" THEN "zrem"
                  ELSE IF IndexKey \in op[r].gone THEN "return" ELSE "delindex"
    BY <1>0 DEF Operation, AfterBatch, DoneDeleting
  <2> HIDE DEF o
  <2>4. Live' = Live \ b /\ \A k \in Live' : k \in Live /\ data'[k] = data[k]
    BY <2>1, FewerValues
  <2>5. op[r].call # "clear" => UNCHANGED <<index, Indexed>>
    BY <1>0, <2>1, <2>2, ConstantFacts DEF EvictedOrDue, Indexed
  <2>6. YoungIndexed(r)'
    BY <1>0, <2>1, <2>2, <2>3, <2>4, <2>5, YoungBefore DEF YoungIndexed
  <2>7. EvictedOrDue(r)'
    BY <1>0, <2>2, <2>3, <2>4 DEF EvictedOrDue
  <2>8. PutUnderway(r)' /\ ClearUnderway(r)'
    BY <1>0, <2>1, <2>2, <2>3, <2>4 DEF PutUnderway, ClearUnderway
  <2> QED BY <2>6, <2>7, <2>8, AloneParts
<1>6. CASE RemoveIndexEntries(r)
  <2>1. PICK b \in SUBSET op[r].gone :
          /\ index' = Without(index, b)
          /\ Advance(r, [op[r] EXCEPT !.gone = op[r].gone \ b,
                                      !.pc = IF b = op[r].gone THEN "return" ELSE "zrem"])
    BY <1>6 DEF RemoveIndexEntries
  <2> DEFINE o == [op[r] EXCEPT !.gone = op[r].gone \ b,
                                !.pc = IF b = op[r].gone THEN "return" ELSE "zrem"]
  <2>2. /\ op'[r] = o /\ op[r].pc = "zrem" /\ UNCHANGED <<data, now>> /\ op[r].call # "clear"
    BY <1>0, <1>6, <2>1, Exactly DEF RemoveIndexEntries, At, PointOK
  <2>3. /\ o.call = op[r].call /\ o.gone = op[r].gone \ b /\ o.at = op[r].at
        /\ o.pc \in {"return", "zrem"}
    BY <1>0 DEF Operation
  <2> HIDE DEF o
  <2>4. op[r].gone \cap Live = {}
    BY <1>0, <2>2 DEF EvictedOrDue
  <2>5. \A k \in Live : k \in Indexed => k \in Indexed' /\ index'[k] = index[k]
    BY <2>1, <2>4, FewerEntries
  <2>6. EvictedOrDue(r)'
    BY <2>2, <2>3, <2>4 DEF EvictedOrDue, Live
  <2> QED BY <1>0, <2>2, <2>3, <2>5, <2>6, AloneStill DEF PutUnderway
<1> QED BY <1>1, <1>2, <1>3, <1>4, <1>5, <1>6 DEF Prune

LEMMA AloneGet ==
  ASSUME IInv, IInv', AloneInv, ~Faults, NEW r \in Replica, serving = {r}, serving' = {r}, Get(r)
  PROVE  AloneInv'
<1>0. /\ TypeOK /\ TypeOK' /\ op[r] \in Operation /\ r \in Replica /\ now \in Nat
      /\ YoungIndexed(r) /\ EvictedOrDue(r) /\ PutUnderway(r) /\ ClearUnderway(r)
      /\ PointOK(op[r])
  BY DEF IInv, TypeOK, AloneInv, PointsOK
<1>1. ASSUME NEW k \in Key, BeginGet(r, k) PROVE AloneInv'
  <2> DEFINE o == Started("get", "get", k, 0, {})
  <2>1. o.pc = "get" /\ o.call = "get"
    BY DEF Started
  <2>2. UNCHANGED <<data, index, now>> /\ op'[r] = o /\ op[r].pc = "idle" /\ op[r].call = "none"
    BY <1>0, <1>1, IdleIsOperation DEF BeginGet, TypeOK
  <2> HIDE DEF o
  <2>3. EvictedOrDue(r)'
    BY <2>1, <2>2 DEF EvictedOrDue
  <2> QED BY <1>0, <2>1, <2>2, <2>3, AloneStill DEF Indexed
<1>2. CASE GetValue(r)
  <2> DEFINE k == op[r].key
             o == [op[r] EXCEPT !.pc = IF k \notin Live THEN "miss"
                                       ELSE IF data[k].ok THEN "return" ELSE "corrupt"]
  <2>1. /\ op'[r] = o /\ op[r].pc = "get" /\ UNCHANGED <<data, index, now>>
        /\ op[r].call # "clear"
    BY <1>0, <1>2, Exactly DEF GetValue, At, PointOK
  <2>2. /\ o.call = op[r].call /\ o.at = op[r].at /\ o.key = k
        /\ o.pc = IF k \notin Live THEN "miss" ELSE IF data[k].ok THEN "return" ELSE "corrupt"
    BY <1>0 DEF Operation
  <2> HIDE DEF o
  <2>3. EvictedOrDue(r)'
    BY <2>1, <2>2 DEF EvictedOrDue, Live
  <2> QED BY <1>0, <2>1, <2>2, <2>3, AloneStill DEF Indexed, PutUnderway
<1>3. CASE DropIndexEntry(r)
  <2> DEFINE o == [op[r] EXCEPT !.pc = "return"]
  <2>1. /\ op'[r] = o /\ op[r].pc = "miss" /\ UNCHANGED <<data, now>>
        /\ op[r].call # "clear" /\ index' = Without(index, {op[r].key})
    BY <1>0, <1>3, Exactly DEF DropIndexEntry, At, PointOK
  <2>2. o.call = op[r].call /\ o.at = op[r].at /\ o.pc = "return"
    BY <1>0 DEF Operation
  <2> HIDE DEF o
  <2>3. op[r].key \notin Live
    BY <1>0, <2>1 DEF EvictedOrDue
  <2>4. \A k \in Live : k \in Indexed => k \in Indexed' /\ index'[k] = index[k]
    BY <2>1, <2>3, FewerEntries
  <2>5. EvictedOrDue(r)'
    BY <2>1, <2>2 DEF EvictedOrDue
  <2> QED BY <1>0, <2>1, <2>2, <2>4, <2>5, AloneStill DEF PutUnderway
<1>4. CASE DropCorruptValue(r)
  <2> DEFINE o == [op[r] EXCEPT !.pc = "miss"]
  <2>1. /\ op'[r] = o /\ op[r].pc = "corrupt" /\ UNCHANGED <<index, Indexed, now, earlier>>
        /\ op[r].call # "clear" /\ data' = Without(data, {op[r].key})
    BY <1>0, <1>4, Exactly DEF DropCorruptValue, At, PointOK, Indexed
  <2>2. o.call = op[r].call /\ o.at = op[r].at /\ o.pc = "miss" /\ o.key = op[r].key
    BY <1>0 DEF Operation
  <2> HIDE DEF o
  <2>3. /\ Live' = Live \ {op[r].key}
        /\ \A k \in Live' : k \in Live /\ data'[k] = data[k]
    BY <2>1, FewerValues
  <2>4. YoungIndexed(r)'
    BY <1>0, <2>1, <2>2, <2>3, YoungBefore DEF YoungIndexed
  <2>5. EvictedOrDue(r)'
    BY <2>1, <2>2, <2>3 DEF EvictedOrDue
  <2>6. PutUnderway(r)' /\ ClearUnderway(r)'
    BY <1>0, <2>1, <2>2 DEF PutUnderway, ClearUnderway
  <2> QED BY <2>4, <2>5, <2>6, AloneParts
<1> QED BY <1>1, <1>2, <1>3, <1>4 DEF Get

LEMMA AloneClear ==
  ASSUME IInv, IInv', AloneInv, ~Faults, NEW r \in Replica, serving = {r}, serving' = {r}, Clear(r)
  PROVE  AloneInv'
<1>0. /\ TypeOK /\ TypeOK' /\ op[r] \in Operation /\ r \in Replica /\ now \in Nat
      /\ YoungIndexed(r) /\ EvictedOrDue(r) /\ PutUnderway(r) /\ ClearUnderway(r)
      /\ PointOK(op[r])
  BY DEF IInv, TypeOK, AloneInv, PointsOK
<1>1. \A o : op'[r] = o /\ o.call = "clear" => YoungIndexed(r)' /\ EvictedOrDue(r)'
  BY DEF YoungIndexed, EvictedOrDue
<1>2. CASE BeginClear(r)
  <2> DEFINE o == Started("clear", "scan", IndexKey, 0, Key \cup {IndexKey})
  <2>1. o.call = "clear" /\ o.pc = "scan"
    BY DEF Started
  <2>2. op'[r] = o /\ Live' = Live /\ earlier'[r] = Live
    BY <1>0, <1>2 DEF BeginClear, TypeOK, Live
  <2> HIDE DEF o
  <2>3. PutUnderway(r)' /\ ClearUnderway(r)'
    BY <2>1, <2>2 DEF PutUnderway, ClearUnderway
  <2> QED BY <1>1, <2>1, <2>2, <2>3, AloneParts
<1>3. ASSUME NEW o, op'[r] = o, o.call = "clear", o.pc \in {"scan", "delete", "delindex", "return"},
             op[r].call = "clear", UNCHANGED <<data, earlier>>
      PROVE  AloneInv'
  <2>1. PutUnderway(r)' /\ ClearUnderway(r)'
    BY <1>0, <1>3 DEF PutUnderway, ClearUnderway, Live
  <2> QED BY <1>1, <1>3, <2>1, AloneParts
<1>4. ASSUME NEW k \in Key \cup {IndexKey}, ScanKey(r, k) PROVE AloneInv'
  <2> DEFINE found == op[r].gone \cup {x \in {k} : Present(x)}
             left == op[r].todo \ {k}
             o == IF left # {} THEN [op[r] EXCEPT !.todo = left, !.gone = found]
                  ELSE [op[r] EXCEPT !.todo = found, !.gone = found,
                                     !.pc = IF found = {} THEN "delindex" ELSE "delete"]
  <2>1. Advance(r, o) /\ op[r].pc = "scan" /\ UNCHANGED <<data, earlier>>
    BY <1>4 DEF ScanKey, At
  <2>2. op[r].call = "clear"
    BY <1>0, <2>1 DEF PointOK
  <2> HIDE DEF found, left
  <2>3. o.call = "clear" /\ o.pc \in {"scan", "delindex", "delete"}
    BY <1>0, <2>1, <2>2 DEF Operation
  <2> HIDE DEF o
  <2>4. op'[r] = o
    BY <1>0, <2>1, Exactly
  <2> QED BY <1>3, <2>1, <2>2, <2>3, <2>4
<1>5. CASE DeleteIndex(r)
  <2> DEFINE o == [op[r] EXCEPT !.pc = "return"]
  <2>1. op'[r] = o /\ op[r].pc = "delindex" /\ UNCHANGED <<data, earlier>>
    BY <1>0, <1>5, Exactly DEF DeleteIndex, At
  <2>2. op[r].call = "clear"
    BY <1>0, <2>1 DEF ClearUnderway
  <2>3. o.pc = "return" /\ o.call = op[r].call
    BY <1>0 DEF Operation
  <2> HIDE DEF o
  <2> QED BY <1>3, <2>1, <2>2, <2>3
<1> QED BY <1>2, <1>4, <1>5 DEF Clear

LEMMA AloneEnd ==
  ASSUME IInv, IInv', AloneInv, ~Faults, NEW r \in Replica, serving = {r}, serving' = {r}, End(r)
  PROVE  AloneInv'
<1>0. /\ TypeOK /\ TypeOK' /\ op[r] \in Operation /\ r \in Replica /\ now \in Nat
      /\ YoungIndexed(r) /\ EvictedOrDue(r) /\ PutUnderway(r) /\ ClearUnderway(r)
  BY DEF IInv, TypeOK, AloneInv
<1>1. CASE Return(r)
  <2>1. /\ op'[r] = Idle /\ op[r].pc = "return" /\ UNCHANGED <<data, index, now, earlier>>
    BY <1>0, <1>1 DEF Return, At, TypeOK
  <2>2. EvictedOrDue(r)'
    BY <2>1, IdleIsOperation DEF EvictedOrDue
  <2>3. Live' = Live /\ Indexed' = Indexed /\ \A k : Young(k)' <=> Young(k)
    BY <2>1 DEF Live, Indexed, Young
  <2>4. op[r].call = "clear" => Live = {}
    BY <1>0, <2>1 DEF ClearUnderway, IInv, ClearProgress
  <2>5. YoungIndexed(r)'
    BY <1>0, <2>1, <2>3, <2>4 DEF YoungIndexed
  <2>6. PutUnderway(r)' /\ ClearUnderway(r)'
    BY <2>1, IdleIsOperation DEF PutUnderway, ClearUnderway
  <2> QED BY <2>2, <2>5, <2>6, AloneParts
<1>2. CASE Close(r) \/ Reopen(r)
  BY <1>2 DEF Close, Reopen, AloneInv, YoungIndexed, EvictedOrDue, PutUnderway, ClearUnderway,
              Live, Indexed, Young
<1> QED BY <1>1, <1>2 DEF End, Abort

(* What one replica knows of its index, inductive when no command fails.     *)
THEOREM AloneInvariance ==
  ASSUME ~Faults
  PROVE  Spec => [](IInv /\ AloneInv)
<1>1. Init => IInv /\ AloneInv
  <2> SUFFICES ASSUME Init PROVE IInv /\ AloneInv
    OBVIOUS
  <2>1. \A k \in Live : ~data[k].ok
    BY DEF Init, Live
  <2>2. ASSUME NEW r \in Replica
        PROVE  YoungIndexed(r) /\ EvictedOrDue(r) /\ PutUnderway(r) /\ ClearUnderway(r)
    <3>1. op[r].pc = "idle" /\ op[r].call = "none"
      BY IdleIsOperation DEF Init
    <3> QED BY <2>1, <3>1 DEF YoungIndexed, Young, EvictedOrDue, PutUnderway, ClearUnderway
  <2> QED BY <2>2, InitIInv DEF AloneInv
<1>2. ASSUME IInv, IInv', AloneInv, [Next]_vars PROVE AloneInv'
  <2> SUFFICES ASSUME NEW r \in Replica, serving' = {r} PROVE AloneInv'
    BY DEF AloneInv
  <2>1. serving = {r}
    BY <1>2, ServingStays
  <2>2. CASE Tick
    BY <1>2, <2>1, <2>2, AloneTick
  <2>3. CASE Put(r) \/ Prune(r) \/ Get(r) \/ Clear(r) \/ End(r)
    BY <1>2, <2>1, <2>3, AlonePut, AlonePrune, AloneGet, AloneClear, AloneEnd
  <2>4. CASE UNCHANGED vars
    BY <1>2, <2>4 DEF vars, AloneInv, YoungIndexed, EvictedOrDue, PutUnderway, ClearUnderway,
                      Live, Indexed, Young
  <2> QED BY <1>2, <2>1, <2>2, <2>3, <2>4 DEF Next
<1>3. IInv /\ IInv' /\ AloneInv /\ [Next]_vars => AloneInv'
  BY <1>2
<1> QED BY <1>1, <1>3, Invariance, PTL DEF Spec

(* A replica that is alone and meets no failure has, between its operations, *)
(* an index entry for every value younger than max_age: max_rows counts it   *)
(* and can evict it, whatever the operations before were.                    *)
THEOREM YoungAreIndexed ==
  ASSUME ~Faults
  PROVE  Spec => []YoungValuesIndexed
<1>1. AloneInv => YoungValuesIndexed
  BY IdleIsOperation DEF AloneInv, YoungIndexed, YoungValuesIndexed, Young
<1> QED BY <1>1, AloneInvariance, PTL

-----------------------------------------------------------------------------
(* A put evicts other values than its own.                                   *)

LEMMA EvictionParts ==
  ASSUME NEW r \in Replica, serving' = {r}, PutPoints(r)', OwnEntryHighest(r)', OwnValueKept(r)'
  PROVE  EvictionInv'
BY DEF EvictionInv

(* A step by which values disappear only as they expire, index entries only  *)
(* disappear, and the operation is none of put.                              *)
LEMMA NoPutStep ==
  ASSUME TypeOK, TypeOK', EvictionInv, NEW r \in Replica, serving = {r}, serving' = {r},
         now' \in {now, now + 1},
         Indexed' \subseteq Indexed, \A l \in Indexed' : index'[l] = index[l],
         op'[r].call # "put"
  PROVE  EvictionInv'
<1>1. OwnEntryHighest(r)'
  <2>1. \A l \in Indexed' : index[l] < now /\ index[l] \in Nat /\ now \in Nat
    BY DEF EvictionInv, OwnEntryHighest, TypeOK
  <2> QED BY <2>1 DEF OwnEntryHighest
<1>2. PutPoints(r)' /\ OwnValueKept(r)'
  BY DEF PutPoints, OwnValueKept
<1> QED BY <1>1, <1>2, EvictionParts

(* What expires at a tick has been there for max_age.                        *)
LEMMA OwnValueExpires ==
  ASSUME TypeOK, NEW r \in Replica, OwnValueKept(r), op[r].pc # "set", op[r].call = "put",
         op'[r].key = op[r].key, op'[r].at = op[r].at,
         now' = now + 1, data' = Without(data, ExpiredAt(now + 1))
  PROVE  OwnValueKept(r)'
<1> DEFINE k == op[r].key
<1>1. op[r] \in Operation /\ op[r].at \in Nat /\ now \in Nat
  BY DEF TypeOK, Operation
<1>2. Live' = Live \ ExpiredAt(now + 1) /\ \A l \in Live' : l \in Live /\ data'[l] = data[l]
  BY FewerValues
<1>3. CASE MaxAge > 0 /\ op[r].at + MaxAge <= now
  BY <1>1, <1>3, ConstantFacts DEF OwnValueKept
<1>4. CASE k \in Live /\ op[r].at + MaxAge <= data[k].exp
  <2>1. data[k].exp \in Nat
    BY <1>4 DEF TypeOK, Entry
  <2>2. CASE k \in ExpiredAt(now + 1)
    <3>1. MaxAge > 0 /\ data[k].exp <= now + 1
      BY <2>2 DEF ExpiredAt
    <3>2. op[r].at + MaxAge <= now + 1
      BY <1>1, <1>4, <2>1, <3>1, ConstantFacts
    <3> QED BY <3>1, <3>2 DEF OwnValueKept
  <2>3. CASE k \notin ExpiredAt(now + 1)
    BY <1>2, <1>4, <2>3 DEF OwnValueKept
  <2> QED BY <2>2, <2>3
<1> QED BY <1>3, <1>4 DEF OwnValueKept

LEMMA EvictionTick ==
  ASSUME IInv, IInv', EvictionInv, NEW r \in Replica, serving = {r}, serving' = {r}, Tick
  PROVE  EvictionInv'
<1>1. /\ TypeOK /\ TypeOK' /\ now' = now + 1 /\ UNCHANGED <<op, index, Indexed>>
      /\ PutPoints(r) /\ OwnEntryHighest(r) /\ OwnValueKept(r) /\ now \in Nat
      /\ data' = Without(data, ExpiredAt(now + 1)) /\ op[r] \in Operation
  BY DEF IInv, Tick, Indexed, EvictionInv, TypeOK
<1>2. CASE op[r].call # "put"
  BY <1>1, <1>2, NoPutStep
<1>3. CASE op[r].call = "put"
  <2>1. OwnValueKept(r)'
    <3>1. CASE op[r].pc = "set"
      BY <1>1, <3>1 DEF OwnValueKept
    <3> QED BY <1>1, <1>3, <3>1, OwnValueExpires
  <2>2. OwnEntryHighest(r)'
    <3>1. \A l \in Indexed : index[l] < now + 1
      BY <1>1 DEF OwnEntryHighest, TypeOK
    <3>2. op[r].at < now + 1 /\ op[r].at < now
      BY <1>1, <1>3 DEF OwnEntryHighest, Operation
    <3> QED BY <1>1, <3>1, <3>2 DEF OwnEntryHighest, Pruning
  <2> QED BY <1>1, <2>1, <2>2, EvictionParts DEF PutPoints
<1> QED BY <1>2, <1>3

LEMMA EvictionPut ==
  ASSUME IInv, IInv', AloneInv, EvictionInv, ~Faults, Skew = 0,
         NEW r \in Replica, serving = {r}, serving' = {r}, Put(r)
  PROVE  EvictionInv'
<1>0. /\ TypeOK /\ TypeOK' /\ op[r] \in Operation /\ r \in Replica /\ now \in Nat
      /\ PutPoints(r) /\ OwnEntryHighest(r) /\ OwnValueKept(r) /\ PutUnderway(r)
  BY DEF IInv, TypeOK, EvictionInv, AloneInv
<1>1. ASSUME NEW k \in Key, NEW t \in 0..now, BeginPut(r, k, t) PROVE EvictionInv'
  <2> DEFINE o == Started("put", "set", k, t, {})
  <2>1. o.call = "put" /\ o.pc = "set" /\ o.key = k /\ o.at = t
    BY DEF Started
  <2>2. op'[r] = o /\ now' = now + 1 /\ UNCHANGED <<index, Indexed>> /\ t = now
    BY <1>0, <1>1 DEF BeginPut, TypeOK, Indexed
  <2> HIDE DEF o
  <2>3. \A l \in Indexed : index[l] < now /\ index[l] < now + 1
    BY <1>0 DEF OwnEntryHighest, TypeOK
  <2>4. OwnEntryHighest(r)'
    BY <1>0, <2>1, <2>2, <2>3 DEF OwnEntryHighest, Pruning
  <2>5. PutPoints(r)' /\ OwnValueKept(r)'
    BY <2>1, <2>2 DEF PutPoints, OwnValueKept
  <2> QED BY <2>4, <2>5, EvictionParts
<1>2. CASE SetValue(r)
  <2> DEFINE o == [op[r] EXCEPT !.pc = "zadd"]
             v == [at |-> op[r].at, exp |-> now + MaxAge, ok |-> TRUE]
  <2>1. /\ op[r].pc = "set" /\ op[r].call = "put"
        /\ o.call = "put" /\ o.pc = "zadd" /\ o.key = op[r].key /\ o.at = op[r].at
    BY <1>0, <1>2 DEF SetValue, At, PutUnderway, Operation
  <2>2. op'[r] = o
    BY <1>0, <1>2, Exactly DEF SetValue
  <2>3. data' = With(data, op[r].key, v) /\ UNCHANGED <<index, Indexed, now>>
    BY <1>2 DEF SetValue, Indexed
  <2>4. v.exp = now + MaxAge /\ op[r].at < now /\ op[r].at \in Nat
    BY <1>0, <2>1 DEF OwnEntryHighest, Operation
  <2> HIDE DEF o, v
  <2>5. op[r].key \in Live' /\ data'[op[r].key] = v
    BY <2>3 DEF Live, With
  <2>6. op[r].at + MaxAge <= now + MaxAge
    BY <1>0, <2>4, ConstantFacts
  <2>7. OwnValueKept(r)'
    BY <2>1, <2>2, <2>4, <2>5, <2>6 DEF OwnValueKept
  <2>8. OwnEntryHighest(r)' /\ PutPoints(r)'
    BY <1>0, <2>1, <2>2, <2>3 DEF OwnEntryHighest, PutPoints, Pruning
  <2> QED BY <2>7, <2>8, EvictionParts
<1>3. CASE AddToIndex(r)
  <2> DEFINE o == [op[r] EXCEPT !.pc = AgePoint]
  <2>1. /\ op[r].pc = "zadd" /\ op[r].call = "put" /\ op[r].at < now
        /\ o.call = "put" /\ o.pc \in {"byage", "card", "return"} /\ o.at = op[r].at
        /\ o.key = op[r].key
        /\ o.pc = "card" => MaxRows > 0
    BY <1>0, <1>3 DEF AddToIndex, At, PutUnderway, Operation, AgePoint, RowsPoint, OwnEntryHighest
  <2>2. op'[r] = o
    BY <1>0, <1>3, Exactly DEF AddToIndex
  <2>3. index' = With(index, op[r].key, op[r].at) /\ UNCHANGED <<data, now>>
    BY <1>3 DEF AddToIndex
  <2> HIDE DEF o
  <2>4. /\ Indexed' = Indexed \cup {op[r].key} /\ index'[op[r].key] = op[r].at
        /\ \A l \in Indexed \ {op[r].key} : index'[l] = index[l]
    BY <2>3 DEF Indexed, With
  <2>5. OwnEntryHighest(r)'
    BY <1>0, <2>1, <2>2, <2>3, <2>4 DEF OwnEntryHighest, Pruning
  <2>6. OwnValueKept(r)' /\ PutPoints(r)'
    BY <1>0, <2>1, <2>2, <2>3 DEF OwnValueKept, PutPoints, Live
  <2> QED BY <2>5, <2>6, EvictionParts
<1> QED BY <1>1, <1>2, <1>3 DEF Put

(* An operation that is no put stays one.                                    *)
LEMMA OtherCommand ==
  ASSUME TypeOK, ~Faults, NEW r \in Replica, NEW o, Advance(r, o), o.call = op[r].call,
         op[r].call # "put"
  PROVE  op'[r].call # "put"
BY Exactly

LEMMA EvictionPrune ==
  ASSUME IInv, IInv', AloneInv, EvictionInv, ~Faults,
         NEW r \in Replica, serving = {r}, serving' = {r}, Prune(r)
  PROVE  EvictionInv'
<1>0. /\ TypeOK /\ TypeOK' /\ op[r] \in Operation /\ r \in Replica /\ now \in Nat
      /\ PutPoints(r) /\ OwnEntryHighest(r) /\ OwnValueKept(r) /\ PutUnderway(r) /\ EvictedOrDue(r)
  BY DEF IInv, TypeOK, EvictionInv, AloneInv
<1>1. ASSUME NEW call \in {"prune", "stats"}, BeginPrune(r, call) PROVE EvictionInv'
  <2>1. op'[r].call # "put" /\ UNCHANGED <<index, Indexed, now>>
    BY <1>0, <1>1 DEF BeginPrune, TypeOK, Started, Indexed
  <2> QED BY <1>0, <2>1, NoPutStep
<1>2. CASE PruneIndexByAge(r)
  <2> DEFINE o == [op[r] EXCEPT !.pc = IF op[r].call = "stats" THEN "card" ELSE RowsPoint]
             present == IF op[r].call = "put" THEN op[r].at ELSE now
  <2>1. /\ o.call = op[r].call /\ o.pc \in {"card", "return"} /\ op[r].pc = "byage"
        /\ o.at = op[r].at /\ o.key = op[r].key /\ MaxAge > 0
        /\ op[r].call = "put" /\ o.pc = "card" => MaxRows > 0
    BY <1>0, <1>2 DEF PruneIndexByAge, At, Operation, RowsPoint, PutUnderway
  <2>2. op'[r] = o /\ UNCHANGED <<data, now>>
    BY <1>0, <1>2, Exactly DEF PruneIndexByAge
  <2>3. /\ Indexed' = Indexed \ {k \in Indexed : index[k] + MaxAge <= present}
        /\ \A k \in Indexed' : k \in Indexed /\ index'[k] = index[k]
    BY <1>2, FewerEntries DEF PruneIndexByAge
  <2> HIDE DEF o
  <2>4. CASE op[r].call # "put"
    BY <1>0, <2>1, <2>2, <2>3, <2>4, NoPutStep
  <2>5. CASE op[r].call = "put"
    <3>1. /\ op[r].key \in Indexed /\ index[op[r].key] = op[r].at /\ op[r].at \in Nat
      BY <1>0, <2>1, <2>5 DEF OwnEntryHighest, Pruning, Operation
    <3>2. ~(op[r].at + MaxAge <= op[r].at)
      BY <2>1, <3>1, ConstantFacts
    <3>3. op[r].key \in Indexed' /\ index'[op[r].key] = op[r].at
      BY <2>3, <2>5, <3>1, <3>2
    <3>4. OwnEntryHighest(r)'
      BY <1>0, <2>1, <2>2, <2>3, <2>5, <3>3 DEF OwnEntryHighest, Pruning
    <3>5. PutPoints(r)' /\ OwnValueKept(r)'
      BY <1>0, <2>1, <2>2, <2>5 DEF PutPoints, OwnValueKept, Live
    <3> QED BY <3>4, <3>5, EvictionParts
  <2> QED BY <2>4, <2>5
<1>3. CASE CountIndex(r)
  <2> DEFINE n == Overflow(Cardinality(Indexed))
             o == IF op[r].call = "stats" \/ n = 0
                    THEN [op[r] EXCEPT !.pc = "return"]
                    ELSE [op[r] EXCEPT !.pc = "range", !.overflow = n]
  <2>1. UNCHANGED <<data, index, Indexed, now>> /\ op'[r] = o /\ op[r].pc = "card"
    BY <1>0, <1>3, Exactly DEF CountIndex, At, Indexed
  <2>2. n \in Nat /\ (n = 0 \/ MaxRows = 0 \/ n < Cardinality(Indexed))
    BY <1>0, IndexCounted, ConstantFacts DEF Overflow
  <2> HIDE DEF n
  <2>3. /\ o.call = op[r].call /\ o.pc \in {"return", "range"} /\ o.at = op[r].at
        /\ o.key = op[r].key
        /\ o.pc = "range" => o.overflow = n /\ n # 0
    BY <1>0 DEF Operation
  <2> HIDE DEF o
  <2>4. CASE op[r].call # "put"
    BY <1>0, <2>1, <2>3, <2>4, NoPutStep
  <2>5. CASE op[r].call = "put"
    <3>1. n = 0 \/ n < Cardinality(Indexed)
      BY <1>0, <2>1, <2>2, <2>5, ConstantFacts DEF PutPoints
    <3>2. OwnEntryHighest(r)'
      BY <1>0, <2>1, <2>3, <2>5, <3>1 DEF OwnEntryHighest, Pruning
    <3>3. PutPoints(r)' /\ OwnValueKept(r)'
      BY <1>0, <2>1, <2>3, <2>5 DEF PutPoints, OwnValueKept, Live
    <3> QED BY <3>2, <3>3, EvictionParts
  <2> QED BY <2>4, <2>5
<1>4. CASE RangeOfIndex(r)
  <2>1. PICK S \in SUBSET Indexed :
          /\ IsLowest(S, op[r].overflow)
          /\ Advance(r, [op[r] EXCEPT !.pc = AfterRange(S), !.overflow = 0, !.todo = S, !.gone = S])
    BY <1>4 DEF RangeOfIndex
  <2> DEFINE o == [op[r] EXCEPT !.pc = AfterRange(S), !.overflow = 0, !.todo = S, !.gone = S]
  <2>2. UNCHANGED <<data, index, Indexed, now>> /\ op'[r] = o /\ op[r].pc = "range"
    BY <1>0, <1>4, <2>1, Exactly DEF RangeOfIndex, At, Indexed
  <2>3. /\ o.call = op[r].call /\ o.pc \in {"return", "delete"} /\ o.at = op[r].at
        /\ o.key = op[r].key /\ o.todo = S
    BY <1>0 DEF Operation, AfterRange
  <2> HIDE DEF o
  <2>4. CASE op[r].call # "put"
    BY <1>0, <2>2, <2>3, <2>4, NoPutStep
  <2>5. CASE op[r].call = "put"
    <3>1. /\ op[r].key \in Indexed /\ index[op[r].key] = op[r].at
          /\ op[r].overflow < Cardinality(Indexed)
          /\ \A l \in Indexed \ {op[r].key} : index[l] < op[r].at
      BY <1>0, <2>2, <2>5 DEF OwnEntryHighest, Pruning
    <3>2. S # Indexed
      <4>1. Cardinality(S) <= op[r].overflow /\ op[r].overflow \in Nat
        BY <1>0, <2>1 DEF IsLowest, Operation
      <4>2. Cardinality(Indexed) \in Nat
        BY <1>0, IndexCounted
      <4>3. ~(Cardinality(Indexed) <= op[r].overflow)
        BY <3>1, <4>1, <4>2
      <4> QED BY <4>1, <4>3
    <3>3. op[r].key \notin S
      <4> SUFFICES ASSUME op[r].key \in S PROVE FALSE
        OBVIOUS
      <4>1. PICK l \in Indexed : l \notin S
        BY <3>2
      <4>2. op[r].at <= index[l] /\ index[l] < op[r].at
        BY <2>1, <3>1, <4>1 DEF IsLowest
      <4>3. index[l] \in Nat /\ op[r].at \in Nat
        BY <1>0, <4>1 DEF TypeOK, Operation
      <4> QED BY <4>2, <4>3
    <3>4. OwnEntryHighest(r)'
      BY <1>0, <2>2, <2>3, <2>5, <3>3 DEF OwnEntryHighest, Pruning
    <3>5. PutPoints(r)' /\ OwnValueKept(r)'
      BY <1>0, <2>2, <2>3, <2>5 DEF PutPoints, OwnValueKept, Live
    <3> QED BY <3>4, <3>5, EvictionParts
  <2> QED BY <2>4, <2>5
<1>5. CASE DeleteBatch(r)
  <2>1. PICK b \in SUBSET op[r].todo :
          /\ data' = Without(data, b) /\ UNCHANGED now
          /\ index' = IF IndexKey \in b THEN Without(index, Indexed) ELSE index
          /\ Advance(r, [op[r] EXCEPT !.todo = op[r].todo \ b, !.pc = AfterBatch(r, b)])
    BY <1>5 DEF DeleteBatch
  <2> DEFINE o == [op[r] EXCEPT !.todo = op[r].todo \ b, !.pc = AfterBatch(r, b)]
  <2>2. op'[r] = o /\ op[r].pc = "delete"
    BY <1>0, <1>5, <2>1, Exactly DEF DeleteBatch, At
  <2>3. /\ o.call = op[r].call /\ o.todo = op[r].todo \ b /\ o.at = op[r].at
        /\ o.key = op[r].key
        /\ op[r].call = "put" => o.pc \in {"delete", "zrem"}
    BY <1>0 DEF Operation, AfterBatch, DoneDeleting
  <2> HIDE DEF o
  <2>4. Indexed' \subseteq Indexed /\ \A k \in Indexed' : index'[k] = index[k]
    BY <2>1 DEF Indexed, Without
  <2>5. CASE op[r].call # "put"
    BY <1>0, <2>1, <2>2, <2>3, <2>4, <2>5, NoPutStep
  <2>6. CASE op[r].call = "put"
    <3>1. op[r].key \notin op[r].todo
      BY <1>0, <2>2, <2>6 DEF OwnEntryHighest
    <3>2. Live' = Live \ b /\ \A k \in Live' : k \in Live /\ data'[k] = data[k]
      BY <2>1, FewerValues
    <3>3. OwnEntryHighest(r)'
      BY <1>0, <2>1, <2>2, <2>3, <2>4, <2>6, <3>1 DEF OwnEntryHighest
    <3>4. PutPoints(r)'
      BY <2>2, <2>3, <2>6 DEF PutPoints
    <3>5. OwnValueKept(r)'
      BY <1>0, <2>1, <2>2, <2>3, <2>6, <3>1, <3>2 DEF OwnValueKept
    <3> QED BY <3>3, <3>4, <3>5, EvictionParts
  <2> QED BY <2>5, <2>6
<1>6. CASE RemoveIndexEntries(r)
  <2>1. PICK b \in SUBSET op[r].gone :
          /\ index' = Without(index, b)
          /\ Advance(r, [op[r] EXCEPT !.gone = op[r].gone \ b,
                                      !.pc = IF b = op[r].gone THEN "return" ELSE "zrem"])
    BY <1>6 DEF RemoveIndexEntries
  <2> DEFINE o == [op[r] EXCEPT !.gone = op[r].gone \ b,
                                !.pc = IF b = op[r].gone THEN "return" ELSE "zrem"]
  <2>2. /\ op'[r] = o /\ op[r].pc = "zrem" /\ UNCHANGED <<data, now>>
    BY <1>0, <1>6, <2>1, Exactly DEF RemoveIndexEntries, At
  <2>3. /\ o.call = op[r].call /\ o.at = op[r].at /\ o.key = op[r].key
        /\ o.pc \in {"return", "zrem"}
    BY <1>0 DEF Operation
  <2> HIDE DEF o
  <2>4. Indexed' \subseteq Indexed /\ \A k \in Indexed' : index'[k] = index[k]
    BY <2>1 DEF Indexed, Without
  <2>5. CASE op[r].call # "put"
    BY <1>0, <2>2, <2>3, <2>4, <2>5, NoPutStep
  <2>6. CASE op[r].call = "put"
    <3>1. OwnEntryHighest(r)'
      BY <1>0, <2>2, <2>3, <2>4, <2>6 DEF OwnEntryHighest, Pruning
    <3>2. PutPoints(r)' /\ OwnValueKept(r)'
      BY <1>0, <2>2, <2>3, <2>6 DEF PutPoints, OwnValueKept, Live
    <3> QED BY <3>1, <3>2, EvictionParts
  <2> QED BY <2>5, <2>6
<1> QED BY <1>1, <1>2, <1>3, <1>4, <1>5, <1>6 DEF Prune

(* The other operations have no put in progress when they take a step.       *)
LEMMA EvictionOther ==
  ASSUME IInv, IInv', AloneInv, EvictionInv, ~Faults,
         NEW r \in Replica, serving = {r}, serving' = {r},
         Get(r) \/ Clear(r) \/ End(r)
  PROVE  EvictionInv'
<1>0. /\ TypeOK /\ TypeOK' /\ op[r] \in Operation /\ r \in Replica
      /\ PutPoints(r) /\ ClearUnderway(r) /\ PointOK(op[r])
  BY DEF IInv, TypeOK, EvictionInv, AloneInv, PointsOK
<1>1. CASE Close(r) \/ Reopen(r)
  BY <1>1 DEF Close, Reopen, EvictionInv, PutPoints, OwnEntryHighest, OwnValueKept, Pruning,
              Indexed, Live
<1>2. CASE Get(r)
  <2>1. UNCHANGED now /\ Indexed' \subseteq Indexed /\ \A k \in Indexed' : index'[k] = index[k]
    BY <1>2 DEF Get, BeginGet, GetValue, DropIndexEntry, DropCorruptValue, Indexed, Without
  <2>2. op'[r].call # "put"
    <3>1. ASSUME NEW k \in Key, BeginGet(r, k) PROVE op'[r].call # "put"
      BY <1>0, <3>1 DEF BeginGet, TypeOK, Started
    <3>2. CASE GetValue(r) \/ DropIndexEntry(r) \/ DropCorruptValue(r)
      <4>1. op[r].pc \in {"get", "miss", "corrupt"}
        BY <3>2 DEF GetValue, DropIndexEntry, DropCorruptValue, At
      <4>2. PICK p : Advance(r, [op[r] EXCEPT !.pc = p])
        BY <3>2 DEF GetValue, DropIndexEntry, DropCorruptValue
      <4>3. op[r].call # "put" /\ [op[r] EXCEPT !.pc = p].call = op[r].call
        BY <1>0, <4>1 DEF PutPoints, Operation
      <4> QED BY <1>0, <4>2, <4>3, OtherCommand
    <3> QED BY <1>2, <3>1, <3>2 DEF Get
  <2> QED BY <1>0, <2>1, <2>2, NoPutStep
<1>3. CASE Clear(r)
  <2>1. UNCHANGED now /\ Indexed' \subseteq Indexed /\ \A k \in Indexed' : index'[k] = index[k]
    BY <1>3 DEF Clear, BeginClear, ScanKey, DeleteIndex, Indexed, Without
  <2>2. op'[r].call # "put"
    <3>1. CASE BeginClear(r)
      BY <1>0, <3>1 DEF BeginClear, TypeOK, Started
    <3>2. ASSUME NEW k \in Key \cup {IndexKey}, ScanKey(r, k) PROVE op'[r].call # "put"
      <4> DEFINE found == op[r].gone \cup {x \in {k} : Present(x)}
                 left == op[r].todo \ {k}
                 o == IF left # {} THEN [op[r] EXCEPT !.todo = left, !.gone = found]
                      ELSE [op[r] EXCEPT !.todo = found, !.gone = found,
                                         !.pc = IF found = {} THEN "delindex" ELSE "delete"]
      <4>1. Advance(r, o) /\ op[r].pc = "scan"
        BY <3>2 DEF ScanKey, At
      <4>2. op[r].call = "clear"
        BY <1>0, <4>1 DEF PointOK
      <4> HIDE DEF found, left
      <4>3. o.call = op[r].call
        BY <1>0 DEF Operation
      <4> HIDE DEF o
      <4> QED BY <1>0, <4>1, <4>2, <4>3, OtherCommand
    <3>3. CASE DeleteIndex(r)
      <4>1. Advance(r, [op[r] EXCEPT !.pc = "return"]) /\ op[r].call = "clear"
        BY <1>0, <3>3 DEF DeleteIndex, At, ClearUnderway
      <4>2. [op[r] EXCEPT !.pc = "return"].call = op[r].call
        BY <1>0 DEF Operation
      <4> QED BY <1>0, <4>1, <4>2, OtherCommand
    <3> QED BY <1>3, <3>1, <3>2, <3>3 DEF Clear
  <2> QED BY <1>0, <2>1, <2>2, NoPutStep
<1>4. CASE Return(r)
  <2>1. UNCHANGED <<index, Indexed, now>> /\ op'[r].call # "put"
    BY <1>0, <1>4, IdleIsOperation DEF Return, TypeOK, Indexed
  <2> QED BY <1>0, <2>1, NoPutStep
<1> QED BY <1>1, <1>2, <1>3, <1>4 DEF End, Abort

THEOREM EvictionInvariance ==
  ASSUME ~Faults, Skew = 0
  PROVE  Spec => [](IInv /\ AloneInv /\ EvictionInv)
<1>1. Init => EvictionInv
  <2> SUFFICES ASSUME Init, NEW r \in Replica
               PROVE  PutPoints(r) /\ OwnEntryHighest(r) /\ OwnValueKept(r)
    BY DEF EvictionInv
  <2>1. op[r].pc = "idle" /\ op[r].call = "none" /\ Indexed = {}
    BY IdleIsOperation, NoKeysDomain DEF Init, Indexed
  <2> QED BY <2>1 DEF PutPoints, OwnEntryHighest, OwnValueKept
<1>2. ASSUME IInv, IInv', AloneInv, EvictionInv, [Next]_vars PROVE EvictionInv'
  <2> SUFFICES ASSUME NEW r \in Replica, serving' = {r} PROVE EvictionInv'
    BY DEF EvictionInv
  <2>1. serving = {r}
    BY <1>2, ServingStays
  <2>2. CASE Tick
    BY <1>2, <2>1, <2>2, EvictionTick
  <2>3. CASE Put(r) \/ Prune(r) \/ Get(r) \/ Clear(r) \/ End(r)
    BY <1>2, <2>1, <2>3, EvictionPut, EvictionPrune, EvictionOther
  <2>4. CASE UNCHANGED vars
    BY <1>2, <2>4 DEF vars, EvictionInv, PutPoints, OwnEntryHighest, OwnValueKept, Pruning,
                      Live, Indexed
  <2> QED BY <1>2, <2>1, <2>2, <2>3, <2>4 DEF Next
<1>3. IInv /\ IInv' /\ AloneInv /\ EvictionInv /\ [Next]_vars => EvictionInv'
  BY <1>2
<1> QED BY <1>1, <1>3, AloneInvariance, PTL DEF Spec

(* A put of a replica that is alone, meets no failure and has the server's   *)
(* clock leaves its value readable when it returns, or max_age has passed:   *)
(* pruning the index by age and by rows never evicts what it has written.    *)
THEOREM PutSurvives ==
  ASSUME ~Faults, Skew = 0
  PROVE  Spec => []PutSurvivesItsPrune
<1>1. EvictionInv => PutSurvivesItsPrune
  BY DEF EvictionInv, OwnValueKept, PutSurvivesItsPrune, At
<1> QED BY <1>1, EvictionInvariance, PTL
=============================================================================
