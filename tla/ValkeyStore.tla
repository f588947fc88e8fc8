---------------------------- MODULE ValkeyStore ----------------------------
(***************************************************************************)
(* The reasoning cache that several bridge replicas share through one      *)
(* Valkey server (valkey_store.py, class ValkeyReasoningStore).            *)
(*                                                                         *)
(* The cache is two structures of the server: the values, one string key   *)
(* per cache key with a time to live, and a sorted set, the index, that    *)
(* scores each key by its creation time and is what max_rows counts.  The  *)
(* server runs each command atomically, but every operation of the store   *)
(* is a sequence of commands: commands of other replicas, expiry, errors   *)
(* and crashes come between any two of them.  An event loop calls its      *)
(* store synchronously, so a replica has one operation in progress.        *)
(***************************************************************************)
EXTENDS Naturals, FiniteSets, PartialFunctions

CONSTANTS
  Replica,    \* the bridge processes there may be, the command line's
              \* --clear included
  Key,        \* cache keys, as the storage keys _storage_key makes of them
  IndexKey,   \* the key of the sorted set itself, which SCAN matches too
  MaxAge,     \* max_age_seconds in clock ticks; 0: no time to live
  MaxRows,    \* max_rows; 0: no bound
  Batch,      \* keys of one DEL or ZREM command (500 in the code)
  Skew,       \* how far behind the server's clock a replica's may run
  Faults,     \* may commands fail and processes die?
  MaxTime     \* bound on the clock

ASSUME KeysAssumption    == IndexKey \notin Key
ASSUME FiniteAssumption  == IsFiniteSet(Key) /\ IsFiniteSet(Replica)
ASSUME NumbersAssumption == /\ {MaxAge, MaxRows, Skew, MaxTime} \subseteq Nat
                            /\ Batch \in Nat \ {0}
                            /\ Faults \in BOOLEAN

VARIABLES
  data,     \* the string keys: a function from the keys that are present
  index,    \* the sorted set: a function from its members to their scores
  now,      \* the server's clock
  op,       \* what each replica's store is doing
  closed,   \* _closed of each replica's store
  earlier,  \* history: the values present when a replica's clear() began
            \* that no SET has written since
  serving   \* the replicas this deployment runs: fixed when it starts

vars == <<data, index, now, op, closed, earlier, serving>>

Live    == DOMAIN data
Indexed == DOMAIN index

(* at: "created_at" of the value; exp: when the server expires it; ok: does  *)
(* the string decode to a payload with a reasoning text?                     *)
Entry == [at : Nat, exp : Nat, ok : BOOLEAN]

Calls == {"put", "get", "clear", "prune", "stats"}
Points == {"set", "zadd", "byage", "card", "range", "delete", "zrem",
           "get", "miss", "corrupt", "scan", "delindex", "return"}

(* An operation in progress: the client command it sends next (pc) and its   *)
(* locals.  todo: keys still to delete or still to scan; gone: keys whose    *)
(* index entry is to be removed (rows) or that SCAN has returned (clear).    *)
Started(c, p, k, t, S) == [call |-> c, pc |-> p, key |-> k, at |-> t,
                           overflow |-> 0, todo |-> S, gone |-> {}]
Idle == Started("none", "idle", IndexKey, 0, {})
Operation == [call : Calls \cup {"none"}, pc : Points \cup {"idle"},
              key : Key \cup {IndexKey}, at : Nat, overflow : Nat,
              todo : SUBSET (Key \cup {IndexKey}),
              gone : SUBSET (Key \cup {IndexKey})]

-----------------------------------------------------------------------------
(* Time: SET with EX expires a value, never its index entry.                 *)

ExpiredAt(t) == {k \in Live : MaxAge > 0 /\ data[k].exp <= t}

Tick ==
  /\ now < MaxTime
  /\ now' = now + 1
  /\ data' = Without(data, ExpiredAt(now + 1))
  /\ UNCHANGED <<index, op, closed, earlier, serving>>

(* The command is sent; its reply may be an exception although the server    *)
(* ran it (the socket's timeout), and an exception ends the operation.       *)
Advance(r, o) ==
  \/ op' = [op EXCEPT ![r] = o]
  \/ Faults /\ op' = [op EXCEPT ![r] = Idle]

At(r, pc) == op[r].pc = pc

(* The command after which the rows are bounded, or the operation returns.   *)
RowsPoint == IF MaxRows > 0 THEN "card" ELSE "return"
AgePoint  == IF MaxAge > 0 THEN "byage" ELSE RowsPoint

-----------------------------------------------------------------------------
(* put(): SET, ZADD, then the index is pruned by age and by rows.            *)

(* The replica reads its clock; two reads never give the same time, so       *)
(* reading it is also a tick.                                                *)
BeginPut(r, k, t) ==
  /\ op[r] = Idle /\ ~closed[r]
  /\ now < MaxTime /\ t <= now /\ now <= t + Skew
  /\ op' = [op EXCEPT ![r] = Started("put", "set", k, t, {})]
  /\ now' = now + 1
  /\ data' = Without(data, ExpiredAt(now + 1))
  /\ UNCHANGED <<index, closed, earlier, serving>>

(* The server replaces a value's time to live when SET replaces the value.   *)
SetValue(r) ==
  /\ At(r, "set")
  /\ data' = With(data, op[r].key,
                  [at |-> op[r].at, exp |-> now + MaxAge, ok |-> TRUE])
  /\ earlier' = [s \in Replica |-> earlier[s] \ {op[r].key}]
  /\ Advance(r, [op[r] EXCEPT !.pc = "zadd"])
  /\ UNCHANGED <<index, now, closed, serving>>

AddToIndex(r) ==
  /\ At(r, "zadd")
  /\ index' = With(index, op[r].key, op[r].at)
  /\ Advance(r, [op[r] EXCEPT !.pc = AgePoint])
  /\ UNCHANGED <<data, now, closed, earlier, serving>>

-----------------------------------------------------------------------------
(* Pruning, a part of put(), prune() and stats().                            *)

BeginPrune(r, call) ==
  /\ call \in {"prune", "stats"}
  /\ op[r] = Idle /\ ~closed[r]
  /\ LET p == IF call = "stats" /\ MaxAge = 0 THEN "card" ELSE AgePoint
     IN  op' = [op EXCEPT ![r] = Started(call, p, IndexKey, 0, {})]
  /\ UNCHANGED <<data, index, now, closed, earlier, serving>>

(* _prune_index_by_age: put() passes its creation time as the present.       *)
PruneIndexByAge(r) ==
  /\ At(r, "byage")
  /\ LET present == IF op[r].call = "put" THEN op[r].at ELSE now
     IN  index' = Without(index, {k \in Indexed : index[k] + MaxAge <= present})
  /\ Advance(r, [op[r] EXCEPT !.pc = IF op[r].call = "stats" THEN "card"
                                                             ELSE RowsPoint])
  /\ UNCHANGED <<data, now, closed, earlier, serving>>

(* _prune_index_by_rows: ZCARD, and if there is an overflow ZRANGE, DEL and  *)
(* ZREM.  stats() only counts.                                               *)
(* Mutants: the test for an overflow is missing, or a put, which has added   *)
(* one row, removes one, whatever other replicas have added meanwhile.       *)
UnguardedOverflow(count) == count - MaxRows
OneRow(count) == IF count > MaxRows THEN 1 ELSE 0

Overflow(count) == IF count > MaxRows THEN count - MaxRows ELSE 0

CountIndex(r) ==
  /\ At(r, "card")
  /\ LET overflow == Overflow(Cardinality(Indexed))
     IN  Advance(r,
           IF op[r].call = "stats" \/ overflow = 0
             THEN [op[r] EXCEPT !.pc = "return"]
             ELSE [op[r] EXCEPT !.pc = "range", !.overflow = overflow])
  /\ UNCHANGED <<data, index, now, closed, earlier, serving>>

(* Mutant: the members with the highest scores. *)
IsHighest(S, n) ==
  /\ S \subseteq Indexed
  /\ Cardinality(S) <= n
  /\ Cardinality(S) < n => S = Indexed
  /\ \A k \in S, l \in Indexed \ S : index[k] >= index[l]

(* The n members with the lowest scores, all of them when there are fewer;   *)
(* which of two equal scores comes first is left open.                       *)
IsLowest(S, n) ==
  /\ S \subseteq Indexed
  /\ Cardinality(S) <= n
  /\ Cardinality(S) < n => S = Indexed
  /\ \A k \in S, l \in Indexed \ S : index[k] <= index[l]

(* Mutant: only the index entries are removed, the values stay. *)
SkipDelete(S) == IF S = {} THEN "return" ELSE "zrem"

AfterRange(S) == IF S = {} THEN "return" ELSE "delete"

RangeOfIndex(r) ==
  /\ At(r, "range")
  /\ \E S \in SUBSET Indexed :
       /\ IsLowest(S, op[r].overflow)
       /\ Advance(r, [op[r] EXCEPT !.pc = AfterRange(S),
                                   !.overflow = 0, !.todo = S, !.gone = S])
  /\ UNCHANGED <<data, index, now, closed, earlier, serving>>

(* _delete_keys and _remove_index_entries send batches, in any order here.   *)
IsBatch(b, S) ==
  /\ b \subseteq S /\ b # {}
  /\ Cardinality(b) <= Batch
  /\ Cardinality(b) < Batch => b = S

DoneDeleting(r) == IF op[r].call # "clear" THEN "zrem"
                   ELSE IF IndexKey \in op[r].gone THEN "return" ELSE "delindex"

(* Mutant: the keys after the first batch are forgotten. *)
FirstBatchOnly(r, b) == DoneDeleting(r)

AfterBatch(r, b) == IF b # op[r].todo THEN "delete" ELSE DoneDeleting(r)

DeleteBatch(r) ==
  /\ At(r, "delete")
  /\ \E b \in SUBSET op[r].todo :
       /\ IsBatch(b, op[r].todo)
       /\ data' = Without(data, b)
       /\ index' = IF IndexKey \in b THEN Without(index, Indexed) ELSE index
       /\ Advance(r, [op[r] EXCEPT !.todo = @ \ b,
                                   !.pc = AfterBatch(r, b)])
  /\ UNCHANGED <<now, closed, earlier, serving>>

RemoveIndexEntries(r) ==
  /\ At(r, "zrem")
  /\ \E b \in SUBSET op[r].gone :
       /\ IsBatch(b, op[r].gone)
       /\ index' = Without(index, b)
       /\ Advance(r, [op[r] EXCEPT !.gone = @ \ b,
                                   !.pc = IF b = op[r].gone THEN "return"
                                                            ELSE "zrem"])
  /\ UNCHANGED <<data, now, closed, earlier, serving>>

-----------------------------------------------------------------------------
(* get(): a missing value also loses its index entry, a value that does not  *)
(* decode is deleted.                                                        *)

BeginGet(r, k) ==
  /\ op[r] = Idle /\ ~closed[r]
  /\ op' = [op EXCEPT ![r] = Started("get", "get", k, 0, {})]
  /\ UNCHANGED <<data, index, now, closed, earlier, serving>>

GetValue(r) ==
  /\ At(r, "get")
  /\ LET k == op[r].key
     IN  Advance(r, [op[r] EXCEPT !.pc = IF k \notin Live THEN "miss"
                                         ELSE IF data[k].ok THEN "return"
                                         ELSE "corrupt"])
  /\ UNCHANGED <<data, index, now, closed, earlier, serving>>

DropIndexEntry(r) ==
  /\ At(r, "miss")
  /\ index' = Without(index, {op[r].key})
  /\ Advance(r, [op[r] EXCEPT !.pc = "return"])
  /\ UNCHANGED <<data, now, closed, earlier, serving>>

DropCorruptValue(r) ==
  /\ At(r, "corrupt")
  /\ data' = Without(data, {op[r].key})
  /\ Advance(r, [op[r] EXCEPT !.pc = "miss"])
  /\ UNCHANGED <<index, now, closed, earlier, serving>>

-----------------------------------------------------------------------------
(* clear(): SCAN visits every key once, at a moment of its own, and returns  *)
(* those it finds; the index is one of the keys it matches.                  *)

BeginClear(r) ==
  /\ op[r] = Idle /\ ~closed[r]
  /\ op' = [op EXCEPT ![r] = Started("clear", "scan", IndexKey, 0,
                                       Key \cup {IndexKey})]
  /\ earlier' = [earlier EXCEPT ![r] = Live]
  /\ UNCHANGED <<data, index, now, closed, serving>>

Present(k) == IF k = IndexKey THEN Indexed # {} ELSE k \in Live

ScanKey(r, k) ==
  /\ At(r, "scan") /\ k \in op[r].todo
  /\ LET found == op[r].gone \cup {x \in {k} : Present(x)}
         left  == op[r].todo \ {k}
     IN  Advance(r,
           IF left # {} THEN [op[r] EXCEPT !.todo = left, !.gone = found]
           ELSE [op[r] EXCEPT !.todo = found, !.gone = found,
                              !.pc = IF found = {} THEN "delindex" ELSE "delete"])
  /\ UNCHANGED <<data, index, now, closed, earlier, serving>>

DeleteIndex(r) ==
  /\ At(r, "delindex")
  /\ index' = Without(index, Indexed)
  /\ Advance(r, [op[r] EXCEPT !.pc = "return"])
  /\ UNCHANGED <<data, now, closed, earlier, serving>>

-----------------------------------------------------------------------------
(* Returning, failing, closing.                                              *)

Return(r) ==
  /\ At(r, "return")
  /\ op' = [op EXCEPT ![r] = Idle]
  /\ UNCHANGED <<data, index, now, closed, earlier, serving>>

(* The command never reaches the server and raises, or the process dies: in  *)
(* both cases the rest of the operation does not happen.                     *)
Abort(r) ==
  /\ Faults /\ op[r] # Idle /\ ~At(r, "return")
  /\ op' = [op EXCEPT ![r] = Idle]
  /\ UNCHANGED <<data, index, now, closed, earlier, serving>>

(* close() takes no lock: an operation in progress goes on.                  *)
Close(r) ==
  /\ ~closed[r]
  /\ closed' = [closed EXCEPT ![r] = TRUE]
  /\ UNCHANGED <<data, index, now, op, earlier, serving>>

(* A new process opens its own store on the same server.                     *)
Reopen(r) ==
  /\ closed[r] /\ op[r] = Idle
  /\ closed' = [closed EXCEPT ![r] = FALSE]
  /\ UNCHANGED <<data, index, now, op, earlier, serving>>

(* The server may already hold strings under the prefix that do not decode.  *)
Init ==
  /\ now = 0
  /\ \E K \in SUBSET Key :
       data = [k \in K |-> [at |-> 0, exp |-> MaxAge, ok |-> FALSE]]
  /\ index = NoKeys
  /\ op = [r \in Replica |-> Idle]
  /\ closed = [r \in Replica |-> FALSE]
  /\ earlier = [r \in Replica |-> {}]
  /\ serving \in SUBSET Replica \ {{}}

Put(r)   == (\E k \in Key, t \in 0..now : BeginPut(r, k, t))
            \/ SetValue(r) \/ AddToIndex(r)
Prune(r) == (\E call \in {"prune", "stats"} : BeginPrune(r, call))
            \/ PruneIndexByAge(r) \/ CountIndex(r) \/ RangeOfIndex(r)
            \/ DeleteBatch(r) \/ RemoveIndexEntries(r)
Get(r)   == (\E k \in Key : BeginGet(r, k))
            \/ GetValue(r) \/ DropIndexEntry(r) \/ DropCorruptValue(r)
Clear(r) == BeginClear(r) \/ (\E k \in Key \cup {IndexKey} : ScanKey(r, k))
            \/ DeleteIndex(r)
End(r)   == Return(r) \/ Abort(r) \/ Close(r) \/ Reopen(r)

Next == Tick \/ \E r \in serving : Put(r) \/ Prune(r) \/ Get(r) \/ Clear(r) \/ End(r)

Spec == Init /\ [][Next]_vars

-----------------------------------------------------------------------------
(* The types of the two server structures and of the operations' locals.     *)
TypeOK ==
  /\ Live \subseteq Key /\ data \in [Live -> Entry]
  /\ Indexed \subseteq Key /\ index \in [Indexed -> Nat]
  /\ now \in Nat
  /\ op \in [Replica -> Operation]
  /\ closed \in [Replica -> BOOLEAN]
  /\ earlier \in [Replica -> SUBSET Key]
  /\ serving \subseteq Replica

(* When clear() returns, no value it was called to forget is left: whatever  *)
(* other replicas wrote, read, pruned or lost between its commands, every    *)
(* value still present was SET after the call began.                         *)
ClearForgets ==
  \A r \in Replica :
    At(r, "return") /\ op[r].call = "clear" => earlier[r] \cap Live = {}

(* The puts that have added their key to the index and not yet pruned it.    *)
Pruning(r) == op[r].call = "put" /\ op[r].pc \in {"byage", "card", "range", "delete", "zrem"}

(* Without faults the index exceeds max_rows by at most the number of puts   *)
(* that still owe their prune, although ZCARD, ZRANGE and ZREM of several    *)
(* replicas interleave and each works on a count that may be out of date.    *)
IndexBounded ==
  MaxRows > 0 /\ ~Faults =>
    Cardinality(Indexed) <= MaxRows + Cardinality({r \in Replica : Pruning(r)})

(* One replica, no fault: between operations each value younger than         *)
(* max_age has its index entry, so max_rows counts and can evict it.         *)
YoungValuesIndexed ==
  \A r \in Replica :
    serving = {r} /\ op[r] = Idle =>
      \A k \in Live :
        data[k].ok /\ (MaxAge > 0 => now < data[k].at + MaxAge) => k \in Indexed

(* One replica, no fault: a put that returns leaves its value readable, its  *)
(* own prune never evicts what it has just written.                          *)
PutSurvivesItsPrune ==
  \A r \in Replica :
    serving = {r} /\ At(r, "return") /\ op[r].call = "put" =>
      \/ op[r].key \in Live
      \/ MaxAge > 0 /\ op[r].at + MaxAge <= now
=============================================================================
