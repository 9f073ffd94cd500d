------------------------------ MODULE ValueStore ------------------------------
(***************************************************************************)
(* Interning of values.  Every thread of a search interns values into one  *)
(* store: an append-only slab of entries, an atomic counter that gives out *)
(* its indices, and a table of the known ids, in shards with a lock each.  *)
(* Entries are read without any lock, so what a thread may read depends on *)
(* which writes happened before: sees[t] are the entries whose write is    *)
(* known to t.  The counter is relaxed and orders nothing; a lock passes   *)
(* what its last holder saw to its next holder, and so does the hand-off   *)
(* of work between threads.                                                *)
(*                                                                         *)
(* The data of an entry is a tag and the ids of its children: a value is   *)
(* interned after its children, so a thread asks for data over ids it has. *)
(***************************************************************************)
EXTENDS Integers, Sequences

CONSTANTS
  Threads,
  Nobody,        \* holds a lock that is free
  Tags,          \* the variants and scalars of data
  MaxKids,       \* bound: children of an entry
  Shards,
  ShardOf(_),    \* the shard of a data's hash
  MaxIds         \* bound: ids given out (2^31 - 1 in the code, an assertion)

Ids == 1 .. MaxIds

Nothing == [tag |-> "nothing", kids |-> << >>]

ValueData == [tag : Tags, kids : UNION {[1 .. n -> Ids] : n \in 0 .. MaxKids}]

ASSUME StoreAssumption ==
  /\ MaxIds \in Nat
  /\ MaxKids \in Nat
  /\ "nothing" \notin Tags
  /\ Nobody \notin Threads
  /\ \A d \in ValueData : ShardOf(d) \in Shards

VARIABLES
  pc,         \* per thread: where it is in lookup_or_insert
  data,       \* per thread: the data it interns
  at,         \* per thread: the index it claimed or found
  holds,      \* per thread: the ids it has
  cache,      \* per thread: the ids of its own CACHE
  sees,       \* per thread: the entries whose write happened before
  entries,    \* the slab
  len,        \* ids given out
  table,      \* per shard: the ids inserted
  lock,       \* per shard: who holds its mutex
  released    \* per shard: what its last holder saw

vars == <<pc, data, at, holds, cache, sees, entries, len, table, lock, released>>

Kids(d) == {d.kids[i] : i \in DOMAIN d.kids}

Init ==
  /\ pc = [t \in Threads |-> "idle"]
  /\ data = [t \in Threads |-> Nothing]
  /\ at = [t \in Threads |-> 0]
  /\ holds = [t \in Threads |-> {}]
  /\ cache = [t \in Threads |-> {}]
  /\ sees = [t \in Threads |-> {}]
  /\ entries = [i \in Ids |-> Nothing]
  /\ len = 0
  /\ table = [s \in Shards |-> {}]
  /\ lock = [s \in Shards |-> Nobody]
  /\ released = [s \in Shards |-> {}]

Shard(t) == ShardOf(data[t])

\* The ids of a set whose entry is the data of a thread.
Matching(t, ids) == {i \in ids : entries[i] = data[t]}

(***************************************************************************)
(* A thread interns data whose children it has.                            *)
(***************************************************************************)
Begin(t, d) ==
  /\ pc[t] = "idle"
  /\ Kids(d) \subseteq holds[t]
  /\ data' = [data EXCEPT ![t] = d]
  /\ pc' = [pc EXCEPT ![t] = "lookup"]
  /\ UNCHANGED <<at, holds, cache, sees, entries, len, table, lock, released>>

CacheHit(t) ==
  /\ pc[t] = "lookup"
  /\ \E i \in Matching(t, cache[t]) : holds' = [holds EXCEPT ![t] = @ \cup {i}]
  /\ pc' = [pc EXCEPT ![t] = "idle"]
  /\ UNCHANGED <<data, at, cache, sees, entries, len, table, lock, released>>

(***************************************************************************)
(* Not cached: the shard is locked.                                        *)
(***************************************************************************)
\* Mutant: the table is read without the lock.
LockNothing(t) ==
  /\ pc[t] = "lookup"
  /\ Matching(t, cache[t]) = {}
  /\ lock' = [lock EXCEPT ![Shard(t)] = t]
  /\ pc' = [pc EXCEPT ![t] = "find"]
  /\ UNCHANGED <<data, at, holds, cache, sees, entries, len, table, released>>

Lock(t) ==
  /\ pc[t] = "lookup"
  /\ Matching(t, cache[t]) = {}
  /\ lock[Shard(t)] = Nobody
  /\ lock' = [lock EXCEPT ![Shard(t)] = t]
  /\ sees' = [sees EXCEPT ![t] = @ \cup released[Shard(t)]]
  /\ pc' = [pc EXCEPT ![t] = "find"]
  /\ UNCHANGED <<data, at, holds, cache, entries, len, table, released>>

Found(t) ==
  /\ pc[t] = "find"
  /\ \E i \in Matching(t, table[Shard(t)]) : at' = [at EXCEPT ![t] = i]
  /\ pc' = [pc EXCEPT ![t] = "unlock"]
  /\ UNCHANGED <<data, holds, cache, sees, entries, len, table, lock, released>>

\* Mutant: the table of the shard is not looked at.
ClaimUnchecked(t) ==
  /\ pc[t] = "find"
  /\ len < MaxIds
  /\ len' = len + 1
  /\ at' = [at EXCEPT ![t] = len + 1]
  /\ pc' = [pc EXCEPT ![t] = "write"]
  /\ UNCHANGED <<data, holds, cache, sees, entries, table, lock, released>>

\* fetch_add, then the assertion that ids are left.
Claim(t) ==
  /\ pc[t] = "find"
  /\ Matching(t, table[Shard(t)]) = {}
  /\ len < MaxIds
  /\ len' = len + 1
  /\ at' = [at EXCEPT ![t] = len + 1]
  /\ pc' = [pc EXCEPT ![t] = "write"]
  /\ UNCHANGED <<data, holds, cache, sees, entries, table, lock, released>>

Write(t) ==
  /\ pc[t] = "write"
  /\ entries' = [entries EXCEPT ![at[t]] = data[t]]
  /\ sees' = [sees EXCEPT ![t] = @ \cup {at[t]}]
  /\ pc' = [pc EXCEPT ![t] = "insert"]
  /\ UNCHANGED <<data, at, holds, cache, len, table, lock, released>>

Insert(t) ==
  /\ pc[t] = "insert"
  /\ table' = [table EXCEPT ![Shard(t)] = @ \cup {at[t]}]
  /\ pc' = [pc EXCEPT ![t] = "unlock"]
  /\ UNCHANGED <<data, at, holds, cache, sees, entries, len, lock, released>>

(***************************************************************************)
(* The lock is released, and the id is the thread's.                       *)
(***************************************************************************)
Unlock(t) ==
  /\ pc[t] = "unlock"
  /\ released' = [released EXCEPT ![Shard(t)] = sees[t]]
  /\ lock' = [lock EXCEPT ![Shard(t)] = Nobody]
  /\ cache' = [cache EXCEPT ![t] = @ \cup {at[t]}]
  /\ holds' = [holds EXCEPT ![t] = @ \cup {at[t]}]
  /\ pc' = [pc EXCEPT ![t] = "idle"]
  /\ UNCHANGED <<data, at, sees, entries, len, table>>

(***************************************************************************)
(* Work goes from one thread to another: the end of a level of the search. *)
(***************************************************************************)
HandOff(t, u) ==
  /\ pc[t] = "idle" /\ pc[u] = "idle"
  /\ holds' = [holds EXCEPT ![u] = @ \cup holds[t]]
  /\ sees' = [sees EXCEPT ![u] = @ \cup sees[t]]
  /\ UNCHANGED <<pc, data, at, cache, entries, len, table, lock, released>>

Next ==
  \E t \in Threads :
    \/ \E d \in ValueData : Begin(t, d)
    \/ CacheHit(t) \/ Lock(t) \/ Found(t) \/ Claim(t)
    \/ Write(t) \/ Insert(t) \/ Unlock(t)
    \/ \E u \in Threads : HandOff(t, u)

Spec == Init /\ [][Next]_vars

-----------------------------------------------------------------------------
TypeOK ==
  /\ pc \in [Threads -> {"idle", "lookup", "find", "write", "insert", "unlock"}]
  /\ data \in [Threads -> ValueData \cup {Nothing}]
  /\ at \in [Threads -> 0 .. MaxIds]
  /\ holds \in [Threads -> SUBSET Ids]
  /\ cache \in [Threads -> SUBSET Ids]
  /\ sees \in [Threads -> SUBSET Ids]
  /\ entries \in [Ids -> ValueData \cup {Nothing}]
  /\ len \in 0 .. MaxIds
  /\ table \in [Shards -> SUBSET Ids]
  /\ lock \in [Shards -> Threads \cup {Nobody}]
  /\ released \in [Shards -> SUBSET Ids]

Locked(t) == pc[t] \in {"find", "write", "insert", "unlock"}

\* The ids whose entry a thread may read: its own, and those of a table it locked.
MayRead(t) ==
  holds[t] \cup cache[t] \cup (IF Locked(t) THEN table[Shard(t)] ELSE {})

(***************************************************************************)
(* A value is published before its id: wherever an id has got to, the      *)
(* write of its entry, and those of its children, happened before.         *)
(***************************************************************************)
ReadsSeeWrites ==
  \A t \in Threads : \A i \in MayRead(t) :
    /\ i \in sees[t]
    /\ entries[i] # Nothing
    /\ Kids(entries[i]) \subseteq sees[t]

(***************************************************************************)
(* Hash-consing: two ids that any threads have are equal exactly if their  *)
(* data is, whichever threads interned them.                               *)
(***************************************************************************)
Known == UNION {holds[t] : t \in Threads}

EqualIdsEqualData == \A i, j \in Known : entries[i] = entries[j] => i = j

-----------------------------------------------------------------------------
(***************************************************************************)
(* The inductive invariant (ValueStoreProofs).                             *)
(***************************************************************************)

\* A mutex has one holder, the thread that is between lock and unlock.
LocksAreHeld ==
  \A t \in Threads : Locked(t) => lock[Shard(t)] = t

\* Entries are written at claimed indices, each by the thread that claimed it.
Claiming(t) == pc[t] \in {"write", "insert"}

ClaimsAreOwn ==
  /\ \A t \in Threads : Claiming(t) => at[t] \in 1 .. len
  /\ \A t \in Threads : pc[t] = "write" => entries[at[t]] = Nothing
  /\ \A t \in Threads : pc[t] = "insert" => entries[at[t]] = data[t] /\ at[t] \in sees[t]
  /\ \A t, u \in Threads : Claiming(t) /\ Claiming(u) /\ at[t] = at[u] => t = u
  /\ \A i \in Ids : i > len => entries[i] = Nothing
  /\ \A t \in Threads, s \in Shards : Claiming(t) => at[t] \notin table[s]

\* The table of a shard has the written entries of its hash, each data once.
TableIsRight ==
  \A s \in Shards : \A i \in table[s] :
    /\ i <= len
    /\ entries[i] # Nothing
    /\ ShardOf(entries[i]) = s
    /\ \A j \in table[s] : entries[i] = entries[j] => i = j

\* While a shard is locked, its new data is not in its table yet.
NewDataIsNew ==
  \A t \in Threads : Claiming(t) => Matching(t, table[Shard(t)]) = {}

\* What is done with: an id in a thread's hands is in the table of its shard.
IdsAreInTables ==
  /\ \A t \in Threads : \A i \in holds[t] \cup cache[t] : i \in table[ShardOf(entries[i])]
  /\ \A t \in Threads : pc[t] = "unlock" =>
       at[t] \in table[Shard(t)] /\ entries[at[t]] = data[t]

\* A view is closed: with an entry it has the entries of its children.
ClosedView(v) == \A i \in v : entries[i] # Nothing /\ Kids(entries[i]) \subseteq v

ViewsAreRight ==
  /\ \A t \in Threads : ClosedView(sees[t])
  /\ \A s \in Shards : ClosedView(released[s])
  /\ \A s \in Shards : lock[s] = Nobody => table[s] \subseteq released[s]
  /\ \A t \in Threads : Locked(t) => table[Shard(t)] \subseteq sees[t]
  /\ \A t \in Threads : holds[t] \cup cache[t] \subseteq sees[t]
  /\ \A t \in Threads : pc[t] # "idle" => data[t] \in ValueData /\ Kids(data[t]) \subseteq sees[t]

IInv ==
  /\ TypeOK
  /\ LocksAreHeld
  /\ ClaimsAreOwn
  /\ TableIsRight
  /\ NewDataIsNew
  /\ IdsAreInTables
  /\ ViewsAreRight

=============================================================================
