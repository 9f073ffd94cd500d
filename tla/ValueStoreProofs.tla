--------------------------- MODULE ValueStoreProofs ---------------------------
(***************************************************************************)
(* The publication protocol of the value store, for any threads, data and  *)
(* shards.  The invariant follows an id on its way: claimed by one thread, *)
(* written, inserted under the lock of its shard, and only then in any     *)
(* thread's hands; a view that has an entry has the entries of its         *)
(* children, and locks and hand-offs pass whole views.  The memo of map    *)
(* updates, which sits on top of the store, follows.                       *)
(***************************************************************************)
EXTENDS ValueStore, UpdateMemo, TLAPS

LEMMA DataIsSomething == \A d \in ValueData : d # Nothing
  BY StoreAssumption DEF ValueData, Nothing

LEMMA KidsAreIds == \A d \in ValueData : Kids(d) \subseteq Ids
<1> SUFFICES ASSUME NEW d \in ValueData, NEW i \in DOMAIN d.kids PROVE d.kids[i] \in Ids
  BY DEF Kids
<1>1. PICK n \in 0 .. MaxKids : d.kids \in [1 .. n -> Ids]
  BY DEF ValueData
<1> QED
  BY <1>1

LEMMA ShardsOfData == \A d \in ValueData : ShardOf(d) \in Shards
  BY StoreAssumption

\* A thread that interns has data, and no lock is nobody's and its.
LEMMA WorkingThread ==
  ASSUME IInv, NEW t \in Threads, pc[t] # "idle"
  PROVE  /\ data[t] \in ValueData
         /\ Shard(t) \in Shards
         /\ Kids(data[t]) \subseteq sees[t]
  BY ShardsOfData DEF IInv, ViewsAreRight, Shard

\* Two threads do not hold one lock.
LEMMA MutualExclusion ==
  ASSUME IInv, NEW t \in Threads, NEW u \in Threads, Locked(t), Locked(u), Shard(t) = Shard(u)
  PROVE  t = u
  BY DEF IInv, LocksAreHeld

LEMMA NobodyIsNoThread == Nobody \notin Threads
  BY StoreAssumption

LEMMA InitEstablishes == Init => IInv
<1> SUFFICES ASSUME Init PROVE IInv
  OBVIOUS
<1> USE DEF Init
<1>1. TypeOK
  BY StoreAssumption DEF TypeOK, Ids
<1>2. LocksAreHeld /\ NewDataIsNew
  BY DEF LocksAreHeld, Locked, NewDataIsNew, Claiming
<1>3. ClaimsAreOwn
  BY DEF ClaimsAreOwn, Claiming, Ids
<1>4. TableIsRight /\ IdsAreInTables
  BY DEF TableIsRight, IdsAreInTables
<1>5. ViewsAreRight
  BY DEF ViewsAreRight, ClosedView, Locked
<1> QED
  BY <1>1, <1>2, <1>3, <1>4, <1>5 DEF IInv

-----------------------------------------------------------------------------
LEMMA BeginPreserves ==
  ASSUME IInv, NEW t \in Threads, NEW d \in ValueData, Begin(t, d)
  PROVE  IInv'
<1> USE DEF Begin
<1>1. TypeOK'
  BY DEF IInv, TypeOK
<1>2. \A u \in Threads : u # t => pc'[u] = pc[u] /\ data'[u] = data[u]
  BY DEF IInv, TypeOK
<1>3. pc'[t] = "lookup" /\ data'[t] = d
  BY DEF IInv, TypeOK
<1>4. LocksAreHeld'
  BY <1>2, <1>3 DEF IInv, LocksAreHeld, Locked, Shard
<1>5. ClaimsAreOwn'
  BY <1>2, <1>3 DEF IInv, ClaimsAreOwn, Claiming
<1>6. TableIsRight'
  BY DEF IInv, TableIsRight
<1>7. NewDataIsNew'
  BY <1>2, <1>3 DEF IInv, NewDataIsNew, Claiming, Matching, Shard
<1>8. IdsAreInTables'
  BY <1>2, <1>3 DEF IInv, IdsAreInTables, Shard
<1>9. ViewsAreRight'
  BY <1>2, <1>3 DEF IInv, ViewsAreRight, ClosedView, Locked, Shard
<1> QED
  BY <1>1, <1>4, <1>5, <1>6, <1>7, <1>8, <1>9 DEF IInv

LEMMA CacheHitPreserves ==
  ASSUME IInv, NEW t \in Threads, CacheHit(t)
  PROVE  IInv'
<1> USE DEF CacheHit
<1>0. PICK i \in cache[t] : holds' = [holds EXCEPT ![t] = @ \cup {i}]
  BY DEF Matching
<1>1. TypeOK'
  BY <1>0 DEF IInv, TypeOK
<1>2. \A u \in Threads : u # t => pc'[u] = pc[u] /\ holds'[u] = holds[u]
  BY <1>0 DEF IInv, TypeOK
<1>3. pc'[t] = "idle" /\ holds'[t] = holds[t] \cup {i}
  BY <1>0 DEF IInv, TypeOK
<1>4. LocksAreHeld'
  BY <1>2, <1>3 DEF IInv, LocksAreHeld, Locked, Shard
<1>5. ClaimsAreOwn'
  BY <1>2, <1>3 DEF IInv, ClaimsAreOwn, Claiming
<1>6. TableIsRight'
  BY DEF IInv, TableIsRight
<1>7. NewDataIsNew'
  BY <1>2, <1>3 DEF IInv, NewDataIsNew, Claiming, Matching, Shard
<1>8. IdsAreInTables'
  BY <1>2, <1>3 DEF IInv, IdsAreInTables, Shard
<1>9. ViewsAreRight'
  BY <1>2, <1>3 DEF IInv, ViewsAreRight, ClosedView, Locked, Shard
<1> QED
  BY <1>1, <1>4, <1>5, <1>6, <1>7, <1>8, <1>9 DEF IInv

LEMMA LockPreserves ==
  ASSUME IInv, NEW t \in Threads, Lock(t)
  PROVE  IInv'
<1> USE DEF Lock
<1>0. Shard(t) \in Shards
  BY WorkingThread
<1>1. TypeOK'
  BY <1>0 DEF IInv, TypeOK
<1>2. \A u \in Threads : u # t => pc'[u] = pc[u] /\ sees'[u] = sees[u]
  BY DEF IInv, TypeOK
<1>3. pc'[t] = "find" /\ sees'[t] = sees[t] \cup released[Shard(t)]
  BY DEF IInv, TypeOK
<1>4. /\ lock'[Shard(t)] = t
      /\ \A s \in Shards : s # Shard(t) => lock'[s] = lock[s]
  BY <1>0 DEF IInv, TypeOK
<1>5. \A u \in Threads : u # t /\ Locked(u) => Shard(u) # Shard(t) /\ Shard(u) \in Shards
  BY NobodyIsNoThread, WorkingThread DEF IInv, LocksAreHeld, Locked
<1>6. LocksAreHeld'
  <2> SUFFICES ASSUME NEW u \in Threads, Locked(u)' PROVE lock'[Shard(u)] = u
    BY DEF LocksAreHeld, Shard
  <2>1. CASE u = t
    BY <2>1, <1>4
  <2>2. CASE u # t
    BY <2>2, <1>2, <1>4, <1>5 DEF IInv, LocksAreHeld, Locked
  <2> QED
    BY <2>1, <2>2
<1>7. ClaimsAreOwn'
  BY <1>2, <1>3 DEF IInv, ClaimsAreOwn, Claiming
<1>8. TableIsRight'
  BY DEF IInv, TableIsRight
<1>9. NewDataIsNew'
  BY <1>2, <1>3 DEF IInv, NewDataIsNew, Claiming, Matching, Shard
<1>10. IdsAreInTables'
  BY <1>2, <1>3 DEF IInv, IdsAreInTables, Shard
<1>11. table[Shard(t)] \subseteq released[Shard(t)] /\ ClosedView(released[Shard(t)])
  BY <1>0 DEF IInv, ViewsAreRight
<1>12. ViewsAreRight'
  <2>1. ASSUME NEW u \in Threads
        PROVE  /\ ClosedView(sees[u])'
               /\ (Locked(u) => table[Shard(u)] \subseteq sees[u])'
               /\ (holds[u] \cup cache[u] \subseteq sees[u])'
               /\ (pc[u] # "idle" => data[u] \in ValueData /\ Kids(data[u]) \subseteq sees[u])'
    <3>1. CASE u = t
      BY <3>1, <1>3, <1>11 DEF IInv, ViewsAreRight, ClosedView, Shard
    <3>2. CASE u # t
      BY <3>2, <1>2 DEF IInv, ViewsAreRight, ClosedView, Locked, Shard
    <3> QED
      BY <3>1, <3>2
  <2>2. ASSUME NEW s \in Shards
        PROVE  ClosedView(released[s])' /\ (lock[s] = Nobody => table[s] \subseteq released[s])'
    BY <1>4, NobodyIsNoThread DEF IInv, ViewsAreRight, ClosedView
  <2> QED
    BY <2>1, <2>2 DEF ViewsAreRight
<1> QED
  BY <1>1, <1>6, <1>7, <1>8, <1>9, <1>10, <1>12 DEF IInv

LEMMA FoundPreserves ==
  ASSUME IInv, NEW t \in Threads, Found(t)
  PROVE  IInv'
<1> USE DEF Found
<1>0. PICK i \in table[Shard(t)] : entries[i] = data[t] /\ at' = [at EXCEPT ![t] = i]
  BY DEF Matching
<1>a. Shard(t) \in Shards
  BY WorkingThread
<1>1. TypeOK'
  <2>1. i \in 0 .. MaxIds
    BY <1>0, <1>a, StoreAssumption DEF IInv, TypeOK, Ids
  <2> QED
    BY <1>0, <2>1 DEF IInv, TypeOK
<1>2. \A u \in Threads : u # t => pc'[u] = pc[u] /\ at'[u] = at[u]
  BY <1>0 DEF IInv, TypeOK
<1>3. pc'[t] = "unlock" /\ at'[t] = i
  BY <1>0 DEF IInv, TypeOK
<1>4. LocksAreHeld'
  BY <1>2, <1>3 DEF IInv, LocksAreHeld, Locked, Shard
<1>5. ClaimsAreOwn'
  BY <1>2, <1>3 DEF IInv, ClaimsAreOwn, Claiming
<1>6. TableIsRight'
  BY DEF IInv, TableIsRight
<1>7. NewDataIsNew'
  BY <1>2, <1>3 DEF IInv, NewDataIsNew, Claiming, Matching, Shard
<1>8. IdsAreInTables'
  BY <1>0, <1>2, <1>3 DEF IInv, IdsAreInTables, Shard
<1>9. ViewsAreRight'
  BY <1>2, <1>3 DEF IInv, ViewsAreRight, ClosedView, Locked, Shard
<1> QED
  BY <1>1, <1>4, <1>5, <1>6, <1>7, <1>8, <1>9 DEF IInv

LEMMA ClaimPreserves ==
  ASSUME IInv, NEW t \in Threads, Claim(t)
  PROVE  IInv'
<1> USE DEF Claim
<1>a. len \in Nat /\ MaxIds \in Nat /\ len + 1 \in Ids
  BY StoreAssumption DEF IInv, TypeOK, Ids
<1>1. TypeOK'
  BY <1>a DEF IInv, TypeOK
<1>2. \A u \in Threads : u # t => pc'[u] = pc[u] /\ at'[u] = at[u]
  BY DEF IInv, TypeOK
<1>3. pc'[t] = "write" /\ at'[t] = len + 1 /\ len' = len + 1
  BY DEF IInv, TypeOK
<1>4. LocksAreHeld'
  BY <1>2, <1>3 DEF IInv, LocksAreHeld, Locked, Shard
<1>5. ClaimsAreOwn'
  <2>1. \A u \in Threads : Claiming(u)' => at'[u] \in 1 .. len'
    BY <1>a, <1>2, <1>3 DEF IInv, ClaimsAreOwn, Claiming
  <2>2. \A u \in Threads : pc'[u] = "write" => entries'[at'[u]] = Nothing
    BY <1>a, <1>2, <1>3 DEF IInv, ClaimsAreOwn
  <2>3. \A u \in Threads : pc'[u] = "insert" => entries'[at'[u]] = data'[u] /\ at'[u] \in sees'[u]
    BY <1>2, <1>3 DEF IInv, ClaimsAreOwn
  <2>4. \A u \in Threads : u # t /\ Claiming(u)' => at'[u] # len + 1
    BY <1>a, <1>2 DEF IInv, ClaimsAreOwn, Claiming
  <2>5. \A u, w \in Threads : Claiming(u)' /\ Claiming(w)' /\ at'[u] = at'[w] => u = w
    BY <1>2, <1>3, <2>4 DEF IInv, ClaimsAreOwn, Claiming
  <2>6. \A i \in Ids : i > len' => entries'[i] = Nothing
    BY <1>a, <1>3 DEF IInv, ClaimsAreOwn, Ids
  <2>7. \A s \in Shards : len + 1 \notin table[s]
    BY <1>a DEF IInv, TableIsRight
  <2>8. \A u \in Threads, s \in Shards : Claiming(u)' => at'[u] \notin table'[s]
    BY <1>2, <1>3, <2>7 DEF IInv, ClaimsAreOwn, Claiming
  <2> QED
    BY <2>1, <2>2, <2>3, <2>5, <2>6, <2>8 DEF ClaimsAreOwn, Claiming
<1>6. TableIsRight'
  <2>1. \A s \in Shards : \A i \in table[s] : i \in Ids
    BY DEF IInv, TypeOK
  <2> QED
    BY <1>a, <1>3, <2>1 DEF IInv, TableIsRight, Ids
<1>7. NewDataIsNew'
  BY <1>2, <1>3 DEF IInv, NewDataIsNew, Claiming, Matching, Shard
<1>8. IdsAreInTables'
  BY <1>2, <1>3 DEF IInv, IdsAreInTables, Shard
<1>9. ViewsAreRight'
  BY <1>2, <1>3 DEF IInv, ViewsAreRight, ClosedView, Locked, Shard
<1> QED
  BY <1>1, <1>4, <1>5, <1>6, <1>7, <1>8, <1>9 DEF IInv

LEMMA WritePreserves ==
  ASSUME IInv, NEW t \in Threads, Write(t)
  PROVE  IInv'
<1> USE DEF Write
<1>a. data[t] \in ValueData /\ data[t] # Nothing /\ Kids(data[t]) \subseteq sees[t] /\ Shard(t) \in Shards
  BY WorkingThread, DataIsSomething
<1>b. at[t] \in Ids /\ entries[at[t]] = Nothing /\ at[t] <= len
  BY StoreAssumption DEF IInv, TypeOK, ClaimsAreOwn, Claiming, Ids
<1>1. TypeOK'
  BY <1>a, <1>b DEF IInv, TypeOK
<1>2. \A u \in Threads : u # t => pc'[u] = pc[u] /\ sees'[u] = sees[u]
  BY DEF IInv, TypeOK
<1>3. pc'[t] = "insert" /\ sees'[t] = sees[t] \cup {at[t]}
  BY DEF IInv, TypeOK
<1>c. entries'[at[t]] = data[t] /\ \A i \in Ids : i # at[t] => entries'[i] = entries[i]
  BY <1>b DEF IInv, TypeOK
<1>d. \A s \in Shards : table[s] \subseteq Ids \ {at[t]}
  BY DEF IInv, TypeOK, ClaimsAreOwn, Claiming
<1>4. LocksAreHeld'
  BY <1>2, <1>3 DEF IInv, LocksAreHeld, Locked, Shard
<1>5. ClaimsAreOwn'
  <2>1. \A u \in Threads : Claiming(u)' => Claiming(u)
    BY <1>2, <1>3 DEF Claiming
  <2>2. \A u \in Threads : u # t /\ Claiming(u) => at[u] # at[t] /\ at[u] \in Ids
    BY StoreAssumption DEF IInv, TypeOK, ClaimsAreOwn, Claiming, Ids
  <2>3. \A u \in Threads : pc'[u] = "write" => entries'[at[u]] = Nothing
    BY <1>2, <1>3, <1>c, <2>2 DEF IInv, ClaimsAreOwn, Claiming
  <2>4. \A u \in Threads : pc'[u] = "insert" => entries'[at[u]] = data[u] /\ at[u] \in sees'[u]
    BY <1>2, <1>3, <1>c, <2>2 DEF IInv, ClaimsAreOwn, Claiming
  <2>5. \A i \in Ids : i > len => entries'[i] = Nothing
    BY <1>b, <1>c DEF IInv, TypeOK, ClaimsAreOwn, Ids
  <2> QED
    BY <2>1, <2>3, <2>4, <2>5 DEF IInv, ClaimsAreOwn, Claiming
<1>6. TableIsRight'
  BY <1>c, <1>d DEF IInv, TableIsRight
<1>7. NewDataIsNew'
  <2> SUFFICES ASSUME NEW u \in Threads, Claiming(u)'
               PROVE  {i \in table[Shard(u)] : entries'[i] = data[u]} = {}
    BY DEF NewDataIsNew, Matching, Shard
  <2>1. Claiming(u) /\ Shard(u) \in Shards
    BY <1>2, <1>3, WorkingThread DEF Claiming
  <2> QED
    BY <2>1, <1>c, <1>d DEF IInv, NewDataIsNew, Matching
<1>8. IdsAreInTables'
  <2>1. \A u \in Threads : \A i \in holds[u] \cup cache[u] :
          i # at[t] /\ i \in Ids
    <3> SUFFICES ASSUME NEW u \in Threads, NEW i \in holds[u] \cup cache[u]
                 PROVE  i # at[t] /\ i \in Ids
      OBVIOUS
    <3>1. entries[i] # Nothing /\ i \in Ids
      BY DEF IInv, TypeOK, ViewsAreRight, ClosedView
    <3> QED
      BY <1>b, <3>1
  <2>2. \A u \in Threads : pc'[u] = "unlock" => pc[u] = "unlock" /\ Shard(u) \in Shards
    BY <1>2, <1>3, WorkingThread
  <2> QED
    BY <1>c, <1>d, <2>1, <2>2 DEF IInv, IdsAreInTables, Shard
<1>9. ViewsAreRight'
  <2>1. ASSUME NEW v \in SUBSET Ids, ClosedView(v)
        PROVE  \A i \in v : entries'[i] # Nothing /\ Kids(entries'[i]) \subseteq v
    <3> SUFFICES ASSUME NEW i \in v PROVE entries'[i] # Nothing /\ Kids(entries'[i]) \subseteq v
      OBVIOUS
    <3>1. entries'[i] = entries[i]
      BY <2>1, <1>b, <1>c DEF ClosedView
    <3> QED
      BY <2>1, <3>1 DEF ClosedView
  <2>2. ClosedView(sees[t] \cup {at[t]})'
    <3>1. ClosedView(sees[t]) /\ sees[t] \in SUBSET Ids
      BY DEF IInv, TypeOK, ViewsAreRight
    <3>2. \A i \in sees[t] : entries'[i] = entries[i]
      BY <3>1, <1>b, <1>c DEF ClosedView
    <3> QED
      BY <3>1, <3>2, <1>a, <1>c DEF ClosedView, Kids
  <2>3. ASSUME NEW u \in Threads
        PROVE  /\ ClosedView(sees[u])'
               /\ (Locked(u) => table[Shard(u)] \subseteq sees[u])'
               /\ (holds[u] \cup cache[u] \subseteq sees[u])'
               /\ (pc[u] # "idle" => data[u] \in ValueData /\ Kids(data[u]) \subseteq sees[u])'
    <3>1. sees[u] \subseteq sees'[u]
      BY <1>2, <1>3
    <3>2. ClosedView(sees[u])'
      <4>1. CASE u = t
        BY <4>1, <2>2, <1>3 DEF ClosedView, Kids
      <4>2. CASE u # t
        <5>1. ClosedView(sees[u]) /\ sees[u] \in SUBSET Ids
          BY DEF IInv, TypeOK, ViewsAreRight
        <5>2. \A i \in sees[u] : entries'[i] # Nothing /\ Kids(entries'[i]) \subseteq sees[u]
          BY <5>1, <2>1
        <5> QED
          BY <4>2, <5>2, <1>2 DEF ClosedView, Kids
      <4> QED
        BY <4>1, <4>2
    <3>3. Locked(u)' => Locked(u)
      BY <1>2, <1>3 DEF Locked
    <3> QED
      BY <3>1, <3>2, <3>3, <1>2 DEF IInv, ViewsAreRight, Shard, Kids
  <2>4. ASSUME NEW s \in Shards
        PROVE  ClosedView(released[s])' /\ (lock[s] = Nobody => table[s] \subseteq released[s])'
    <3>1. ClosedView(released[s]) /\ released[s] \in SUBSET Ids
      BY DEF IInv, TypeOK, ViewsAreRight
    <3>2. \A i \in released[s] : entries'[i] # Nothing /\ Kids(entries'[i]) \subseteq released[s]
      BY <3>1, <2>1
    <3> QED
      BY <3>2 DEF IInv, ViewsAreRight, ClosedView, Kids
  <2> QED
    BY <2>3, <2>4 DEF ViewsAreRight
<1> QED
  BY <1>1, <1>4, <1>5, <1>6, <1>7, <1>8, <1>9 DEF IInv

LEMMA InsertPreserves ==
  ASSUME IInv, NEW t \in Threads, Insert(t)
  PROVE  IInv'
<1> USE DEF Insert
<1>a. data[t] \in ValueData /\ data[t] # Nothing /\ Shard(t) \in Shards
  BY WorkingThread, DataIsSomething
<1>b. /\ at[t] \in Ids /\ at[t] <= len
      /\ entries[at[t]] = data[t] /\ at[t] \in sees[t]
  BY StoreAssumption DEF IInv, TypeOK, ClaimsAreOwn, Claiming, Ids
<1>1. TypeOK'
  BY <1>a, <1>b DEF IInv, TypeOK
<1>2. \A u \in Threads : u # t => pc'[u] = pc[u]
  BY DEF IInv, TypeOK
<1>3. pc'[t] = "unlock"
  BY DEF IInv, TypeOK
<1>c. /\ table'[Shard(t)] = table[Shard(t)] \cup {at[t]}
      /\ \A s \in Shards : s # Shard(t) => table'[s] = table[s]
  BY <1>a DEF IInv, TypeOK
<1>d. \A u \in Threads : u # t /\ Locked(u) => Shard(u) # Shard(t) /\ Shard(u) \in Shards
  BY MutualExclusion, WorkingThread DEF Locked
<1>4. LocksAreHeld'
  BY <1>2, <1>3 DEF IInv, LocksAreHeld, Locked, Shard
<1>5. ClaimsAreOwn'
  <2>1. \A u \in Threads : Claiming(u)' => Claiming(u) /\ u # t
    BY <1>2, <1>3 DEF Claiming
  <2>2. \A u \in Threads, s \in Shards : Claiming(u)' => at[u] \notin table'[s]
    BY <2>1, <1>c DEF IInv, ClaimsAreOwn, Claiming
  <2> QED
    BY <2>1, <2>2, <1>2, <1>3 DEF IInv, ClaimsAreOwn, Claiming
<1>6. TableIsRight'
  <2> SUFFICES ASSUME NEW s \in Shards, NEW i \in table'[s]
               PROVE  /\ i <= len /\ entries[i] # Nothing /\ ShardOf(entries[i]) = s
                      /\ \A j \in table'[s] : entries[i] = entries[j] => i = j
    BY DEF TableIsRight
  <2>1. CASE s # Shard(t)
    BY <2>1, <1>c DEF IInv, TableIsRight
  <2>2. CASE s = Shard(t)
    <3>1. \A j \in table[s] : entries[j] # data[t]
      BY <2>2 DEF IInv, NewDataIsNew, Claiming, Matching
    <3>2. table'[s] = table[s] \cup {at[t]}
      BY <2>2, <1>c
    <3>3. ShardOf(entries[at[t]]) = s
      BY <2>2, <1>b DEF Shard
    <3> QED
      BY <2>2, <3>1, <3>2, <3>3, <1>a, <1>b DEF IInv, TableIsRight
  <2> QED
    BY <2>1, <2>2
<1>7. NewDataIsNew'
  <2> SUFFICES ASSUME NEW u \in Threads, Claiming(u)'
               PROVE  {i \in table'[Shard(u)] : entries[i] = data[u]} = {}
    BY DEF NewDataIsNew, Matching, Shard
  <2>1. Claiming(u) /\ u # t /\ Locked(u)
    BY <1>2, <1>3 DEF Claiming, Locked
  <2> QED
    BY <2>1, <1>c, <1>d DEF IInv, NewDataIsNew, Matching
<1>8. IdsAreInTables'
  <2>0. \A s \in Shards : table[s] \subseteq table'[s]
    BY <1>c
  <2>1. ASSUME NEW u \in Threads, NEW i \in holds[u] \cup cache[u]
        PROVE  i \in table'[ShardOf(entries[i])]
    <3>1. i \in Ids /\ entries[i] # Nothing
      BY DEF IInv, TypeOK, ViewsAreRight, ClosedView
    <3>2. entries[i] \in ValueData
      BY <3>1 DEF IInv, TypeOK
    <3>3. ShardOf(entries[i]) \in Shards
      BY <3>2, ShardsOfData
    <3> QED
      BY <2>0, <3>3 DEF IInv, IdsAreInTables
  <2>2. ASSUME NEW u \in Threads, pc'[u] = "unlock"
        PROVE  at[u] \in table'[Shard(u)] /\ entries[at[u]] = data[u]
    <3>1. CASE u = t
      BY <3>1, <1>b, <1>c
    <3>2. CASE u # t
      BY <3>2, <2>2, <2>0, <1>2, <1>d DEF IInv, IdsAreInTables, Locked
    <3> QED
      BY <3>1, <3>2
  <2> QED
    BY <2>1, <2>2 DEF IdsAreInTables, Shard
<1>9. ViewsAreRight'
  <2>1. ASSUME NEW s \in Shards, lock[s] = Nobody
        PROVE  table'[s] \subseteq released[s]
    <3>1. lock[Shard(t)] = t
      BY DEF IInv, LocksAreHeld, Locked
    <3> QED
      BY <2>1, <3>1, <1>c, NobodyIsNoThread DEF IInv, ViewsAreRight
  <2>2. ASSUME NEW u \in Threads, Locked(u)'
        PROVE  table'[Shard(u)] \subseteq sees[u]
    <3>1. CASE u = t
      BY <3>1, <1>b, <1>c DEF IInv, ViewsAreRight, Locked
    <3>2. CASE u # t
      BY <3>2, <2>2, <1>2, <1>c, <1>d DEF IInv, ViewsAreRight, Locked
    <3> QED
      BY <3>1, <3>2
  <2>3. \A u \in Threads : pc'[u] # "idle" => pc[u] # "idle"
    BY <1>2
  <2> QED
    BY <2>1, <2>2, <2>3 DEF IInv, ViewsAreRight, ClosedView, Shard
<1> QED
  BY <1>1, <1>4, <1>5, <1>6, <1>7, <1>8, <1>9 DEF IInv

LEMMA UnlockPreserves ==
  ASSUME IInv, NEW t \in Threads, Unlock(t)
  PROVE  IInv'
<1> USE DEF Unlock
<1>a. Shard(t) \in Shards
  BY WorkingThread
<1>b. at[t] \in table[Shard(t)] /\ entries[at[t]] = data[t] /\ at[t] \in Ids
  BY <1>a DEF IInv, TypeOK, IdsAreInTables
<1>c. at[t] \in sees[t]
  BY <1>b DEF IInv, ViewsAreRight, Locked
<1>1. TypeOK'
  BY <1>a, <1>b DEF IInv, TypeOK
<1>2. \A u \in Threads : u # t => pc'[u] = pc[u] /\ holds'[u] = holds[u] /\ cache'[u] = cache[u]
  BY DEF IInv, TypeOK
<1>3. pc'[t] = "idle" /\ holds'[t] = holds[t] \cup {at[t]} /\ cache'[t] = cache[t] \cup {at[t]}
  BY DEF IInv, TypeOK
<1>d. /\ lock'[Shard(t)] = Nobody /\ released'[Shard(t)] = sees[t]
      /\ \A s \in Shards : s # Shard(t) => lock'[s] = lock[s] /\ released'[s] = released[s]
  BY <1>a DEF IInv, TypeOK
<1>e. \A u \in Threads : u # t /\ Locked(u) => Shard(u) # Shard(t) /\ Shard(u) \in Shards
  BY MutualExclusion, WorkingThread DEF Locked
<1>4. LocksAreHeld'
  <2> SUFFICES ASSUME NEW u \in Threads, Locked(u)' PROVE lock'[Shard(u)] = u
    BY DEF LocksAreHeld, Shard
  <2>1. u # t /\ Locked(u)
    BY <1>2, <1>3 DEF Locked
  <2> QED
    BY <2>1, <1>d, <1>e DEF IInv, LocksAreHeld
<1>5. ClaimsAreOwn'
  BY <1>2, <1>3 DEF IInv, ClaimsAreOwn, Claiming
<1>6. TableIsRight'
  BY DEF IInv, TableIsRight
<1>7. NewDataIsNew'
  BY <1>2, <1>3 DEF IInv, NewDataIsNew, Claiming, Matching, Shard
<1>8. IdsAreInTables'
  <2>1. at[t] \in table[ShardOf(entries[at[t]])]
    BY <1>b DEF Shard
  <2> QED
    BY <2>1, <1>2, <1>3 DEF IInv, IdsAreInTables, Shard
<1>9. ViewsAreRight'
  <2>1. ASSUME NEW u \in Threads
        PROVE  /\ ClosedView(sees[u])'
               /\ (Locked(u) => table[Shard(u)] \subseteq sees[u])'
               /\ (holds[u] \cup cache[u] \subseteq sees[u])'
               /\ (pc[u] # "idle" => data[u] \in ValueData /\ Kids(data[u]) \subseteq sees[u])'
    <3>1. CASE u = t
      BY <3>1, <1>3, <1>c DEF IInv, ViewsAreRight, ClosedView, Locked
    <3>2. CASE u # t
      BY <3>2, <1>2 DEF IInv, ViewsAreRight, ClosedView, Locked, Shard
    <3> QED
      BY <3>1, <3>2
  <2>2. ASSUME NEW s \in Shards
        PROVE  ClosedView(released[s])' /\ (lock[s] = Nobody => table[s] \subseteq released[s])'
    <3>1. CASE s = Shard(t)
      BY <3>1, <1>d DEF IInv, ViewsAreRight, ClosedView, Locked
    <3>2. CASE s # Shard(t)
      BY <3>2, <1>d DEF IInv, ViewsAreRight, ClosedView
    <3> QED
      BY <3>1, <3>2
  <2> QED
    BY <2>1, <2>2 DEF ViewsAreRight
<1> QED
  BY <1>1, <1>4, <1>5, <1>6, <1>7, <1>8, <1>9 DEF IInv

LEMMA HandOffPreserves ==
  ASSUME IInv, NEW t \in Threads, NEW u \in Threads, HandOff(t, u)
  PROVE  IInv'
<1> USE DEF HandOff
<1>1. TypeOK'
  BY DEF IInv, TypeOK
<1>2. \A w \in Threads : w # u => holds'[w] = holds[w] /\ sees'[w] = sees[w]
  BY DEF IInv, TypeOK
<1>3. holds'[u] = holds[u] \cup holds[t] /\ sees'[u] = sees[u] \cup sees[t]
  BY DEF IInv, TypeOK
<1>4. LocksAreHeld'
  BY DEF IInv, LocksAreHeld, Locked, Shard
<1>5. ClaimsAreOwn'
  BY <1>2, <1>3 DEF IInv, ClaimsAreOwn, Claiming
<1>6. TableIsRight'
  BY DEF IInv, TableIsRight
<1>7. NewDataIsNew'
  BY DEF IInv, NewDataIsNew, Claiming, Matching, Shard
<1>8. IdsAreInTables'
  BY <1>2, <1>3 DEF IInv, IdsAreInTables, Shard
<1>9. ViewsAreRight'
  <2>1. ASSUME NEW w \in Threads
        PROVE  /\ ClosedView(sees[w])'
               /\ (Locked(w) => table[Shard(w)] \subseteq sees[w])'
               /\ (holds[w] \cup cache[w] \subseteq sees[w])'
               /\ (pc[w] # "idle" => data[w] \in ValueData /\ Kids(data[w]) \subseteq sees[w])'
    <3>1. CASE w = u
      BY <3>1, <1>3 DEF IInv, ViewsAreRight, ClosedView, Locked
    <3>2. CASE w # u
      BY <3>2, <1>2 DEF IInv, ViewsAreRight, ClosedView, Locked, Shard
    <3> QED
      BY <3>1, <3>2
  <2>2. ASSUME NEW s \in Shards
        PROVE  ClosedView(released[s])' /\ (lock[s] = Nobody => table[s] \subseteq released[s])'
    BY DEF IInv, ViewsAreRight, ClosedView
  <2> QED
    BY <2>1, <2>2 DEF ViewsAreRight
<1> QED
  BY <1>1, <1>4, <1>5, <1>6, <1>7, <1>8, <1>9 DEF IInv

LEMMA StutterPreserves == IInv /\ UNCHANGED vars => IInv'
<1> SUFFICES ASSUME IInv, UNCHANGED vars PROVE IInv'
  OBVIOUS
<1> USE DEF vars
<1>1. TypeOK' /\ TableIsRight'
  BY DEF IInv, TypeOK, TableIsRight
<1>2. LocksAreHeld' /\ ClaimsAreOwn'
  BY DEF IInv, LocksAreHeld, Locked, Shard, ClaimsAreOwn, Claiming
<1>3. NewDataIsNew' /\ IdsAreInTables'
  BY DEF IInv, NewDataIsNew, Claiming, Matching, Shard, IdsAreInTables
<1>4. ViewsAreRight'
  BY DEF IInv, ViewsAreRight, ClosedView, Locked, Shard
<1> QED
  BY <1>1, <1>2, <1>3, <1>4 DEF IInv

-----------------------------------------------------------------------------
\* The inductive invariant of the publication protocol holds in every reachable
\* state of any number of threads interning any data (lookup_or_insert).
THEOREM Invariance == Spec => []IInv
<1>1. IInv /\ [Next]_vars => IInv'
  <2> SUFFICES ASSUME IInv, [Next]_vars PROVE IInv'
    OBVIOUS
  <2>1. CASE UNCHANGED vars
    BY <2>1, StutterPreserves
  <2>2. CASE Next
    <3>1. PICK t \in Threads :
            \/ \E d \in ValueData : Begin(t, d)
            \/ CacheHit(t) \/ Lock(t) \/ Found(t) \/ Claim(t)
            \/ Write(t) \/ Insert(t) \/ Unlock(t)
            \/ \E u \in Threads : HandOff(t, u)
      BY <2>2 DEF Next
    <3> QED
      BY <3>1, BeginPreserves, CacheHitPreserves, LockPreserves, FoundPreserves, ClaimPreserves,
         WritePreserves, InsertPreserves, UnlockPreserves, HandOffPreserves
  <2> QED
    BY <2>1, <2>2
<1> QED
  BY InitEstablishes, <1>1, PTL DEF Spec

\* A value is published before its id is: a thread never reads an entry, or a
\* child of an entry, whose write did not happen before (value.rs:351-355).
THEOREM Publication == Spec => []ReadsSeeWrites
<1>1. IInv => ReadsSeeWrites
  <2> SUFFICES ASSUME IInv, NEW t \in Threads, NEW i \in MayRead(t)
               PROVE  i \in sees[t] /\ entries[i] # Nothing /\ Kids(entries[i]) \subseteq sees[t]
    BY DEF ReadsSeeWrites
  <2>1. i \in sees[t]
    BY DEF IInv, ViewsAreRight, MayRead
  <2> QED
    BY <2>1 DEF IInv, ViewsAreRight, ClosedView
<1> QED
  BY Invariance, <1>1, PTL

\* Hash-consing across threads: equal data never has two ids, so comparing ids
\* is comparing values.
THEOREM HashConsing == Spec => []EqualIdsEqualData
<1>1. IInv => EqualIdsEqualData
  <2> SUFFICES ASSUME IInv, NEW i \in Known, NEW j \in Known, entries[i] = entries[j]
               PROVE  i = j
    BY DEF EqualIdsEqualData
  <2>1. /\ i \in table[ShardOf(entries[i])] /\ j \in table[ShardOf(entries[i])]
        /\ i \in Ids /\ entries[i] # Nothing
    BY DEF IInv, TypeOK, IdsAreInTables, ViewsAreRight, ClosedView, Known
  <2>2. ShardOf(entries[i]) \in Shards
    BY <2>1, ShardsOfData DEF IInv, TypeOK
  <2> QED
    BY <2>1, <2>2 DEF IInv, TableIsRight
<1> QED
  BY Invariance, <1>1, PTL

-----------------------------------------------------------------------------
(***************************************************************************)
(* The memo of map updates is transparent, for any maps, keys and values   *)
(* and any width of words: put and set of the same ids never share a slot. *)
(***************************************************************************)
\* Quotient and remainder.
LEMMA Division ==
  ASSUME NEW n \in Nat, n > 0, NEW x \in Nat
  PROVE  /\ x % n \in Nat /\ x % n < n
         /\ x \div n \in Nat
         /\ x = n * (x \div n) + (x % n)
  BY SMT

\* There is only one of each.
LEMMA DivisionIsUnique ==
  ASSUME NEW n \in Nat, n > 0, NEW q \in Nat, NEW r \in Nat, r < n, NEW x \in Nat, x = n * q + r
  PROVE  x % n = r
  BY SMT

\* Numbers that are a slot's size apart are in different slots.
LEMMA ApartInDifferentSlots ==
  ASSUME NEW s \in Nat, s > 0, NEW x \in Nat, NEW y \in Nat, x + s <= y
  PROVE  x \div s # y \div s
  BY SMT

\* Multiplication distributes over a successor.
LEMMA NextMultiple ==
  ASSUME NEW h \in Nat, NEW c \in Nat
  PROVE  (h + 1) * c = h * c + c
  BY SMT

LEMMA NextQuotient ==
  ASSUME NEW n \in Nat, NEW q \in Nat, NEW r \in Nat
  PROVE  \E p \in Nat : n * q + (n + r) = n * p + r
<1>1. n * q + (n + r) = n * (q + 1) + r
  BY SMT
<1> QED
  BY <1>1

\* Adding the hash constant moves a word to another slot, around the end too.
LEMMA MixMovesSlot ==
  ASSUME NEW x \in Nat
  PROVE  ((x + Mix) % Modulus) \div SlotSize # (x % Modulus) \div SlotSize
<1>a. /\ Modulus \in Nat /\ SlotSize \in Nat /\ SlotSize > 0 /\ Mix \in Nat
      /\ SlotSize <= Mix /\ Mix + SlotSize <= Modulus /\ Modulus > 0
  BY MemoAssumption
<1> DEFINE q == x \div Modulus
           r == x % Modulus
<1>1. q \in Nat /\ r \in Nat /\ r < Modulus /\ x = Modulus * q + r
  BY <1>a, Division
<1> HIDE DEF q, r
<1>2. CASE r + Mix < Modulus
  <2>1. Modulus * q \in Nat
    BY <1>a, <1>1, SMT
  <2>2. x + Mix = Modulus * q + (r + Mix)
    BY <1>a, <1>1, <2>1
  <2>3. (x + Mix) % Modulus = r + Mix
    BY <1>a, <1>1, <1>2, <2>2, DivisionIsUnique
  <2>4. r \div SlotSize # (r + Mix) \div SlotSize
    BY <1>a, <1>1, ApartInDifferentSlots
  <2> QED
    BY <2>3, <2>4 DEF r
<1>3. CASE r + Mix >= Modulus
  <2> DEFINE t == r + Mix - Modulus
  <2>1. t \in Nat /\ t < Modulus /\ t + SlotSize <= r /\ r + Mix = Modulus + t
    BY <1>a, <1>1, <1>3
  <2> HIDE DEF t
  <2>2. Modulus * q \in Nat
    BY <1>a, <1>1, SMT
  <2>3. x + Mix = Modulus * q + (Modulus + t)
    BY <1>a, <1>1, <2>1, <2>2
  <2>4. PICK p \in Nat : x + Mix = Modulus * p + t
    <3>1. Modulus \in Nat /\ q \in Nat /\ t \in Nat
      BY <1>a, <1>1, <2>1
    <3>2. \E p \in Nat : Modulus * q + (Modulus + t) = Modulus * p + t
      BY <3>1, NextQuotient, Zenon
    <3> QED
      BY <2>3, <3>2, Zenon
  <2>5. (x + Mix) % Modulus = t
    <3>1. x + Mix \in Nat
      BY <1>a
    <3> QED
      BY <1>a, <2>1, <2>4, <3>1, DivisionIsUnique
  <2>6. t \div SlotSize # r \div SlotSize
    BY <1>a, <1>1, <2>1, ApartInDifferentSlots
  <2> QED
    BY <2>5, <2>6 DEF r
<1> QED
  BY <1>a, <1>1, <1>2, <1>3

\* The hash is a number.
LEMMA ProductIsNat == \A m, n \in Nat : m * n \in Nat
  BY SMT

LEMMA HashIsNat ==
  ASSUME NEW u \in Updates
  PROVE  Hash(u) \in Nat
<1>1. /\ MapId(u.map) \in Nat /\ u.key \in Nat /\ u.val \in Nat /\ Mix \in Nat
  BY MemoAssumption DEF Updates
<1>2. MapId(u.map) * Mix \in Nat
  BY <1>1, ProductIsNat
<1>3. MapId(u.map) * Mix + u.key * 2 \in Nat
  BY <1>1, <1>2
<1>4. (MapId(u.map) * Mix + u.key * 2) * Mix \in Nat
  BY <1>1, <1>3, ProductIsNat
<1> QED
  BY <1>1, <1>4 DEF Hash

\* An entry found in the slot of an update was stored by that operation.
LEMMA SlotTellsOperation ==
  ASSUME NEW u \in Updates, NEW w \in Updates,
         u.map = w.map, u.key = w.key, u.val = w.val,
         update_slot(u) = update_slot(w)
  PROVE  u = w
<1>1. Hash(u) = Hash(w)
  BY DEF Hash
<1>2. Hash(u) \in Nat /\ Mix \in Nat
  BY HashIsNat, MemoAssumption
<1> DEFINE h == Hash(u)
<1>3. h * Mix \in Nat /\ (h + 1) * Mix = h * Mix + Mix /\ (h + 0) * Mix = h * Mix
  BY <1>2, ProductIsNat, NextMultiple
<1>4. ((h * Mix + Mix) % Modulus) \div SlotSize # ((h * Mix) % Modulus) \div SlotSize
  BY <1>3, MixMovesSlot
<1>5. u.must_exist \in BOOLEAN /\ w.must_exist \in BOOLEAN
  BY DEF Updates
<1>6. u.must_exist = w.must_exist
  <2>1. ASSUME u.must_exist, ~w.must_exist
        PROVE  FALSE
    BY <2>1, <1>1, <1>3, <1>4 DEF update_slot
  <2>2. ASSUME ~u.must_exist, w.must_exist
        PROVE  FALSE
    BY <2>2, <1>1, <1>3, <1>4 DEF update_slot
  <2> QED
    BY <1>5, <2>1, <2>2
<1> QED
  BY <1>6 DEF Updates

-----------------------------------------------------------------------------
\* The result of an update is a map.
LEMMA ResultIsMap ==
  ASSUME NEW u \in Updates
  PROVE  Result(u)[2] \in Maps
  BY DEF Result, Updates, Maps

LEMMA MemoInitHolds == MemoInit => MemoInv
<1> SUFFICES ASSUME MemoInit PROVE MemoInv
  OBVIOUS
<1>1. asked.map \in Maps
  BY DEF MemoInit, Maps
<1>2. DOMAIN memo = {}
  BY DEF MemoInit
<1> QED
  BY <1>1, <1>2 DEF MemoInit, MemoInv, EntriesAreResults, MemoIsTransparent

LEMMA MemoStepHolds == MemoInv /\ [MemoNext]_memoVars => MemoInv'
<1> SUFFICES ASSUME MemoInv, [MemoNext]_memoVars PROVE MemoInv'
  OBVIOUS
<1> USE DEF MemoInv
<1>1. ASSUME NEW u \in Updates, Hit(u) PROVE MemoInv'
  <2> DEFINE s == update_slot(u)
  <2>1. s \in DOMAIN memo /\ IsFor(memo[s], u)
    BY <1>1 DEF Hit, IsHit
  <2>2. PICK w \in Updates : update_slot(w) = s /\ IsFor(memo[s], w) /\ Result(w) = <<"ok", memo[s].res>>
    BY <2>1 DEF EntriesAreResults
  <2>3. w = u
    BY <2>1, <2>2, SlotTellsOperation DEF IsFor
  <2>4. answer' = Result(u) /\ asked' = u /\ map' = answer'[2]
    BY <1>1, <2>2, <2>3 DEF Hit, Answered
  <2>5. MemoIsTransparent'
    BY <2>4 DEF MemoIsTransparent, Result
  <2>6. map' \in Maps
    BY <2>4, ResultIsMap
  <2>7. EntriesAreResults'
    BY <1>1 DEF Hit, EntriesAreResults, Result, update_slot, Hash, IsFor
  <2> QED
    BY <2>5, <2>6, <2>7
<1>2. ASSUME NEW u \in Updates, Fail(u) PROVE MemoInv'
  <2>1. answer' = Result(u) /\ asked' = u /\ map' = Result(u)[2]
    BY <1>2 DEF Fail, Answered
  <2>2. EntriesAreResults'
    BY <1>2 DEF Fail, EntriesAreResults, Result, update_slot, Hash, IsFor
  <2> QED
    BY <2>1, <2>2, ResultIsMap DEF MemoIsTransparent, Result
<1>3. ASSUME NEW u \in Updates, Store(u) PROVE MemoInv'
  <2> DEFINE s == update_slot(u)
  <2>1. answer' = Result(u) /\ asked' = u /\ map' = Result(u)[2]
    BY <1>3 DEF Store, Answered
  <2>2. ASSUME NEW t \in DOMAIN memo'
        PROVE  \E w \in Updates :
                 update_slot(w) = t /\ IsFor(memo'[t], w) /\ Result(w) = <<"ok", memo'[t].res>>
    <3>1. CASE t = s
      <4>1. memo'[t] = [map |-> u.map, key |-> u.key, val |-> u.val, res |-> Result(u)[2]]
        BY <1>3, <3>1, <2>2 DEF Store
      <4>2. Result(u) = <<"ok", Result(u)[2]>>
        BY <1>3 DEF Store, Result
      <4> QED
        BY <3>1, <4>1, <4>2 DEF IsFor
    <3>2. CASE t # s
      <4>1. t \in DOMAIN memo /\ memo'[t] = memo[t]
        BY <1>3, <2>2, <3>2 DEF Store
      <4> QED
        BY <4>1 DEF EntriesAreResults
    <3> QED
      BY <3>1, <3>2
  <2>3. EntriesAreResults'
    BY <2>2 DEF EntriesAreResults, Result, update_slot, Hash, IsFor
  <2> QED
    BY <2>1, <2>3, ResultIsMap DEF MemoIsTransparent, Result
<1>4. ASSUME NEW m \in Maps, Load(m) PROVE MemoInv'
  BY <1>4 DEF Load, EntriesAreResults, MemoIsTransparent, Result, update_slot, Hash, IsFor
<1>5. CASE UNCHANGED memoVars
  BY <1>5 DEF memoVars, EntriesAreResults, MemoIsTransparent, Result, update_slot, Hash, IsFor
<1> QED
  BY <1>1, <1>2, <1>3, <1>4, <1>5 DEF MemoNext

\* An update answered from the memo of map updates (map_update_cached) has the
\* result, or the error, that it would have without it.
THEOREM Transparency == MemoSpec => []MemoIsTransparent
<1>1. MemoInv => MemoIsTransparent
  BY DEF MemoInv
<1> QED
  BY MemoInitHolds, MemoStepHolds, <1>1, PTL DEF MemoSpec

=============================================================================
