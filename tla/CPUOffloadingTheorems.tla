----------------------- MODULE CPUOffloadingTheorems ------------------------
(* The CPU block pool is correct for any keys, capacity and configuration:   *)
(* the inductive invariant that every call keeps, and from it the safety     *)
(* properties of CPUOffloadingManager, what one call may never do to the     *)
(* pool, and that every call is a call of the abstract store.                *)
EXTENDS CPUOffloadingRefinement, CPUOffloadingManagerProofs

-----------------------------------------------------------------------------
(* The inductive invariant *)

\* The keys of a call are distinct.
LEMMA KeyLists ==
    ASSUME NEW ks \in KeyList
    PROVE  ks \in Seq(Key) /\ IsInjective(ks) /\ Range(ks) \subseteq Key
<1>1. PICK n \in 0..Cardinality(Key) : ks \in [1..n -> Key] /\ IsInjective(ks)
    BY DEF KeyList
<1>2. Cardinality(Key) \in Nat
    BY ManagerAssumption, FS_CardinalityType
<1>3. ks \in Seq(Key)
    BY <1>1, <1>2
<1> QED BY <1>1, <1>3, RangeFacts

\* The inductive invariant holds initially.
LEMMA InitInv ==
    ASSUME Init PROVE ManagerInv
<1> DEFINE zero == [k \in Key |-> 0]
           e == <<>>
<1>1. zero \in [Key -> 0..MaxRefs] /\ \A k \in Key : zero[k] + zero[k] = 0
    BY ManagerAssumption
<1>2. DOMAIN e = {} /\ e \in Seq(0..(0 - 1)) /\ IsInjective(e) /\ Len(e) = 0
      /\ e \in Seq([key : Key, n : 1..store_threshold])
    BY DEF IsInjective
<1>3. Range(e) = {} /\ 0..(0 - 1) = {}
    BY DEF Range
<1>4. SoundCache(EmptyCache, Key, {}, {})
    BY EmptyCacheSound
<1>5. config \in Config /\ blocks = e /\ cache = EmptyCache /\ free_list = e
      /\ num_allocated_blocks = 0 /\ counts = e /\ loads = zero /\ holds = zero /\ stores = {}
    BY DEF Init
<1> HIDE DEF zero, e
<1>6. PoolSound(e, e, 0)
    BY <1>2, <1>3, CapacityAssumption DEF PoolSound
<1>7. Sound(e, EmptyCache, e, 0, zero, zero, {})
    BY <1>1, <1>2, <1>4, <1>6 DEF Sound
<1>8. Len(e) <= max_tracker_size
    BY <1>2, ManagerAssumption
<1> QED BY <1>2, <1>5, <1>7, <1>8 DEF ManagerInv

\* Resetting the cache keeps the inductive invariant.
LEMMA ResetInv ==
    ASSUME ManagerInv, reset_cache PROVE ManagerInv'
<1> DEFINE zero == [k \in Key |-> 0]
           e == <<>>
<1>1. zero \in [Key -> 0..MaxRefs] /\ \A k \in Key : zero[k] + zero[k] = 0
    BY ManagerAssumption
<1>2. DOMAIN e = {} /\ e \in Seq(0..(0 - 1)) /\ IsInjective(e)
    BY DEF IsInjective
<1>3. Range(e) = {} /\ 0..(0 - 1) = {}
    BY DEF Range
<1>4. SoundCache(EmptyCache, Key, {}, {})
    BY EmptyCacheSound
<1>5. blocks' = e /\ cache' = EmptyCache /\ free_list' = e /\ num_allocated_blocks' = 0
      /\ loads' = zero /\ holds' = zero /\ stores' = {} /\ UNCHANGED <<config, counts>>
    BY DEF reset_cache
<1> HIDE DEF zero, e
<1>6. PoolSound(e, e, 0)
    BY <1>2, <1>3, CapacityAssumption DEF PoolSound
<1>7. Sound(e, EmptyCache, e, 0, zero, zero, {})
    BY <1>1, <1>2, <1>4, <1>6 DEF Sound
<1> QED BY <1>5, <1>7 DEF ManagerInv, store_threshold

\* The tracker counts within its bounds.
LEMMA LookupInv ==
    ASSUME ManagerInv, NEW k \in Key, lookup(k) PROVE ManagerInv'
<1> DEFINE E == [key : Key, n : 1..store_threshold]
           J == {c \in Range(counts) : c.key = k}
           others == Without(counts, J)
           kept == IF TimesSeen(k) = 0 /\ Len(counts) >= max_tracker_size THEN Tail(others) ELSE others
           n == IF TimesSeen(k) < store_threshold THEN TimesSeen(k) + 1 ELSE store_threshold
           x == [key |-> k, n |-> n]
<1>1. counts \in Seq(E) /\ Len(counts) <= max_tracker_size /\ config \in Config
    BY DEF ManagerInv
<1>2. store_threshold \in Nat /\ store_threshold >= 2
    BY <1>1, ManagerAssumption DEF lookup, TracksLookups, store_threshold
<1>3. counts' = Append(kept, x) /\ UNCHANGED <<pool_vars, client_vars>>
    BY DEF lookup
<1>4. DOMAIN counts = 1..Len(counts) /\ Len(counts) \in Nat /\ \A i \in 1..Len(counts) : counts[i] \in E
    <2> HIDE DEF E
    <2> QED BY <1>1
<1>5. /\ TimesSeen(k) \in 0..store_threshold
      /\ TimesSeen(k) # 0 => \E i \in 1..Len(counts) : counts[i].key = k
      /\ TimesSeen(k) = 0 => \A i \in 1..Len(counts) : counts[i].key # k
    <2> DEFINE seen == {i \in DOMAIN counts : counts[i].key = k}
               at == CHOOSE i \in seen : TRUE
    <2>1. TimesSeen(k) = IF seen = {} THEN 0 ELSE counts[at].n
        BY DEF TimesSeen
    <2>2. CASE seen = {}
        BY <2>1, <2>2, <1>2, <1>4
    <2>3. CASE seen # {}
        <3>1. at \in seen
            BY <2>3
        <3> HIDE DEF at
        <3>2. at \in 1..Len(counts) /\ counts[at].key = k
            BY <3>1, <1>4
        <3>3. counts[at] \in E
            BY <3>2, <1>4
        <3>4. counts[at].n \in 1..store_threshold
            BY <3>3
        <3> QED BY <2>1, <2>3, <3>2, <3>4, <1>2
    <2> QED BY <2>2, <2>3
<1>6. n \in 1..store_threshold
    BY <1>2, <1>5
<1>7. x \in E
    <2> HIDE DEF n
    <2> QED BY <1>6
<1>8. others \in Seq(E) /\ Len(others) <= Len(counts)
      /\ (Len(others) = Len(counts) <=> Range(counts) \cap J = {})
    <2> HIDE DEF E, J
    <2> QED BY <1>1, WithoutFacts
<1> HIDE DEF others
<1>9. TimesSeen(k) # 0 => Range(counts) \cap J # {}
    <2> SUFFICES ASSUME NEW i \in 1..Len(counts), counts[i].key = k PROVE Range(counts) \cap J # {}
        BY <1>5
    <2>1. counts[i] \in Range(counts)
        BY <1>4 DEF Range
    <2> QED BY <2>1
<1>10. TimesSeen(k) = 0 => Range(counts) \cap J = {}
    <2> SUFFICES ASSUME \A i \in 1..Len(counts) : counts[i].key # k, NEW c \in Range(counts), c.key = k
                 PROVE  FALSE
        BY <1>5
    <2>1. PICK i \in 1..Len(counts) : counts[i] = c
        BY <1>4 DEF Range
    <2> QED BY <2>1
<1> HIDE DEF E, J, n, x
<1>11. Len(others) \in Nat /\ max_tracker_size \in Nat /\ max_tracker_size > 0
    BY <1>8, ManagerAssumption
<1>12. kept \in Seq(E) /\ Len(kept) + 1 <= max_tracker_size
    <2>1. CASE TimesSeen(k) = 0 /\ Len(counts) >= max_tracker_size
        <3>1. Len(others) = Len(counts) /\ Len(others) > 0 /\ others # <<>>
            BY <2>1, <1>4, <1>8, <1>10, <1>11
        <3>2. Tail(others) \in Seq(E) /\ Len(Tail(others)) = Len(others) - 1
            BY <3>1, <1>8
        <3>3. kept = Tail(others)
            BY <2>1
        <3> QED BY <3>1, <3>2, <3>3, <1>1, <1>4, <1>11
    <2>2. CASE TimesSeen(k) = 0 /\ ~(Len(counts) >= max_tracker_size)
        <3>1. kept = others
            BY <2>2
        <3> HIDE DEF kept
        <3> QED BY <2>2, <3>1, <1>4, <1>8, <1>11
    <2>3. CASE TimesSeen(k) # 0
        <3>1. kept = others /\ Len(others) # Len(counts)
            BY <2>3, <1>8, <1>9
        <3> HIDE DEF kept
        <3> QED BY <3>1, <1>1, <1>4, <1>8, <1>11
    <2> QED BY <2>1, <2>2, <2>3
<1> HIDE DEF kept
<1>13. counts' \in Seq(E) /\ Len(counts') <= max_tracker_size
    BY <1>3, <1>7, <1>12
<1>14. UNCHANGED <<config, blocks, cache, free_list, num_allocated_blocks, loads, holds, stores>>
    BY <1>3 DEF pool_vars, client_vars
<1>15. E' = E /\ config' \in Config
    BY <1>1, <1>14 DEF E, store_threshold
<1>16. counts' \in Seq(E') /\ E' = [key : Key, n : 1..store_threshold']
    BY <1>13, <1>15, Zenon DEF E
<1> QED BY <1>13, <1>14, <1>15, <1>16, Zenon DEF ManagerInv, E


\* The lists of both policies stay sound when keys are touched.
LEMMA TouchInv ==
    ASSUME ManagerInv, NEW ks \in KeyList, touch(ks) PROVE ManagerInv'
<1>1. Sound(blocks, cache, free_list, num_allocated_blocks, loads, holds, stores)
    BY DEF ManagerInv
<1>2. Readied = DOMAIN blocks \ stores
    BY <1>1, ReadyKeys DEF Readied
<1>3. SoundCache(cache, Key, DOMAIN blocks, Readied)
    BY <1>1, <1>2 DEF Sound
<1>4. ks \in Seq(Key) /\ IsInjective(ks)
    BY KeyLists
<1>5. SoundCache(lru_touch(cache, ks), Key, DOMAIN blocks, Readied)
    BY <1>3, <1>4, LruTouchSound
<1>6. SoundCache(arc_touch(cache, ks, Readied), Key, DOMAIN blocks, Readied)
    BY <1>3, <1>4, ArcTouchSound
<1>7. /\ SoundCache(cache', Key, DOMAIN blocks, DOMAIN blocks \ stores)
      /\ UNCHANGED <<config, blocks, free_list, num_allocated_blocks, counts, loads, holds, stores>>
    BY <1>2, <1>5, <1>6 DEF touch, client_vars
<1>8. Sound(blocks, cache', free_list, num_allocated_blocks, loads, holds, stores)
    BY <1>1, <1>7 DEF Sound
<1> QED BY <1>7, <1>8 DEF ManagerInv, store_threshold

\* What is left of the invariant when references change.
LEMMA RefsInv ==
    ASSUME ManagerInv, NEW K, K \subseteq DOMAIN blocks \ stores, NEW d \in {1, -1},
           blocks' = AddRef(K, d), loads' \in [Key -> 0..MaxRefs], holds' \in [Key -> 0..MaxRefs],
           \A k \in Key : loads'[k] + holds'[k] = loads[k] + holds[k] + (IF k \in K THEN d ELSE 0),
           UNCHANGED <<config, cache, free_list, num_allocated_blocks, counts, stores>>
    PROVE  ManagerInv'
<1>1. Sound(blocks, cache, free_list, num_allocated_blocks, loads, holds, stores)
    BY DEF ManagerInv
<1>2. Sound(blocks', cache, free_list, num_allocated_blocks, loads', holds', stores)
    <2> DEFINE m == loads'
               g == holds'
               e == blocks'
    <2>1. e = [k \in DOMAIN blocks |->
                 IF k \in K THEN Block(blocks[k].block_id, blocks[k].ref_cnt + d) ELSE blocks[k]]
        BY DEF AddRef
    <2>2. /\ m \in [Key -> 0..MaxRefs] /\ g \in [Key -> 0..MaxRefs]
          /\ \A k \in Key : m[k] + g[k] = loads[k] + holds[k] + (IF k \in K THEN d ELSE 0)
        OBVIOUS
    <2> HIDE DEF m, g, e
    <2>3. Sound(e, cache, free_list, num_allocated_blocks, m, g, stores)
        <3>1. Referencing(blocks, stores, K, d, loads, holds, m, g, e)
            BY <2>1, <2>2 DEF Referencing
        <3> QED BY <1>1, <3>1, SoundRefs
    <2> QED BY <2>3 DEF m, g, e
<1> QED BY <1>2 DEF ManagerInv, store_threshold

\* Somebody who owes a load or a release keeps the key resident and ready.
LEMMA OwedIsReady ==
    ASSUME ManagerInv, NEW k \in Key, loads[k] > 0 \/ holds[k] > 0
    PROVE  k \in DOMAIN blocks \ stores
<1>1. Sound(blocks, cache, free_list, num_allocated_blocks, loads, holds, stores)
    BY DEF ManagerInv
<1>2. loads[k] \in Nat /\ holds[k] \in Nat
    BY <1>1, ManagerAssumption DEF Sound
<1>3. loads[k] + holds[k] # 0
    BY <1>2
<1> QED BY <1>1, <1>3 DEF Sound

\* prepare_load keeps the inductive invariant.
LEMMA PrepareLoadInv ==
    ASSUME ManagerInv, NEW K \in SUBSET Key, prepare_load(K) PROVE ManagerInv'
<1>1. Sound(blocks, cache, free_list, num_allocated_blocks, loads, holds, stores)
    BY DEF ManagerInv
<1>2. Readied = DOMAIN blocks \ stores
    BY <1>1, ReadyKeys DEF Readied
<1>3. loads \in [Key -> 0..MaxRefs] /\ holds \in [Key -> 0..MaxRefs]
    BY <1>1 DEF Sound
<1>4. /\ K \subseteq DOMAIN blocks \ stores /\ \A k \in K : loads[k] < MaxRefs
      /\ blocks' = AddRef(K, 1) /\ holds' = holds
      /\ loads' = [k \in Key |-> IF k \in K THEN loads[k] + 1 ELSE loads[k]]
      /\ UNCHANGED <<config, cache, free_list, num_allocated_blocks, counts, stores>>
    BY <1>2 DEF prepare_load, IsReady
<1>5. loads' \in [Key -> 0..MaxRefs] /\ holds' \in [Key -> 0..MaxRefs]
    BY <1>3, <1>4, ManagerAssumption
<1>6. \A k \in Key : loads'[k] + holds'[k] = loads[k] + holds[k] + (IF k \in K THEN 1 ELSE 0)
    BY <1>3, <1>4, ManagerAssumption
<1> QED BY <1>4, <1>5, <1>6, RefsInv

\* complete_load keeps the inductive invariant.
LEMMA CompleteLoadInv ==
    ASSUME ManagerInv, NEW K \in SUBSET Key, complete_load(K) PROVE ManagerInv'
<1>1. Sound(blocks, cache, free_list, num_allocated_blocks, loads, holds, stores)
    BY DEF ManagerInv
<1>3. loads \in [Key -> 0..MaxRefs] /\ holds \in [Key -> 0..MaxRefs]
    BY <1>1 DEF Sound
<1>4. /\ \A k \in K : loads[k] > 0
      /\ blocks' = AddRef(K, -1) /\ holds' = holds
      /\ loads' = [k \in Key |-> IF k \in K THEN loads[k] - 1 ELSE loads[k]]
      /\ UNCHANGED <<config, cache, free_list, num_allocated_blocks, counts, stores>>
    BY DEF complete_load
<1>5. loads' \in [Key -> 0..MaxRefs] /\ holds' \in [Key -> 0..MaxRefs]
    BY <1>3, <1>4, ManagerAssumption
<1>6. \A k \in Key : loads'[k] + holds'[k] = loads[k] + holds[k] + (IF k \in K THEN -1 ELSE 0)
    BY <1>3, <1>4, ManagerAssumption
<1>7. K \subseteq DOMAIN blocks \ stores
    BY <1>4, OwedIsReady
<1>8. -1 \in {1, -1}
    OBVIOUS
<1> QED BY <1>4, <1>5, <1>6, <1>7, <1>8, RefsInv

\* Retaining a lease keeps the inductive invariant.
LEMMA RetainInv ==
    ASSUME ManagerInv, NEW K \in SUBSET Key, retain(K) PROVE ManagerInv'
<1> DEFINE L == {k \in K : IsReady(k)}
<1>1. Sound(blocks, cache, free_list, num_allocated_blocks, loads, holds, stores)
    BY DEF ManagerInv
<1>2. Readied = DOMAIN blocks \ stores
    BY <1>1, ReadyKeys DEF Readied
<1>3. loads \in [Key -> 0..MaxRefs] /\ holds \in [Key -> 0..MaxRefs]
    BY <1>1 DEF Sound
<1>4. /\ L \subseteq DOMAIN blocks \ stores /\ \A k \in L : holds[k] < MaxRefs
      /\ blocks' = AddRef(L, 1) /\ loads' = loads
      /\ holds' = [k \in Key |-> IF k \in L THEN holds[k] + 1 ELSE holds[k]]
      /\ UNCHANGED <<config, cache, free_list, num_allocated_blocks, counts, stores>>
    BY <1>2 DEF retain, IsReady
<1> HIDE DEF L
<1>5. loads' \in [Key -> 0..MaxRefs] /\ holds' \in [Key -> 0..MaxRefs]
    BY <1>3, <1>4, ManagerAssumption
<1>6. \A k \in Key : loads'[k] + holds'[k] = loads[k] + holds[k] + (IF k \in L THEN 1 ELSE 0)
    BY <1>3, <1>4, ManagerAssumption
<1> QED BY <1>4, <1>5, <1>6, RefsInv

\* Releasing a lease keeps the inductive invariant.
LEMMA ReleaseInv ==
    ASSUME ManagerInv, NEW K \in SUBSET Key, release(K) PROVE ManagerInv'
<1>1. Sound(blocks, cache, free_list, num_allocated_blocks, loads, holds, stores)
    BY DEF ManagerInv
<1>3. loads \in [Key -> 0..MaxRefs] /\ holds \in [Key -> 0..MaxRefs]
    BY <1>1 DEF Sound
<1>4. /\ \A k \in K : holds[k] > 0
      /\ blocks' = AddRef(K, -1) /\ loads' = loads
      /\ holds' = [k \in Key |-> IF k \in K THEN holds[k] - 1 ELSE holds[k]]
      /\ UNCHANGED <<config, cache, free_list, num_allocated_blocks, counts, stores>>
    BY DEF release
<1>5. loads' \in [Key -> 0..MaxRefs] /\ holds' \in [Key -> 0..MaxRefs]
    BY <1>3, <1>4, ManagerAssumption
<1>6. \A k \in Key : loads'[k] + holds'[k] = loads[k] + holds[k] + (IF k \in K THEN -1 ELSE 0)
    BY <1>3, <1>4, ManagerAssumption
<1>7. K \subseteq DOMAIN blocks \ stores
    BY <1>4, OwedIsReady
<1>8. -1 \in {1, -1}
    OBVIOUS
<1> QED BY <1>4, <1>5, <1>6, <1>7, <1>8, RefsInv

\* A completed store keeps the inductive invariant.
LEMMA CompleteStoreInv ==
    ASSUME ManagerInv, NEW ks \in KeyList, complete_store(ks) PROVE ManagerInv'
<1> DEFINE e == blocks'
           K == Range(ks)
<1>1. Sound(blocks, cache, free_list, num_allocated_blocks, loads, holds, stores)
    BY DEF ManagerInv
<1>2. /\ K \subseteq stores
      /\ e = [k \in DOMAIN blocks |-> IF k \in K /\ blocks[k].ref_cnt = NotReady
                                      THEN Block(blocks[k].block_id, 0) ELSE blocks[k]]
      /\ stores' = stores \ K
      /\ UNCHANGED <<config, cache, free_list, num_allocated_blocks, counts, loads, holds>>
    BY DEF complete_store
<1> HIDE DEF e, K
<1>3. Sound(e, cache, free_list, num_allocated_blocks, loads, holds, stores \ K)
    BY <1>1, <1>2, SoundCompleted, Zenon
<1> QED BY <1>2, <1>3 DEF ManagerInv, store_threshold, e

\* A failed store keeps the inductive invariant.
LEMMA FailStoreInv ==
    ASSUME ManagerInv, NEW ks \in KeyList, fail_store(ks) PROVE ManagerInv'
<1> DEFINE e == blocks'
           v == Only(ks, DOMAIN blocks \ Readied)
<1>1. Sound(blocks, cache, free_list, num_allocated_blocks, loads, holds, stores)
    BY DEF ManagerInv
<1>2. Readied = DOMAIN blocks \ stores /\ stores \subseteq DOMAIN blocks
    BY <1>1, ReadyKeys DEF Readied
<1>3. /\ Range(ks) \subseteq stores
      /\ e = [k \in DOMAIN blocks \ Range(v) |-> blocks[k]]
      /\ cache' = remove(cache, Range(v))
      /\ free_list' = free_list \o IdsOf(blocks, v)
      /\ stores' = stores \ Range(ks)
      /\ UNCHANGED <<config, num_allocated_blocks, counts, loads, holds>>
    BY DEF fail_store, IdsOf
<1>4. ks \in Seq(Key) /\ IsInjective(ks)
    BY KeyLists
<1>5. v \in Seq(Key) /\ IsInjective(v) /\ Range(v) = Range(ks) \cap (DOMAIN blocks \ Readied)
    BY <1>4, OnlyFacts
<1> HIDE DEF e, v
<1>6. Range(v) = Range(ks)
    BY <1>2, <1>3, <1>5
<1>7. Range(v) \subseteq stores
    BY <1>3, <1>6
<1>8. Sound(e, remove(cache, Range(v)), free_list \o IdsOf(blocks, v), num_allocated_blocks,
            loads, holds, stores \ Range(v))
    BY <1>1, <1>3, <1>5, <1>7, SoundFailed, Zenon
<1> QED BY <1>3, <1>6, <1>8 DEF ManagerInv, store_threshold, e


\* What eviction takes: idle keys it may take, oldest first, each once.
LEMMA EvictFacts ==
    ASSUME ManagerInv, NEW n \in Nat, NEW protected
    PROVE  /\ IsVictims(evict(n, protected), Key, DOMAIN blocks, n, Idle(protected))
           /\ OldestFirst(evict(n, protected), cache.t1, Idle(protected))
           /\ OldestFirst(evict(n, protected), cache.t2, Idle(protected))
<1> DEFINE free == Idle(protected)
<1>1. SoundCache(cache, Key, DOMAIN blocks, DOMAIN blocks \ stores)
    BY DEF ManagerInv, Sound
<1> HIDE DEF free
<1>2. CASE config.cache_policy = "lru"
    <2>1. evict(n, protected) = lru_candidates(cache, n, free)
        BY <1>2 DEF evict, free
    <2> QED BY <2>1, <1>1, LruCandidates DEF free
<1>3. CASE config.cache_policy # "lru"
    <2>1. evict(n, protected) = arc_candidates(cache, n, free)
        BY <1>3 DEF evict, free
    <2> QED BY <2>1, <1>1, ArcCandidates DEF free
<1> QED BY <1>2, <1>3

\* Evicting cached blocks leaves a sound cache of the rest.
LEMMA EvictedSound ==
    ASSUME ManagerInv, NEW v \in Seq(Key), IsInjective(v), Range(v) \subseteq DOMAIN blocks
    PROVE  SoundCache(Evicted(v), Key, DOMAIN blocks \ Range(v), (DOMAIN blocks \ stores) \ Range(v))
<1> DEFINE K == DOMAIN blocks
           R == DOMAIN blocks \ stores
<1>1. SoundCache(cache, Key, K, R) /\ Range(v) \subseteq K
    BY DEF ManagerInv, Sound
<1> HIDE DEF K, R
<1>2. SoundCache(remove(cache, Range(v)), Key, K \ Range(v), R \ Range(v))
    BY <1>1, RemoveSound
<1>3. SoundCache(arc_evicted(cache, v), Key, K \ Range(v), R \ Range(v))
    BY <1>1, ArcEvictedSound
<1>4. Evicted(v) = remove(cache, Range(v)) \/ Evicted(v) = arc_evicted(cache, v)
    BY DEF Evicted
<1> QED BY <1>2, <1>3, <1>4 DEF K, R

\* The keys to store are a list without repetition of the keys asked for.
LEMMA EligibleFacts ==
    ASSUME NEW ks \in KeyList
    PROVE  EligibleKeys(ks) \in Seq(Key) /\ IsInjective(EligibleKeys(ks))
           /\ Range(EligibleKeys(ks)) \subseteq Range(ks)
<1>1. ks \in Seq(Key) /\ IsInjective(ks)
    BY KeyLists
<1> DEFINE J == {k \in Key : TimesSeen(k) >= store_threshold}
<1>2. EligibleKeys(ks) = ks \/ EligibleKeys(ks) = Only(ks, J)
    BY DEF EligibleKeys
<1> HIDE DEF J
<1>3. Only(ks, J) \in Seq(Key) /\ IsInjective(Only(ks, J)) /\ Range(Only(ks, J)) \subseteq Range(ks)
    BY <1>1, OnlyFacts
<1> QED BY <1>1, <1>2, <1>3

\* An accepted store of ks evicts v and takes in new.
StoreStep(ks, v, new) ==
    /\ IsVictims(v, Key, DOMAIN blocks, Len(v), Idle(ProtectedKeys(ks)))
    /\ OldestFirst(v, cache.t1, Idle(ProtectedKeys(ks)))
    /\ OldestFirst(v, cache.t2, Idle(ProtectedKeys(ks)))
    /\ new \in Seq(Key) /\ Range(new) = Range(EligibleKeys(ks)) \ DOMAIN blocks
    /\ DOMAIN blocks' = (DOMAIN blocks \ Range(v)) \cup Range(new)
    /\ \A k \in DOMAIN blocks \ Range(v) : blocks'[k] = blocks[k]
    /\ \A k \in Range(new) : blocks'[k].ref_cnt = NotReady
    /\ stores' = stores \cup Range(new)
    /\ UNCHANGED <<config, counts, loads, holds>>

\* An accepted prepare_store keeps the inductive invariant and is a store step.
LEMMA PrepareStoreStep ==
    ASSUME ManagerInv, NEW ks \in KeyList, prepare_store(ks)
    PROVE  ManagerInv' /\ \E v, new : StoreStep(ks, v, new)
<1> DEFINE new == Without(EligibleKeys(ks), DOMAIN blocks)
           n == num_allocated_blocks
           need == Len(new) - NumFreeBlocks
           P == ProtectedKeys(ks)
           v == IF need > 0 THEN evict(need, P) ELSE <<>>
           free == free_list \o IdsOf(blocks, v)
           ids == AllocatedIds(Len(new), free)
           fresh == {i \in DOMAIN ids : ids[i] >= n}
           e == blocks'
<1>1. Sound(blocks, cache, free_list, n, loads, holds, stores)
    BY DEF ManagerInv
<1>2. /\ need <= Len(v)
      /\ e = [k \in (DOMAIN blocks \ Range(v)) \cup Range(new) |->
                IF k \in DOMAIN blocks \ Range(v) THEN blocks[k]
                ELSE Block(ids[CHOOSE i \in DOMAIN new : new[i] = k], NotReady)]
      /\ cache' = insert(Evicted(v), new)
      /\ num_allocated_blocks' = n + Cardinality(fresh)
      /\ free_list' = SubSeq(free, 1, Len(free) - (Len(new) - Cardinality(fresh)))
      /\ stores' = stores \cup Range(new)
      /\ UNCHANGED <<config, counts, loads, holds>>
    BY Zenon DEF prepare_store, IdsOf
<1> HIDE DEF e
<1>3. /\ new \in Seq(Key) /\ IsInjective(new)
      /\ Range(new) = Range(EligibleKeys(ks)) \ DOMAIN blocks
    BY EligibleFacts, WithoutFacts
<1> HIDE DEF new
<1>4. n \in Nat /\ n <= num_blocks /\ Len(free_list) \in Nat /\ Len(new) \in Nat
    <2>1. n \in 0..num_blocks /\ free_list \in Seq(0..(n - 1))
        BY <1>1 DEF Sound, PoolSound
    <2> QED BY <2>1, <1>3, CapacityAssumption
<1>5. need \in Int /\ need = Len(new) - (Len(free_list) + num_blocks - n)
    BY <1>4, CapacityAssumption DEF NumFreeBlocks
<1> HIDE DEF need
<1>6. /\ IsVictims(v, Key, DOMAIN blocks, Len(v), Idle(P))
      /\ OldestFirst(v, cache.t1, Idle(P)) /\ OldestFirst(v, cache.t2, Idle(P))
    <2>1. CASE need > 0
        <3>1. need \in Nat /\ v = evict(need, P)
            BY <2>1, <1>5
        <3>2. /\ IsVictims(v, Key, DOMAIN blocks, need, Idle(P))
              /\ OldestFirst(v, cache.t1, Idle(P)) /\ OldestFirst(v, cache.t2, Idle(P))
            BY <3>1, EvictFacts
        <3> HIDE DEF v
        <3>3. Len(v) <= Len(v)
            <4>1. v \in Seq(Key)
                BY <3>2 DEF IsVictims
            <4> QED BY <4>1
        <3> QED BY <3>2, <3>3, Zenon DEF IsVictims
    <2>2. CASE ~(need > 0)
        <3> DEFINE w == <<>>
        <3>1. v = w
            BY <2>2
        <3>2. w \in Seq(Key) /\ IsInjective(w) /\ Range(w) = {} /\ Len(w) <= Len(w)
            BY DEF IsInjective, Range
        <3> HIDE DEF w, v
        <3> QED BY <3>1, <3>2 DEF IsVictims, OldestFirst
    <2> QED BY <2>1, <2>2, Zenon
<1> HIDE DEF v, P
<1>7. v \in Seq(Key) /\ IsInjective(v) /\ Range(v) \subseteq DOMAIN blocks /\ Len(v) \in Nat
      /\ \A k \in Range(v) : blocks[k].ref_cnt = 0
    <2>1. v \in Seq(Key) /\ IsInjective(v) /\ Range(v) \subseteq DOMAIN blocks \cap Idle(P)
        BY <1>6 DEF IsVictims
    <2> QED BY <2>1 DEF Idle
<1> DEFINE m == IF Len(new) < num_blocks - n THEN Len(new) ELSE num_blocks - n
<1>8. ids = [i \in 1..Len(new) |-> IF i <= m THEN n + i - 1 ELSE free[Len(free) - (i - m) + 1]]
    BY DEF AllocatedIds
<1> HIDE DEF m, ids
<1>9. Len(new) <= Len(free_list) + (num_blocks - n) + Len(v)
    BY <1>2, <1>4, <1>5, <1>7, CapacityAssumption
<1>10. Range(new) \cap DOMAIN blocks = {}
    BY <1>3
<1>11. Storing(blocks, stores, free_list, n, v, new, m, ids, e)
    BY <1>2, <1>3, <1>7, <1>8, <1>9, <1>10, Zenon DEF Storing, m
<1> DEFINE c2 == Evicted(v)
<1>12. SoundCache(c2, Key, DOMAIN blocks \ Range(v), (DOMAIN blocks \ stores) \ Range(v))
    BY <1>7, EvictedSound
<1> HIDE DEF c2
<1>13. /\ Cardinality(fresh) = m
       /\ Sound(e, insert(c2, new), SubSeq(free, 1, Len(free) - (Len(new) - m)),
                n + m, loads, holds, stores \cup Range(new))
    BY <1>1, <1>11, <1>12, SoundStored, Zenon
<1> HIDE DEF fresh, free
<1>14. Sound(blocks', cache', free_list', num_allocated_blocks', loads', holds', stores')
    BY <1>2, <1>13 DEF c2, e
<1>15. ManagerInv'
    BY <1>2, <1>14 DEF ManagerInv, store_threshold
<1>16. /\ DOMAIN e = (DOMAIN blocks \ Range(v)) \cup Range(new)
       /\ \A k \in DOMAIN blocks \ Range(v) : e[k] = blocks[k]
       /\ \A k \in Range(new) : e[k] = Block(ids[CHOOSE i \in DOMAIN new : new[i] = k], NotReady)
    BY <1>2, <1>10
<1>17. \A k \in Range(new) : e[k].ref_cnt = NotReady
    BY <1>16, BlockParts
<1>18. StoreStep(ks, v, new)
    BY <1>2, <1>3, <1>6, <1>16, <1>17, Zenon DEF StoreStep, P, e
<1> QED BY <1>15, <1>18

\* ManagerInv is inductive: it holds initially and every operation keeps it.
THEOREM ManagerInvariant == Spec => []ManagerInv
<1>1. Init => ManagerInv
    BY InitInv
<1>2. ManagerInv /\ [Next]_vars => ManagerInv'
    <2> SUFFICES ASSUME ManagerInv, [Next]_vars PROVE ManagerInv'
        OBVIOUS
    <2>1. ASSUME NEW k \in Key, lookup(k) PROVE ManagerInv'
        BY <2>1, LookupInv
    <2>2. ASSUME NEW K \in SUBSET Key, prepare_load(K) PROVE ManagerInv'
        BY <2>2, PrepareLoadInv
    <2>3. ASSUME NEW K \in SUBSET Key, complete_load(K) PROVE ManagerInv'
        BY <2>3, CompleteLoadInv
    <2>4. ASSUME NEW K \in SUBSET Key, retain(K) PROVE ManagerInv'
        BY <2>4, RetainInv
    <2>5. ASSUME NEW K \in SUBSET Key, release(K) PROVE ManagerInv'
        BY <2>5, ReleaseInv
    <2>6. ASSUME NEW ks \in KeyList, touch(ks) PROVE ManagerInv'
        BY <2>6, TouchInv
    <2>7. ASSUME NEW ks \in KeyList, prepare_store(ks) PROVE ManagerInv'
        BY <2>7, PrepareStoreStep
    <2>8. ASSUME NEW ks \in KeyList, complete_store(ks) PROVE ManagerInv'
        BY <2>8, CompleteStoreInv
    <2>9. ASSUME NEW ks \in KeyList, fail_store(ks) PROVE ManagerInv'
        BY <2>9, FailStoreInv
    <2>10. ASSUME reset_cache PROVE ManagerInv'
        BY <2>10, ResetInv
    <2>11. CASE UNCHANGED vars
        BY <2>11 DEF ManagerInv, vars, pool_vars, client_vars, store_threshold
    <2> QED BY <2>1, <2>2, <2>3, <2>4, <2>5, <2>6, <2>7, <2>8, <2>9, <2>10, <2>11 DEF Next
<1> QED BY <1>1, <1>2, PTL DEF Spec

-----------------------------------------------------------------------------
(* The theorems *)

\* Block ids stay in the pool, reference counts and the tracker within their
\* bounds, whatever the callers do.
THEOREM TypesKept == Spec => []TypeOK
<1>1. ManagerInv => TypeOK
    <2> SUFFICES ASSUME ManagerInv PROVE TypeOK
        OBVIOUS
    <2>1. Sound(blocks, cache, free_list, num_allocated_blocks, loads, holds, stores)
        BY DEF ManagerInv
    <2>2. /\ \A k \in DOMAIN blocks : blocks[k] = Block(blocks[k].block_id, blocks[k].ref_cnt)
          /\ DOMAIN blocks \subseteq Key /\ num_allocated_blocks \in 0..num_blocks
          /\ \A k \in DOMAIN blocks : blocks[k].block_id \in 0..(num_allocated_blocks - 1)
          /\ loads \in [Key -> 0..MaxRefs] /\ holds \in [Key -> 0..MaxRefs] /\ stores \subseteq Key
        BY <2>1 DEF Sound, PoolSound
    <2>3. \A k \in DOMAIN blocks : blocks[k].ref_cnt \in NotReady..(2 * MaxRefs)
        BY <2>1, ReadyKeys
    <2>4. \A k \in DOMAIN blocks : blocks[k].block_id \in 0..(num_blocks - 1)
        BY <2>2, CapacityAssumption
    <2>5. \A k \in DOMAIN blocks :
             blocks[k] \in [block_id : 0..(num_blocks - 1), ref_cnt : NotReady..(2 * MaxRefs)]
        BY <2>2, <2>3, <2>4 DEF Block
    <2>6. \A i \in DOMAIN counts : counts[i] \in [key : Key, n : 1..store_threshold]
        <3> DEFINE E == [key : Key, n : 1..store_threshold]
        <3>1. counts \in Seq(E)
            BY DEF ManagerInv
        <3> HIDE DEF E
        <3>2. \A i \in DOMAIN counts : counts[i] \in E
            BY <3>1
        <3> QED BY <3>2 DEF E
    <2> QED BY <2>2, <2>5, <2>6 DEF ManagerInv, TypeOK
<1> QED BY <1>1, ManagerInvariant, PTL

\* ref_cnt is what the callers owe, so the assertions of complete_load and
\* release never fail.
THEOREM RefCountsAreOwed == Spec => []RefCountsOutstanding
<1>1. ManagerInv => RefCountsOutstanding
    BY DEF ManagerInv, Sound, RefCountsOutstanding
<1> QED BY <1>1, ManagerInvariant, PTL

\* Evictions, failed stores and reuse neither leak a CPU block nor give one
\* block to two keys, and the policy orders exactly the resident keys.
THEOREM PoolIsPartitioned == Spec => []SlotsPartitioned
<1>1. ManagerInv => SlotsPartitioned
    <2> SUFFICES ASSUME ManagerInv PROVE SlotsPartitioned
        OBVIOUS
    <2> DEFINE K == DOMAIN blocks
               owned == {blocks[k].block_id : k \in K}
               n == num_allocated_blocks
    <2>1. /\ K \subseteq Key /\ PoolSound(blocks, free_list, n)
          /\ SoundCache(cache, Key, K, K \ stores)
        BY DEF ManagerInv, Sound
    <2>2. /\ free_list \in Seq(0..(n - 1)) /\ IsInjective(free_list)
          /\ \A k \in K : blocks[k].block_id \in 0..(n - 1) /\ blocks[k].block_id \notin Range(free_list)
          /\ \A k, l \in K : blocks[k].block_id = blocks[l].block_id => k = l
          /\ \A i \in 0..(n - 1) : i \in Range(free_list) \/ \E k \in K : blocks[k].block_id = i
        BY <2>1 DEF PoolSound
    <2>3. Cardinality(owned) = Cardinality(K)
        <3> DEFINE id == [k \in K |-> blocks[k].block_id]
        <3>1. id \in Bijection(K, owned)
            BY <2>2 DEF Bijection, Injection, Surjection, IsInjective
        <3>2. ExistsBijection(K, owned)
            BY <3>1 DEF ExistsBijection
        <3>3. IsFiniteSet(K)
            BY <2>1, FS_Subset, ManagerAssumption
        <3> HIDE DEF K, owned
        <3> QED BY <3>2, <3>3, FS_Bijection
    <2>4. Cardinality(Range(free_list)) = Len(free_list)
        <3> DEFINE X == 0..(n - 1)
        <3>1. free_list \in Seq(X) /\ IsInjective(free_list)
            BY <2>2
        <3> HIDE DEF X
        <3> QED BY <3>1, InjectiveCardinality
    <2>5. owned \cap Range(free_list) = {}
        BY <2>2
    <2>6. Range(free_list) \subseteq 0..(n - 1)
        <3> DEFINE X == 0..(n - 1)
        <3>1. free_list \in Seq(X)
            BY <2>2
        <3> HIDE DEF X
        <3>2. Range(free_list) \subseteq X
            BY <3>1, RangeFacts
        <3> QED BY <3>2 DEF X
    <2>7. owned \cup Range(free_list) = 0..(n - 1)
        BY <2>2, <2>6
    <2> DEFINE t == cache.t1 \o cache.t2
    <2>8. t \in Seq(Key) /\ IsInjective(t) /\ Range(t) = K
        <3>1. /\ cache.t1 \in Seq(Key) /\ cache.t2 \in Seq(Key)
              /\ IsInjective(cache.t1) /\ IsInjective(cache.t2)
              /\ Range(cache.t1) \cap Range(cache.t2) = {} /\ Range(cache.t1) \cup Range(cache.t2) = K
            <4> DEFINE R == K \ stores
            <4>1. SoundCache(cache, Key, K, R)
                BY <2>1
            <4> HIDE DEF K, R
            <4>2. SoundParts(cache, Key, K, R)
                BY <4>1, SoundHasParts
            <4> QED BY <4>2 DEF SoundParts
        <3>2. /\ t \in Seq(Key) /\ Range(t) = Range(cache.t1) \cup Range(cache.t2)
              /\ IsInjective(cache.t1) /\ IsInjective(cache.t2)
                 /\ Range(cache.t1) \cap Range(cache.t2) = {} <=> IsInjective(t)
            BY <3>1, ConcatFacts
        <3> QED BY <3>1, <3>2
    <2>9. Len(t) = Cardinality(K)
        <3> HIDE DEF t, K
        <3> QED BY <2>8, InjectiveCardinality
    <2> QED BY <2>3, <2>4, <2>5, <2>7, <2>8, <2>9 DEF SlotsPartitioned
<1> QED BY <1>1, ManagerInvariant, PTL

\* ARC's lists tell the truth about each key, and stay within the capacity.
THEOREM ArcStaysSound == Spec => []ArcListsSound
<1>1. ManagerInv => ArcListsSound
    <2> SUFFICES ASSUME ManagerInv PROVE ArcListsSound
        OBVIOUS
    <2> DEFINE K == DOMAIN blocks
               R == K \ stores
               g == cache.b1 \o cache.b2
    <2>1. SoundCache(cache, Key, K, R)
        BY DEF ManagerInv, Sound
    <2>2. Readied = R
        <3>1. Sound(blocks, cache, free_list, num_allocated_blocks, loads, holds, stores)
            BY DEF ManagerInv
        <3> QED BY <3>1, ReadyKeys DEF Readied
    <2> HIDE DEF R, K
    <2>3. SoundParts(cache, Key, K, R)
        BY <2>1, SoundHasParts
    <2>4. /\ cache.b1 \in Seq(Key) /\ cache.b2 \in Seq(Key)
          /\ IsInjective(cache.b1) /\ IsInjective(cache.b2)
          /\ Range(cache.b1) \cap Range(cache.b2) = {}
          /\ (Range(cache.b1) \cup Range(cache.b2)) \cap K = {}
        BY <2>3 DEF SoundParts
    <2>5. g \in Seq(Key) /\ IsInjective(g) /\ Range(g) = Range(cache.b1) \cup Range(cache.b2)
        <3>1. /\ g \in Seq(Key) /\ Range(g) = Range(cache.b1) \cup Range(cache.b2)
              /\ IsInjective(cache.b1) /\ IsInjective(cache.b2)
                 /\ Range(cache.b1) \cap Range(cache.b2) = {} <=> IsInjective(g)
            BY <2>4, ConcatFacts
        <3> QED BY <2>4, <3>1
    <2>6. Cardinality(Range(g)) = Len(g) /\ Range(g) \subseteq Key
        <3> HIDE DEF g
        <3> QED BY <2>5, InjectiveCardinality, RangeFacts, Zenon
    <2>7. Range(g) \subseteq Key \ DOMAIN blocks
        BY <2>4, <2>5, <2>6 DEF K
    <2> QED BY <2>2, <2>3, <2>6, <2>7 DEF ArcListsSound, SoundParts
<1> QED BY <1>1, ManagerInvariant, PTL
-----------------------------------------------------------------------------
(* The action properties *)

\* Only these operations change which key has which block.
LEMMA OtherSteps ==
    ASSUME ManagerInv, [Next]_vars
    PROVE  \/ \E ks \in KeyList : prepare_store(ks)
           \/ \E ks \in KeyList : fail_store(ks)
           \/ reset_cache
           \/ /\ DOMAIN blocks' = DOMAIN blocks
              /\ \A k \in DOMAIN blocks : blocks'[k].block_id = blocks[k].block_id
<1> DEFINE Same == /\ DOMAIN blocks' = DOMAIN blocks
                   /\ \A k \in DOMAIN blocks : blocks'[k].block_id = blocks[k].block_id
<1>1. ASSUME NEW k \in Key, lookup(k) PROVE Same
    BY <1>1 DEF lookup, pool_vars
<1>2. ASSUME NEW K, NEW d, blocks' = AddRef(K, d) PROVE Same
    <2>1. DOMAIN blocks' = DOMAIN blocks
        BY <1>2 DEF AddRef
    <2>2. \A k \in DOMAIN blocks :
             blocks'[k] = IF k \in K THEN Block(blocks[k].block_id, blocks[k].ref_cnt + d) ELSE blocks[k]
        BY <1>2 DEF AddRef
    <2> QED BY <2>1, <2>2, BlockParts
<1>3. ASSUME NEW K \in SUBSET Key, prepare_load(K) \/ complete_load(K) \/ retain(K) \/ release(K)
      PROVE  Same
    <2>1. CASE prepare_load(K)
        BY <2>1, <1>2 DEF prepare_load
    <2>2. CASE complete_load(K)
        BY <2>2, <1>2 DEF complete_load
    <2>3. CASE retain(K)
        BY <2>3, <1>2 DEF retain
    <2>4. CASE release(K)
        BY <2>4, <1>2 DEF release
    <2> QED BY <1>3, <2>1, <2>2, <2>3, <2>4
<1>4. ASSUME NEW ks \in KeyList, touch(ks) PROVE Same
    BY <1>4 DEF touch
<1>5. ASSUME NEW ks \in KeyList, complete_store(ks) PROVE Same
    <2> DEFINE done(k) == k \in Range(ks) /\ blocks[k].ref_cnt = NotReady
    <2>1. DOMAIN blocks' = DOMAIN blocks
        BY <1>5 DEF complete_store
    <2>2. \A k \in DOMAIN blocks :
             blocks'[k] = IF done(k) THEN Block(blocks[k].block_id, 0) ELSE blocks[k]
        BY <1>5 DEF complete_store
    <2> HIDE DEF done
    <2> QED BY <2>1, <2>2, BlockParts
<1>6. CASE UNCHANGED vars
    BY <1>6 DEF vars, pool_vars
<1> HIDE DEF Same
<1>7. CASE Next
    BY <1>7, <1>1, <1>3, <1>4, <1>5 DEF Next, Same
<1> QED BY <1>6, <1>7 DEF Same

\* A failed store gives up its own keys and nothing else.
LEMMA FailStep ==
    ASSUME ManagerInv, NEW ks \in KeyList, fail_store(ks)
    PROVE  /\ Range(ks) \subseteq stores
           /\ DOMAIN blocks' = DOMAIN blocks \ Range(ks)
           /\ \A k \in DOMAIN blocks' : blocks'[k] = blocks[k]
<1> DEFINE v == Only(ks, DOMAIN blocks \ Readied)
<1>1. /\ Range(ks) \subseteq stores
      /\ blocks' = [k \in DOMAIN blocks \ Range(v) |-> blocks[k]]
    BY DEF fail_store
<1>2. ks \in Seq(Key)
    BY KeyLists
<1>3. Range(v) = Range(ks) \cap (DOMAIN blocks \ Readied)
    BY <1>2, OnlyFacts
<1> HIDE DEF v
<1>4. Readied = DOMAIN blocks \ stores /\ stores \subseteq DOMAIN blocks
    <2>1. Sound(blocks, cache, free_list, num_allocated_blocks, loads, holds, stores)
        BY DEF ManagerInv
    <2> QED BY <2>1, ReadyKeys DEF Readied
<1>5. Range(v) = Range(ks)
    BY <1>1, <1>3, <1>4
<1> QED BY <1>1, <1>5

\* An eviction for another caller never moves a key somebody reads, retains
\* or writes.
THEOREM InUseNeverMoves == Spec => InUseStaysPut
<1> DEFINE A == \A k \in DOMAIN blocks : blocks[k].ref_cnt # 0 =>
                    \/ k \in DOMAIN blocks' /\ blocks'[k].block_id = blocks[k].block_id
                    \/ k \in stores /\ \E ks \in KeyList : k \in Range(ks) /\ fail_store(ks)
                    \/ reset_cache
<1>1. ManagerInv /\ [Next]_vars => A
    <2> SUFFICES ASSUME ManagerInv, [Next]_vars, NEW k \in DOMAIN blocks, blocks[k].ref_cnt # 0
                 PROVE  \/ k \in DOMAIN blocks' /\ blocks'[k].block_id = blocks[k].block_id
                        \/ k \in stores /\ \E ks \in KeyList : k \in Range(ks) /\ fail_store(ks)
                        \/ reset_cache
        OBVIOUS
    <2>1. ASSUME NEW ks \in KeyList, prepare_store(ks)
          PROVE  k \in DOMAIN blocks' /\ blocks'[k].block_id = blocks[k].block_id
        <3>1. PICK v, new : StoreStep(ks, v, new)
            BY <2>1, PrepareStoreStep
        <3>2. \A l \in Range(v) : blocks[l].ref_cnt = 0
            BY <3>1 DEF StoreStep, IsVictims, Idle
        <3>3. k \notin Range(v)
            BY <3>2
        <3> QED BY <3>1, <3>3 DEF StoreStep
    <2>2. ASSUME NEW ks \in KeyList, fail_store(ks)
          PROVE  \/ k \in DOMAIN blocks' /\ blocks'[k].block_id = blocks[k].block_id
                 \/ k \in stores /\ \E js \in KeyList : k \in Range(js) /\ fail_store(js)
        BY <2>2, FailStep, Zenon
    <2> QED BY <2>1, <2>2, OtherSteps
<1>2. ManagerInv /\ [Next]_vars => [A]_vars
    BY <1>1
<1> QED BY <1>2, ManagerInvariant, PTL DEF Spec, InUseStaysPut

\* Eviction goes in LRU order, with ARC within each list.
THEOREM EvictionTakesOldest == Spec => EvictsOldest
<1> DEFINE A == \A list \in {cache.t1, cache.t2} : \A i, j \in DOMAIN list :
                    j < i /\ list[i] \notin DOMAIN blocks'
                    /\ list[j] \in DOMAIN blocks' /\ blocks[list[j]].ref_cnt = 0
                    => \A ks \in KeyList : prepare_store(ks) => list[j] \in Range(ks)
<1>1. ManagerInv /\ [Next]_vars => A
    <2> SUFFICES ASSUME ManagerInv, NEW list \in {cache.t1, cache.t2},
                        NEW i \in DOMAIN list, NEW j \in DOMAIN list,
                        j < i, list[i] \notin DOMAIN blocks', list[j] \in DOMAIN blocks',
                        blocks[list[j]].ref_cnt = 0,
                        NEW ks \in KeyList, prepare_store(ks), list[j] \notin Range(ks)
                 PROVE  FALSE
        OBVIOUS
    <2>1. PICK v, new : StoreStep(ks, v, new)
        BY PrepareStoreStep
    <2> DEFINE free == Idle(ProtectedKeys(ks))
    <2>2. OldestFirst(v, list, free)
        BY <2>1 DEF StoreStep
    <2>3. Range(list) \subseteq DOMAIN blocks
        BY DEF ManagerInv, Sound, SoundCache
    <2>4. list[i] \in DOMAIN blocks /\ list[j] \in DOMAIN blocks
        BY <2>3 DEF Range
    <2>5. list[i] \in Range(v)
        BY <2>1, <2>4 DEF StoreStep
    <2>6. list[j] \in free
        BY <2>4, EligibleFacts DEF Idle, ProtectedKeys
    <2> HIDE DEF free
    <2>7. list[j] \in Range(v)
        BY <2>2, <2>5, <2>6 DEF OldestFirst
    <2> QED BY <2>1, <2>4, <2>7 DEF StoreStep
<1>2. ManagerInv /\ [Next]_vars => [A]_vars
    BY <1>1
<1> QED BY <1>2, ManagerInvariant, PTL DEF Spec, EvictsOldest

\* Without the tracker, a store never evicts a key of its own call.
THEOREM InputsAreKept == Spec => StoredInputsStay
<1> DEFINE A == ~TracksLookups =>
                    \A k \in DOMAIN blocks \ DOMAIN blocks' : \A ks \in KeyList :
                        k \in Range(ks) => ~prepare_store(ks)
<1>1. ManagerInv /\ [Next]_vars => A
    <2> SUFFICES ASSUME ManagerInv, ~TracksLookups, NEW k \in DOMAIN blocks \ DOMAIN blocks',
                        NEW ks \in KeyList, k \in Range(ks), prepare_store(ks)
                 PROVE  FALSE
        OBVIOUS
    <2>1. PICK v, new : StoreStep(ks, v, new)
        BY PrepareStoreStep
    <2>2. Range(v) \subseteq Idle(ProtectedKeys(ks)) /\ k \in Range(v)
        BY <2>1 DEF StoreStep, IsVictims
    <2>3. ProtectedKeys(ks) = Range(ks)
        BY DEF ProtectedKeys, EligibleKeys
    <2> QED BY <2>2, <2>3 DEF Idle
<1>2. ManagerInv /\ [Next]_vars => [A]_vars
    BY <1>1
<1> QED BY <1>2, ManagerInvariant, PTL DEF Spec, StoredInputsStay

\* With the tracker, only keys looked up store_threshold times are stored.
THEOREM FrequentKeysOnly == Spec => OnlyFrequentStored
<1> DEFINE A == TracksLookups =>
                    \A k \in DOMAIN blocks' \ DOMAIN blocks :
                        \E i \in DOMAIN counts : counts[i].key = k /\ counts[i].n >= store_threshold
<1>1. ManagerInv /\ [Next]_vars => A
    <2> SUFFICES ASSUME ManagerInv, [Next]_vars, TracksLookups, NEW k \in DOMAIN blocks' \ DOMAIN blocks
                 PROVE  \E i \in DOMAIN counts : counts[i].key = k /\ counts[i].n >= store_threshold
        OBVIOUS
    <2>1. ~reset_cache
        BY DEF reset_cache
    <2>2. \A ks \in KeyList : ~fail_store(ks)
        BY FailStep, Zenon
    <2>3. PICK ks \in KeyList : prepare_store(ks)
        BY <2>1, <2>2, OtherSteps
    <2>4. PICK v, new : StoreStep(ks, v, new)
        BY <2>3, PrepareStoreStep
    <2>5. k \in Range(EligibleKeys(ks))
        BY <2>4 DEF StoreStep
    <2> DEFINE J == {l \in Key : TimesSeen(l) >= store_threshold}
    <2>6. EligibleKeys(ks) = Only(ks, J)
        BY DEF EligibleKeys
    <2>7. k \in J
        <3> HIDE DEF J
        <3>1. ks \in Seq(Key)
            BY KeyLists
        <3> QED BY <2>5, <2>6, <3>1, OnlyFacts
    <2> DEFINE seen == {i \in DOMAIN counts : counts[i].key = k}
               at == CHOOSE i \in seen : TRUE
    <2>8. TimesSeen(k) = IF seen = {} THEN 0 ELSE counts[at].n
        BY DEF TimesSeen
    <2>9. store_threshold \in Nat /\ store_threshold >= 2
        BY ManagerAssumption DEF ManagerInv, TracksLookups, store_threshold
    <2>10. seen # {}
        <3> SUFFICES ASSUME seen = {} PROVE FALSE
            OBVIOUS
        <3>1. TimesSeen(k) = 0 /\ TimesSeen(k) >= store_threshold
            BY <2>7, <2>8
        <3> QED BY <3>1, <2>9
    <2>11. at \in seen
        BY <2>10
    <2> HIDE DEF at
    <2>12. counts[at].n >= store_threshold
        BY <2>7, <2>8, <2>10
    <2> QED BY <2>11, <2>12
<1>2. ManagerInv /\ [Next]_vars => [A]_vars
    BY <1>1
<1> QED BY <1>2, ManagerInvariant, PTL DEF Spec, OnlyFrequentStored

-----------------------------------------------------------------------------
(* The abstract store *)

\* The refinement mapping, and the same two functions read off the keys of the
\* pool and what the callers owe.
StatusOf(b) == [k \in Key |-> IF k \notin DOMAIN b THEN "absent"
                              ELSE IF b[k].ref_cnt = NotReady THEN "writing" ELSE "ready"]

ReadersOf(b) == [k \in Key |-> IF k \in DOMAIN b /\ b[k].ref_cnt > 0 THEN b[k].ref_cnt ELSE 0]

StatusView(D, s) == [k \in Key |-> IF k \notin D THEN "absent"
                                   ELSE IF k \in s THEN "writing" ELSE "ready"]

ReadersView(l, h) == [k \in Key |-> l[k] + h[k]]

\* What the abstract store sees of a sound manager.
LEMMA StoreView ==
    ASSUME NEW b, NEW c, NEW f, NEW n, NEW l, NEW h, NEW s, Sound(b, c, f, n, l, h, s)
    PROVE  /\ StatusOf(b) = StatusView(DOMAIN b, s)
           /\ ReadersOf(b) = ReadersView(l, h)
           /\ DOMAIN b \subseteq Key /\ s \subseteq DOMAIN b
           /\ \A k \in Key : l[k] \in Nat /\ h[k] \in Nat /\ l[k] + h[k] \in Nat
           /\ \A k \in Key : l[k] + h[k] > 0 => k \in DOMAIN b \ s
           /\ Cardinality(DOMAIN b) <= num_blocks
<1>1. \A k \in Key : l[k] \in Nat /\ h[k] \in Nat /\ l[k] + h[k] \in Nat
    BY ManagerAssumption DEF Sound
<1>2. /\ \A k \in DOMAIN b : b[k].ref_cnt = IF k \in s THEN NotReady ELSE l[k] + h[k]
      /\ DOMAIN b \subseteq Key /\ s \subseteq Key
      /\ \A k \in Key \ DOMAIN b : k \notin s /\ l[k] + h[k] = 0
      /\ \A k \in s : l[k] + h[k] = 0
    BY DEF Sound
<1>3. s \subseteq DOMAIN b
    BY <1>2
<1>4. ASSUME NEW k \in DOMAIN b PROVE b[k].ref_cnt = NotReady <=> k \in s
    <2>1. l[k] + h[k] \in Nat /\ b[k].ref_cnt = IF k \in s THEN NotReady ELSE l[k] + h[k]
        BY <1>1, <1>2
    <2> QED BY <2>1, SMTT(30) DEF NotReady
<1>5. StatusOf(b) = StatusView(DOMAIN b, s)
    BY <1>4 DEF StatusOf, StatusView
<1>6. \A k \in Key : (IF k \in DOMAIN b /\ b[k].ref_cnt > 0 THEN b[k].ref_cnt ELSE 0) = l[k] + h[k]
    BY <1>1, <1>2 DEF NotReady
<1>7. ReadersOf(b) = ReadersView(l, h)
    BY <1>6 DEF ReadersOf, ReadersView
<1>8. \A k \in Key : l[k] + h[k] > 0 => k \in DOMAIN b \ s
    BY <1>1, <1>2
<1>9. Cardinality(DOMAIN b) <= num_blocks
    <2> DEFINE D == DOMAIN b
               X == 0..(num_blocks - 1)
               id == [k \in D |-> b[k].block_id]
    <2>1. /\ \A k \in D : b[k].block_id \in 0..(n - 1)
          /\ \A j, k \in D : b[j].block_id = b[k].block_id => j = k
          /\ n \in 0..num_blocks
        BY DEF Sound, PoolSound
    <2>2. \A k \in D : b[k].block_id \in X
        BY <2>1, CapacityAssumption
    <2>3. id \in Injection(D, X)
        BY <2>1, <2>2 DEF Injection, IsInjective
    <2>4. IsFiniteSet(X) /\ Cardinality(X) = num_blocks
        BY CapacityAssumption, FS_Interval
    <2> HIDE DEF D, X, id
    <2>5. Cardinality(D) <= Cardinality(X)
        BY <2>3, <2>4, FS_Injection
    <2> QED BY <2>4, <2>5 DEF D
<1> QED BY <1>1, <1>2, <1>3, <1>5, <1>7, <1>8, <1>9

\* Each call of the manager is that call of the store, or leaves it alone:
\* lookup and touch change only the tracker and the order of the policy.
LEMMA StepRefines ==
    ASSUME ManagerInv, ManagerInv', [Next]_vars
    PROVE  [Store!StoreNext]_(Store!store_vars)
<1> DEFINE S == StatusOf(blocks)
           R == ReadersOf(blocks)
           D == DOMAIN blocks
<1>1. /\ S = StatusView(D, stores) /\ R = ReadersView(loads, holds)
      /\ D \subseteq Key /\ stores \subseteq D
      /\ \A k \in Key : loads[k] \in Nat /\ holds[k] \in Nat /\ loads[k] + holds[k] \in Nat
      /\ \A k \in Key : loads[k] + holds[k] > 0 => k \in D \ stores
    <2>1. Sound(blocks, cache, free_list, num_allocated_blocks, loads, holds, stores)
        BY DEF ManagerInv
    <2> QED BY <2>1, StoreView
<1>2. /\ S' = StatusView(D', stores') /\ R' = ReadersView(loads', holds')
      /\ D' \subseteq Key /\ Cardinality(D') <= num_blocks
    <2> DEFINE e == blocks'
    <2>1. Sound(e, cache', free_list', num_allocated_blocks', loads', holds', stores')
        BY DEF ManagerInv
    <2> HIDE DEF e
    <2>2. /\ StatusOf(e) = StatusView(DOMAIN e, stores') /\ ReadersOf(e) = ReadersView(loads', holds')
          /\ DOMAIN e \subseteq Key /\ Cardinality(DOMAIN e) <= num_blocks
        BY <2>1, StoreView
    <2> QED BY <2>2 DEF e
<1>3. Readied = D \ stores
    <2>1. Sound(blocks, cache, free_list, num_allocated_blocks, loads, holds, stores)
        BY DEF ManagerInv
    <2> QED BY <2>1, ReadyKeys DEF Readied
<1>4. S' = S /\ R' = R => UNCHANGED Store!store_vars
    BY DEF Store!store_vars, StatusOf, ReadersOf
<1>5. ASSUME NEW K \in SUBSET Key, \A k \in K : S[k] = "ready", S' = S,
             R' = [k \in Key |-> IF k \in K THEN R[k] + 1 ELSE R[k]]
      PROVE  Store!prepare_load(K)
    BY <1>5 DEF Store!prepare_load, Store!Ready, Store!Acquired, StatusOf, ReadersOf
<1>6. ASSUME NEW K \in SUBSET Key, \A k \in K : S[k] = "ready" /\ R[k] > 0, S' = S,
             R' = [k \in Key |-> IF k \in K THEN R[k] - 1 ELSE R[k]]
      PROVE  Store!complete_load(K)
    BY <1>6 DEF Store!complete_load, Store!Dropped, StatusOf, ReadersOf
<1>7. ASSUME NEW K \in SUBSET Key, NEW ok \in BOOLEAN, R' = R,
             S' = [k \in Key |-> IF k \in K /\ S[k] = "writing"
                                 THEN IF ok THEN "ready" ELSE "absent" ELSE S[k]]
      PROVE  Store!complete_store(K, ok)
    BY <1>7 DEF Store!complete_store, Store!Completed, StatusOf, ReadersOf
<1>8. ASSUME NEW K \in SUBSET Key, NEW N \in SUBSET K, NEW E \in SUBSET (Key \ K), R' = R,
             \A k \in N : S[k] = "absent",
             \A k \in E : S[k] = "ready" /\ R[k] = 0,
             Cardinality(({k \in Key : S[k] # "absent"} \ E) \cup N) <= num_blocks,
             S' = [k \in Key |-> IF k \in N THEN "writing" ELSE IF k \in E THEN "absent" ELSE S[k]]
      PROVE  Store!prepare_store(K)
    <2>0. \A X : Store!Cardinality(X) = Cardinality(X)
        BY DEF Store!Cardinality, Cardinality
    <2>1. Store!CanPrepare(S, R, K, N, E)
        BY <1>8, <2>0 DEF Store!CanPrepare, Store!Evictable, Store!Ready, Store!Resident
    <2>2. S' = Store!Prepared(S, N, E)
        BY <1>8 DEF Store!Prepared
    <2> QED BY <1>8, <2>1, <2>2, Zenon DEF Store!prepare_store, StatusOf, ReadersOf
<1>9. ASSUME S' = [k \in Key |-> "absent"], R' = [k \in Key |-> 0]
      PROVE  Store!reset_cache
    BY <1>9 DEF Store!reset_cache, StatusOf, ReadersOf
<1> HIDE DEF S, R
<1>10. ASSUME NEW k \in Key, lookup(k) PROVE S' = S /\ R' = R
    BY <1>10 DEF lookup, pool_vars, S, R
<1>11. ASSUME NEW ks \in KeyList, touch(ks) PROVE S' = S /\ R' = R
    BY <1>11 DEF touch, S, R
<1>12. ASSUME NEW K \in SUBSET Key, prepare_load(K) PROVE Store!prepare_load(K)
    <2>1. D' = D /\ stores' = stores /\ holds' = holds /\ K \subseteq D \ stores
        BY <1>12, <1>3 DEF prepare_load, AddRef, IsReady
    <2>2. loads' = [k \in Key |-> IF k \in K THEN loads[k] + 1 ELSE loads[k]]
        BY <1>12 DEF prepare_load
    <2>3. S' = S /\ \A k \in K : S[k] = "ready"
        BY <1>1, <1>2, <2>1 DEF StatusView
    <2>4. R' = [k \in Key |-> IF k \in K THEN R[k] + 1 ELSE R[k]]
        BY <1>1, <1>2, <2>1, <2>2 DEF ReadersView
    <2> QED BY <1>5, <2>3, <2>4
<1>13. ASSUME NEW K \in SUBSET Key, complete_load(K) PROVE Store!complete_load(K)
    <2>1. D' = D /\ stores' = stores /\ holds' = holds /\ \A k \in K : loads[k] > 0
        BY <1>13 DEF complete_load, AddRef
    <2>2. loads' = [k \in Key |-> IF k \in K THEN loads[k] - 1 ELSE loads[k]]
        BY <1>13 DEF complete_load
    <2>3. \A k \in K : loads[k] + holds[k] > 0
        BY <1>1, <2>1
    <2>4. S' = S /\ \A k \in K : S[k] = "ready"
        BY <1>1, <1>2, <2>1, <2>3 DEF StatusView
    <2>5. R' = [k \in Key |-> IF k \in K THEN R[k] - 1 ELSE R[k]] /\ \A k \in K : R[k] > 0
        BY <1>1, <1>2, <2>1, <2>2, <2>3 DEF ReadersView
    <2> QED BY <1>6, <2>4, <2>5
<1>14. ASSUME NEW K \in SUBSET Key, retain(K) PROVE \E L \in SUBSET Key : Store!prepare_load(L)
    <2> DEFINE L == {k \in K : IsReady(k)}
    <2>1. D' = D /\ stores' = stores /\ loads' = loads /\ L \subseteq D \ stores
        BY <1>14, <1>3 DEF retain, AddRef, IsReady
    <2>2. holds' = [k \in Key |-> IF k \in L THEN holds[k] + 1 ELSE holds[k]]
        BY <1>14 DEF retain
    <2>3. L \in SUBSET Key
        OBVIOUS
    <2> HIDE DEF L
    <2>4. S' = S /\ \A k \in L : S[k] = "ready"
        BY <1>1, <1>2, <2>1, <2>3 DEF StatusView
    <2>5. R' = [k \in Key |-> IF k \in L THEN R[k] + 1 ELSE R[k]]
        BY <1>1, <1>2, <2>1, <2>2, <2>3 DEF ReadersView
    <2> QED BY <1>5, <2>3, <2>4, <2>5
<1>15. ASSUME NEW K \in SUBSET Key, release(K) PROVE Store!complete_load(K)
    <2>1. D' = D /\ stores' = stores /\ loads' = loads /\ \A k \in K : holds[k] > 0
        BY <1>15 DEF release, AddRef
    <2>2. holds' = [k \in Key |-> IF k \in K THEN holds[k] - 1 ELSE holds[k]]
        BY <1>15 DEF release
    <2>3. \A k \in K : loads[k] + holds[k] > 0
        BY <1>1, <2>1
    <2>4. S' = S /\ \A k \in K : S[k] = "ready"
        BY <1>1, <1>2, <2>1, <2>3 DEF StatusView
    <2>5. R' = [k \in Key |-> IF k \in K THEN R[k] - 1 ELSE R[k]] /\ \A k \in K : R[k] > 0
        BY <1>1, <1>2, <2>1, <2>2, <2>3 DEF ReadersView
    <2> QED BY <1>6, <2>4, <2>5
<1>16. ASSUME NEW ks \in KeyList, prepare_store(ks)
       PROVE  \E K \in SUBSET Key : Store!prepare_store(K)
    <2>1. PICK v, new : StoreStep(ks, v, new)
        BY <1>16, PrepareStoreStep
    <2>3. PICK K \in SUBSET Key : K = Range(EligibleKeys(ks))
        BY EligibleFacts, RangeFacts
    <2> DEFINE N == Range(new)
               E == Range(v)
    <2>2. /\ D' = (D \ E) \cup N /\ stores' = stores \cup N /\ loads' = loads /\ holds' = holds
          /\ N = K \ D /\ E \subseteq Idle(K)
        BY <2>1, <2>3 DEF StoreStep, IsVictims, ProtectedKeys
    <2>4. E \subseteq (D \ K) \cap Readied /\ \A k \in E : blocks[k].ref_cnt = 0
        BY <2>2 DEF Idle, Readied
    <2> HIDE DEF N, E
    <2>5. \A k \in E : R[k] = 0
        <3>1. \A k \in E : k \in Key /\ blocks[k].ref_cnt = 0
            BY <1>1, <2>4
        <3> QED BY <3>1 DEF R, ReadersOf
    <2>6. N \in SUBSET K /\ E \in SUBSET (Key \ K) /\ E \subseteq D \ stores
        BY <1>1, <1>3, <2>2, <2>4
    <2>7. R' = R
        BY <1>1, <1>2, <2>2
    <2>8. (\A k \in N : S[k] = "absent") /\ (\A k \in E : S[k] = "ready")
        BY <1>1, <2>2, <2>3, <2>6 DEF StatusView
    <2>9. {k \in Key : S[k] # "absent"} = D
        BY <1>1, Zenon DEF StatusView
    <2>10. S' = [k \in Key |-> IF k \in N THEN "writing" ELSE IF k \in E THEN "absent" ELSE S[k]]
        BY <1>1, <1>2, <2>2, <2>6 DEF StatusView
    <2>11. Cardinality(({k \in Key : S[k] # "absent"} \ E) \cup N) <= num_blocks
        BY <1>2, <2>2, <2>9
    <2>12. Store!prepare_store(K)
        BY <1>8, <2>5, <2>6, <2>7, <2>8, <2>10, <2>11, Zenon
    <2> QED BY <2>12
<1>17. ASSUME NEW ks \in KeyList, complete_store(ks)
       PROVE  \E K \in SUBSET Key : Store!complete_store(K, TRUE)
    <2> DEFINE K == Range(ks)
    <2>1. D' = D /\ stores' = stores \ K /\ loads' = loads /\ holds' = holds /\ K \subseteq stores
        BY <1>17 DEF complete_store
    <2>2. K \in SUBSET Key
        BY <1>1, <2>1
    <2> HIDE DEF K
    <2>3. R' = R
        BY <1>1, <1>2, <2>1
    <2>4. S' = [k \in Key |-> IF k \in K /\ S[k] = "writing"
                              THEN IF TRUE THEN "ready" ELSE "absent" ELSE S[k]]
        BY <1>1, <1>2, <2>1 DEF StatusView
    <2> QED BY <1>7, <2>2, <2>3, <2>4, Zenon
<1>18. ASSUME NEW ks \in KeyList, fail_store(ks)
       PROVE  \E K \in SUBSET Key : Store!complete_store(K, FALSE)
    <2> DEFINE K == Range(ks)
    <2>1. D' = D \ K /\ K \subseteq stores
        BY <1>18, FailStep
    <2>2. stores' = stores \ K /\ loads' = loads /\ holds' = holds
        BY <1>18 DEF fail_store
    <2>3. K \in SUBSET Key
        BY <1>1, <2>1
    <2> HIDE DEF K
    <2>4. R' = R
        BY <1>1, <1>2, <2>2
    <2>5. S' = [k \in Key |-> IF k \in K /\ S[k] = "writing"
                              THEN IF FALSE THEN "ready" ELSE "absent" ELSE S[k]]
        BY <1>1, <1>2, <2>1, <2>2 DEF StatusView
    <2> QED BY <1>7, <2>3, <2>4, <2>5, Zenon
<1>19. ASSUME reset_cache PROVE Store!reset_cache
    <2>1. D' = {} /\ loads' = [k \in Key |-> 0] /\ holds' = [k \in Key |-> 0]
        BY <1>19 DEF reset_cache
    <2>2. S' = [k \in Key |-> "absent"]
        BY <1>2, <2>1 DEF StatusView
    <2>3. R' = [k \in Key |-> 0]
        BY <1>2, <2>1 DEF ReadersView
    <2> QED BY <1>9, <2>2, <2>3
<1>20. CASE UNCHANGED vars
    <2>1. S' = S /\ R' = R
        BY <1>20 DEF vars, pool_vars, S, R
    <2> QED BY <1>4, <2>1
<1>21. CASE Next
    BY <1>21, <1>4, <1>10, <1>11, <1>12, <1>13, <1>14, <1>15, <1>16, <1>17, <1>18, <1>19, Zenon
       DEF Next, Store!StoreNext
<1> QED BY <1>20, <1>21

\* Every run of the manager is a run of the store its interface promises.
THEOREM RefinesOffloadStore == Spec => ImplementsOffloadStore
<1>1. Init => Store!StoreInit
    BY DEF Init, Store!StoreInit
<1>2. ManagerInv /\ ManagerInv' /\ [Next]_vars => [Store!StoreNext]_(Store!store_vars)
    BY StepRefines
<1> QED BY <1>1, <1>2, ManagerInvariant, PTL DEF Spec, ImplementsOffloadStore, Store!StoreSpec
=============================================================================
