------------------------ MODULE CPUOffloadingManager ------------------------
(***************************************************************************)
(* CPUOffloadingManager (vllm/v1/kv_offload/cpu/manager.py): the CPU block *)
(* pool, the resident keys in the order of the eviction policy, reference  *)
(* counts, and the frequency tracker that store_threshold >= 2 turns on.   *)
(*                                                                         *)
(* loads, holds and stores are what the callers still owe the manager:     *)
(* loads to complete, retentions to release, stores to complete.  They     *)
(* restrict the calls to those the callers make.                           *)
(***************************************************************************)
EXTENDS CachePolicy

CONSTANTS
    Key,
    Config,        \* the policies and thresholds a manager may be built with
    max_tracker_size,
    MaxRefs        \* bound on loads in flight, and on retentions, of one key

ASSUME ManagerAssumption ==
    /\ IsFiniteSet(Key)
    /\ Config \subseteq [cache_policy : {"lru", "arc"}, store_threshold : Nat]
    /\ max_tracker_size \in Nat \ {0} /\ MaxRefs \in Nat

VARIABLES
    config,                \* fixed by __init__
    blocks,                \* resident key -> BlockStatus
    cache,                 \* _policy: the resident keys in its order, and ghosts
    free_list,             \* freed block ids, a stack
    num_allocated_blocks,  \* ids handed out at least once since the last reset
    counts,                \* tracker entries, least recently looked up first
    loads, holds, stores

pool_vars == <<config, blocks, cache, free_list, num_allocated_blocks>>
client_vars == <<loads, holds, stores>>
vars == <<pool_vars, counts, client_vars>>

KeyList == UNION {{ks \in [1..n -> Key] : IsInjective(ks)} : n \in 0..Cardinality(Key)}

NotReady == -1

Block(id, refs) == [block_id |-> id, ref_cnt |-> refs]

Readied == {k \in DOMAIN blocks : blocks[k].ref_cnt >= 0}

IsReady(k) == k \in Readied

store_threshold == config.store_threshold

TracksLookups == store_threshold >= 2

Init ==
    /\ config \in Config
    /\ blocks = <<>>
    /\ cache = EmptyCache
    /\ free_list = <<>>
    /\ num_allocated_blocks = 0
    /\ counts = <<>>
    /\ loads = [k \in Key |-> 0]
    /\ holds = [k \in Key |-> 0]
    /\ stores = {}

-----------------------------------------------------------------------------
(* Block pool *)

NumFreeBlocks == Len(free_list) + num_blocks - num_allocated_blocks

\* Seeded faults: referenced keys, and keys still being written, are evicted.
Idle_referenced(protected) == DOMAIN blocks \ protected

Idle_unready(protected) == {k \in DOMAIN blocks \ protected : blocks[k].ref_cnt <= 0}

\* The keys an eviction may take.
Idle(protected) == {k \in DOMAIN blocks \ protected : blocks[k].ref_cnt = 0}

\* The keys evict takes, in its order: n of them, or fewer where it gives up.
evict(n, protected) ==
    IF config.cache_policy = "lru" THEN lru_candidates(cache, n, Idle(protected))
    ELSE arc_candidates(cache, n, Idle(protected))

Evicted(victims) ==
    IF config.cache_policy = "lru" THEN remove(cache, Range(victims))
    ELSE arc_evicted(cache, victims)

\* Seeded fault: fresh ids are handed out past the end of the pool.
AllocatedIds_unbounded(n, free) == [i \in 1..n |-> num_allocated_blocks + i - 1]

\* Block ids for n new keys: fresh ids first, then the top of the stack free.
AllocatedIds(n, free) ==
    LET fresh == IF n < num_blocks - num_allocated_blocks
                 THEN n ELSE num_blocks - num_allocated_blocks
    IN  [i \in 1..n |-> IF i <= fresh THEN num_allocated_blocks + i - 1
                        ELSE free[Len(free) - (i - fresh) + 1]]

TimesSeen(k) ==
    LET seen == {i \in DOMAIN counts : counts[i].key = k}
    IN  IF seen = {} THEN 0 ELSE counts[CHOOSE i \in seen : TRUE].n

AddRef(K, d) ==
    [k \in DOMAIN blocks |->
        IF k \in K THEN Block(blocks[k].block_id, blocks[k].ref_cnt + d) ELSE blocks[k]]

-----------------------------------------------------------------------------
(* The tracker counts up to store_threshold only: counts are compared with *)
(* the threshold and with nothing else.                                    *)
lookup(k) ==
    /\ TracksLookups
    /\ LET others == Without(counts, {c \in Range(counts) : c.key = k})
           kept == IF TimesSeen(k) = 0 /\ Len(counts) >= max_tracker_size
                   THEN Tail(others) ELSE others
           n == IF TimesSeen(k) < store_threshold THEN TimesSeen(k) + 1 ELSE store_threshold
       IN  counts' = Append(kept, [key |-> k, n |-> n])
    /\ UNCHANGED <<pool_vars, client_vars>>

touch(ks) ==
    /\ cache' = IF config.cache_policy = "lru" THEN lru_touch(cache, ks)
                ELSE arc_touch(cache, ks, Readied)
    /\ UNCHANGED <<config, blocks, free_list, num_allocated_blocks, counts, client_vars>>

prepare_load(K) ==
    /\ \A k \in K : IsReady(k) /\ loads[k] < MaxRefs
    /\ blocks' = AddRef(K, 1)
    /\ loads' = [k \in Key |-> IF k \in K THEN loads[k] + 1 ELSE loads[k]]
    /\ UNCHANGED <<config, cache, free_list, num_allocated_blocks, counts, holds, stores>>

complete_load(K) ==
    /\ \A k \in K : loads[k] > 0
    /\ blocks' = AddRef(K, -1)
    /\ loads' = [k \in Key |-> IF k \in K THEN loads[k] - 1 ELSE loads[k]]
    /\ UNCHANGED <<config, cache, free_list, num_allocated_blocks, counts, holds, stores>>

\* Seeded fault: keys still being written are retained as well.
retain_unready(K) ==
    LET retained == K \cap DOMAIN blocks
    IN  /\ \A k \in retained : holds[k] < MaxRefs
        /\ blocks' = AddRef(retained, 1)
        /\ holds' = [k \in Key |-> IF k \in retained THEN holds[k] + 1 ELSE holds[k]]
        /\ UNCHANGED <<config, cache, free_list, num_allocated_blocks, counts, loads, stores>>

retain(K) ==
    LET retained == {k \in K : IsReady(k)}
    IN  /\ \A k \in retained : holds[k] < MaxRefs
        /\ blocks' = AddRef(retained, 1)
        /\ holds' = [k \in Key |-> IF k \in retained THEN holds[k] + 1 ELSE holds[k]]
        /\ UNCHANGED <<config, cache, free_list, num_allocated_blocks, counts, loads, stores>>

release(K) ==
    /\ \A k \in K : holds[k] > 0
    /\ blocks' = AddRef(K, -1)
    /\ holds' = [k \in Key |-> IF k \in K THEN holds[k] - 1 ELSE holds[k]]
    /\ UNCHANGED <<config, cache, free_list, num_allocated_blocks, counts, loads, stores>>

\* Seeded fault: the tracker is not consulted.
EligibleKeys_all(ks) == ks

\* The keys of the call that the tracker lets through.
EligibleKeys(ks) ==
    IF TracksLookups THEN Only(ks, {k \in Key : TimesSeen(k) >= store_threshold}) ELSE ks

\* Seeded fault: nothing is protected.
ProtectedKeys_none(ks) == {}

ProtectedKeys(ks) == Range(EligibleKeys(ks))

\* An accepted store.  A store of nothing new, and one that cannot evict
\* enough (the call returns None), leave the manager as it is.
prepare_store(ks) ==
    LET new == Without(EligibleKeys(ks), DOMAIN blocks)
        need == Len(new) - NumFreeBlocks
        victims == IF need > 0 THEN evict(need, ProtectedKeys(ks)) ELSE <<>>
        free == free_list \o [i \in DOMAIN victims |-> blocks[victims[i]].block_id]
        ids == AllocatedIds(Len(new), free)
        fresh == {i \in DOMAIN ids : ids[i] >= num_allocated_blocks}
        survivors == DOMAIN blocks \ Range(victims)
    IN  /\ new # <<>>
        /\ need <= Len(victims)
        /\ blocks' = [k \in survivors \cup Range(new) |->
                        IF k \in survivors THEN blocks[k]
                        ELSE Block(ids[CHOOSE i \in DOMAIN new : new[i] = k], NotReady)]
        /\ cache' = insert(Evicted(victims), new)
        /\ num_allocated_blocks' = num_allocated_blocks + Cardinality(fresh)
        /\ free_list' = SubSeq(free, 1, Len(free) - (Len(new) - Cardinality(fresh)))
        /\ stores' = stores \cup Range(new)
        /\ UNCHANGED <<config, counts, loads, holds>>

complete_store(ks) ==
    /\ Range(ks) \subseteq stores
    /\ blocks' = [k \in DOMAIN blocks |->
                    IF k \in Range(ks) /\ blocks[k].ref_cnt = NotReady
                    THEN Block(blocks[k].block_id, 0) ELSE blocks[k]]
    /\ stores' = stores \ Range(ks)
    /\ UNCHANGED <<config, cache, free_list, num_allocated_blocks, counts, loads, holds>>

\* Seeded fault: the block of a failed store is not put back.
fail_store_leak(ks) ==
    LET removed == Only(ks, DOMAIN blocks \ Readied)
    IN  /\ Range(ks) \subseteq stores
        /\ blocks' = [k \in DOMAIN blocks \ Range(removed) |-> blocks[k]]
        /\ cache' = remove(cache, Range(removed))
        /\ stores' = stores \ Range(ks)
        /\ UNCHANGED <<config, free_list, num_allocated_blocks, counts, loads, holds>>

fail_store(ks) ==
    LET removed == Only(ks, DOMAIN blocks \ Readied)
    IN  /\ Range(ks) \subseteq stores
        /\ blocks' = [k \in DOMAIN blocks \ Range(removed) |-> blocks[k]]
        /\ cache' = remove(cache, Range(removed))
        /\ free_list' = free_list \o [i \in DOMAIN removed |-> blocks[removed[i]].block_id]
        /\ stores' = stores \ Range(ks)
        /\ UNCHANGED <<config, num_allocated_blocks, counts, loads, holds>>

\* The callers drop what they owe: OffloadingConnectorScheduler.reset_cache
\* discards its jobs, and external_reset_succeeded forgets the retentions.
reset_cache ==
    /\ blocks' = <<>>
    /\ cache' = EmptyCache
    /\ free_list' = <<>>
    /\ num_allocated_blocks' = 0
    /\ loads' = [k \in Key |-> 0]
    /\ holds' = [k \in Key |-> 0]
    /\ stores' = {}
    /\ UNCHANGED <<config, counts>>

Next ==
    \/ \E k \in Key : lookup(k)
    \/ \E K \in (SUBSET Key) \ {{}} :
          prepare_load(K) \/ complete_load(K) \/ retain(K) \/ release(K)
    \/ \E ks \in KeyList \ {<<>>} :
          touch(ks) \/ prepare_store(ks) \/ complete_store(ks) \/ fail_store(ks)
    \/ reset_cache

Spec == Init /\ [][Next]_vars
-----------------------------------------------------------------------------
\* Types of the manager; block ids stay within the pool of num_blocks, and the
\* tracker within max_tracker_size.
TypeOK ==
    /\ config \in Config
    /\ DOMAIN blocks \subseteq Key
    /\ \A k \in DOMAIN blocks :
          blocks[k] \in [block_id : 0..(num_blocks - 1), ref_cnt : NotReady..(2 * MaxRefs)]
    /\ num_allocated_blocks \in 0..num_blocks
    /\ \A i \in DOMAIN counts : counts[i] \in [key : Key, n : 1..store_threshold]
    /\ Len(counts) <= max_tracker_size
    /\ loads \in [Key -> 0..MaxRefs] /\ holds \in [Key -> 0..MaxRefs] /\ stores \subseteq Key

\* Every block id handed out since the last reset belongs to exactly one
\* resident key or is exactly once on the free list: evictions, failed stores
\* and reuse neither leak a CPU block nor give one block to two keys.
SlotsPartitioned ==
    LET owned == {blocks[k].block_id : k \in DOMAIN blocks}
    IN  /\ Cardinality(owned) = Cardinality(DOMAIN blocks)
        /\ Cardinality(Range(free_list)) = Len(free_list)
        /\ owned \cap Range(free_list) = {}
        /\ owned \cup Range(free_list) = 0..(num_allocated_blocks - 1)
        /\ Range(cache.t1 \o cache.t2) = DOMAIN blocks
        /\ Len(cache.t1 \o cache.t2) = Cardinality(DOMAIN blocks)

\* What ARC's lists say of a key is so: a key in T2 was looked up again after
\* its data arrived, and a ghost is no longer resident and was evicted from one
\* list only; each ghost list and the target stay within the capacity, also
\* when keys return, stores fail, or one call evicts many.
ArcListsSound ==
    LET ghosts == cache.b1 \o cache.b2
    IN  /\ Range(cache.t2) \subseteq Readied
        /\ Range(ghosts) \subseteq Key \ DOMAIN blocks
        /\ Cardinality(Range(ghosts)) = Len(ghosts)
        /\ Len(cache.b1) <= num_blocks /\ Len(cache.b2) <= num_blocks
        /\ cache.target_t1_size \in 0..(num_blocks * Unit)

\* ref_cnt is exactly what the callers still owe: NotReady while a store is in
\* flight, and otherwise one reference per load in flight and per retention.
\* So the assertions of complete_load and release hold for every call.
RefCountsOutstanding ==
    \A k \in Key :
        IF k \in DOMAIN blocks
        THEN blocks[k].ref_cnt = IF k \in stores THEN NotReady ELSE loads[k] + holds[k]
        ELSE k \notin stores /\ loads[k] + holds[k] = 0

\* A key somebody reads, retains or writes keeps its CPU block until the store
\* of that very key fails or the whole cache is reset: an eviction for another
\* caller never moves it.
InUseStaysPut ==
    [][\A k \in DOMAIN blocks : blocks[k].ref_cnt # 0 =>
          \/ k \in DOMAIN blocks' /\ blocks'[k].block_id = blocks[k].block_id
          \/ k \in stores /\ \E ks \in KeyList : k \in Range(ks) /\ fail_store(ks)
          \/ reset_cache]_vars

\* prepare_store evicts in LRU order, with ARC within T1 and within T2: an older
\* key of the same list that survives could not be evicted, because somebody
\* references it or the call itself names it.
EvictsOldest ==
    [][\A list \in {cache.t1, cache.t2} : \A i, j \in DOMAIN list :
          j < i /\ list[i] \notin DOMAIN blocks'
          /\ list[j] \in DOMAIN blocks' /\ blocks[list[j]].ref_cnt = 0
          => \A ks \in KeyList : prepare_store(ks) => list[j] \in Range(ks)]_vars

\* manager.py:178-179, in prepare_store: "Blocks from the original input are
\* excluded from eviction candidates: a block that was already stored must
\* remain in the cache after this call."  It is so without the tracker; with
\* it only the keys the tracker lets through are protected.
StoredInputsStay ==
    [][~TracksLookups =>
          \A k \in DOMAIN blocks \ DOMAIN blocks' : \A ks \in KeyList :
              k \in Range(ks) => ~prepare_store(ks)]_vars

\* cpu/spec.py:67-69: with the tracker a key is offloaded only after
\* store_threshold lookups that the tracker still remembers, whatever it
\* forgot in between.
OnlyFrequentStored ==
    [][TracksLookups =>
          \A k \in DOMAIN blocks' \ DOMAIN blocks :
              \E i \in DOMAIN counts : counts[i].key = k /\ counts[i].n >= store_threshold]_vars
=============================================================================
