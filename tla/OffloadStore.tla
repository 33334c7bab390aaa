---------------------------- MODULE OffloadStore ----------------------------
(***************************************************************************)
(* What the OffloadingManager interface (vllm/v1/kv_offload/base.py), with *)
(* the retain/release pair that CPUOffloadingManager adds to it, promises  *)
(* to its callers: the connector's scheduler and the lifecycle registry.   *)
(*                                                                         *)
(* A key is absent, being written, or ready.  A ready key may have         *)
(* readers: loads in flight and retentions, which the implementation       *)
(* counts together in ref_cnt.  Where the bytes live and which key is      *)
(* chosen for eviction are left to the implementation.                     *)
(***************************************************************************)
EXTENDS Integers, FiniteSets

CONSTANTS
    Key,         \* OffloadKey: block hash and KV-cache group
    num_blocks   \* capacity of the store

ASSUME StoreAssumption == IsFiniteSet(Key) /\ num_blocks \in Nat

VARIABLES
    status,      \* what the store knows of each key
    readers      \* loads in flight and retentions of each key

store_vars == <<status, readers>>

Status == {"absent", "writing", "ready"}

Resident(st) == {k \in Key : st[k] # "absent"}

Ready(st) == {k \in Key : st[k] = "ready"}

StoreInit ==
    /\ status = [k \in Key |-> "absent"]
    /\ readers = [k \in Key |-> 0]

-----------------------------------------------------------------------------
(* The effect of each operation, as a function of the state it finds.      *)

Acquired(rd, K) == [k \in Key |-> IF k \in K THEN rd[k] + 1 ELSE rd[k]]

Dropped(rd, K) == [k \in Key |-> IF k \in K THEN rd[k] - 1 ELSE rd[k]]

\* Seeded fault: keys somebody reads are evicted.
Evictable_read(st, rd, K) == Ready(st) \ K

\* Keys that may make room for a store of the keys in K.
Evictable(st, rd, K) == {k \in Ready(st) \ K : rd[k] = 0}

\* new and evicted describe an accepted store of the keys in K.
CanPrepare(st, rd, K, new, evicted) ==
    /\ new \subseteq K \ Resident(st)
    /\ evicted \subseteq Evictable(st, rd, K)
    /\ Cardinality((Resident(st) \ evicted) \cup new) <= num_blocks

Prepared(st, new, evicted) ==
    [k \in Key |-> IF k \in new THEN "writing"
                   ELSE IF k \in evicted THEN "absent" ELSE st[k]]

Completed(st, K, success) ==
    [k \in Key |-> IF k \in K /\ st[k] = "writing"
                   THEN IF success THEN "ready" ELSE "absent"
                   ELSE st[k]]

-----------------------------------------------------------------------------
prepare_load(K) ==
    /\ K \subseteq Ready(status)
    /\ readers' = Acquired(readers, K)
    /\ UNCHANGED status

complete_load(K) ==
    /\ \A k \in K : status[k] = "ready" /\ readers[k] > 0
    /\ readers' = Dropped(readers, K)
    /\ UNCHANGED status

\* retain answers with the ready keys among K and takes one reference on each.
retain(K) == prepare_load(K \cap Ready(status))

release(K) == complete_load(K)

prepare_store(K) ==
    /\ \E new \in SUBSET K, evicted \in SUBSET (Key \ K) :
          /\ CanPrepare(status, readers, K, new, evicted)
          /\ status' = Prepared(status, new, evicted)
    /\ UNCHANGED readers

complete_store(K, success) ==
    /\ status' = Completed(status, K, success)
    /\ UNCHANGED readers

reset_cache ==
    /\ status' = [k \in Key |-> "absent"]
    /\ readers' = [k \in Key |-> 0]

StoreNext ==
    \/ \E K \in SUBSET Key :
          \/ prepare_load(K)
          \/ complete_load(K)
          \/ retain(K)
          \/ release(K)
          \/ prepare_store(K)
          \/ \E success \in BOOLEAN : complete_store(K, success)
    \/ reset_cache

StoreSpec == StoreInit /\ [][StoreNext]_store_vars
-----------------------------------------------------------------------------
\* Types of the abstract store.
StoreTypeOK ==
    /\ status \in [Key -> Status]
    /\ readers \in [Key -> Nat]

\* The store never holds more keys than it has blocks, and only a ready key
\* has readers: prepare_store evicts enough, and nothing evicts or rewrites a
\* key somebody is reading.
StoreSafe ==
    /\ Cardinality(Resident(status)) <= num_blocks
    /\ \A k \in Key : readers[k] > 0 => status[k] = "ready"
=============================================================================
