---------------------- MODULE CPUOffloadingRefinement -----------------------
(* CPUOffloadingManager implements OffloadStore, the store that the          *)
(* OffloadingManager interface promises (v1/kv_offload/base.py).             *)
EXTENDS CPUOffloadingManager

\* The manager implements the abstract store, ref_cnt read as its status and
\* its readers.
Store == INSTANCE OffloadStore WITH
    status <- [k \in Key |-> IF k \notin DOMAIN blocks THEN "absent"
                             ELSE IF blocks[k].ref_cnt = NotReady THEN "writing" ELSE "ready"],
    readers <- [k \in Key |-> IF k \in DOMAIN blocks /\ blocks[k].ref_cnt > 0
                              THEN blocks[k].ref_cnt ELSE 0]

\* Every run of the manager is a run of the store the interface promises:
\* within capacity, no eviction of a key that is read, retained or written,
\* and keys become ready only when their store completes.
ImplementsOffloadStore == Store!StoreSpec
=============================================================================
