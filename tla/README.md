# KV offloading in SunCake/TokenCake: TLA+ models and proofs

The repository is a vLLM tree with TokenCake on top: agents that stall on a tool
call finish one generation and come back with a longer prompt, and TokenCake keeps
the KV cache of the finished generation in CPU memory while the stall lasts. The
project models the part of it where steps of several actors meet: the CPU block
store with its eviction policies, the registry of stalled lifecycles and the
scheduler that preserves their blocks, the connector that moves KV blocks between
GPU and CPU around the engine's steps, and the admission of agent work into the
GPU block pool.

Paths below are relative to `src/vllm/`.

## The system

| Part | State | Operations | Talks to |
|---|---|---|---|
| CPU offloading manager (`v1/kv_offload/cpu/manager.py`, `policies/lru.py`, `policies/arc.py`) | resident keys with block id and `ref_cnt`, the policy's lists, free list, lookup counts | `lookup`, `touch`, `prepare_load`/`complete_load`, `retain`/`release`, `prepare_store`/`complete_store`, `reset_cache` | called by the connector scheduler and by the registry |
| Lifecycle registry (`tokencake/lifecycle.py`) | one `Lifecycle` record per id, `_generations`, duration history | `associate`, `generation_finished`, `apply`, `retain_ready`, `set_h2d_estimate`, `release`, `expire`, `invalidate_snapshots`, `external_reset_succeeded` | takes references in the manager; driven by the engine scheduler, the event endpoint and the TokenCake scheduler |
| Connector scheduler (`distributed/kv_transfer/kv_connector/v1/offloading/scheduler.py`) | `_req_status`, `_jobs`, `_block_id_to_pending_jobs`, flush set, stale-job threshold | lookup, `update_state_after_alloc`, `build_connector_meta`, `update_connector_output`, `request_finished`, `reset_cache` | manager; called inside the engine scheduler's step; publishes jobs to the workers |
| TokenCake scheduler (`tokencake/offloading.py`) | snapshots, `_detached`, `_unpublished` | `evaluate_pending`, publication and completion of detached stores, `has_pending_work`, reset | extends the connector scheduler; calls the registry |
| Connector worker (`.../offloading/worker.py`, `v1/kv_offload/cpu/gpu_worker.py`) | `_unsubmitted_store_jobs`, transfers in flight per direction | `handle_preemptions`, `start_kv_transfers`, `get_finished`, the copies themselves | reports completions with each batch |
| Engine scheduler and loop (`v1/core/sched/scheduler.py`, `v1/core/block_pool.py`, `v1/engine/core.py`) | request queues, block tables, block hashes, batch queue | `schedule`, `update_from_output`, `finish_requests`, `reset_prefix_cache` | everything |
| Admission and preemption (`tokencake/scheduling.py`) | who pays for each occupied block, admitted requests and their remaining growth, the partition into shared and reserved capacity | `begin_step`, `can_allocate`, `commit`, `can_grow`, `victim`, `preempt`, `finish` | consulted at every turn of the loops of `schedule` |
| Benefit policy, event endpoint, settings, metrics | small or none | numeric estimates, parsing | |

What makes it hard to test:

- a GPU block is freed and reused by the scheduler while a store that reads it is
  published, submitted or copying on some worker (fences and flush sets);
- stores are submitted one batch after they are published, and reported a batch or
  more after they are copied, by several workers in different steps;
- the engine may schedule a step before the results of the previous one are in;
- a reset discards jobs whose copies go on and whose reports still arrive;
- lifecycle events are calls of clients that retry and reorder, racing with
  deadlines that only other calls notice;
- one reference count serves loads of ordinary requests and retentions of stalls;
- the loops that register and complete detached stores read the clock at every
  record, so ownership can lapse between two statements of one handler;
- admission grants capacity from one set of books and commits it in another, while
  accounting starts and stops with the presence of annotated work.

`PROJECT.json` lists each hazard at its line, with the properties that cover it.

## Modules

| Module | Models |
|---|---|
| `OffloadStore` | what the offloading manager promises: keys absent, being written or ready, readers of ready keys, capacity |
| `Lists` | what Python's list and `OrderedDict` operations do to a sequence: filter, remove, move to the end, take, reverse |
| `CachePolicy` | the LRU and ARC policies, as functions of the lists they keep |
| `CPUOffloadingManager` | the manager with either policy |
| `CPUOffloadingRefinement` | the refinement mapping from the manager to `OffloadStore` |
| `Queues` | the invariant of the scheduler's queues, and the laws of lists and finite sets its proofs use |
| `ListsProofs` | the lemmas about `Lists`, sums and finite sets, and the proof of the laws of `Queues` |
| `CPUOffloadingManagerProofs` | lemmas about the policies, the block pool and each operation of the manager |
| `CPUOffloadingTheorems` | the manager's inductive invariant, its theorems and the refinement |
| `LifecycleRegistry` | the registry over `OffloadStore`, with the connector's loads and stores as the other user of the store |
| `LifecycleRegistryProofs` | its theorems |
| `TokenCakeOffloading` | the registry driven by TokenCake's scheduler: evaluation, detached stores, completion, pending retentions |
| `TokenCakeOffloadingProofs` | its theorems |
| `OffloadingConnector` | connector scheduler, TokenCake's detached stores, the engine steps around them, and the workers, over `OffloadStore` |
| `SchedulingController` | agent-aware admission and preemption inside the loops of `schedule()`, over the GPU block pool |
| `SchedulingStructureProofs` | lemmas: queues, tables and token counts, and who is admitted, action by action |
| `SchedulingControllerProofs` | lemmas: charges, commitments, partition and purses |
| `SchedulingTheorems` | the controller's inductive invariants and its theorems |
| `MC...` | small instances for TLC |

`OffloadStore` is the seam. The registry and the connector are specified over it
and do not depend on the eviction policy; the manager is checked and proved against
it once.

Definitions called `X_...` (a name and a suffix) next to a definition `X` are plausible bugs in the
code `X` models ("Seeded fault" in the comment above each). No specification uses them:
substituting one for `X` must break the property listed with it in
`PROJECT.json`, which shows that the property depends on that code.

### OffloadStore, CachePolicy and CPUOffloadingManager

`blocks` is the policy's dictionary, `cache` its order (LRU: one list; ARC: T1, T2,
the ghost lists and the target), `free_list` and `num_allocated_blocks` the pool of
block ids, `counts` the lookup tracker. `config` is what the manager was built
with. Actions are the methods; `complete_store(success=False)` is `fail_store`.
`loads`, `holds` and `stores` are what callers still owe, and restrict the calls to
those that the connector and the registry can make. `prepare_store` keeps the order
of the code: filter by the tracker, drop resident keys, evict the shortage in the
policy's order with the *remaining* keys protected, allocate fresh ids before freed
ones. A call that stores nothing new or answers `None` changes nothing and is no
step. ARC's `target_t1_size` is kept as a multiple of `1/Unit`, so the ratio of the
ghost lists is exact; the code's float is exact too up to a capacity of three.
The refinement mapping reads `ref_cnt` as status (-1 is "writing") and readers.

### LifecycleRegistry

`records`, `generations` are the registry's dictionaries, a record has the fields
of `Lifecycle`. `requests` are the unfinished requests of the scheduler that carry
TokenCake metadata. Every handler starts with `expire()` as in the code, so actions
work on `RecordsAt(t)` and `ReadersAt(t)`, what `expire()` read at time `t` leaves.
A handler that reads the clock twice takes two readings. `swept` is the reading of
the last `expire()`. `set_h2d_estimate` does not call `expire()` and neither does
its action. `_predict` is any member of `Duration`. `reset_connector_cache` is the
connector's reset as the registry sees it: the store forgets, then
`external_reset_succeeded` clears retentions *without* returning them and
terminalizes. A record's `pending_retention` is filled by the TokenCake scheduler,
in the next module; here it stays empty.

### TokenCakeOffloading

Extends the registry. `evaluate_pending` and `update_connector_output` loop over the
records, and each call of `retain_ready` inside reads the clock and expires records
again. So a loop is several actions: `turn` holds the handler, the records still to
be visited and the completed keys; the other handlers wait until it is over, as the
engine has one thread. `pass_over`, `give_up` and `_register_store` are the outcomes
for one record of `evaluate_pending`; `retain_completed` is one record of the second
loop. `_register_store` is `set_h2d_estimate`, `prepare_store`, `retain_ready`, and
either the registration of the job with its pending retentions or, when ownership
lapsed inside `retain_ready`, `complete_store(success=False)`. `jobs` are the stores
in flight; `ordinary_store` is one of another request. How the benefit policy, the
pressure and the GPU blocks that still match narrow the choice is left open: any
part of a snapshot may be selected, or none.

### OffloadingConnector

A request is a sequence of full blocks with one key each (`KeysOf`); the *content*
of a block, on the GPU or on the CPU of each worker, is the key whose KV it holds,
so a copy that comes too late or too early shows as a wrong key. Correspondence:

- `schedule_waiting`, `schedule_running`, `schedule_preempted`, `schedule_loaded`,
  `schedule_load`, `schedule_no_tokens` are the outcomes of one `schedule()`: the
  allocation, the hashes it caches, the lookup and `update_state_after_alloc`, and
  the whole of `build_connector_meta` (flush set, store jobs, publication).
- `evaluate_pending` registers a detached store for a stalled agent's snapshot.
- `handle_preemptions`, `start_kv_transfers`, `get_finished` are the three parts of a
  worker's step between which copies can happen; `copy_to_cpu` and `copy_to_gpu`
  carry out the oldest submitted transfer of their direction.
- `update_from_output` is the handling of the oldest batch: requests that stop
  (`request_finished`, snapshots, freeing), aggregation of the workers' reports,
  completion of jobs, and requests whose load has arrived.
- `finish_requests` is an abort, `reset_prefix_cache` a reset with its two flags.
- An exception that the code would raise in the engine's step (a job id that is no
  longer in `_jobs`, the assertion that a load is issued alone) sets `failure` and
  stops the engine.

Abstractions: one request and at most one block per step; a copy and a forward
pass each happen at one moment; the evicted key, the free GPU block, the victim of a
preemption, the decision to defer a request and the choice of what to preserve
are nondeterministic, so that every policy is covered; calls from outside are
served between steps, with a batch in flight only when the engine runs ahead. An
abort may come at any point.

### SchedulingController

A block holds one token. One `schedule()` is a sequence of actions, one per
iteration of its loops, with `pc` and the loop's locals as state: `begin_step`
(adoption, partition, scores), then for the running queue `growth_deferred`,
`schedule_running` or `_preempt_request`, then for the waiting queue
`promote_blocked`, `defer`, `schedule_waiting` and `second_turn`, then `end_step`.
`update_from_output`, `finished_recving`, `add_request` and `finish_requests` come
between. `charges` maps each charged block to its payer, `prefill_limits` is
`_prefill_limits` and its domain `_admitted`; growth commitments are recomputed from
the tables, which is what the code stores for the requests of the step. A resume
deferral compares with `_completion_epoch`; here a completion drops the entries. The
four reserve modes are a variable that never changes, so one run covers them. The
scores of requests and types are inputs from a small set. The assertion of `commit`
is the state `pc = "crashed"`. Shares of the partition are compared after
multiplying by their common denominator, with the rounding of the code.

Abstractions: blocks are interchangeable, so any free ones are handed out and `commit`
may charge the blocks of a request to its payers in any order; free
blocks that still hold a cached prefix are plain free blocks (a hit on one is
charged like a computed block); among sufficient victims any may be taken, where
the code prefers the cheapest to recompute; token budgets are large enough.

## Runs

State counts are distinct states, up to symmetry where the run uses it; every run is exhaustive within its bounds.

| Run | States | Shows |
|---|---|---|
| `cpu_manager` | ~4,200 | LRU, ARC, and LRU with `store_threshold` 2; 4 keys on 2 blocks: block ids are partitioned between keys and free list, reference counts are exactly what callers owe, ARC's lists are disjoint and bounded, keys in use keep their block, LRU order, inputs of a store stay, only keys still remembered as frequent are stored, refinement of `OffloadStore` |
| `lifecycle` | ~40,000 | one id, two requests, two payloads, four ticks: deadlines, associations, replies, tombstones |
| `offloading` | ~335,000 | two lifecycles and other users share one CPU block for two keys: counts, ownership, store safety, no wait for a store that is over, no key lost between completion and retention |
| `connector` | ~139,000 | synchronous engine: data, fences, leaks, exceptions, every forward pass sees its prefix |
| `connector_async` | ~447,000 | one step scheduled ahead, and resets of GPU cache and connector with jobs in flight: data on both sides |
| `connector_live` | ~64,000 | two workers, fairness: jobs and waits for loads end |
| `admission` | ~67,000 | two agents and an ordinary request in all reserve modes: exact charges, grants that cover allocations, commitments that fit, reserves honoured, loads stay admitted, everybody finishes |
| `connector_forced` | violation | a reset that preempts running requests |
| `connector_stale` | violation | job ids remembered across a connector reset |
| `connector_load` | violation | a load beside a store, one step ahead |
| `admission_load` | violation | loads that began before annotated work joined |
| `admission_abort` | violation | blocks of an aborted load when accounting restarts |

### Bounds

- Manager: with 4 keys and 2 blocks the pool fills and wraps around, an allocation
  mixes fresh and freed ids, both ghost lists fill and forget; a key can be read and
  retained at once (`MaxRefs` = 1 of each). The tracker has room for 2 of the 4 keys,
  so that it forgets. (With 3 blocks the same properties hold over 75,000 states.)
- Registry: times are ticks. `MaxClock` = 4 with attach, tombstone and safety times of
  1 to 3 lets a record be created, start, be released, expire, be forgotten
  and its id be used again. `Duration` = {1, 4} gives a stall released at once by its lead time
  and one cut by `MaxSafety`.
  The theorems remove these bounds.
- Offloading: two lifecycles wait for, retain and share two keys of which one block
  can hold one, so that stores evict, are refused, and complete for another's
  benefit. Two ticks with safety times of 1 and 2 let ownership lapse between any two
  readings of the clock. The theorems remove these bounds as well.
- Connector: two GPU and two CPU blocks for three keys make both pools short, so
  eviction, preemption and reuse under a pending store happen; three requests are a
  holder, one that shares its prefix and a competitor. `MaxJobs` bounds
  `_job_counter`: 3 or 4 jobs are a store, its reuse by a load, an eviction by another store, and one
  more. `MaxResets` = 1. `Abortable` names the requests that clients abort; the
  larger instances restrict it to one. The run one step ahead has one CPU block and
  shorter prefixes, which pays for the resets. With two workers (`connector_live`) one GPU block
  and requests of one block are enough for loads, fences and reports
  out of step.
- Admission: five blocks for requests that want four, five and three keep the pool
  short, so that admission is refused, reserves are lent, growth is refused and
  requests are preempted. `AdjustmentWindow` = 2 (500 in the code) makes the partition
  change under admitted work; the ratios reserve one to three blocks, which the two types,
  both critical, share. Prompts
  take several steps (`long_prefill_token_threshold` = 1).
- Symmetry: keys in the manager, requests and payloads in the registry, lifecycles and keys in the offloading run, GPU
  blocks in the connector: no definition names one. The liveness runs use none.

`CHECK_DEADLOCK FALSE` is set for the connector only: an engine without requests and
without pending work has nothing to do, which is legitimate.

### Fairness

`connector_live` assumes weak fairness of `schedule` and `update_from_output`
(`run_busy_loop` steps the engine as long as it has work), of the three parts of
each worker's step, and of the copies (the device executes what is submitted to a
stream). No fairness is assumed for clients, aborts or evaluation, nor that any
particular request is scheduled. So `JobsEnd` and `LoadsEnd` rest on what the code
does to keep the engine stepping: `has_pending_work`, `finished_req_ids`, and the
flush after the last request.

`admission` and `admission_load` assume that a busy engine goes on stepping (the
same loop; weak fairness of `Engine` is spelt out with `EngineBusy`, when it is
enabled, so that a step that cannot be taken would be a deadlock, and `EngineStep`,
its steps, which TLC then recognises by `pc` alone) and strong fairness of `finished_recving` for each
request: the report of a load comes with the output of some later step. Nothing is
assumed about arrivals, aborts, scores, or which candidate of equal rank is taken.

### Findings

1. `admission_load`: `begin_step` takes over as admitted the running requests only.
   Ordinary requests that were loading when annotated work joined are asked for
   their whole generation after the load; two of them that hold all blocks are
   refused for ever (`tokencake/scheduling.py:235`), against the comment in
   `can_allocate` (`:608`).
2. `connector_forced`: `reset_prefix_cache(reset_running_requests=True)` preempts
   outside `schedule()`; the pending stores of those requests are neither flushed
   nor fenced, and without a connector reset the store may copy the next owner's
   data (`v1/core/sched/scheduler.py:2218`).
3. `connector_stale`: the connector's `reset_cache` clears `_jobs` and keeps the ids in
   `transfer_jobs`; the next store, preemption or finish of such a request
   looks up a job that is gone (`.../offloading/scheduler.py:1008`).
4. `connector_load`: one step ahead, a preempted request can be resumed with an
   external hit while its flushed store has not been reported
   (`.../offloading/scheduler.py:653`). This is why `EngineSurvives` is checked for
   the synchronous engine.

5. `admission_abort`: a request aborted during its load keeps its blocks and is in no
   queue. When accounting stops and restarts meanwhile, its blocks are occupied and
   charged to nobody; a request that hits one is granted less than `commit` charges,
   and the assertion fails (`tokencake/scheduling.py:271` and `:707`). This is why
   the loading request of `admission` is not the one that is aborted.

Two more disagreements are modelled and have no run of their own:

- `prepare_store` says that blocks of the original input are excluded from eviction;
  with `store_threshold >= 2` the variable has been overwritten by the filtered list
  before it is used (`v1/kv_offload/cpu/manager.py:163` and `:180`). `StoredInputsStay`
  is therefore stated for managers without the tracker.
- The docstring of `CachePolicy.evict` (`policies/base.py:71`) promises `None` only "if n
  evictions cannot be satisfied". ARC's `evict` stops taking from T1 when its virtual
  size falls below the target, and answers `None` when T2 has nothing left although T1
  has (`policies/arc.py:121`). The store is refused; nothing is damaged.

## Proofs

`LifecycleRegistryProofs` proves, for all finite sets of keys and ids and all values
of the other constants (`StoreAssumption`, `RegistryAssumption`):

| Theorem | States |
|---|---|
| `RegistryInvariant` | `RegistryInv` always holds |
| `TypeCorrect` | `RegistryTypeOK` |
| `RetentionsAreCounted` | readers of a key = loads in flight + lifecycles that retain it |
| `OwnersRetain` | only an owner of its preservation holds keys |
| `DeadlinesKept` | no owner past a deadline after an `expire()` |
| `OneGeneration` | associations are exactly the unfinished requests |
| `StoreStaysSafe` | capacity, and no key with readers is dropped |
| `TombstonesAreFinal` | terminal records do not change |
| `RepliesAreTruthful` | replies to events are true |

The argument. `RetentionsCounted` is not inductive: that a release finds its
references needs the count, that the count survives a dropped tombstone needs that
terminal records hold nothing, and that eviction spares retained keys needs
`StoreSafe`. `RegistryInv` joins them: types, `RecordOK` for every record at `swept`
(a record that does not own its preservation holds nothing, an owner is before its
deadlines), the count, the store's safety and the associations. Lemmas about a single
record (`ReleasedFacts`, `TerminalizedFacts`, `AgedOK`) and about counting (`ExpireKeepsCount`,
`PutDropped`, `PutAcquired`, `PutNew`, by cardinality of the holders of a key)
are used by one lemma per action. `ExpireKeepsCount` is the heart: `expire()`
returns exactly the references of the records that stop holding. `TombstonesAreFinal` and
`RepliesAreTruthful` follow from the same invariant action by action.

`TokenCakeOffloadingProofs` proves for the composed module, under the same assumptions:

| Theorem | States |
|---|---|
| `OffloadingInvariant` | `OffloadingInv` always holds |
| `OffloadingCounts` | `RetentionsCounted` |
| `OffloadingTypes` | `RegistryTypeOK` |
| `OffloadingOwners` | `OnlyOwnersRetain` |
| `OffloadingStoreSafe` | `StoreSafe` |
| `NothingWaitsInVain` | `PendingIsWritten` |
| `PreservationIsHandedOn` | `PreservationHandedOn` |

The argument. `OffloadingInv` is `RegistryInv`, that jobs and loops deal in keys (`KeysOK`),
and `HandoverInv`. The latter is `PendingIsWritten` with one addition, which makes
it inductive: the completed keys that a loop is still handing on are ready. Without
it a record visited late in the loop might find its key not ready and drop it. The
registry's own actions are covered by the lemmas of `LifecycleRegistryProofs`; the
new ones have one lemma each for `RegistryInv` (`..._inv`) and one for `HandoverInv`
(`..._handover`). Two facts carry the second half: an `expire()` leaves a record that
still owns its preservation as it was (`AgedOwner`), so what an owner holds or awaits is
carried across every step (`Carried`), and the keys being written are exactly the union of
the stores in flight, which are disjoint, so completing some of them leaves the
others written. `PreservationIsHandedOn` follows from both.

`CPUOffloadingTheorems` proves for the manager with either policy, with and without
the tracker, for every finite set of keys, capacity and bound (`ManagerAssumption`,
`CapacityAssumption`):

| Theorem | States |
|---|---|
| `ManagerInvariant` | `ManagerInv` always holds |
| `TypesKept` | `TypeOK` |
| `PoolIsPartitioned` | `SlotsPartitioned`: no block id is lost or given to two keys |
| `RefCountsAreOwed` | `RefCountsOutstanding`: `ref_cnt` is what callers owe |
| `ArcStaysSound` | `ArcListsSound` |
| `InUseNeverMoves` | `InUseStaysPut` (action property) |
| `EvictionTakesOldest` | `EvictsOldest` (action property) |
| `InputsAreKept` | `StoredInputsStay` (action property) |
| `FrequentKeysOnly` | `OnlyFrequentStored` (action property) |
| `RefinesOffloadStore` | `Spec => ImplementsOffloadStore`, the refinement |

The argument. None of the four invariants is inductive alone: that a store finds a free
id needs the partition, the partition after an eviction needs that victims are resident
and distinct, which needs the policy's lists in step with `blocks`, and ARC's T2 may hold
only keys whose data arrived, which needs the reference counts. `ManagerInv` joins
`PoolSound` (ids between 0 and `num_allocated_blocks` are in the free list or with exactly
one key), `SoundCache` (T1 and T2 hold each resident key once, T2 only ready ones, ghosts
are not resident, the target is within the capacity) and the equation of `ref_cnt` with
the loads, retentions and stores of the callers. `CPUOffloadingManagerProofs` takes the
state apart: policies as functions of their lists (`InsertSound`, `ArcTouchSound`,
`LruCandidates`, `ArcCandidates`, `ArcEvictedSound`), the pool alone (`PoolReturn`,
`PoolAllocate`), then all three together for each operation (`SoundRefs`, `SoundStored`
and others). The refinement rests on the same lemmas: they show that a store stays within
capacity and evicts only keys that are ready and unread, which is what the abstract
store allows.

`SchedulingTheorems` proves for admission, for all requests, prompts, pools, ratios and
reserve modes (`ControllerAssumption`):

| Theorem | States | Assumes |
|---|---|---|
| `QueuesAreSound` | `Structure`: each live request is in exactly one queue | |
| `ControllerTypes` | `ControllerTypeOK` | |
| `CommitmentsAlwaysFit` | `CommitmentsFit` | |
| `ChargesAreExact` | `ChargesExact` | `NoLoadAborted` |
| `AdmissionAlwaysCovers` | `AdmissionCovers`: the assertion of `commit` holds | `NoLoadAborted` |
| `LoadsAreAdmitted` | `LoadsAdmitted` | `AgentsLoad` |
| `ReservesAreHonoured` | `ReservesHonoured` (action property): who pays for a first-turn admission | |

`NoLoadAborted` (`Loading \cap Abortable = {}`) and `AgentsLoad` (`Loading` is part of the
annotated requests) are what the findings `admission_abort` and `admission_load` show to be
needed: without them the properties fail, with them they hold for every instance. The
run `admission` satisfies both.

The argument. `Structure` is inductive alone: the queues, and per request the bounds of
its counts and which states may hold blocks. On top of it, `AdmissionOK` says that
admitted requests are live, that accounting is on exactly in steps with annotated
work, that while it is off no annotated request has had a turn (so nothing is
missing when it starts) and that running requests are admitted. `LedgerOK` and `PursesOK`
bound the partition, the charges and what each payer has left. For the books every step is one
of five kinds (`BooksStep`: a new plan, quiet, a commitment to one request, a preemption,
a release), so each book needs five cases and not one per action. `CommitmentsFit` is not
inductive, since an ordinary request among the admitted suspends it; `Covered` is: what
is promised fits into what is free unless no agent is admitted at all. `AdmissionCovers`
rests on `ChargesExact`: `can_allocate` computes the demand from the tables and `commit`
from the charges, and the two agree only where exactly the occupied blocks are charged.
`ReservesHonoured` needs `Standing`: who benefits from a preemption is admitted, so an
admission adds no generation of its own in mode "reclaim". With it `AdmissionCost` shows, mode by mode, that an
admission commits at most its demand, and the demand was found affordable with the
payers of the first turn, who include no type whose reserve is kept.

What `ReservesHonoured` does not say is that the purse of a waiting type stays as it is.
It may shrink: `_update_available` cuts what the payers have left down to the uncommitted blocks, and
takes the excess from the types of lower score (`tokencake/scheduling.py:508`). The
commitments of an admission that others pay for can therefore cost a waiting type part of its purse, though
never a block charged to it.

Two devices the proofs use:

- *Induction over sequences and finite sets.* The library's induction theorems take an
  operator as parameter, which the provers cannot instantiate. `NatSetInduction` is
  induction over the members of a set, derived from the library's least-number
  principle (`WFMin`). A recursive function (`Only`, ARC's touch, sums) is shown to exist
  up to every bound by it, which gives its defining equation.
- *Laws by name.* The lemmas about the scheduler assume `Laws` of `Queues` instead of
  citing the lemmas; `ListsProofs` proves them (`LawsHold`), and `SchedulingTheorems`
  discharges the assumption, so no theorem depends on it.

The inductive invariants (`RegistryInv`, `OffloadingInv`, `ManagerInv`, `ControllerInv` with
`Covered` and `Standing`) were checked with TLC on the instances of the runs before they were proved.

Only model-checked:

- everything about `OffloadingConnector`. What a late copy may overwrite depends
  on the order of the transfers submitted per direction and worker, on the batches in flight
  and on what each will report; an inductive invariant has to describe all of it, and
  none has been worked out;
- liveness under fairness, and `ENABLED`, which are out of the prover's reach: `AllFinish`,
  `JobsEnd`, `LoadsEnd`;
- instances for which `NoLoadAborted` or `AgentsLoad` fails, where the violations are.

There is no recursive operator in the project.

## Not modelled

- Benefit estimates (`tokencake/offload_policy.py`), transfer-time estimates, backoff and
  the duration history: reals that select among behaviours the models allow anyway.
- In admission: the sums of the agent history and join priority (scores are inputs),
  the order among sufficient victims, encoder inputs, LoRA, speculative and
  asynchronous scheduling, sliding windows (`remove_skipped_blocks`), token and prefill
  budgets, the PRIORITY policy, failed loads, lookups the connector cannot answer yet,
  and preemption by `reset_prefix_cache`.
- `SchedulingController` and `OffloadingConnector` are not composed: each has its own view of the
  engine's step. The connector model lets admission refuse and preempt anything, and
  the admission model lets a load take any time; their product is beyond TLC.
- HTTP endpoint, validation, settings, metrics: input and output only.
- Sliding-window and hybrid KV-cache groups, partial tail blocks, load failures and
  KV events in the connector; token budgets, encoder inputs, speculative
  decoding, LoRA and structured output in the scheduler.
