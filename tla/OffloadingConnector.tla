------------------------- MODULE OffloadingConnector -------------------------
(***************************************************************************)
(* KV transfers between the GPU cache and the CPU store: the connector's   *)
(* scheduler side (OffloadingConnectorScheduler with the detached stores   *)
(* of TokenCakeOffloadingScheduler), the engine scheduler's steps that     *)
(* allocate, preempt and free GPU blocks around it, and the workers that   *)
(* copy.                                                                   *)
(*                                                                         *)
(* A request is a sequence of full blocks, one key each; a step computes   *)
(* at most one of them, for one request.  The content of a block is the    *)
(* key whose KV it holds.  A copy reads and writes at one moment between   *)
(* its submission and its completion.  Which key the CPU store evicts,     *)
(* which free GPU block is taken and which stall is worth preserving are   *)
(* left open.                                                              *)
(***************************************************************************)
EXTENDS OffloadStore, SequencesExt

CONSTANTS
    Block,            \* GPU blocks
    Request,
    KeysOf,           \* Request -> sequence of the keys of its full blocks
    Agent,            \* requests with TokenCake metadata
    Abortable,        \* requests their clients may abort
    Worker,
    BatchQueueSize,   \* engine steps scheduled ahead of their results
    MaxJobs,          \* bound on _job_counter
    MaxResets,        \* bound on reset_prefix_cache calls
    ResetRunning,     \* values of reset_running_requests
    ResetConnector    \* values of reset_connector

ASSUME ConnectorAssumption ==
    /\ IsFiniteSet(Block) /\ IsFiniteSet(Request) /\ IsFiniteSet(Worker)
    /\ KeysOf \in [Request -> Seq(Key)] /\ Agent \cup Abortable \subseteq Request
    /\ BatchQueueSize \in Nat \ {0} /\ MaxJobs \in Nat /\ MaxResets \in Nat
    /\ ResetRunning \subseteq BOOLEAN /\ ResetConnector \subseteq BOOLEAN

NoKey == "no key"

VARIABLES
    (* engine scheduler *)
    phase,           \* request -> status
    table,           \* request -> its GPU blocks
    hash,            \* GPU block -> key it is cached under
    finished_ids,    \* finished_req_ids is not empty
    receiving,       \* request -> worker reports missing for its load
    (* connector scheduler *)
    tracked,         \* requests in _req_status
    stored,          \* request -> next_stored_block_idx
    transfer_jobs,   \* request -> transfer_jobs
    jobs,            \* _jobs
    fences,          \* _block_id_to_pending_jobs
    to_flush,        \* _current_batch_jobs_to_flush, between two steps
    unpublished,     \* _unpublished
    detached,        \* _detached
    snapshot,        \* agent request -> block ids of its PrefixSnapshot
    job_counter, stale_job_threshold,
    slot,            \* resident key -> CPU block
    (* workers *)
    batches,         \* scheduled steps, oldest first
    position,        \* worker -> how many of them it has executed
    stage,           \* worker -> where it is in the next one
    unsubmitted,     \* worker -> _unsubmitted_store_jobs
    d2h, h2d,        \* worker -> submitted transfers, per direction
    copied,          \* worker -> transfers completed and not yet reported
    gpu, cpu,        \* worker -> content of its GPU and CPU blocks
    (* environment *)
    resets,          \* calls of reset_prefix_cache so far
    failure          \* the exception that stopped the engine

pool_vars == <<phase, table, hash, snapshot>>
request_vars == <<finished_ids, receiving>>
job_vars == <<tracked, stored, transfer_jobs, jobs, job_counter>>
fence_vars == <<fences, detached, stale_job_threshold>>
publish_vars == <<to_flush, unpublished>>
cpu_vars == <<store_vars, slot>>
worker_vars == <<position, stage, unsubmitted, d2h, h2d, copied, gpu, cpu>>
env_vars == <<resets, failure>>
vars == <<pool_vars, request_vars, job_vars, fence_vars, publish_vars, cpu_vars,
          batches, worker_vars, env_vars>>

Slot == 1..num_blocks

JobId == 0..(MaxJobs - 1)

Copy == [block : Block, slot : Slot]

Transfer == [id : JobId, copies : SUBSET Copy]

Init ==
    /\ StoreInit
    /\ phase = [r \in Request |-> "waiting"]
    /\ table = [r \in Request |-> <<>>]
    /\ hash = [b \in Block |-> NoKey]
    /\ finished_ids = FALSE
    /\ receiving = [r \in Request |-> {}]
    /\ tracked = {}
    /\ stored = [r \in Request |-> 0]
    /\ transfer_jobs = [r \in Request |-> {}]
    /\ jobs = [id \in {} |-> {}]
    /\ fences = [b \in Block |-> {}]
    /\ to_flush = {} /\ unpublished = {} /\ detached = {}
    /\ snapshot = [r \in Request |-> <<>>]
    /\ job_counter = 0 /\ stale_job_threshold = 0
    /\ slot = [k \in {} |-> 0]
    /\ batches = <<>>
    /\ position = [w \in Worker |-> 0]
    /\ stage = [w \in Worker |-> "idle"]
    /\ unsubmitted = [w \in Worker |-> <<>>]
    /\ d2h = [w \in Worker |-> <<>>]
    /\ h2d = [w \in Worker |-> <<>>]
    /\ copied = [w \in Worker |-> {}]
    /\ gpu = [w \in Worker |-> [b \in Block |-> NoKey]]
    /\ cpu = [w \in Worker |-> [s \in Slot |-> NoKey]]
    /\ resets = 0 /\ failure = "none"
-----------------------------------------------------------------------------
(* GPU block pool and CPU store *)

Finished(r) == phase[r] \in {"finished", "aborting"}

MaxLen == Max({Len(KeysOf[r]) : r \in Request})

Prefix(r, n) == {KeysOf[r][i] : i \in 1..n}

Put(f, x, v) == [y \in DOMAIN f \cup {x} |-> IF y = x THEN v ELSE f[y]]

Ids(transfers) == {t.id : t \in transfers}

\* The blocks nobody uses once the requests in V have given up theirs.
Free(V) == {b \in Block : \A r \in Request \ V : b \notin ToSet(table[r])}

\* get_computed_blocks: the longest prefix cached on the GPU.
LocalHit(r) ==
    Max({n \in 0..Len(KeysOf[r]) : \A i \in 1..n : \E b \in Block : hash[b] = KeysOf[r][i]})

\* _maximal_prefix_lookup: resident keys that follow the local hit.
ExternalHit(r) ==
    Max({n \in 0..(Len(KeysOf[r]) - LocalHit(r)) :
            \A i \in 1..n : KeysOf[r][LocalHit(r) + i] \in Resident(status)})

HitKeys(r) == {KeysOf[r][LocalHit(r) + i] : i \in 1..ExternalHit(r)}

BeingLoaded == UNION {jobs[id].keys : id \in {i \in DOMAIN jobs : ~jobs[i].is_store}}

\* The lookup answers None: a hit is still being written or already loaded.
LookupDeferred(r) ==
    \/ \E k \in HitKeys(r) : status[k] = "writing"
    \/ HitKeys(r) \cap BeingLoaded # {}

\* prepare_store of the keys K evicts exactly what it lacks room for.
Shortage(K) ==
    Max({0, Cardinality(Resident(status)) + Cardinality(K \ Resident(status)) - num_blocks})

\* Seeded fault: a CPU block is handed out while another key occupies it.
StorePlans_shared(K) ==
    {p \in [evicted : kSubset(Shortage(K), Evictable(status, readers, K)),
            place : [K \ Resident(status) -> Slot]] : IsInjective(p.place)}

\* What prepare_store of K may answer: the evicted keys, and a CPU block for
\* each new key.  It answers None when there is no such plan.
StorePlans(K) ==
    {p \in [evicted : kSubset(Shortage(K), Evictable(status, readers, K)),
            place : [K \ Resident(status) -> Slot]] :
        /\ IsInjective(p.place)
        /\ Range(p.place) \cap {slot[k] : k \in Resident(status) \ p.evicted} = {}}

\* The store once it has accepted plan p.
Accepted(p) ==
    /\ status' = Prepared(status, DOMAIN p.place, p.evicted)
    /\ slot' = [k \in (DOMAIN slot \ p.evicted) \cup DOMAIN p.place |->
                  IF k \in DOMAIN p.place THEN p.place[k] ELSE slot[k]]
    /\ UNCHANGED readers

\* The copies that move the keys of place between their CPU blocks and the
\* blocks of request r's sequence blocks.
Copies(r, blocks, place) ==
    {[block |-> blocks[i], slot |-> place[KeysOf[r][i]]] :
        i \in {j \in 1..Len(blocks) : KeysOf[r][j] \in DOMAIN place}}

Blocks(copies) == {c.block : c \in copies}

-----------------------------------------------------------------------------
(* Jobs *)

NewJob(job) ==
    /\ job_counter < MaxJobs
    /\ jobs' = Put(jobs, job_counter, job)
    /\ job_counter' = job_counter + 1

Stop(exception) ==
    /\ failure' = exception
    /\ UNCHANGED <<pool_vars, request_vars, job_vars, fence_vars, publish_vars, cpu_vars,
                   batches, worker_vars, resets>>

\* assert self._jobs[any_jid].is_store, for an arbitrary job id of r.
StoreIsPending(r) ==
    transfer_jobs[r] # {} => \E id \in transfer_jobs[r] : id \in DOMAIN jobs /\ jobs[id].is_store

StoreNotPending(r) ==
    \E id \in transfer_jobs[r] : id \in DOMAIN jobs => ~jobs[id].is_store

AllFinished(T) == T # {} /\ \A r \in T : Finished(r)

\* Seeded fault: the stores of preempted requests and of reused blocks are not
\* flushed.
JobsToFlush_unasked(asked, T, tokens) ==
    LET all == to_flush \cup (IF AllFinished(T) THEN DOMAIN jobs ELSE {})
    IN  (all \ Ids(unpublished)) \cup (IF tokens \/ unpublished # {} THEN {} ELSE detached)

\* jobs_to_flush of a step, T being the tracked requests.
JobsToFlush(asked, T, tokens) ==
    LET all == to_flush \cup asked \cup (IF AllFinished(T) THEN DOMAIN jobs ELSE {})
    IN  (all \ Ids(unpublished)) \cup (IF tokens \/ unpublished # {} THEN {} ELSE detached)

\* Seeded fault: reused blocks are not looked up.
FencedBy_none(B) == {}

\* The pending stores that read the blocks in B.
FencedBy(B) == UNION {fences[b] : b \in B}

Batch(writes, context, flush) ==
    [writes |-> writes, context |-> context, samples |-> {}, loads |-> {},
     stores |-> unpublished, flush |-> flush, done |-> {}]

\* The keys a step that leaves request r with n blocks offers to the store.
Unstored(r, n) == IF r \in Agent THEN {} ELSE {KeysOf[r][i] : i \in (stored[r] + 1)..n}

StoreAccepted(r, n) ==
    ~(Unstored(r, n) \subseteq Resident(status)) /\ StorePlans(Unstored(r, n)) # {}

\* _build_store_jobs for request r, which has these blocks after the step.
BuildStoreJobs(r, blocks, batch) ==
    LET n == Len(blocks)
        K == Unstored(r, n)
    IN  IF StoreAccepted(r, n)
        THEN /\ \E p \in StorePlans(K) :
                   LET copies == Copies(r, blocks, p.place) IN
                   /\ Accepted(p)
                   /\ NewJob([req |-> r, is_store |-> TRUE, keys |-> DOMAIN p.place,
                              blocks |-> Blocks(copies), pending |-> Cardinality(Worker)])
                   /\ batches' = Append(batches,
                         [batch EXCEPT !.stores = {[id |-> job_counter, copies |-> copies]}])
             /\ transfer_jobs' = [transfer_jobs EXCEPT ![r] = @ \cup {job_counter}]
             /\ stored' = [stored EXCEPT ![r] = n]
        ELSE /\ batches' = Append(batches, batch)
             /\ stored' = IF r \notin Agent /\ K \subseteq Resident(status)
                          THEN [stored EXCEPT ![r] = n] ELSE stored
             /\ UNCHANGED <<transfer_jobs, jobs, job_counter, cpu_vars>>

-----------------------------------------------------------------------------
(* Scheduler.schedule.  A step is scheduled while the batch queue has room *)
(* and the engine has work.  A step that publishes detached stores has no  *)
(* token budget.                                                           *)

\* Seeded fault: has_pending_work is not consulted.
HasRequests_queues ==
    (\E r \in Request : phase[r] # "finished") \/ finished_ids

HasRequests ==
    \/ \E r \in Request : phase[r] # "finished"
    \/ finished_ids \/ detached # {} \/ unpublished # {} \/ to_flush # {}

CanSchedule == failure = "none" /\ Len(batches) < BatchQueueSize /\ HasRequests

StepScheduled ==
    /\ finished_ids' = FALSE
    /\ to_flush' = {} /\ unpublished' = {}
    /\ UNCHANGED <<fence_vars, worker_vars, resets>>

\* The hashes once the blocks of the requests in Q are cached.
Cached(Q) ==
    [b \in Block |->
        LET owners == {<<q, i>> \in Q \X (1..MaxLen) : i \in DOMAIN table[q] /\ table[q][i] = b}
        IN  IF owners = {} THEN hash[b]
            ELSE LET o == CHOOSE o \in owners : TRUE IN KeysOf[o[1]][o[2]]]

\* No request is scheduled.  Those in Q were looked up, or promoted when their
\* load has arrived, and then deferred by the lookup, by the admission policy
\* or for want of blocks.
schedule_no_tokens(Q) ==
    /\ CanSchedule
    /\ unpublished # {} => Q = {}
    /\ \A r \in Q : phase[r] \in {"waiting", "loaded"}
    /\ phase' = [r \in Request |-> IF r \in Q /\ phase[r] = "loaded" THEN "promoted" ELSE phase[r]]
    /\ hash' = Cached({r \in Q : phase[r] = "loaded"})
    /\ tracked' = tracked \cup Q
    /\ batches' = Append(batches, Batch({}, {}, JobsToFlush({}, tracked', FALSE)))
    /\ StepScheduled
    /\ UNCHANGED <<table, snapshot, receiving, stored, transfer_jobs, jobs, job_counter, cpu_vars, failure>>

\* The step runs request r: V is preempted, base holds keys computed before,
\* fresh is to be computed, and of these new are blocks r did not have.
ScheduleTokens(r, V, base, fresh, new) ==
    LET blocks == base \o fresh
        At(B) == {[block |-> blocks[i], key |-> KeysOf[r][i]] : i \in B}
        flush == JobsToFlush(FencedBy(new) \cup UNION {transfer_jobs[v] : v \in V},
                             tracked \cup {r}, TRUE)
    IN  \/ /\ \/ \E v \in V : StoreNotPending(v)
              \/ StoreAccepted(r, Len(blocks)) /\ StoreNotPending(r)
           /\ Stop("unknown job")
        \/ /\ \A v \in V : StoreIsPending(v)
           /\ StoreAccepted(r, Len(blocks)) => StoreIsPending(r)
           /\ phase' = [q \in Request |-> IF q = r THEN "running"
                                          ELSE IF q \in V THEN "waiting" ELSE phase[q]]
           /\ table' = [q \in Request |-> IF q = r THEN blocks
                                          ELSE IF q \in V THEN <<>> ELSE table[q]]
           /\ hash' = [b \in Block |-> IF b \in ToSet(blocks) THEN
                                          KeysOf[r][CHOOSE i \in DOMAIN blocks : blocks[i] = b]
                                       ELSE hash[b]]
           /\ tracked' = tracked \cup {r}
           /\ BuildStoreJobs(r, blocks,
                 [Batch(At(Len(base)+1..Len(blocks)), At(1..Len(base)), flush) EXCEPT
                    !.samples = IF Len(blocks) = Len(KeysOf[r]) THEN {r} ELSE {}])
           /\ StepScheduled
           /\ UNCHANGED <<receiving, snapshot, failure>>

CanRun(r, statuses) == CanSchedule /\ unpublished = {} /\ phase[r] \in statuses

\* The next blocks of request r, from those in F.
Fresh(F, n) == UNION {SetToSeqs(B) : B \in kSubset(n, F)}

\* At most one block is computed per step.
Chunk(r, n) == IF n < Len(KeysOf[r]) THEN 1 ELSE 0

Lacks(r, V) == Cardinality(Free(V)) < Chunk(r, Len(table[r]))

\* Running requests are preempted one by one, as long as r lacks a block.
Victims(r, V) ==
    /\ \A v \in V : phase[v] = "running" /\ v # r
    /\ V # {} => \E v \in V : Lacks(r, V \ {v})

schedule_running(r, V) ==
    /\ CanRun(r, {"running"})
    /\ Victims(r, V)
    /\ \E fresh \in Fresh(Free(V), Chunk(r, Len(table[r]))) :
          ScheduleTokens(r, V, table[r], fresh, ToSet(fresh))

\* After the requests in V, the running request itself is preempted.
schedule_preempted(r, V) ==
    LET P == V \cup {r}
    IN  /\ CanRun(r, {"running"})
        /\ Victims(r, V) /\ Lacks(r, V)
        /\ \/ (\E v \in P : StoreNotPending(v)) /\ Stop("unknown job")
           \/ /\ \A v \in P : StoreIsPending(v)
              /\ phase' = [q \in Request |-> IF q \in P THEN "waiting" ELSE phase[q]]
              /\ table' = [q \in Request |-> IF q \in P THEN <<>> ELSE table[q]]
              /\ batches' = Append(batches, Batch({}, {},
                    JobsToFlush(UNION {transfer_jobs[v] : v \in P}, tracked, FALSE)))
              /\ StepScheduled
              /\ UNCHANGED <<hash, snapshot, receiving, job_vars, cpu_vars, failure>>

\* The blocks a waiting request finds in the GPU cache.
Hits(r) ==
    {hits \in [1..LocalHit(r) -> Block] : \A i \in DOMAIN hits : hash[hits[i]] = KeysOf[r][i]}

\* A waiting request without an external hit.
schedule_waiting(r) ==
    /\ CanRun(r, {"waiting"})
    /\ ExternalHit(r) = 0
    /\ \E hits \in Hits(r) : \E fresh \in Fresh(Free({}) \ ToSet(hits), Chunk(r, LocalHit(r))) :
          ScheduleTokens(r, {}, hits, fresh, ToSet(hits \o fresh))

\* A request whose load has arrived: its blocks are cached, then it runs.
schedule_loaded(r) ==
    /\ CanRun(r, {"loaded", "promoted"})
    /\ \E fresh \in Fresh(Free({}), Chunk(r, Len(table[r]))) :
          ScheduleTokens(r, {}, table[r], fresh, ToSet(table[r] \o fresh))

\* A waiting request with an external hit: its blocks are allocated, not yet
\* cached, and a load is published.
schedule_load(r) ==
    /\ CanRun(r, {"waiting"})
    /\ ExternalHit(r) > 0 /\ ~LookupDeferred(r)
    /\ \E hits \in Hits(r) : \E fresh \in Fresh(Free({}) \ ToSet(hits), ExternalHit(r)) :
       \/ transfer_jobs[r] # {} /\ Stop("load not alone")
       \/ /\ transfer_jobs[r] = {}
          /\ LET blocks == hits \o fresh
                 copies == Copies(r, blocks, [k \in HitKeys(r) |-> slot[k]])
                 flush == JobsToFlush(FencedBy(ToSet(fresh)), tracked \cup {r}, FALSE)
             IN  /\ table' = [table EXCEPT ![r] = blocks]
                 /\ hash' = [b \in Block |-> IF b \in ToSet(fresh) THEN NoKey ELSE hash[b]]
                 /\ stored' = [stored EXCEPT ![r] = Len(blocks)]
                 /\ batches' = Append(batches, [Batch({}, {}, flush) EXCEPT
                                  !.loads = {[id |-> job_counter, copies |-> copies]}])
          /\ phase' = [phase EXCEPT ![r] = "loading"]
          /\ prepare_load(HitKeys(r))
          /\ NewJob([req |-> r, is_store |-> FALSE, keys |-> HitKeys(r), blocks |-> {},
                     pending |-> Cardinality(Worker)])
          /\ transfer_jobs' = [transfer_jobs EXCEPT ![r] = {job_counter}]
          /\ receiving' = [receiving EXCEPT ![r] = Worker \X {job_counter}]
          /\ tracked' = tracked \cup {r}
          /\ StepScheduled
          /\ UNCHANGED <<snapshot, slot, failure>>

-----------------------------------------------------------------------------
(* Between two steps.  evaluate_pending also opens every schedule(); events *)
(* may call it at any time before, so one action stands for both.          *)

\* Calls from outside are served between steps, with a batch in flight only
\* when the engine runs ahead.
Serving == failure = "none" /\ (batches # <<>> => BatchQueueSize > 1)

\* The leading blocks of the snapshot that the CPU or still the GPU holds.
Candidates(r) ==
    Max({n \in 0..Len(snapshot[r]) : \A i \in 1..n :
            KeysOf[r][i] \in Resident(status) \/ hash[snapshot[r][i]] = KeysOf[r][i]})

\* A stalled request's prefix of n blocks is selected for preservation.
evaluate_pending(r, n) ==
    /\ Serving
    /\ n \in 1..Candidates(r)
    /\ snapshot' = [snapshot EXCEPT ![r] = <<>>]
    /\ IF Prefix(r, n) \subseteq Resident(status)
       THEN UNCHANGED <<jobs, job_counter, detached, fences, unpublished, cpu_vars>>
       ELSE \E p \in StorePlans(Prefix(r, n)) :
               LET copies == Copies(r, SubSeq(snapshot[r], 1, n), p.place) IN
               /\ Accepted(p)
               /\ NewJob([req |-> r, is_store |-> TRUE, keys |-> DOMAIN p.place,
                          blocks |-> Blocks(copies), pending |-> Cardinality(Worker)])
               /\ detached' = detached \cup {job_counter}
               /\ fences' = [b \in Block |-> IF b \in Blocks(copies)
                                             THEN fences[b] \cup {job_counter} ELSE fences[b]]
               /\ unpublished' = unpublished \cup {[id |-> job_counter, copies |-> copies]}
    /\ UNCHANGED <<phase, table, hash, request_vars, tracked, stored, transfer_jobs,
                   stale_job_threshold, to_flush, batches, worker_vars, env_vars>>

\* Seeded fault: request_finished does not register the pending stores.
FencesWith_none(S) == fences

\* request_finished for the requests in S: what they still have in flight is
\* fenced, and a request without jobs is forgotten.
FencesWith(S) ==
    [b \in Block |-> fences[b] \cup {id \in UNION {transfer_jobs[r] : r \in S} : b \in jobs[id].blocks}]

\* Seeded fault: a request without jobs stays in _req_status.
TrackedWithout_kept(S) == tracked

TrackedWithout(S) == tracked \ {r \in S : transfer_jobs[r] = {}}

JobsUnknown(S) == \E r \in S : ~(transfer_jobs[r] \subseteq DOMAIN jobs)

\* Seeded fault: the blocks of a load in flight are freed.
BlocksKept_none(r) == <<>>

\* delay_free_blocks: while its load is in flight a request keeps its blocks.
BlocksKept(r) == IF phase[r] = "loading" THEN table[r] ELSE <<>>

\* A request is aborted.
finish_requests(r) ==
    /\ failure = "none" /\ r \in Abortable /\ ~Finished(r)
    /\ \/ JobsUnknown({r}) /\ Stop("unknown job")
       \/ /\ ~JobsUnknown({r})
          /\ tracked' = TrackedWithout({r})
          /\ fences' = FencesWith({r})
          /\ phase' = [phase EXCEPT ![r] = IF @ = "loading" THEN "aborting" ELSE "finished"]
          /\ table' = [table EXCEPT ![r] = BlocksKept(r)]
          /\ finished_ids' = TRUE
          /\ UNCHANGED <<hash, snapshot, receiving, stored, transfer_jobs, jobs, job_counter, detached,
                         stale_job_threshold, publish_vars, cpu_vars, batches, worker_vars, env_vars>>

\* The connector's part of a reset: TokenCakeOffloadingScheduler.reset_cache.
ConnectorReset ==
    /\ to_flush' = DOMAIN jobs \ Ids(unpublished)
    /\ reset_cache
    /\ slot' = [k \in {} |-> 0]
    /\ stored' = [r \in Request |-> IF r \in tracked THEN 0 ELSE stored[r]]
    /\ stale_job_threshold' = job_counter
    /\ jobs' = [id \in {} |-> {}]
    /\ fences' = [b \in Block |-> {}]
    /\ unpublished' = {} /\ detached' = {}
    /\ snapshot' = [r \in Request |-> <<>>]

\* The GPU cache is reset when nobody uses it.  A reset that preempted the
\* running requests and still fails raises before it reaches the connector,
\* and the connector refuses a reset while it has jobs to flush.
reset_prefix_cache(reset_running, reset_connector) ==
    LET V == IF reset_running THEN {r \in Request : phase[r] = "running"} ELSE {}
        successful == Free(V) = Block
    IN  /\ Serving /\ resets < MaxResets
        /\ resets' = resets + 1
        /\ phase' = [r \in Request |-> IF r \in V THEN "waiting" ELSE phase[r]]
        /\ table' = [r \in Request |-> IF r \in V THEN <<>> ELSE table[r]]
        /\ hash' = IF successful THEN [b \in Block |-> NoKey] ELSE hash
        /\ IF reset_connector /\ (successful \/ ~reset_running) /\ to_flush = {}
           THEN ConnectorReset
           ELSE /\ snapshot' = IF successful THEN [r \in Request |-> <<>>] ELSE snapshot
                /\ UNCHANGED <<publish_vars, cpu_vars, stored, jobs, fence_vars>>
        /\ UNCHANGED <<request_vars, tracked, transfer_jobs, job_counter, batches, worker_vars, failure>>

-----------------------------------------------------------------------------
(* Workers: execute_model of the next batch, in the three parts between    *)
(* which copies may complete.                                              *)

NextBatch(w) == batches[position[w] + 1]

\* Deferred stores are submitted first, then the worker waits for the flush.
handle_preemptions(w) ==
    /\ stage[w] = "idle" /\ position[w] < Len(batches)
    /\ stage' = [stage EXCEPT ![w] = "flushing"]
    /\ d2h' = [d2h EXCEPT ![w] = @ \o unsubmitted[w]]
    /\ unsubmitted' = [unsubmitted EXCEPT ![w] = <<>>]
    /\ UNCHANGED <<pool_vars, request_vars, job_vars, fence_vars, publish_vars, cpu_vars, batches,
                   position, h2d, copied, gpu, cpu, env_vars>>

\* Seeded fault: the worker does not wait.
Flushed_always(w) == TRUE

Flushed(w) == Ids(ToSet(d2h[w] \o h2d[w])) \cap NextBatch(w).flush = {}

\* The loads of the batch start and the forward pass writes its blocks.
start_kv_transfers(w) ==
    /\ stage[w] = "flushing" /\ Flushed(w)
    /\ stage' = [stage EXCEPT ![w] = "forward"]
    /\ h2d' = [h2d EXCEPT ![w] = @ \o SetToSeq(NextBatch(w).loads)]
    /\ gpu' = [gpu EXCEPT ![w] = [b \in Block |->
                  LET new == {x.key : x \in {y \in NextBatch(w).writes : y.block = b}}
                  IN  IF new = {} THEN @[b] ELSE CHOOSE k \in new : TRUE]]
    /\ UNCHANGED <<pool_vars, request_vars, job_vars, fence_vars, publish_vars, cpu_vars, batches,
                   position, unsubmitted, d2h, copied, cpu, env_vars>>

\* The stores of the batch are kept for the next one, and the transfers that
\* have completed are reported.
get_finished(w) ==
    /\ stage[w] = "forward"
    /\ stage' = [stage EXCEPT ![w] = "idle"]
    /\ unsubmitted' = [unsubmitted EXCEPT ![w] = SetToSeq(NextBatch(w).stores)]
    /\ batches' = [batches EXCEPT ![position[w] + 1].done = @ \cup ({w} \X copied[w])]
    /\ copied' = [copied EXCEPT ![w] = {}]
    /\ position' = [position EXCEPT ![w] = @ + 1]
    /\ UNCHANGED <<pool_vars, request_vars, job_vars, fence_vars, publish_vars, cpu_vars,
                   d2h, h2d, gpu, cpu, env_vars>>

\* Transfers of one direction are carried out in the order of submission.
copy_to_cpu(w) ==
    /\ d2h[w] # <<>>
    /\ cpu' = [cpu EXCEPT ![w] = [s \in Slot |->
                  LET from == {c.block : c \in {x \in Head(d2h[w]).copies : x.slot = s}}
                  IN  IF from = {} THEN @[s] ELSE gpu[w][CHOOSE b \in from : TRUE]]]
    /\ d2h' = [d2h EXCEPT ![w] = Tail(@)]
    /\ copied' = [copied EXCEPT ![w] = @ \cup {Head(d2h[w]).id}]
    /\ UNCHANGED <<pool_vars, request_vars, job_vars, fence_vars, publish_vars, cpu_vars, batches,
                   position, stage, unsubmitted, h2d, gpu, env_vars>>

copy_to_gpu(w) ==
    /\ h2d[w] # <<>>
    /\ gpu' = [gpu EXCEPT ![w] = [b \in Block |->
                  LET from == {c.slot : c \in {x \in Head(h2d[w]).copies : x.block = b}}
                  IN  IF from = {} THEN @[b] ELSE cpu[w][CHOOSE s \in from : TRUE]]]
    /\ h2d' = [h2d EXCEPT ![w] = Tail(@)]
    /\ copied' = [copied EXCEPT ![w] = @ \cup {Head(h2d[w]).id}]
    /\ UNCHANGED <<pool_vars, request_vars, job_vars, fence_vars, publish_vars, cpu_vars, batches,
                   position, stage, unsubmitted, d2h, cpu, env_vars>>

-----------------------------------------------------------------------------
(* Scheduler.update_from_output of the oldest batch, once every worker has *)
(* executed it.                                                            *)

Reports(id) == Cardinality({x \in Head(batches).done : x[2] = id})

\* Seeded fault: the first worker's report ends a job.
Ended_first == {id \in DOMAIN jobs : Reports(id) > 0}

\* The jobs whose last report the batch brings.  Reports of jobs older than
\* the last reset are dropped.
Ended ==
    {id \in DOMAIN jobs : id >= stale_job_threshold /\ jobs[id].pending = Reports(id)}

\* The requests in S have just stopped.
update_connector_output(S) ==
    LET stores == {id \in Ended : jobs[id].is_store}
        left == [r \in Request |-> transfer_jobs[r] \ Ended]
        over == {r \in Request : Finished(r) \/ r \in S}
    IN  /\ status' = Completed(status, UNION {jobs[id].keys : id \in stores}, TRUE)
        /\ readers' = [k \in Key |-> readers[k] - Cardinality({id \in Ended \ stores : k \in jobs[id].keys})]
        /\ jobs' = [id \in DOMAIN jobs \ Ended |->
                      [jobs[id] EXCEPT !.pending = @ - Reports(id)]]
        /\ fences' = [b \in Block |->
                        FencesWith(S)[b] \ {id \in Ended : id \in detached \/ jobs[id].req \in over}]
        /\ detached' = detached \ Ended
        /\ transfer_jobs' = left
        /\ tracked' = {r \in TrackedWithout(S) : left[r] = transfer_jobs[r] \/ left[r] # {} \/ r \notin over}

\* Seeded fault: reports that come with different batches are not added up.
Missing_alone(r) ==
    IF receiving[r] \subseteq Head(batches).done THEN {} ELSE receiving[r]

\* The worker reports still missing for request r's load after this batch.
Missing(r) == receiving[r] \ Head(batches).done

\* The requests that may stop on the token this batch sampled; with a second
\* batch in flight they may have been preempted since.
MayStop == {r \in Head(batches).samples : phase[r] \in {"running", "waiting"}}

\* The requests in S stop, then the transfers that ended are accounted for.
update_from_output(S) ==
    LET arrived == {r \in Request : receiving[r] # {} /\ Missing(r) = {}}
    IN  /\ failure = "none"
        /\ batches # <<>> /\ \A w \in Worker : position[w] > 0
        /\ S \subseteq MayStop
        /\ \/ JobsUnknown(S) /\ Stop("unknown job")
           \/ /\ ~JobsUnknown(S)
              /\ batches' = Tail(batches)
              /\ position' = [w \in Worker |-> position[w] - 1]
              /\ snapshot' = [r \in Request |-> IF r \in S \cap Agent THEN table[r] ELSE snapshot[r]]
              /\ finished_ids' = (finished_ids \/ S # {})
              /\ update_connector_output(S)
              /\ receiving' = [r \in Request |-> Missing(r)]
              /\ phase' = [r \in Request |->
                             IF r \in S \/ (r \in arrived /\ phase[r] = "aborting") THEN "finished"
                             ELSE IF r \in arrived THEN "loaded" ELSE phase[r]]
              /\ table' = [r \in Request |-> IF phase'[r] = "finished" THEN <<>> ELSE table[r]]
              /\ UNCHANGED <<hash, stored, job_counter, stale_job_threshold, publish_vars, slot,
                             stage, unsubmitted, d2h, h2d, copied, gpu, cpu, env_vars>>

-----------------------------------------------------------------------------
schedule ==
    \/ \E Q \in SUBSET Request : schedule_no_tokens(Q)
    \/ \E r \in Request, V \in SUBSET Request : schedule_running(r, V)
    \/ \E r \in Request, V \in SUBSET Request : schedule_preempted(r, V)
    \/ \E r \in Request : schedule_waiting(r)
    \/ \E r \in Request : schedule_loaded(r)
    \/ \E r \in Request : schedule_load(r)

Next ==
    \/ schedule
    \/ \E r \in Request, n \in 1..MaxLen : evaluate_pending(r, n)
    \/ \E r \in Request : finish_requests(r)
    \/ \E running \in ResetRunning, connector \in ResetConnector : reset_prefix_cache(running, connector)
    \/ \E w \in Worker : handle_preemptions(w)
    \/ \E w \in Worker : start_kv_transfers(w)
    \/ \E w \in Worker : get_finished(w)
    \/ \E w \in Worker : copy_to_cpu(w)
    \/ \E w \in Worker : copy_to_gpu(w)
    \/ \E S \in SUBSET Request : update_from_output(S)

Spec == Init /\ [][Next]_vars

\* run_busy_loop keeps stepping while the engine has work, workers execute
\* what they are given, and the device carries out what is submitted.
Fairness ==
    /\ WF_vars(schedule) /\ WF_vars(\E S \in SUBSET Request : update_from_output(S))
    /\ \A w \in Worker :
          /\ WF_vars(handle_preemptions(w)) /\ WF_vars(start_kv_transfers(w))
          /\ WF_vars(get_finished(w)) /\ WF_vars(copy_to_cpu(w)) /\ WF_vars(copy_to_gpu(w))

FairSpec == Spec /\ Fairness
-----------------------------------------------------------------------------
Job == [req : Request, is_store : BOOLEAN, keys : SUBSET Key, blocks : SUBSET Block,
        pending : 1..Cardinality(Worker)]

\* Types of the connector; no two resident keys share a CPU block, and every
\* detached or unpublished job is a job in flight.
ConnectorTypeOK ==
    /\ StoreTypeOK
    /\ phase \in [Request -> {"waiting", "loading", "loaded", "promoted", "running",
                              "aborting", "finished"}]
    /\ \A r \in Request : table[r] \in Seq(Block) /\ Len(table[r]) <= Len(KeysOf[r])
    /\ hash \in [Block -> Key \cup {NoKey}]
    /\ DOMAIN jobs \subseteq JobId /\ \A id \in DOMAIN jobs : jobs[id] \in Job
    /\ detached \cup Ids(unpublished) \subseteq DOMAIN jobs
    /\ \A r \in Request : stored[r] \in 0..Len(KeysOf[r])
    /\ DOMAIN slot = Resident(status) /\ IsInjective(slot) /\ Range(slot) \subseteq Slot
    /\ \A w \in Worker : position[w] \in 0..Len(batches)
    /\ stale_job_threshold <= job_counter

\* Every key the store calls ready is in its CPU block, on every worker:
\* no store copied a GPU block before it was computed or after it was given
\* away, and no later copy overwrote the CPU block.
CPUDataValid ==
    \A k \in Ready(status), w \in Worker : cpu[w][slot[k]] = k

\* A forward pass finds in the blocks its request computed, loaded or shared
\* exactly the KV of the request's prefix.
ForwardSeesPrefix ==
    [][\A w \in Worker : stage[w] = "flushing" /\ stage'[w] = "forward" =>
          \A x \in NextBatch(w).context : gpu[w][x.block] = x.key]_vars

\* scheduler.py, TransferJobStatus: a pending store's source blocks are held
\* by its request while it runs, and fenced afterwards.  A block can change
\* hands with a store pending only under a fence.
SourcesGuarded ==
    \A id \in DOMAIN jobs : \A b \in jobs[id].blocks :
        \/ id \in fences[b]
        \/ b \in ToSet(table[jobs[id].req])
        \/ \E i \in DOMAIN batches : id \in batches[i].flush

\* No assertion or dictionary access of the connector stops the engine: the
\* job ids a request remembers are those of jobs in flight whenever it is
\* scheduled, preempted or finished.
EngineSurvives == failure = "none"

\* scheduler.py:652: "a load can only be issued when no other jobs are pending."
LoadsIssuedAlone == failure # "load not alone"

\* Nothing is left behind: a finished request is tracked only while it has
\* jobs in flight, and fences name only jobs in flight.
NoLeaks ==
    /\ \A r \in tracked : Finished(r) => transfer_jobs[r] # {}
    /\ \A r \in Request : transfer_jobs[r] \subseteq DOMAIN jobs
    /\ \A b \in Block : fences[b] \subseteq DOMAIN jobs
    /\ \A k \in Key : status[k] = "writing" => \E id \in DOMAIN jobs : k \in jobs[id].keys
    /\ \A k \in Key : readers[k] = Cardinality({id \in DOMAIN jobs : ~jobs[id].is_store /\ k \in jobs[id].keys})

\* Every transfer job ends, also when no request is left to make the engine
\* step: has_pending_work and the flush after the last request see to it.
JobsEnd == \A id \in JobId : id \in DOMAIN jobs ~> id \notin DOMAIN jobs

\* A request that waits for its load, aborted or not, gets out of the wait.
LoadsEnd ==
    \A r \in Request : phase[r] \in {"loading", "aborting"} ~> phase[r] \notin {"loading", "aborting"}
=============================================================================
