-------------------------- MODULE LifecycleRegistry --------------------------
(***************************************************************************)
(* LifecycleRegistry (vllm/tokencake/lifecycle.py): which generation owns  *)
(* a lifecycle id, the stall a client reports for it, and how long the     *)
(* registry may keep KV blocks of the finished generation in the store.    *)
(*                                                                         *)
(* clock is the latest reading of time.monotonic().  A handler reads it    *)
(* more than once and time may pass between two readings, so each reading  *)
(* is any time not before the previous one.  swept is the reading of the   *)
(* latest expire().  Durations are whole ticks.  A prediction (_predict)   *)
(* is any member of Duration: estimates and their smoothed history are     *)
(* reals that nothing here tells apart.                                    *)
(***************************************************************************)
EXTENDS OffloadStore

CONSTANTS
    LifecycleId,
    RequestId,
    StartEvent,         \* stall_started payloads: kind and estimated duration
    Duration,           \* predicted stall durations
    Lead,               \* 1.25 * estimated host-to-device time
    release_lead_s,
    enabled,            \* settings.enabled
    AttachSeconds, TombstoneSeconds,
    MinSafety, MaxSafety,   \* the 60.0 and 3600.0 of safety_deadline
    MaxClock,           \* bound on time
    MaxLoads            \* bound on loads in flight of one key

None == -1

NoEvent == "no event"

ASSUME RegistryAssumption ==
    /\ IsFiniteSet(LifecycleId)
    /\ NoEvent \notin StartEvent
    /\ Duration \subseteq Nat /\ Lead \subseteq Nat /\ release_lead_s \in Nat
    /\ enabled \in BOOLEAN
    /\ AttachSeconds \in Nat \ {0} /\ TombstoneSeconds \in Nat \ {0}
    /\ MinSafety \in Nat \ {0} /\ MaxSafety \in Nat \ {0}
    /\ MaxClock \in Nat /\ MaxLoads \in Nat

VARIABLES
    clock, swept,
    records,      \* lifecycle id -> Lifecycle
    generations,  \* _generations: lifecycle id -> request id
    requests,     \* unfinished requests with TokenCake metadata -> lifecycle id
    loads,        \* loads in flight of each key, which the connector completes
    reply         \* result of the event the registry has just applied

registry_vars == <<clock, swept, records, generations, requests, reply>>
vars == <<registry_vars, loads, store_vars>>

-----------------------------------------------------------------------------
(* Lifecycle *)

GenerationCause == {"completed", "aborted", "error"}

TerminalCause == {"completed", "finished", "aborted", "error", "expired", "reset"}

NoCause == "no cause"

Time == Nat \cup {None}

Lifecycle ==
    [completed_at : Time, snapshot : SUBSET Key,
     start : StartEvent \cup {NoEvent}, started_at : Time,
     predicted_duration : Nat, safety_deadline : Int, release_deadline : Int,
     ownership_released : BOOLEAN,
     retained : SUBSET Key, pending_retention : SUBSET Key,
     pending_evaluation : BOOLEAN,
     terminal_cause : TerminalCause \cup {NoCause}, terminal_at : Time,
     finish_accepted : BOOLEAN]

\* snapshot is the set of keys a PrefixSnapshot describes, {} for no snapshot.
\* The deadlines are not read before started_at is set.
NewLifecycle ==
    [completed_at |-> None, snapshot |-> {},
     start |-> NoEvent, started_at |-> None,
     predicted_duration |-> 0, safety_deadline |-> None, release_deadline |-> None,
     ownership_released |-> FALSE,
     retained |-> {}, pending_retention |-> {},
     pending_evaluation |-> FALSE,
     terminal_cause |-> NoCause, terminal_at |-> None,
     finish_accepted |-> FALSE]

Terminal(r) == r.terminal_at # None

owns_preservation(r) == r.start # NoEvent /\ ~Terminal(r) /\ ~r.ownership_released

State(r) ==
    CASE r.terminal_cause # NoCause -> r.terminal_cause
      [] r.terminal_cause = NoCause /\ r.start # NoEvent ->
            IF r.ownership_released THEN "released" ELSE "active"
      [] OTHER -> IF r.completed_at = None THEN "generating" ELSE "awaiting_start"

Put(f, x, v) == [y \in DOMAIN f \cup {x} |-> IF y = x THEN v ELSE f[y]]

Remove(f, x) == [y \in DOMAIN f \ {x} |-> f[y]]

-----------------------------------------------------------------------------
(* release, _terminalize and expire.  Each gives the record it leaves; the *)
(* references it returns to the store are r.retained, one per key.         *)

Released(r) ==
    [r EXCEPT !.retained = {}, !.pending_retention = {}, !.ownership_released = TRUE]

Terminalized(r, cause, now) ==
    IF Terminal(r) THEN r
    ELSE [Released(r) EXCEPT !.snapshot = {}, !.pending_evaluation = FALSE,
                             !.terminal_cause = cause, !.terminal_at = now]

\* The tombstone of a terminal record is dropped.
Forgotten(r, now) == Terminal(r) /\ now >= r.terminal_at + TombstoneSeconds

\* The stall lasts longer than it may, or no stall was reported in time.
Overdue(r, now) ==
    /\ ~Terminal(r)
    /\ IF r.started_at # None THEN now >= r.safety_deadline
       ELSE r.completed_at # None /\ now >= r.completed_at + AttachSeconds

\* Seeded fault: the deadline itself does not count.
PastRelease_late(r, now) ==
    ~Terminal(r) /\ r.started_at # None /\ now > r.release_deadline

PastRelease(r, now) ==
    ~Terminal(r) /\ r.started_at # None /\ now >= r.release_deadline

Aged(r, now) ==
    IF Overdue(r, now) THEN Terminalized(r, "expired", now)
    ELSE IF PastRelease(r, now) THEN Released(r) ELSE r

Expired(recs, now) ==
    [id \in {i \in DOMAIN recs : ~Forgotten(recs[i], now)} |-> Aged(recs[id], now)]

\* The records expire() calls release for.
Expiring(recs, now) ==
    {id \in DOMAIN recs : Overdue(recs[id], now) \/ PastRelease(recs[id], now)}

\* manager.release(record.retained) for every record named in ids.
Returned(rd, recs, ids) ==
    [k \in Key |-> rd[k] - Cardinality({id \in ids : k \in recs[id].retained})]

-----------------------------------------------------------------------------
(* Every handler below starts with expire(), read at time t: it works on   *)
(* the records and on the reader counts that expire() leaves.              *)

Reading(from) == from..MaxClock

RecordsAt(t) == Expired(records, t)

ReadersAt(t) == Returned(readers, records, Expiring(records, t))

NoReply == [event |-> "none", id |-> "none", state |-> "none", disposition |-> "none"]

Reply(event, id, state, disposition) ==
    [event |-> event, id |-> id, state |-> state, disposition |-> disposition]

\* Seeded fault: a generation without a record does not count.
Claimed_recorded(recs, id) == id \in DOMAIN recs

\* An id is taken by a record or by a generation that outlives its record.
Claimed(recs, id) == id \in DOMAIN recs \/ id \in DOMAIN generations

\* Scheduler.add_request: the request is queued unless associate raises.
associate(req, id) ==
    \E t \in Reading(clock) :
        /\ req \notin DOMAIN requests
        /\ IF Claimed(RecordsAt(t), id)
           THEN /\ records' = RecordsAt(t)
                /\ UNCHANGED <<generations, requests>>
           ELSE /\ records' = Put(RecordsAt(t), id, NewLifecycle)
                /\ generations' = Put(generations, id, req)
                /\ requests' = Put(requests, req, id)
        /\ readers' = ReadersAt(t)
        /\ clock' = t /\ swept' = t /\ reply' = NoReply
        /\ UNCHANGED <<status, loads>>

GenerationFinished(r, cause, snapshot, now) ==
    IF cause # "completed" \/ ~enabled THEN Terminalized(r, cause, now)
    ELSE [r EXCEPT !.completed_at = now, !.snapshot = snapshot,
                   !.pending_evaluation = r.start # NoEvent]

\* The references GenerationFinished returns to the store.
DroppedByFinish(r, cause) ==
    IF cause # "completed" \/ ~enabled THEN r.retained ELSE {}

\* Scheduler._free_request of a request, completed with the given snapshot.
generation_finished(req, cause, snapshot) ==
    /\ req \in DOMAIN requests
    /\ LET id == requests[req] IN
       \E t \in Reading(clock) : \E now \in Reading(t) :
        /\ IF id \in DOMAIN RecordsAt(t) /\ ~Terminal(RecordsAt(t)[id])
           THEN LET r == RecordsAt(t)[id] IN
                /\ records' = Put(RecordsAt(t), id, GenerationFinished(r, cause, snapshot, now))
                /\ readers' = Dropped(ReadersAt(t), DroppedByFinish(r, cause))
           ELSE records' = RecordsAt(t) /\ readers' = ReadersAt(t)
        /\ generations' = Remove(generations, id)
        /\ requests' = Remove(requests, req)
        /\ clock' = now /\ swept' = t /\ reply' = NoReply
        /\ UNCHANGED <<status, loads>>

Least(a, b) == IF a <= b THEN a ELSE b

Greatest(a, b) == IF a >= b THEN a ELSE b

ReleaseDeadline(r, seconds) ==
    r.started_at + r.predicted_duration - Greatest(release_lead_s, seconds)

\* set_h2d_estimate, its clock read at time now.
WithEstimate(r, seconds, now) ==
    LET s == [r EXCEPT !.release_deadline = ReleaseDeadline(r, seconds)]
    IN  IF now >= s.release_deadline THEN Released(s) ELSE s

DroppedByEstimate(r, seconds, now) ==
    IF now >= ReleaseDeadline(r, seconds) THEN r.retained ELSE {}

Started(r, event, predicted, now) ==
    [r EXCEPT !.start = event, !.started_at = now, !.predicted_duration = predicted,
              !.safety_deadline = now + Least(MaxSafety, Greatest(MinSafety, 4 * predicted))]

\* Seeded fault: a terminal record accepts a stall.
StartDisposition_revived(r, event) ==
    IF r.start = event THEN "duplicate"
    ELSE IF r.start # NoEvent THEN "conflict" ELSE "applied"

StartDisposition(r, event) ==
    IF r.start = event THEN "duplicate"
    ELSE IF r.start # NoEvent \/ Terminal(r) THEN "conflict" ELSE "applied"

\* Seeded fault: the missing stall is looked at first.
FinishDisposition_reordered(r) ==
    IF r.start = NoEvent THEN "conflict"
    ELSE IF ~Terminal(r) THEN "applied"
    ELSE IF r.finish_accepted THEN "duplicate" ELSE "late_finish"

FinishDisposition(r) ==
    IF Terminal(r) THEN IF r.finish_accepted THEN "duplicate" ELSE "late_finish"
    ELSE IF r.start = NoEvent THEN "conflict" ELSE "applied"

Unknown(event, id, t) ==
    /\ id \notin DOMAIN RecordsAt(t)
    /\ records' = RecordsAt(t) /\ readers' = ReadersAt(t)
    /\ clock' = t /\ reply' = Reply(event, id, "unknown", "unknown")

\* apply, for a stall_started event.
apply_start(id, event) ==
    /\ \E t \in Reading(clock) :
          /\ swept' = t
          /\ \/ Unknown("stall_started", id, t)
             \/ /\ id \in DOMAIN RecordsAt(t)
                /\ LET r == RecordsAt(t)[id]
                       disposition == StartDisposition(r, event)
                   IN  /\ IF disposition = "applied"
                          THEN \E now \in Reading(t), predicted \in Duration :
                               \E later \in Reading(now) :
                                  LET s == Started(r, event, predicted, now) IN
                                  /\ records' = Put(RecordsAt(t), id,
                                        [WithEstimate(s, 0, later) EXCEPT
                                            !.pending_evaluation = r.completed_at # None])
                                  /\ readers' = Dropped(ReadersAt(t), DroppedByEstimate(s, 0, later))
                                  /\ clock' = later
                          ELSE records' = RecordsAt(t) /\ readers' = ReadersAt(t) /\ clock' = t
                       /\ reply' = Reply("stall_started", id, State(records'[id]), disposition)
    /\ UNCHANGED <<generations, requests, status, loads>>

\* apply, for a stall_finished event.
apply_finish(id) ==
    /\ \E t \in Reading(clock) :
          /\ swept' = t
          /\ \/ Unknown("stall_finished", id, t)
             \/ /\ id \in DOMAIN RecordsAt(t)
                /\ LET r == RecordsAt(t)[id]
                       disposition == FinishDisposition(r)
                   IN  /\ IF disposition = "applied"
                          THEN \E now \in Reading(t) :
                                  /\ records' = Put(RecordsAt(t), id,
                                        [Terminalized(r, "finished", now) EXCEPT
                                            !.finish_accepted = TRUE])
                                  /\ readers' = Dropped(ReadersAt(t), r.retained)
                                  /\ clock' = now
                          ELSE records' = RecordsAt(t) /\ readers' = ReadersAt(t) /\ clock' = t
                       /\ reply' = Reply("stall_finished", id, State(records'[id]), disposition)
    /\ UNCHANGED <<generations, requests, status, loads>>

\* Seeded fault: the record need not own its preservation.
Retainable_unowned(r, K, st) == (K \ r.retained) \cap Ready(st)

\* The keys retain_ready takes a reference on, the store being in state st.
Retainable(r, K, st) ==
    IF owns_preservation(r) THEN (K \ r.retained) \cap Ready(st) ELSE {}

retain_ready(id, K) ==
    /\ id \in DOMAIN records
    /\ \E t \in Reading(clock) :
          /\ id \in DOMAIN RecordsAt(t)
          /\ LET r == RecordsAt(t)[id]
                 taken == Retainable(r, K, status)
             IN  /\ records' = Put(RecordsAt(t), id, [r EXCEPT !.retained = @ \cup taken])
                 /\ readers' = Acquired(ReadersAt(t), taken)
          /\ clock' = t /\ swept' = t /\ reply' = NoReply
    /\ UNCHANGED <<generations, requests, status, loads>>

set_h2d_estimate(id, seconds) ==
    /\ id \in DOMAIN records /\ owns_preservation(records[id])
    /\ \E now \in Reading(clock) :
          /\ records' = Put(records, id, WithEstimate(records[id], seconds, now))
          /\ readers' = Dropped(readers, DroppedByEstimate(records[id], seconds, now))
          /\ clock' = now
    /\ reply' = NoReply
    /\ UNCHANGED <<swept, generations, requests, status, loads>>

invalidate_snapshots ==
    /\ records' = [id \in DOMAIN records |->
                     [records[id] EXCEPT !.snapshot = {}, !.pending_evaluation = FALSE]]
    /\ reply' = NoReply
    /\ UNCHANGED <<clock, swept, generations, requests, loads, store_vars>>

\* Seeded fault: the records keep the keys the store has dropped.
ClearedRetained_kept(recs) == recs

\* The store has already dropped the entries, so no reference is returned.
ClearedRetained(recs) == [id \in DOMAIN recs |-> [recs[id] EXCEPT !.retained = {}]]

\* The connector's reset_cache: the store forgets everything, the jobs in
\* flight are discarded, then external_reset_succeeded.
reset_connector_cache ==
    /\ \E now \in Reading(clock) :
          /\ records' = [id \in DOMAIN records |->
                           Terminalized(ClearedRetained(records)[id], "reset", now)]
          /\ clock' = now
    /\ status' = [k \in Key |-> "absent"]
    /\ readers' = Returned([k \in Key |-> 0], ClearedRetained(records), DOMAIN records)
    /\ loads' = [k \in Key |-> 0]
    /\ reply' = NoReply
    /\ UNCHANGED <<swept, generations, requests>>

-----------------------------------------------------------------------------
(* What the connector does with the store on behalf of ordinary requests.  *)

connector_load(K) ==
    /\ \A k \in K : loads[k] < MaxLoads
    /\ prepare_load(K)
    /\ loads' = Acquired(loads, K)
    /\ UNCHANGED registry_vars

connector_loaded(K) ==
    /\ \A k \in K : loads[k] > 0
    /\ complete_load(K)
    /\ loads' = Dropped(loads, K)
    /\ UNCHANGED registry_vars

connector_store(K) ==
    /\ prepare_store(K)
    /\ UNCHANGED <<loads, registry_vars>>

connector_stored(K, success) ==
    /\ complete_store(K, success)
    /\ UNCHANGED <<loads, registry_vars>>

Init ==
    /\ StoreInit
    /\ clock = 0 /\ swept = 0
    /\ records = [id \in {} |-> NewLifecycle]
    /\ generations = [id \in {} |-> {}]
    /\ requests = [req \in {} |-> {}]
    /\ loads = [k \in Key |-> 0]
    /\ reply = NoReply

Next ==
    \/ \E req \in RequestId, id \in LifecycleId : associate(req, id)
    \/ \E req \in RequestId, cause \in GenerationCause, snapshot \in SUBSET Key :
          generation_finished(req, cause, snapshot)
    \/ \E id \in LifecycleId, event \in StartEvent : apply_start(id, event)
    \/ \E id \in LifecycleId : apply_finish(id)
    \/ \E id \in LifecycleId, K \in SUBSET Key : retain_ready(id, K)
    \/ \E id \in LifecycleId, seconds \in Lead : set_h2d_estimate(id, seconds)
    \/ invalidate_snapshots
    \/ reset_connector_cache
    \/ \E K \in SUBSET Key : connector_load(K)
    \/ \E K \in SUBSET Key : connector_loaded(K)
    \/ \E K \in SUBSET Key : connector_store(K)
    \/ \E K \in SUBSET Key, success \in BOOLEAN : connector_stored(K, success)

Spec == Init /\ [][Next]_vars
-----------------------------------------------------------------------------
\* Types of the registry and of the store below it; no reader count ever goes
\* negative.
RegistryTypeOK ==
    /\ StoreTypeOK
    /\ clock \in Nat /\ swept \in Nat /\ swept <= clock
    /\ DOMAIN records \subseteq LifecycleId
    /\ \A id \in DOMAIN records : records[id] \in Lifecycle
    /\ DOMAIN generations \subseteq LifecycleId
    /\ \A id \in DOMAIN generations : generations[id] \in RequestId
    /\ DOMAIN requests \subseteq RequestId
    /\ \A req \in DOMAIN requests : requests[req] \in LifecycleId
    /\ loads \in [Key -> Nat]

\* The store counts exactly one reader per load in flight and per lifecycle
\* that retains the key.  release() therefore always finds a reference to
\* return (the assertion in CPUOffloadingManager.release), and a lifecycle
\* that ends, expires, is forgotten or is reset leaves no reference behind.
RetentionsCounted ==
    \A k \in Key : readers[k] =
        loads[k] + Cardinality({id \in DOMAIN records : k \in records[id].retained})

\* Only a lifecycle in a stall that is neither over nor past its release
\* deadline holds, or waits to hold, blocks of the store; a terminal record
\* keeps no snapshot to preserve.
OnlyOwnersRetain ==
    \A id \in DOMAIN records :
        LET r == records[id] IN
        /\ ~owns_preservation(r) => r.retained = {} /\ r.pending_retention = {}
        /\ Terminal(r) => r.snapshot = {} /\ ~r.pending_evaluation

\* After each expire() no lifecycle owns blocks past its release deadline or
\* its safety deadline, however late the call came and however the estimate
\* of the transfer time moved the deadline in between.
OwnershipWithinDeadlines ==
    \A id \in DOMAIN records :
        owns_preservation(records[id]) =>
            /\ swept < records[id].release_deadline
            /\ swept < records[id].safety_deadline

\* lifecycle.py:108: a live generation keeps its association even if its
\* record expired and was forgotten.  The associations are exactly the
\* unfinished requests, so an id is never given to a second generation while
\* the first runs, no generation_finished ends another request's lifecycle,
\* and a record still waiting for its generation has one.
GenerationsAreLive ==
    /\ \A req \in DOMAIN requests :
          requests[req] \in DOMAIN generations /\ generations[requests[req]] = req
    /\ \A id \in DOMAIN generations :
          generations[id] \in DOMAIN requests /\ requests[generations[id]] = id
    /\ \A id \in DOMAIN records :
          ~Terminal(records[id]) /\ records[id].completed_at = None => id \in DOMAIN generations

\* What the reply to an event tells its sender is so: after an accepted,
\* repeated or late stall_finished the lifecycle is over and holds nothing;
\* a refused one met no stall; an accepted or repeated stall_started has its
\* stall on record; an unknown id has no record.
ReplyTruthful ==
    reply # NoReply =>
        IF reply.disposition = "unknown" THEN reply.id \notin DOMAIN records
        ELSE LET r == records[reply.id] IN
             /\ reply.id \in DOMAIN records
             /\ reply.state = State(r)
             /\ reply.event = "stall_finished" =>
                   IF reply.disposition = "conflict" THEN r.start = NoEvent /\ ~Terminal(r)
                   ELSE Terminal(r) /\ r.retained = {} /\ r.pending_retention = {}
             /\ reply.event = "stall_started" =>
                   IF reply.disposition = "conflict" THEN r.start # NoEvent \/ Terminal(r)
                   ELSE r.start # NoEvent

\* A terminal record is final for as long as its tombstone lasts: no late,
\* repeated or reordered event, completion, retention or reset changes it.
TombstoneIsFinal ==
    [][\A id \in DOMAIN records : Terminal(records[id]) =>
          \/ id \in DOMAIN records' /\ records'[id] = records[id]
          \/ swept' >= records[id].terminal_at + TombstoneSeconds]_vars
-----------------------------------------------------------------------------
(* The inductive invariant behind the safety properties above.             *)

\* What holds of a record after an expire() read at time now.
RecordOK(r, now) ==
    /\ r \in Lifecycle
    /\ r.start # NoEvent <=> r.started_at # None
    /\ ~owns_preservation(r) => r.retained = {} /\ r.pending_retention = {}
    /\ Terminal(r) => r.snapshot = {} /\ ~r.pending_evaluation
    /\ owns_preservation(r) => now < r.release_deadline /\ now < r.safety_deadline

Holders(recs, k) == {id \in DOMAIN recs : k \in recs[id].retained}

Counted(rd, ld, recs) == \A k \in Key : rd[k] = ld[k] + Cardinality(Holders(recs, k))

RegistryInv ==
    /\ RegistryTypeOK
    /\ \A id \in DOMAIN records : RecordOK(records[id], swept)
    /\ Counted(readers, loads, records)
    /\ StoreSafe
    /\ GenerationsAreLive
=============================================================================
