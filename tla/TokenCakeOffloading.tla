------------------------ MODULE TokenCakeOffloading -------------------------
(***************************************************************************)
(* TokenCakeOffloadingScheduler (vllm/tokencake/offloading.py): the         *)
(* lifecycle registry driven by the connector that stores the snapshots of  *)
(* stalled agents.  evaluate_pending picks prefixes and registers detached  *)
(* stores; update_connector_output completes stores and turns the           *)
(* retentions that waited for them into references.                         *)
(*                                                                          *)
(* Both handlers loop over the records, and the registry reads its clock    *)
(* anew for each.  turn is where such a loop is; the engine has one thread, *)
(* so nothing else happens until it is over.  A loop visits the records in  *)
(* any order.  Which GPU blocks still match and what the benefit policy     *)
(* says are not modelled: any part of a snapshot may be selected, or none.  *)
(***************************************************************************)
EXTENDS LifecycleRegistry

VARIABLES
    jobs,    \* stores in flight: the keys each writes
    turn     \* the loop under way: its handler, records to visit, completed keys

offloading_vars == <<jobs, turn>>
all_vars == <<vars, offloading_vars>>

NoTurn == [op |-> "none", ids |-> {}, keys |-> {}]

Turn(op, ids, keys) == IF ids = {} THEN NoTurn ELSE [op |-> op, ids |-> ids, keys |-> keys]

Visited(id) == turn' = Turn(turn.op, turn.ids \ {id}, turn.keys)

\* A handler of the registry that is no part of a loop.
Between(A) == turn = NoTurn /\ A /\ UNCHANGED offloading_vars

-----------------------------------------------------------------------------
(* evaluate_pending *)

evaluate_pending ==
    /\ turn = NoTurn
    /\ \E t \in Reading(clock) :
          /\ records' = RecordsAt(t) /\ readers' = ReadersAt(t)
          /\ clock' = t /\ swept' = t
    /\ turn' = Turn("evaluate", DOMAIN records', {})
    /\ reply' = NoReply
    /\ UNCHANGED <<generations, requests, status, loads, jobs>>

Evaluated(r) == [r EXCEPT !.pending_evaluation = FALSE]

\* The loop goes past a record, for one of many reasons, or past one that an
\* expire() has dropped meanwhile.
pass_over(id) ==
    /\ turn.op = "evaluate" /\ id \in turn.ids
    /\ records' = [i \in DOMAIN records |-> IF i = id THEN Evaluated(records[i]) ELSE records[i]]
    /\ Visited(id)
    /\ UNCHANGED <<clock, swept, generations, requests, loads, reply, store_vars, jobs>>

\* One batch per lifecycle, while it owns its preservation.
Eligible(r) ==
    owns_preservation(r) /\ r.retained = {} /\ r.pending_retention = {} /\ r.snapshot # {}

\* The estimate leaves no time: the record gives its ownership up.
give_up(id, seconds) ==
    /\ turn.op = "evaluate" /\ id \in turn.ids \cap DOMAIN records
    /\ Eligible(records[id])
    /\ \E now \in Reading(clock) :
          LET r == WithEstimate(Evaluated(records[id]), seconds, now) IN
          /\ ~owns_preservation(r)
          /\ records' = Put(records, id, r)
          /\ clock' = now
    /\ Visited(id)
    /\ UNCHANGED <<swept, generations, requests, loads, reply, store_vars, jobs>>

\* Keys of the batch that become ready later, whoever writes them.
PendingOn(K, st) == {k \in K : st[k] = "writing"}

\* Seeded fault: the store is left behind when ownership lapses.
Abandoned_kept(st, new) == st

Abandoned(st, new) == Completed(st, new, FALSE)

\* _register_store of the keys in K.  retain_ready calls expire(), and the
\* ownership may lapse there: then the store is undone.  (When prepare_store
\* finds no room, only the estimate is left.)
_register_store(id, K, seconds) ==
    /\ turn.op = "evaluate" /\ id \in turn.ids \cap DOMAIN records
    /\ Eligible(records[id]) /\ K # {} /\ K \subseteq records[id].snapshot
    /\ \E now \in Reading(clock) : \E t \in Reading(now) :
       LET estimated == Put(records, id, WithEstimate(Evaluated(records[id]), seconds, now))
           recs == Expired(estimated, t)
           rd == Returned(readers, estimated, Expiring(estimated, t))
           r == recs[id]
       IN
       /\ owns_preservation(estimated[id])
       /\ \/ /\ records' = estimated /\ clock' = now
             /\ UNCHANGED <<swept, jobs, store_vars>>
          \/ \E new \in SUBSET K, evicted \in SUBSET (Key \ K) :
             LET st == Prepared(status, new, evicted)
                 taken == Retainable(r, K, st)
             IN
             /\ CanPrepare(status, readers, K, new, evicted)
             /\ clock' = t /\ swept' = t
             /\ readers' = Acquired(rd, taken)
             /\ IF owns_preservation(r)
                THEN /\ records' = Put(recs, id, [r EXCEPT !.retained = @ \cup taken,
                                                           !.pending_retention = PendingOn(K, st)])
                     /\ status' = st
                     /\ jobs' = jobs \cup ({new} \ {{}})
                ELSE /\ records' = recs
                     /\ status' = Abandoned(st, new)
                     /\ UNCHANGED jobs
    /\ Visited(id)
    /\ UNCHANGED <<generations, requests, loads, reply>>

-----------------------------------------------------------------------------
(* The connector's own jobs, and update_connector_output *)

\* A store on behalf of an ordinary request.
ordinary_store(K) ==
    /\ turn = NoTurn
    /\ \E new \in (SUBSET K) \ {{}}, evicted \in SUBSET (Key \ K) :
          /\ CanPrepare(status, readers, K, new, evicted)
          /\ status' = Prepared(status, new, evicted)
          /\ jobs' = jobs \cup {new}
    /\ UNCHANGED <<readers, loads, registry_vars, turn>>

\* All workers have reported the jobs in J.
update_connector_output(J) ==
    /\ turn = NoTurn
    /\ \E t \in Reading(clock) :
          /\ records' = RecordsAt(t) /\ readers' = ReadersAt(t)
          /\ clock' = t /\ swept' = t
    /\ status' = Completed(status, UNION J, TRUE)
    /\ jobs' = jobs \ J
    /\ turn' = Turn("retain", DOMAIN records', UNION J)
    /\ reply' = NoReply
    /\ UNCHANGED <<generations, requests, loads>>

\* Seeded fault: the references taken are not recorded.
Resolved_untaken(r, ready, taken) == [r EXCEPT !.pending_retention = @ \ ready]

Resolved(r, ready, taken) ==
    [r EXCEPT !.retained = @ \cup taken, !.pending_retention = @ \ ready]

\* The retentions of one record that waited for the completed keys.
retain_completed(id) ==
    /\ turn.op = "retain" /\ id \in turn.ids
    /\ IF id \in DOMAIN records /\ records[id].pending_retention \cap turn.keys # {}
       THEN \E t \in Reading(clock) :
            LET r == RecordsAt(t)[id]
                ready == records[id].pending_retention \cap turn.keys
                taken == Retainable(r, ready, status)
            IN  /\ records' = Put(RecordsAt(t), id, Resolved(r, ready, taken))
                /\ readers' = Acquired(ReadersAt(t), taken)
                /\ clock' = t /\ swept' = t
       ELSE UNCHANGED <<records, readers, clock, swept>>
    /\ Visited(id)
    /\ UNCHANGED <<generations, requests, loads, reply, status, jobs>>

reset_cache_and_jobs ==
    /\ turn = NoTurn
    /\ reset_connector_cache
    /\ jobs' = {}
    /\ UNCHANGED turn

OffloadingInit == Init /\ jobs = {} /\ turn = NoTurn

OffloadingNext ==
    \/ \E req \in RequestId, id \in LifecycleId : Between(associate(req, id))
    \/ \E req \in RequestId, cause \in GenerationCause, snapshot \in SUBSET Key :
          Between(generation_finished(req, cause, snapshot))
    \/ \E id \in LifecycleId, event \in StartEvent : Between(apply_start(id, event))
    \/ \E id \in LifecycleId : Between(apply_finish(id))
    \/ Between(invalidate_snapshots)
    \/ \E K \in (SUBSET Key) \ {{}} : Between(connector_load(K)) \/ Between(connector_loaded(K))
    \/ evaluate_pending
    \/ \E id \in LifecycleId : pass_over(id) \/ retain_completed(id)
    \/ \E id \in LifecycleId, seconds \in Lead : give_up(id, seconds)
    \/ \E id \in LifecycleId, K \in SUBSET Key, seconds \in Lead : _register_store(id, K, seconds)
    \/ \E K \in (SUBSET Key) \ {{}} : ordinary_store(K)
    \/ \E J \in (SUBSET jobs) \ {{}} : update_connector_output(J)
    \/ reset_cache_and_jobs

OffloadingSpec == OffloadingInit /\ [][OffloadingNext]_all_vars
-----------------------------------------------------------------------------
\* Every key being written has one store in flight, which will make it ready,
\* and every key a lifecycle waits for is such a key (or one of the keys whose
\* completion is being handed on): nothing waits for a store that is over, was
\* undone when ownership lapsed, or was discarded by a reset.
PendingIsWritten ==
    /\ UNION jobs = {k \in Key : status[k] = "writing"}
    /\ \A j1, j2 \in jobs : j1 = j2 \/ j1 \cap j2 = {}
    /\ \A id \in DOMAIN records : \A k \in records[id].pending_retention :
          \/ status[k] = "writing"
          \/ turn.op = "retain" /\ id \in turn.ids /\ k \in turn.keys /\ status[k] = "ready"

\* A lifecycle that goes on owning its preservation never loses a key it waits
\* for: whoever's store it was, the key passes from pending to retained in one
\* step, with no moment at which the store could evict it.
PreservationHandedOn ==
    [][\A id \in DOMAIN records \cap DOMAIN records' :
          owns_preservation(records'[id]) =>
              records[id].retained \cup records[id].pending_retention
                  \subseteq records'[id].retained \cup records'[id].pending_retention]_all_vars
=============================================================================
