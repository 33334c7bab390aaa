---------------------- MODULE TokenCakeOffloadingProofs ----------------------
(***************************************************************************)
(* Proofs that the registry keeps its invariants when the offloading       *)
(* scheduler drives it, that nothing waits for a store that is over, and   *)
(* that an owner never loses a key it waits for: for every set of ids,     *)
(* requests, keys and durations and every bound.                           *)
(***************************************************************************)
EXTENDS TokenCakeOffloading, LifecycleRegistryProofs

-----------------------------------------------------------------------------
(* Records *)

\* The marker that evaluate_pending consumes says nothing else of a record.
LEMMA EvaluatedFacts ==
    ASSUME NEW r \in Lifecycle
    PROVE  /\ Evaluated(r) \in Lifecycle
           /\ Evaluated(r).start = r.start /\ Evaluated(r).started_at = r.started_at
           /\ Evaluated(r).retained = r.retained
           /\ Evaluated(r).pending_retention = r.pending_retention
           /\ Evaluated(r).completed_at = r.completed_at
           /\ Evaluated(r).terminal_at = r.terminal_at
           /\ Evaluated(r).snapshot = r.snapshot
           /\ Evaluated(r).pending_evaluation = FALSE
           /\ Evaluated(r).ownership_released = r.ownership_released
           /\ Evaluated(r).release_deadline = r.release_deadline
           /\ Evaluated(r).safety_deadline = r.safety_deadline
BY Zenon DEF Evaluated, Lifecycle

\* It leaves the record in order.
LEMMA EvaluatedOK ==
    ASSUME NEW t \in Nat, NEW r, RecordOK(r, t)
    PROVE  RecordOK(Evaluated(r), t)
<1>1. r \in Lifecycle
  BY DEF RecordOK
<1> QED
  BY <1>1, EvaluatedFacts, Zenon DEF RecordOK, owns_preservation, Terminal

\* The record of a batch after the estimate of its way back, at the time the
\* registry last expired.
LEMMA EstimatedOK ==
    ASSUME RegistryInv, NEW id \in DOMAIN records, Eligible(records[id]),
           NEW seconds \in Lead, NEW now \in Reading(clock)
    PROVE  LET s == WithEstimate(Evaluated(records[id]), seconds, now) IN
           /\ RecordOK(s, swept) /\ s.retained = {} /\ s.pending_retention = {}
           /\ s.completed_at = records[id].completed_at /\ ~Terminal(s)
           /\ ~Terminal(records[id])
<1> DEFINE r == records[id]
           e == Evaluated(r)
           s == WithEstimate(e, seconds, now)
<1>1. RecordOK(r, swept)
  BY InvParts, Zenon DEF RegistryAt
<1>2. /\ owns_preservation(r) /\ r.retained = {} /\ r.pending_retention = {}
  BY DEF Eligible
<1>3. now \in Nat /\ swept \in Nat /\ swept <= now /\ seconds \in Nat
  BY FirstReading, RegistryAssumption
<1>4. /\ r \in Lifecycle /\ r.start # NoEvent /\ r.started_at \in Nat /\ ~Terminal(r)
      /\ ~r.ownership_released /\ swept < r.safety_deadline
  BY <1>1, <1>2, Zenon DEF RecordOK, owns_preservation, Lifecycle, Time
<1> HIDE DEF r
<1>5. /\ e \in Lifecycle /\ e.start # NoEvent /\ e.started_at \in Nat /\ ~Terminal(e)
      /\ ~e.ownership_released /\ swept < e.safety_deadline
      /\ e.retained = {} /\ e.pending_retention = {} /\ e.completed_at = r.completed_at
  BY <1>2, <1>4, EvaluatedFacts, Zenon DEF Terminal
<1> HIDE DEF e
<1>6. Estimated(e, s, DroppedByEstimate(e, seconds, now), swept)
  BY <1>3, <1>5, WithEstimateOK, ZenonT(30)
<1>7. s.pending_retention = {}
  <2> DEFINE q == [e EXCEPT !.release_deadline = ReleaseDeadline(e, seconds)]
  <2>1. q.pending_retention = {}
    BY <1>5, Zenon DEF Lifecycle
  <2>2. Released(q).pending_retention = {}
    <3>1. q = [x \in DOMAIN e |-> q[x]] /\ "pending_retention" \in DOMAIN e
      BY <1>5, Zenon DEF Lifecycle
    <3> QED
      BY <1>5 DEF Released, Lifecycle
  <2>3. s = q \/ s = Released(q)
    BY DEF WithEstimate
  <2> QED
    BY <2>1, <2>2, <2>3, Zenon
<1> HIDE DEF s
<1> QED
  BY <1>4, <1>5, <1>6, <1>7 DEF Estimated, r, e, s

\* Replacing a record by one that retains the same keys moves no reference.
LEMMA PutSame ==
    ASSUME NEW rd, NEW ld, NEW recs, NEW t \in Nat, RegistryAt(rd, ld, recs, t),
           NEW id \in DOMAIN recs, NEW s, RecordOK(s, t), s.retained = recs[id].retained
    PROVE  RegistryAt(rd, ld, Put(recs, id, s), t)
<1>1. Dropped(rd, {}) = rd
  BY DEF Dropped, RegistryAt
<1>2. {} \in SUBSET recs[id].retained /\ s.retained = recs[id].retained \ {}
  OBVIOUS
<1>3. RegistryAt(Dropped(rd, {}), ld, Put(recs, id, s), t)
  BY <1>2, PutDropped
<1> QED
  BY <1>1, <1>3

-----------------------------------------------------------------------------
(* Every step preserves the registry's invariant *)

\* The start of a round of evaluation only expires.
LEMMA evaluate_pending_inv ==
    ASSUME RegistryInv, evaluate_pending
    PROVE  RegistryInv'
<1>1. PICK t \in Reading(clock) :
        records' = RecordsAt(t) /\ readers' = ReadersAt(t) /\ clock' = t /\ swept' = t
  BY DEF evaluate_pending
<1>2. UNCHANGED <<generations, requests, status, loads>>
  BY DEF evaluate_pending
<1> QED
  BY <1>1, <1>2, OnlyExpires

\* A record passed over keeps what it holds.
LEMMA pass_over_inv ==
    ASSUME RegistryInv, NEW id \in LifecycleId, pass_over(id)
    PROVE  RegistryInv'
<1>1. /\ records' = [i \in DOMAIN records |-> IF i = id THEN Evaluated(records[i]) ELSE records[i]]
      /\ UNCHANGED <<clock, swept, generations, requests, loads, store_vars>>
  BY Zenon DEF pass_over
<1>2. RegistryAt(readers, loads, records, swept) /\ swept \in Nat
  BY InvParts
<1>3. ASSUME NEW i \in DOMAIN records
      PROVE  /\ RecordOK(records'[i], swept) /\ records'[i].retained = records[i].retained
             /\ records'[i].completed_at = records[i].completed_at
             /\ records'[i].terminal_at = records[i].terminal_at
  <2>1. RecordOK(records[i], swept) /\ records[i] \in Lifecycle
    BY <1>2 DEF RegistryAt, RecordOK
  <2>2. CASE i = id
    <3> DEFINE r == records[i]
    <3>1. records'[i] = Evaluated(r)
      BY <1>1, <2>2
    <3>2. RecordOK(r, swept) /\ r \in Lifecycle
      BY <2>1
    <3> HIDE DEF r
    <3>3. /\ RecordOK(Evaluated(r), swept) /\ Evaluated(r).retained = r.retained
          /\ Evaluated(r).completed_at = r.completed_at
          /\ Evaluated(r).terminal_at = r.terminal_at
      BY <1>2, <3>2, EvaluatedFacts, EvaluatedOK, Zenon
    <3> QED
      BY <3>1, <3>3, Zenon DEF r
  <2>3. CASE i # id
    BY <1>1, <2>1, <2>3
  <2> QED
    BY <2>2, <2>3
<1>4. DOMAIN records' = DOMAIN records
  BY <1>1
<1>5. \A k \in Key : Holders(records', k) = Holders(records, k)
  BY <1>3, <1>4, Zenon DEF Holders
<1>6. RegistryAt(readers', loads', records', swept')
  BY <1>1, <1>2, <1>3, <1>4, <1>5, SMTT(20) DEF RegistryAt, Counted, store_vars
<1>7. Awaited(records', generations')
  BY <1>1, <1>3, <1>4, InvParts, Zenon DEF Awaited, Terminal
<1>8. StoreSafe' /\ status' \in [Key -> Status]
  BY <1>1, InvParts, SameKeysSafe DEF store_vars
<1> QED
  BY <1>1, <1>6, <1>7, <1>8, InvParts, InvFromParts

\* A record that gives its ownership up had retained nothing yet.
LEMMA give_up_inv ==
    ASSUME RegistryInv, NEW id \in LifecycleId, NEW seconds \in Lead, give_up(id, seconds)
    PROVE  RegistryInv'
<1> DEFINE u(now) == WithEstimate(Evaluated(records[id]), seconds, now)
<1>1. PICK now \in Reading(clock) : records' = Put(records, id, u(now)) /\ clock' = now
  BY Zenon DEF give_up
<1>2. id \in DOMAIN records /\ Eligible(records[id])
  BY Zenon DEF give_up
<1>3. UNCHANGED <<swept, generations, requests, loads, store_vars>>
  BY DEF give_up
<1>4. now \in Nat /\ swept \in Nat /\ swept <= now
  BY FirstReading
<1>5. /\ RecordOK(u(now), swept) /\ u(now).retained = {}
      /\ u(now).completed_at = records[id].completed_at /\ ~Terminal(records[id])
  BY <1>2, EstimatedOK, Zenon
<1>6. records[id].retained = {}
  BY <1>2 DEF Eligible
<1> HIDE DEF u
<1>7. RegistryAt(readers', loads', records', swept')
  <2>1. RegistryAt(readers, loads, records, swept)
    BY InvParts
  <2>2. RegistryAt(readers, loads, Put(records, id, u(now)), swept)
    BY <1>2, <1>4, <1>5, <1>6, <2>1, PutSame
  <2>3. readers' = readers /\ loads' = loads /\ swept' = swept
    BY <1>3 DEF store_vars
  <2> QED
    BY <1>1, <2>2, <2>3
<1>8. Awaited(records', generations')
  BY <1>1, <1>2, <1>3, <1>5, InvParts, Zenon DEF Awaited, Put
<1>9. StoreSafe' /\ status' \in [Key -> Status]
  BY <1>3, InvParts, SameKeysSafe DEF store_vars
<1> QED
  BY <1>1, <1>3, <1>4, <1>7, <1>8, <1>9, InvParts, InvFromParts

\* A store on behalf of a request is a store of the connector.
LEMMA ordinary_store_inv ==
    ASSUME RegistryInv, NEW K \in SUBSET Key, ordinary_store(K)
    PROVE  RegistryInv'
<1>1. connector_store(K)
  BY DEF ordinary_store, connector_store, prepare_store
<1> QED
  BY <1>1, connector_store_inv

\* Completed stores make keys ready, which changes neither how many keys are
\* resident nor who reads them.
LEMMA update_connector_output_inv ==
    ASSUME RegistryInv, NEW J \in SUBSET jobs, update_connector_output(J)
    PROVE  RegistryInv'
<1>1. PICK t \in Reading(clock) :
        records' = RecordsAt(t) /\ readers' = ReadersAt(t) /\ clock' = t /\ swept' = t
  BY DEF update_connector_output
<1>2. UNCHANGED <<generations, requests, loads>> /\ status' = Completed(status, UNION J, TRUE)
  BY DEF update_connector_output
<1>3. status' \in [Key -> Status]
  BY <1>2, InvParts DEF Completed, Status
<1>4. Resident(status') = Resident(status)
  <2>1. \A k \in Key : status'[k] = "absent" <=> status[k] = "absent"
    BY <1>2 DEF Completed
  <2> QED
    BY <2>1 DEF Resident
<1>5. \A k \in Key : readers'[k] > 0 => status'[k] = "ready"
  <2>1. \A k \in Key : readers[k] \in Nat /\ readers'[k] \in Int /\ readers'[k] <= readers[k]
    BY <1>1, AfterExpire, InvParts, SMTT(20) DEF RegistryAt
  <2>2. \A k \in Key : readers[k] > 0 => status[k] = "ready"
    BY DEF RegistryInv, StoreSafe
  <2>3. \A k \in Key : status[k] = "ready" => status'[k] = "ready"
    BY <1>2 DEF Completed
  <2> QED
    BY <2>1, <2>2, <2>3
<1>6. StoreSafe'
  <2>1. Cardinality(Resident(status)) <= num_blocks
    BY DEF RegistryInv, StoreSafe
  <2>2. Cardinality(Resident(status')) <= num_blocks
    BY <1>4, <2>1
  <2> QED
    BY <1>5, <2>2, Zenon DEF StoreSafe
<1>7. /\ t \in Nat /\ RegistryAt(readers', loads', records', swept')
      /\ Awaited(records', generations')
  BY <1>1, <1>2, AfterExpire
<1>8. /\ Associated(generations', requests')
      /\ clock' \in Nat /\ swept' \in Nat /\ swept' <= clock'
  BY <1>1, <1>2, <1>7, InvParts, SMTT(20)
<1> QED
  BY <1>3, <1>6, <1>7, <1>8, InvFromParts, Zenon

\* A record that waits for a key is still there after expire().
LEMMA WaitingSurvives ==
    ASSUME RegistryInv, NEW t \in Reading(clock), NEW id \in DOMAIN records,
           records[id].pending_retention # {}
    PROVE  id \in DOMAIN RecordsAt(t)
<1>1. ~Terminal(records[id])
  BY InvParts, Zenon DEF RegistryAt, RecordOK, owns_preservation
<1> QED
  BY <1>1 DEF RecordsAt, Expired, Forgotten

\* The retentions that waited for completed keys keep the record in order.
ResolvedInOrder(r, K, st, t) ==
    LET A == Retainable(r, K, st)
        u == Resolved(r, K, A)
    IN  /\ RecordOK(u, t) /\ A \in SUBSET (Key \ r.retained)
        /\ u.retained = r.retained \cup A
        /\ u.pending_retention = r.pending_retention \ K
        /\ u.completed_at = r.completed_at /\ u.terminal_at = r.terminal_at
        /\ owns_preservation(u) <=> owns_preservation(r)

\* Resolving the keys of a stored batch keeps the record in order.
LEMMA ResolvedOK ==
    ASSUME NEW t \in Nat, NEW r, RecordOK(r, t), NEW K \in SUBSET Key, NEW st
    PROVE  ResolvedInOrder(r, K, st, t)
<1> DEFINE A == Retainable(r, K, st)
           u == Resolved(r, K, A)
<1>1. r \in Lifecycle
  BY DEF RecordOK
<1>2. A \in SUBSET (Key \ r.retained) /\ (~owns_preservation(r) => A = {})
  BY DEF Retainable
<1> HIDE DEF A
<1>3. /\ u \in Lifecycle /\ u.start = r.start /\ u.started_at = r.started_at
      /\ u.retained = r.retained \cup A /\ u.pending_retention = r.pending_retention \ K
      /\ u.completed_at = r.completed_at /\ u.terminal_at = r.terminal_at
      /\ u.snapshot = r.snapshot /\ u.pending_evaluation = r.pending_evaluation
      /\ u.ownership_released = r.ownership_released
      /\ u.release_deadline = r.release_deadline /\ u.safety_deadline = r.safety_deadline
  BY <1>1, <1>2, Zenon DEF Lifecycle, Resolved
<1> HIDE DEF u
<1>4. owns_preservation(u) <=> owns_preservation(r)
  BY <1>3, Zenon DEF owns_preservation, Terminal
<1>5. RecordOK(u, t)
  BY <1>2, <1>3, <1>4 DEF RecordOK, Terminal
<1> QED
  BY <1>2, <1>3, <1>4, <1>5, Zenon DEF A, u, ResolvedInOrder

\* A record's turn in the loop over completed keys.
LEMMA retain_completed_inv ==
    ASSUME RegistryInv, NEW id \in LifecycleId, retain_completed(id), turn.keys \in SUBSET Key
    PROVE  RegistryInv'
<1> DEFINE ready == records[id].pending_retention \cap turn.keys
           r(t) == RecordsAt(t)[id]
           A(t) == Retainable(r(t), ready, status)
           u(t) == Resolved(r(t), ready, A(t))
<1>1. UNCHANGED <<generations, requests, loads, status>>
  BY DEF retain_completed
<1>2. CASE id \in DOMAIN records /\ ready # {}
  <2>1. PICK t \in Reading(clock) :
          /\ records' = Put(RecordsAt(t), id, u(t))
          /\ readers' = Acquired(ReadersAt(t), A(t))
          /\ clock' = t /\ swept' = t
    BY <1>2, Zenon DEF retain_completed
  <2>2. id \in DOMAIN RecordsAt(t)
    BY <1>2, WaitingSurvives
  <2>3. t \in Nat /\ RegistryAt(ReadersAt(t), loads, RecordsAt(t), t) /\ RecordOK(r(t), t)
    BY <2>2, AfterExpire DEF RegistryAt
  <2>4. ready \in SUBSET Key
    OBVIOUS
  <2>5. A(t) \subseteq Ready(status)
    BY Zenon DEF Retainable
  <2> HIDE DEF ready
  <2>6. /\ RecordOK(u(t), t) /\ A(t) \in SUBSET (Key \ r(t).retained)
        /\ u(t).retained = r(t).retained \cup A(t)
        /\ u(t).completed_at = r(t).completed_at /\ u(t).terminal_at = r(t).terminal_at
    <3> DEFINE rt == RecordsAt(t)[id]
    <3>1. RecordOK(rt, t)
      BY <2>3
    <3> HIDE DEF rt
    <3>2. ResolvedInOrder(rt, ready, status, t)
      BY <2>3, <2>4, <3>1, ResolvedOK
    <3> QED
      BY <3>2, Zenon DEF rt, ResolvedInOrder
  <2> HIDE DEF A, u
  <2>7. RegistryAt(readers', loads', records', swept')
    BY <1>1, <2>1, <2>2, <2>3, <2>6, PutAcquired
  <2>8. Awaited(records', generations')
    BY <1>1, <2>1, <2>2, <2>6, AfterExpire, Zenon DEF Awaited, Put, Terminal
  <2>9. \A k \in Key : readers'[k] <= readers[k] \/ status[k] = "ready"
    BY <2>1, <2>5, AfterExpire, Zenon DEF Acquired, Ready
  <2>10. StoreSafe' /\ status' \in [Key -> Status]
    <3>1. readers' \in [Key -> Int]
      BY <2>7 DEF RegistryAt
    <3> QED
      BY <1>1, <2>9, <3>1, SameKeysSafe
  <2>11. /\ Associated(generations', requests')
         /\ clock' \in Nat /\ swept' \in Nat /\ swept' <= clock'
    BY <1>1, <2>1, <2>3, InvParts, SMTT(20)
  <2> QED
    BY <2>7, <2>8, <2>10, <2>11, InvFromParts, Zenon
<1>3. CASE ~(id \in DOMAIN records /\ ready # {})
  <2>1. UNCHANGED <<records, readers, clock, swept>>
    BY <1>3, Zenon DEF retain_completed
  <2>2. StoreSafe' /\ status' \in [Key -> Status]
    BY <1>1, <2>1, InvParts, SameKeysSafe
  <2>3. /\ RegistryAt(readers', loads', records', swept')
        /\ Associated(generations', requests') /\ Awaited(records', generations')
        /\ clock' \in Nat /\ swept' \in Nat /\ swept' <= clock'
    BY <1>1, <2>1, InvParts, Zenon
  <2> QED
    BY <2>2, <2>3, InvFromParts, Zenon
<1> QED
  BY <1>2, <1>3, Zenon

\* A prepared store evicts nothing that is read and stays within capacity.
PreparedOK(new, evicted, st) ==
    /\ st \in [Key -> Status]
    /\ Cardinality(Resident(st)) <= num_blocks
    /\ \A k \in Key : readers[k] > 0 => st[k] = "ready"
    /\ \A k \in new : status[k] = "absent" /\ st[k] = "writing"
    /\ \A k \in evicted : status[k] = "ready" /\ st[k] = "absent"
    /\ \A k \in Key \ (new \cup evicted) : st[k] = status[k]

\* Preparing a store touches the keys it stores and the keys it evicts, and no other.
LEMMA PreparedSafe ==
    ASSUME RegistryInv, NEW K \in SUBSET Key, NEW new \in SUBSET K,
           NEW evicted \in SUBSET (Key \ K), CanPrepare(status, readers, K, new, evicted)
    PROVE  PreparedOK(new, evicted, Prepared(status, new, evicted))
<1> DEFINE st == Prepared(status, new, evicted)
<1>1. st \in [Key -> Status]
  BY InvParts DEF Prepared, Status
<1>2. \A k \in evicted : k \in Key /\ k \notin K /\ readers[k] = 0 /\ status[k] = "ready"
  BY SMTT(20) DEF CanPrepare, Evictable, Ready
<1>3. \A k \in new : k \in Key /\ status[k] = "absent"
  BY SMTT(20) DEF CanPrepare, Resident
<1>4. /\ \A k \in new : st[k] = "writing"
      /\ \A k \in evicted : st[k] = "absent"
      /\ \A k \in Key \ (new \cup evicted) : st[k] = status[k]
  BY <1>2, <1>3, SMTT(20) DEF Prepared
<1> HIDE DEF st
<1>5. Resident(st) = (Resident(status) \ evicted) \cup new
  BY <1>2, <1>3, <1>4, SMTT(20) DEF Resident
<1>6. \A k \in Key : readers[k] > 0 => st[k] = "ready"
  BY <1>2, <1>3, <1>4, InvParts, SMTT(20) DEF RegistryInv, StoreSafe
<1>7. Cardinality(Resident(st)) <= num_blocks
  BY <1>5 DEF CanPrepare
<1> QED
  BY <1>1, <1>2, <1>3, <1>4, <1>6, <1>7, Zenon DEF st, PreparedOK

\* The record of a registered store: what is ready is held, the rest awaited.
Registered(r, A, W) == [r EXCEPT !.retained = @ \cup A, !.pending_retention = W]

\* Registering leases on a record adds them to what it retains and keeps the rest.
LEMMA RegisteredOK ==
    ASSUME NEW t \in Nat, NEW r, RecordOK(r, t), owns_preservation(r),
           NEW A \in SUBSET Key, NEW W \in SUBSET Key
    PROVE  LET u == Registered(r, A, W) IN
           /\ RecordOK(u, t) /\ u.retained = r.retained \cup A
           /\ u.pending_retention = W
           /\ u.completed_at = r.completed_at /\ u.terminal_at = r.terminal_at
           /\ owns_preservation(u)
<1> DEFINE u == Registered(r, A, W)
<1>1. r \in Lifecycle
  BY DEF RecordOK
<1>2. /\ u \in Lifecycle /\ u.start = r.start /\ u.started_at = r.started_at
      /\ u.retained = r.retained \cup A /\ u.pending_retention = W
      /\ u.completed_at = r.completed_at /\ u.terminal_at = r.terminal_at
      /\ u.snapshot = r.snapshot /\ u.pending_evaluation = r.pending_evaluation
      /\ u.ownership_released = r.ownership_released
      /\ u.release_deadline = r.release_deadline /\ u.safety_deadline = r.safety_deadline
  BY <1>1, Zenon DEF Lifecycle, Registered
<1> HIDE DEF u
<1>3. owns_preservation(u)
  BY <1>2 DEF owns_preservation, Terminal
<1>4. RecordOK(u, t)
  BY <1>2, <1>3 DEF RecordOK, owns_preservation, Terminal
<1> QED
  BY <1>2, <1>3, <1>4 DEF u

\* The records between the estimate and the end of retain_ready's expire().
BatchRecords(id, seconds, now) ==
    Put(records, id, WithEstimate(Evaluated(records[id]), seconds, now))

\* They are in order, and so is what expire() leaves of them.
LEMMA BatchOK ==
    ASSUME RegistryInv, NEW id \in DOMAIN records, Eligible(records[id]),
           NEW seconds \in Lead, NEW now \in Reading(clock), NEW t \in Reading(now)
    PROVE  LET est == BatchRecords(id, seconds, now)
               recs == Expired(est, t)
               rd == Returned(readers, est, Expiring(est, t))
           IN  /\ now \in Nat /\ swept \in Nat /\ swept <= now /\ t \in Nat
               /\ RegistryAt(readers, loads, est, swept) /\ Awaited(est, generations)
               /\ RegistryAt(rd, loads, recs, t) /\ Awaited(recs, generations)
               /\ \A k \in Key : rd[k] <= readers[k]
               /\ id \in DOMAIN recs
               /\ \A i \in DOMAIN recs : i \in DOMAIN records
<1> DEFINE s == WithEstimate(Evaluated(records[id]), seconds, now)
           est == BatchRecords(id, seconds, now)
           recs == Expired(est, t)
           rd == Returned(readers, est, Expiring(est, t))
<1>1. now \in Nat /\ swept \in Nat /\ swept <= now
  BY FirstReading
<1>2. t \in Nat
  BY <1>1, LaterReading
<1>3. /\ RecordOK(s, swept) /\ s.retained = {} /\ ~Terminal(s)
      /\ s.completed_at = records[id].completed_at /\ ~Terminal(records[id])
  BY EstimatedOK, Zenon
<1>4. est = Put(records, id, s)
  BY DEF BatchRecords
<1> HIDE DEF s
<1>5. records[id].retained = {} /\ RegistryAt(readers, loads, records, swept)
  BY InvParts DEF Eligible
<1>6. RegistryAt(readers, loads, est, swept)
  BY <1>1, <1>3, <1>4, <1>5, PutSame, Zenon
<1>7. /\ DOMAIN est = DOMAIN records /\ est[id] = s
      /\ \A i \in DOMAIN records : i # id => est[i] = records[i]
  BY <1>4 DEF Put
<1>8. Awaited(est, generations)
  BY <1>3, <1>7, InvParts, Zenon DEF Awaited
<1> HIDE DEF est
<1>9. RegistryAt(rd, loads, recs, t)
  BY <1>1, <1>2, <1>6, ExpireKeepsCount
<1>10. \A i \in DOMAIN recs : i \in DOMAIN est /\ recs[i] = Aged(est[i], t) /\ est[i] \in Lifecycle
  BY <1>6 DEF Expired, RegistryAt, RecordOK
<1>11. Awaited(recs, generations)
  BY <1>2, <1>8, <1>10, AgedHistory DEF Awaited
<1>12. id \in DOMAIN recs
  BY <1>3, <1>7 DEF Expired, Forgotten
<1>13. ASSUME NEW k \in Key PROVE rd[k] <= readers[k]
  <2> DEFINE X == {i \in Expiring(est, t) : k \in est[i].retained}
  <2>1. X \in SUBSET LifecycleId
    BY <1>6 DEF Expiring, RegistryAt
  <2>2. Cardinality(X) \in Nat
    BY <2>1, RegistryAssumption, FS_Subset, FS_CardinalityType
  <2>3. rd[k] = readers[k] - Cardinality(X) /\ readers[k] \in Nat
    BY InvParts DEF Returned
  <2> QED
    BY <2>2, <2>3
<1> QED
  BY <1>1, <1>2, <1>6, <1>7, <1>8, <1>9, <1>10, <1>11, <1>12, <1>13 DEF est

\* A batch that finds room: the three outcomes of _register_store.
Refused(id, seconds, now) ==
    /\ records' = BatchRecords(id, seconds, now) /\ clock' = now
    /\ UNCHANGED <<swept, jobs, store_vars>>

Accepted(id, K, recs, rd, new, st, t) ==
    LET r == recs[id]
        taken == Retainable(r, K, st)
    IN  /\ owns_preservation(r)
        /\ records' = Put(recs, id, [r EXCEPT !.retained = @ \cup taken,
                                              !.pending_retention = PendingOn(K, st)])
        /\ readers' = Acquired(rd, taken)
        /\ status' = st /\ jobs' = jobs \cup ({new} \ {{}})
        /\ clock' = t /\ swept' = t

Undone(id, recs, rd, new, st, t) ==
    /\ ~owns_preservation(recs[id])
    /\ records' = recs /\ readers' = rd
    /\ status' = Abandoned(st, new) /\ jobs' = jobs
    /\ clock' = t /\ swept' = t

\* What the expire() of retain_ready leaves of a batch's records and readers.
BatchExpired(id, seconds, now, t) == Expired(BatchRecords(id, seconds, now), t)

BatchReaders(id, seconds, now, t) ==
    Returned(readers, BatchRecords(id, seconds, now),
             Expiring(BatchRecords(id, seconds, now), t))

RegisterOutcome(id, K, seconds, now, t) ==
    \/ Refused(id, seconds, now)
    \/ \E new \in SUBSET K, evicted \in SUBSET (Key \ K) :
         /\ CanPrepare(status, readers, K, new, evicted)
         /\ \/ Accepted(id, K, BatchExpired(id, seconds, now, t), BatchReaders(id, seconds, now, t),
                        new, Prepared(status, new, evicted), t)
            \/ Undone(id, BatchExpired(id, seconds, now, t), BatchReaders(id, seconds, now, t),
                      new, Prepared(status, new, evicted), t)

\* _register_store has no other outcome.
LEMMA RegisterOutcomes ==
    ASSUME RegistryInv, NEW id \in LifecycleId, NEW K \in SUBSET Key, NEW seconds \in Lead,
           _register_store(id, K, seconds)
    PROVE  /\ id \in DOMAIN records /\ Eligible(records[id])
           /\ turn.op = "evaluate" /\ Visited(id)
           /\ UNCHANGED <<generations, requests, loads>>
           /\ \E now \in Reading(clock) : \E t \in Reading(now) :
                RegisterOutcome(id, K, seconds, now, t)
<1>1. /\ id \in DOMAIN records /\ Eligible(records[id])
      /\ turn.op = "evaluate" /\ Visited(id)
      /\ UNCHANGED <<generations, requests, loads>>
  BY Zenon DEF _register_store
<1> DEFINE est(now) == BatchRecords(id, seconds, now)
           recs(now, t) == Expired(est(now), t)
           rd(now, t) == Returned(readers, est(now), Expiring(est(now), t))
           r(now, t) == recs(now, t)[id]
           st(new, evicted) == Prepared(status, new, evicted)
           taken(now, t, new, evicted) == Retainable(r(now, t), K, st(new, evicted))
           Stored(now, t, new, evicted) ==
             /\ CanPrepare(status, readers, K, new, evicted)
             /\ clock' = t /\ swept' = t
             /\ readers' = Acquired(rd(now, t), taken(now, t, new, evicted))
             /\ IF owns_preservation(r(now, t))
                THEN /\ records' = Put(recs(now, t), id,
                           [r(now, t) EXCEPT !.retained = @ \cup taken(now, t, new, evicted),
                                             !.pending_retention = PendingOn(K, st(new, evicted))])
                     /\ status' = st(new, evicted)
                     /\ jobs' = jobs \cup ({new} \ {{}})
                ELSE /\ records' = recs(now, t)
                     /\ status' = Abandoned(st(new, evicted), new)
                     /\ UNCHANGED jobs
<1>2. PICK now \in Reading(clock) : \E t \in Reading(now) :
        \/ Refused(id, seconds, now)
        \/ \E new \in SUBSET K, evicted \in SUBSET (Key \ K) : Stored(now, t, new, evicted)
  BY Zenon DEF _register_store, BatchRecords, Refused
<1>3. PICK t \in Reading(now) :
        \/ Refused(id, seconds, now)
        \/ \E new \in SUBSET K, evicted \in SUBSET (Key \ K) : Stored(now, t, new, evicted)
  BY <1>2, Zenon
<1>4. ASSUME NEW new \in SUBSET K, NEW evicted \in SUBSET (Key \ K), Stored(now, t, new, evicted)
      PROVE  /\ CanPrepare(status, readers, K, new, evicted)
             /\ \/ Accepted(id, K, recs(now, t), rd(now, t), new, st(new, evicted), t)
                \/ Undone(id, recs(now, t), rd(now, t), new, st(new, evicted), t)
  <2>1. CASE owns_preservation(r(now, t))
    BY <1>4, <2>1, Zenon DEF Accepted
  <2>2. CASE ~owns_preservation(r(now, t))
    <3>1. taken(now, t, new, evicted) = {}
      BY <2>2, SMTT(20) DEF Retainable
    <3>2. rd(now, t) \in [Key -> Int]
      BY <1>1, BatchOK, Zenon DEF RegistryAt
    <3> HIDE DEF rd
    <3>3. Acquired(rd(now, t), {}) = rd(now, t)
      BY <3>2 DEF Acquired
    <3> HIDE DEF taken, recs, st
    <3>4. /\ readers' = rd(now, t) /\ records' = recs(now, t)
          /\ status' = Abandoned(st(new, evicted), new) /\ jobs' = jobs
          /\ clock' = t /\ swept' = t /\ CanPrepare(status, readers, K, new, evicted)
      BY <1>4, <2>2, <3>1, <3>3, Zenon
    <3> QED
      BY <2>2, <3>4, Zenon DEF Undone
  <2> QED
    BY <2>1, <2>2, Zenon
<1> HIDE DEF Stored
<1>5. RegisterOutcome(id, K, seconds, now, t)
  BY <1>3, <1>4, Zenon DEF RegisterOutcome, BatchExpired, BatchReaders
<1> QED
  BY <1>1, <1>5, Zenon

\* A batch holds what is ready, waits for the rest, or leaves no trace.
LEMMA register_store_inv ==
    ASSUME RegistryInv, NEW id \in LifecycleId, NEW K \in SUBSET Key, NEW seconds \in Lead,
           _register_store(id, K, seconds)
    PROVE  RegistryInv'
<1>1. /\ id \in DOMAIN records /\ Eligible(records[id])
      /\ UNCHANGED <<generations, requests, loads>>
  BY RegisterOutcomes, Zenon
<1> DEFINE est(now) == BatchRecords(id, seconds, now)
           recs(now, t) == BatchExpired(id, seconds, now, t)
           rd(now, t) == BatchReaders(id, seconds, now, t)
<1>0. PICK now \in Reading(clock) : \E t \in Reading(now) : RegisterOutcome(id, K, seconds, now, t)
  BY RegisterOutcomes, Zenon
<1>2. PICK t \in Reading(now) : RegisterOutcome(id, K, seconds, now, t)
  BY <1>0, Zenon
<1>3. /\ now \in Nat /\ swept \in Nat /\ swept <= now /\ t \in Nat
      /\ RegistryAt(readers, loads, est(now), swept) /\ Awaited(est(now), generations)
      /\ RegistryAt(rd(now, t), loads, recs(now, t), t) /\ Awaited(recs(now, t), generations)
      /\ \A k \in Key : rd(now, t)[k] <= readers[k]
      /\ id \in DOMAIN recs(now, t)
  BY <1>1, BatchOK, Zenon DEF BatchExpired, BatchReaders
<1>4. Associated(generations', requests')
  BY <1>1, InvParts, Zenon
<1> HIDE DEF est, recs, rd
<1>5. CASE Refused(id, seconds, now)
  <2>1. /\ records' = est(now) /\ clock' = now /\ swept' = swept
        /\ readers' = readers /\ status' = status
    BY <1>5 DEF Refused, store_vars, est
  <2>2. StoreSafe' /\ status' \in [Key -> Status]
    BY <2>1, InvParts, SameKeysSafe
  <2> QED
    BY <1>1, <1>3, <1>4, <2>1, <2>2, InvFromParts
<1>6. ASSUME NEW new \in SUBSET K, NEW evicted \in SUBSET (Key \ K),
             CanPrepare(status, readers, K, new, evicted)
      PROVE  LET st == Prepared(status, new, evicted) IN
             /\ st \in [Key -> Status] /\ Cardinality(Resident(st)) <= num_blocks
             /\ \A k \in Key : readers[k] \in Nat /\ rd(now, t)[k] \in Int
             /\ \A k \in Key : rd(now, t)[k] > 0 => st[k] = "ready"
             /\ \A k \in new : st[k] = "writing"
  <2> DEFINE st == Prepared(status, new, evicted)
  <2> HIDE DEF st
  <2>1. /\ st \in [Key -> Status] /\ Cardinality(Resident(st)) <= num_blocks
        /\ \A k \in Key : readers[k] > 0 => st[k] = "ready"
        /\ \A k \in new : st[k] = "writing"
    <3>1. CanPrepare(status, readers, K, new, evicted)
      BY <1>6
    <3>2. PreparedOK(new, evicted, Prepared(status, new, evicted))
      BY <3>1, PreparedSafe
    <3> QED
      BY <3>2, Zenon DEF st, PreparedOK
  <2>2. \A k \in Key : readers[k] \in Nat /\ rd(now, t)[k] \in Int
    BY <1>3, InvParts, Zenon DEF RegistryAt
  <2>3. ASSUME NEW k \in Key, rd(now, t)[k] > 0 PROVE st[k] = "ready"
    <3>1. readers[k] \in Nat /\ rd(now, t)[k] \in Int /\ rd(now, t)[k] <= readers[k]
      BY <1>3, <2>2, Zenon
    <3>2. readers[k] > 0
      BY <2>3, <3>1
    <3> QED
      BY <2>1, <3>2, Zenon
  <2> QED
    BY <2>1, <2>2, <2>3, Zenon DEF st
<1>7. ASSUME NEW new \in SUBSET K, NEW evicted \in SUBSET (Key \ K),
             CanPrepare(status, readers, K, new, evicted),
             Accepted(id, K, recs(now, t), rd(now, t), new, Prepared(status, new, evicted), t)
      PROVE  RegistryInv'
  <2> DEFINE st == Prepared(status, new, evicted)
             r == recs(now, t)[id]
             A == Retainable(r, K, st)
             W == PendingOn(K, st)
             u == Registered(r, A, W)
  <2>1. /\ records' = Put(recs(now, t), id, u) /\ readers' = Acquired(rd(now, t), A)
        /\ status' = st /\ clock' = t /\ swept' = t /\ owns_preservation(r)
    BY <1>7, Zenon DEF Accepted, Registered
  <2>2. A \in SUBSET (Key \ r.retained) /\ A \subseteq Ready(st) /\ W \in SUBSET Key
    BY DEF Retainable, PendingOn
  <2>3. RecordOK(r, t)
    BY <1>3, Zenon DEF RegistryAt
  <2>4. /\ st \in [Key -> Status] /\ Cardinality(Resident(st)) <= num_blocks
        /\ \A k \in Key : rd(now, t)[k] \in Int
        /\ \A k \in Key : rd(now, t)[k] > 0 => st[k] = "ready"
    BY <1>6, <1>7, Zenon
  <2> HIDE DEF st, r, A, W
  <2>5. /\ RecordOK(u, t) /\ u.retained = r.retained \cup A
        /\ u.completed_at = r.completed_at /\ u.terminal_at = r.terminal_at
    <3>1. A \in SUBSET Key /\ W \in SUBSET Key /\ t \in Nat /\ owns_preservation(r)
      BY <1>3, <2>1, <2>2, Zenon
    <3> QED
      BY <2>3, <3>1, RegisteredOK
  <2> HIDE DEF u
  <2>6. RegistryAt(readers', loads', records', swept')
    BY <1>1, <1>3, <2>1, <2>2, <2>5, PutAcquired, Zenon DEF r
  <2>7. Awaited(records', generations')
    BY <1>1, <1>3, <2>1, <2>5, Zenon DEF Awaited, Put, Terminal, r
  <2>8. ASSUME NEW k \in Key, readers'[k] > 0 PROVE status'[k] = "ready"
    <3>1. CASE k \in A
      BY <2>1, <2>2, <3>1, Zenon DEF Ready
    <3>2. CASE k \notin A
      <4>1. readers'[k] = rd(now, t)[k]
        BY <2>1, <3>2, Zenon DEF Acquired
      <4> QED
        BY <2>1, <2>4, <2>8, <4>1, Zenon
    <3> QED
      BY <3>1, <3>2, Zenon
  <2>9. StoreSafe' /\ status' \in [Key -> Status]
    BY <2>1, <2>4, <2>8, Zenon DEF StoreSafe
  <2>10. clock' \in Nat /\ swept' \in Nat /\ swept' <= clock'
    BY <1>3, <2>1
  <2> QED
    BY <1>4, <2>6, <2>7, <2>9, <2>10, InvFromParts, Zenon
<1>8. ASSUME NEW new \in SUBSET K, NEW evicted \in SUBSET (Key \ K),
             CanPrepare(status, readers, K, new, evicted),
             Undone(id, recs(now, t), rd(now, t), new, Prepared(status, new, evicted), t)
      PROVE  RegistryInv'
  <2> DEFINE st == Prepared(status, new, evicted)
  <2>1. /\ records' = recs(now, t) /\ readers' = rd(now, t)
        /\ status' = Completed(st, new, FALSE) /\ clock' = t /\ swept' = t
    BY <1>8, Zenon DEF Undone, Abandoned
  <2>2. /\ st \in [Key -> Status] /\ Cardinality(Resident(st)) <= num_blocks
        /\ \A k \in Key : rd(now, t)[k] \in Int
        /\ \A k \in Key : rd(now, t)[k] > 0 => st[k] = "ready"
    BY <1>6, <1>8, Zenon
  <2> HIDE DEF st
  <2>3. status' \in [Key -> Status] /\ \A k \in Key : st[k] = "ready" => status'[k] = "ready"
    BY <2>1, <2>2 DEF Completed, Status
  <2>4. Cardinality(Resident(status')) <= num_blocks
    <3>1. Resident(status') \subseteq Resident(st) /\ Resident(st) \subseteq Key
      BY <2>1 DEF Completed, Resident
    <3>2. IsFiniteSet(Resident(st)) /\ IsFiniteSet(Resident(status'))
      BY <3>1, StoreAssumption, FS_Subset
    <3>3. Cardinality(Resident(status')) <= Cardinality(Resident(st))
      BY <3>1, <3>2, FS_Subset, SMTT(20)
    <3>4. Cardinality(Resident(status')) \in Nat /\ Cardinality(Resident(st)) \in Nat
      BY <3>2, FS_CardinalityType
    <3> QED
      BY <2>2, <3>3, <3>4, StoreAssumption
  <2>5. \A k \in Key : readers'[k] > 0 => status'[k] = "ready"
    BY <2>1, <2>2, <2>3, Zenon
  <2>6. StoreSafe'
    BY <2>4, <2>5, Zenon DEF StoreSafe
  <2>7. /\ clock' \in Nat /\ swept' \in Nat /\ swept' <= clock'
        /\ RegistryAt(readers', loads', records', swept') /\ Awaited(records', generations')
    BY <1>1, <1>3, <2>1, SMTT(30)
  <2> QED
    BY <1>4, <2>3, <2>6, <2>7, InvFromParts, Zenon
<1> QED
  BY <1>2, <1>5, <1>7, <1>8, Zenon DEF RegisterOutcome, recs, rd
-----------------------------------------------------------------------------
(* The loop *)

\* The keys of the stores in flight and of the loop under way.
KeysOK == jobs \subseteq SUBSET Key /\ turn.keys \in SUBSET Key

\* A step of a loop goes on with the loop's keys, or ends it.
LEMMA TurnKeys ==
    ASSUME NEW op, NEW ids, NEW keys \in SUBSET Key
    PROVE  Turn(op, ids, keys).keys \in SUBSET Key
BY DEF Turn, NoTurn

\* Every step writes and hands on keys of the store.
LEMMA KeysStep ==
    ASSUME RegistryInv, KeysOK, [OffloadingNext]_all_vars
    PROVE  KeysOK'
<1>1. ASSUME UNCHANGED offloading_vars PROVE KeysOK'
  BY <1>1 DEF KeysOK, offloading_vars
<1>2. ASSUME evaluate_pending PROVE KeysOK'
  <2>1. turn' = Turn("evaluate", DOMAIN records', {}) /\ jobs' = jobs
    BY <1>2, Zenon DEF evaluate_pending
  <2> QED
    BY <2>1, TurnKeys DEF KeysOK
<1>3. ASSUME NEW id, Visited(id), jobs' = jobs PROVE KeysOK'
  BY <1>3, TurnKeys, Zenon DEF KeysOK, Visited
<1>4. ASSUME NEW id \in LifecycleId, NEW K \in SUBSET Key, NEW seconds \in Lead,
             _register_store(id, K, seconds)
      PROVE  KeysOK'
  <2>1. jobs' = jobs \/ \E new \in SUBSET K : jobs' = jobs \cup ({new} \ {{}})
    <3> DEFINE Kept == jobs' = jobs \/ \E new \in SUBSET K : jobs' = jobs \cup ({new} \ {{}})
    <3>1. ASSUME NEW now, Refused(id, seconds, now) PROVE Kept
      BY <3>1 DEF Refused
    <3>2. ASSUME NEW recs, NEW rd, NEW new \in SUBSET K, NEW st, NEW t,
                 Accepted(id, K, recs, rd, new, st, t)
          PROVE  Kept
      BY <3>2, Zenon DEF Accepted
    <3>3. ASSUME NEW recs, NEW rd, NEW new, NEW st, NEW t, Undone(id, recs, rd, new, st, t)
          PROVE  Kept
      BY <3>3, Zenon DEF Undone
    <3> HIDE DEF Kept
    <3>4. \E now, t : RegisterOutcome(id, K, seconds, now, t)
      BY <1>4, RegisterOutcomes, Zenon
    <3>5. PICK now, t : RegisterOutcome(id, K, seconds, now, t)
      BY <3>4
    <3>6. Kept
      BY <3>1, <3>2, <3>3, <3>5, Zenon DEF RegisterOutcome
    <3> QED
      BY <3>6 DEF Kept
  <2>2. turn'.keys \in SUBSET Key
    <3>1. Visited(id)
      BY <1>4, RegisterOutcomes, Zenon
    <3> QED
      BY <3>1, TurnKeys, Zenon DEF KeysOK, Visited
  <2>3. jobs' \subseteq SUBSET Key
    BY <2>1 DEF KeysOK
  <2> QED
    BY <2>2, <2>3 DEF KeysOK
<1>5. ASSUME NEW K \in SUBSET Key, ordinary_store(K) PROVE KeysOK'
  <2>1. turn' = turn /\ \E new \in SUBSET K : jobs' = jobs \cup {new}
    BY <1>5 DEF ordinary_store
  <2> QED
    BY <2>1 DEF KeysOK
<1>6. ASSUME NEW J \in SUBSET jobs, update_connector_output(J) PROVE KeysOK'
  <2>1. turn' = Turn("retain", DOMAIN records', UNION J) /\ jobs' = jobs \ J
    BY <1>6, Zenon DEF update_connector_output
  <2>2. UNION J \in SUBSET Key
    BY DEF KeysOK
  <2> QED
    BY <2>1, <2>2, TurnKeys, Zenon DEF KeysOK
<1>7. ASSUME reset_cache_and_jobs PROVE KeysOK'
  BY <1>7 DEF KeysOK, reset_cache_and_jobs
<1>8. CASE UNCHANGED all_vars
  BY <1>1, <1>8 DEF all_vars
<1>9. ASSUME NEW id, pass_over(id) \/ retain_completed(id) \/ \E s \in Lead : give_up(id, s)
      PROVE  KeysOK'
  BY <1>3, <1>9, Zenon DEF pass_over, retain_completed, give_up
<1> QED
  BY <1>1, <1>2, <1>4, <1>5, <1>6, <1>7, <1>8, <1>9, Zenon DEF OffloadingNext, Between

\* Every step of the scheduler keeps the registry and its store in order.
LEMMA OffloadingStep ==
    ASSUME RegistryInv, KeysOK, [OffloadingNext]_all_vars
    PROVE  RegistryInv'
<1>1. CASE UNCHANGED all_vars
  BY <1>1, NextInv DEF all_vars
<1>2. ASSUME NEW req \in RequestId, NEW id \in LifecycleId, Between(associate(req, id))
      PROVE  RegistryInv'
  BY <1>2, associate_inv DEF Between
<1>3. ASSUME NEW req \in RequestId, NEW cause \in GenerationCause, NEW snapshot \in SUBSET Key,
             Between(generation_finished(req, cause, snapshot))
      PROVE  RegistryInv'
  BY <1>3, generation_finished_inv DEF Between
<1>4. ASSUME NEW id \in LifecycleId, NEW event \in StartEvent, Between(apply_start(id, event))
      PROVE  RegistryInv'
  BY <1>4, apply_start_inv DEF Between
<1>5. ASSUME NEW id \in LifecycleId, Between(apply_finish(id)) PROVE RegistryInv'
  BY <1>5, apply_finish_inv DEF Between
<1>6. ASSUME Between(invalidate_snapshots) PROVE RegistryInv'
  BY <1>6, invalidate_snapshots_inv DEF Between
<1>7. ASSUME NEW K \in SUBSET Key, Between(connector_load(K)) \/ Between(connector_loaded(K))
      PROVE  RegistryInv'
  BY <1>7, connector_load_inv, connector_loaded_inv DEF Between
<1>8. ASSUME evaluate_pending PROVE RegistryInv'
  BY <1>8, evaluate_pending_inv
<1>9. ASSUME NEW id \in LifecycleId, pass_over(id) PROVE RegistryInv'
  BY <1>9, pass_over_inv
<1>10. ASSUME NEW id \in LifecycleId, retain_completed(id) PROVE RegistryInv'
  BY <1>10, retain_completed_inv DEF KeysOK
<1>11. ASSUME NEW id \in LifecycleId, NEW seconds \in Lead, give_up(id, seconds)
       PROVE  RegistryInv'
  BY <1>11, give_up_inv
<1>12. ASSUME NEW id \in LifecycleId, NEW K \in SUBSET Key, NEW seconds \in Lead,
              _register_store(id, K, seconds)
       PROVE  RegistryInv'
  BY <1>12, register_store_inv
<1>13. ASSUME NEW K \in SUBSET Key, ordinary_store(K) PROVE RegistryInv'
  BY <1>13, ordinary_store_inv
<1>14. ASSUME NEW J \in SUBSET jobs, update_connector_output(J) PROVE RegistryInv'
  BY <1>14, update_connector_output_inv
<1>15. ASSUME reset_cache_and_jobs PROVE RegistryInv'
  BY <1>15, reset_connector_cache_inv DEF reset_cache_and_jobs
<1> QED
  BY <1>1, <1>2, <1>3, <1>4, <1>5, <1>6, <1>7, <1>8, <1>9, <1>10, <1>11, <1>12, <1>13, <1>14,
     <1>15, ZenonT(30) DEF OffloadingNext
-----------------------------------------------------------------------------
(* What lifecycles hold and wait for *)

\* A step takes nothing from, and gives nothing to, a lifecycle that owns its
\* preservation afterwards.
CarriedFor(id) ==
    owns_preservation(records'[id]) =>
        /\ id \in DOMAIN records
        /\ records'[id].retained = records[id].retained
        /\ records'[id].pending_retention = records[id].pending_retention

Carried == \A id \in DOMAIN records' : CarriedFor(id)

\* expire() leaves a record that still owns its preservation as it was.
LEMMA AgedOwner ==
    ASSUME NEW r \in Lifecycle, NEW t \in Nat, owns_preservation(Aged(r, t))
    PROVE  Aged(r, t) = r
<1>1. "expired" \in TerminalCause
  BY DEF TerminalCause
<1>2. ~Overdue(r, t)
  BY <1>1, TerminalizedFacts, ZenonT(40) DEF Aged, Overdue, owns_preservation, Terminal
<1>3. ~PastRelease(r, t)
  BY <1>2, ReleasedFacts DEF Aged, owns_preservation
<1> QED
  BY <1>2, <1>3 DEF Aged

\* The same of all the records of the registry.
LEMMA ExpiredOwner ==
    ASSUME RegistryInv, NEW t \in Reading(clock), NEW id \in DOMAIN RecordsAt(t)
    PROVE  /\ id \in DOMAIN records
           /\ owns_preservation(RecordsAt(t)[id]) => RecordsAt(t)[id] = records[id]
           /\ RecordsAt(t)[id] \in Lifecycle
<1>1. t \in Nat
  BY FirstReading
<1>2. id \in DOMAIN records /\ RecordsAt(t)[id] = Aged(records[id], t)
  BY DEF RecordsAt, Expired
<1>3. records[id] \in Lifecycle
  BY <1>2, InvParts, Zenon DEF RegistryAt, RecordOK
<1> QED
  BY <1>1, <1>2, <1>3, AgedOwner, AfterExpire, Zenon

\* A handler that expires and replaces at most one record by one that owns
\* nothing, or what that record owned.
LEMMA CarriedByExpire ==
    ASSUME RegistryInv, NEW t \in Reading(clock),
           \/ records' = RecordsAt(t)
           \/ \E i, s : /\ records' = Put(RecordsAt(t), i, s)
                        /\ owns_preservation(s) =>
                             /\ i \in DOMAIN records
                             /\ s.retained = records[i].retained
                             /\ s.pending_retention = records[i].pending_retention
    PROVE  Carried
<1>1. ASSUME NEW id \in DOMAIN RecordsAt(t), records'[id] = RecordsAt(t)[id]
      PROVE  CarriedFor(id)
  BY <1>1, ExpiredOwner, Zenon DEF CarriedFor
<1>2. CASE records' = RecordsAt(t)
  BY <1>1, <1>2, Zenon DEF Carried
<1>3. ASSUME NEW i, NEW s, records' = Put(RecordsAt(t), i, s),
             owns_preservation(s) =>
                  /\ i \in DOMAIN records
                  /\ s.retained = records[i].retained
                  /\ s.pending_retention = records[i].pending_retention
      PROVE  Carried
  <2>1. /\ DOMAIN records' = DOMAIN RecordsAt(t) \cup {i} /\ records'[i] = s
        /\ \A id \in DOMAIN RecordsAt(t) : id # i => records'[id] = RecordsAt(t)[id]
    BY <1>3 DEF Put
  <2>2. CarriedFor(i)
    BY <1>3, <2>1, Zenon DEF CarriedFor
  <2> QED
    BY <1>1, <2>1, <2>2, Zenon DEF Carried
<1> QED
  BY <1>2, <1>3, Zenon

\* The registry's own handlers.
LEMMA associate_carries ==
    ASSUME RegistryInv, NEW req, NEW id, associate(req, id)
    PROVE  Carried
<1>1. PICK t \in Reading(clock) :
        records' = RecordsAt(t) \/ records' = Put(RecordsAt(t), id, NewLifecycle)
  BY SMTT(20) DEF associate
<1>2. ~owns_preservation(NewLifecycle)
  BY DEF NewLifecycle, owns_preservation
<1> QED
  BY <1>1, <1>2, CarriedByExpire, Zenon

\* A generation that ends leaves its lifecycle's blocks with it, or ends it.
LEMMA generation_finished_carries ==
    ASSUME RegistryInv, NEW req, NEW cause \in GenerationCause, NEW snapshot \in SUBSET Key,
           generation_finished(req, cause, snapshot)
    PROVE  Carried
<1> DEFINE id == requests[req]
<1>1. PICK t \in Reading(clock) : \E now \in Reading(t) :
        \/ records' = RecordsAt(t)
        \/ /\ id \in DOMAIN RecordsAt(t) /\ ~Terminal(RecordsAt(t)[id])
           /\ records' = Put(RecordsAt(t), id,
                             GenerationFinished(RecordsAt(t)[id], cause, snapshot, now))
  BY Zenon DEF generation_finished
<1>2. PICK now \in Reading(t) :
        \/ records' = RecordsAt(t)
        \/ /\ id \in DOMAIN RecordsAt(t) /\ ~Terminal(RecordsAt(t)[id])
           /\ records' = Put(RecordsAt(t), id,
                             GenerationFinished(RecordsAt(t)[id], cause, snapshot, now))
  BY <1>1, Zenon
<1>3. t \in Nat /\ now \in Nat
  BY FirstReading, LaterReading
<1>4. CASE /\ id \in DOMAIN RecordsAt(t) /\ ~Terminal(RecordsAt(t)[id])
           /\ records' = Put(RecordsAt(t), id,
                             GenerationFinished(RecordsAt(t)[id], cause, snapshot, now))
  <2> DEFINE r == RecordsAt(t)[id]
             s == GenerationFinished(r, cause, snapshot, now)
  <2>1. r \in Lifecycle /\ ~Terminal(r)
    BY <1>4, ExpiredOwner, Zenon
  <2> HIDE DEF r
  <2>2. CASE cause # "completed" \/ ~enabled
    <3>1. cause \in TerminalCause
      BY DEF GenerationCause, TerminalCause
    <3>2. ~owns_preservation(s)
      BY <1>3, <2>1, <2>2, <3>1, TerminalizedFacts, SMTT(20)
         DEF GenerationFinished, owns_preservation, Terminal
    <3> QED
      BY <1>4, <3>2, CarriedByExpire, Zenon DEF r
  <2>3. CASE ~(cause # "completed" \/ ~enabled)
    <3>1. /\ s.retained = r.retained /\ s.pending_retention = r.pending_retention
          /\ owns_preservation(s) => owns_preservation(r)
      BY <2>1, <2>3 DEF GenerationFinished, Lifecycle, owns_preservation, Terminal
    <3> HIDE DEF s
    <3>2. owns_preservation(s) => id \in DOMAIN records /\ r = records[id]
      BY <1>4, <3>1, ExpiredOwner, Zenon DEF r
    <3> QED
      BY <1>4, <3>1, <3>2, CarriedByExpire, Zenon DEF r, s
  <2> QED
    BY <2>2, <2>3, Zenon
<1> QED
  BY <1>2, <1>4, CarriedByExpire, Zenon

\* expire() leaves the stall that was reported.
LEMMA AgedStart ==
    ASSUME NEW r \in Lifecycle, NEW t \in Nat
    PROVE  Aged(r, t).start = r.start
<1>1. "expired" \in TerminalCause
  BY DEF TerminalCause
<1> QED
  BY <1>1, TerminalizedFacts, ReleasedFacts, SMTT(30) DEF Aged

\* A stall that starts finds its lifecycle without blocks.
LEMMA apply_start_carries ==
    ASSUME RegistryInv, NEW id, NEW event \in StartEvent, apply_start(id, event)
    PROVE  Carried
<1> DEFINE u(r, now, predicted, later) ==
             [WithEstimate(Started(r, event, predicted, now), 0, later) EXCEPT
                 !.pending_evaluation = r.completed_at # None]
<1>1. PICK t \in Reading(clock) :
        \/ records' = RecordsAt(t)
        \/ /\ id \in DOMAIN RecordsAt(t) /\ RecordsAt(t)[id].start = NoEvent
           /\ \E now, predicted, later :
                 records' = Put(RecordsAt(t), id, u(RecordsAt(t)[id], now, predicted, later))
  BY Zenon DEF apply_start, Unknown, StartDisposition
<1>2. ASSUME id \in DOMAIN RecordsAt(t), RecordsAt(t)[id].start = NoEvent,
             NEW now, NEW predicted, NEW later,
             records' = Put(RecordsAt(t), id, u(RecordsAt(t)[id], now, predicted, later))
      PROVE  Carried
  <2> DEFINE r == RecordsAt(t)[id]
             s == u(r, now, predicted, later)
  <2>1. t \in Nat /\ id \in DOMAIN records /\ r = Aged(records[id], t) /\ RecordOK(r, t)
    BY <1>2, FirstReading, AfterExpire DEF RecordsAt, Expired, RegistryAt
  <2>2. records[id] \in Lifecycle /\ RecordOK(records[id], swept)
    BY <2>1, InvParts, Zenon DEF RegistryAt, RecordOK
  <2>3. records[id].start = NoEvent
    BY <1>2, <2>1, <2>2, AgedStart, SMTT(20)
  <2>4. records[id].retained = {} /\ records[id].pending_retention = {}
    BY <2>2, <2>3 DEF RecordOK, owns_preservation
  <2>5. r \in Lifecycle /\ r.retained = {} /\ r.pending_retention = {}
    BY <1>2, <2>1 DEF RecordOK, owns_preservation
  <2> HIDE DEF r
  <2>6. s.retained = {} /\ s.pending_retention = {}
    <3> DEFINE q == [Started(r, event, predicted, now) EXCEPT
                        !.release_deadline = ReleaseDeadline(Started(r, event, predicted, now), 0)]
    <3>1. /\ q.retained = {} /\ q.pending_retention = {}
          /\ Released(q).retained = {} /\ Released(q).pending_retention = {}
      BY <2>5 DEF Started, Released, Lifecycle
    <3>2. s = [q EXCEPT !.pending_evaluation = r.completed_at # None]
          \/ s = [Released(q) EXCEPT !.pending_evaluation = r.completed_at # None]
      BY Zenon DEF WithEstimate
    <3> QED
      BY <2>5, <3>1, <3>2, Zenon DEF Started, Released, Lifecycle
  <2> HIDE DEF s
  <2> QED
    BY <1>2, <2>1, <2>4, <2>6, CarriedByExpire, Zenon DEF r, s
<1> HIDE DEF u
<1> QED
  BY <1>1, <1>2, CarriedByExpire, Zenon

\* A stall that finishes ends its lifecycle's ownership.
LEMMA apply_finish_carries ==
    ASSUME RegistryInv, NEW id, apply_finish(id)
    PROVE  Carried
<1> DEFINE u(r, now) == [Terminalized(r, "finished", now) EXCEPT !.finish_accepted = TRUE]
<1>1. PICK t \in Reading(clock) :
        \/ records' = RecordsAt(t)
        \/ /\ id \in DOMAIN RecordsAt(t) /\ ~Terminal(RecordsAt(t)[id])
           /\ \E now \in Reading(t) : records' = Put(RecordsAt(t), id, u(RecordsAt(t)[id], now))
  BY Zenon DEF apply_finish, Unknown, FinishDisposition
<1>2. ASSUME id \in DOMAIN RecordsAt(t), ~Terminal(RecordsAt(t)[id]), NEW now \in Reading(t),
             records' = Put(RecordsAt(t), id, u(RecordsAt(t)[id], now))
      PROVE  Carried
  <2>1. t \in Nat /\ now \in Nat /\ RecordOK(RecordsAt(t)[id], t)
    BY <1>2, FirstReading, LaterReading, AfterExpire DEF RegistryAt
  <2>2. Terminal(u(RecordsAt(t)[id], now))
    BY <1>2, <2>1, FinishedOK
  <2> HIDE DEF u
  <2>3. ~owns_preservation(u(RecordsAt(t)[id], now))
    BY <2>2 DEF owns_preservation
  <2> QED
    BY <1>2, <2>3, CarriedByExpire, Zenon
<1> HIDE DEF u
<1> QED
  BY <1>1, <1>2, CarriedByExpire, Zenon

\* Unmatched snapshots are forgotten, the blocks already held are not.
LEMMA invalidate_snapshots_carries ==
    ASSUME RegistryInv, invalidate_snapshots
    PROVE  Carried
<1>1. ASSUME NEW id \in DOMAIN records PROVE records[id] \in Lifecycle
  BY InvParts, Zenon DEF RegistryAt, RecordOK
<1>2. ASSUME NEW id \in DOMAIN records'
      PROVE  CarriedFor(id)
  <2>1. id \in DOMAIN records /\ records'[id] = [records[id] EXCEPT !.snapshot = {},
                                                   !.pending_evaluation = FALSE]
    BY Zenon DEF invalidate_snapshots
  <2> QED
    BY <1>1, <2>1, SMTT(20) DEF CarriedFor, Lifecycle
<1> QED
  BY <1>2, Zenon DEF Carried

\* After a reset nobody owns anything.
LEMMA reset_carries ==
    ASSUME RegistryInv, reset_connector_cache
    PROVE  \A id \in DOMAIN records' : ~owns_preservation(records'[id])
<1>1. PICK now \in Reading(clock) :
        records' = [id \in DOMAIN records |->
                      Terminalized(ClearedRetained(records)[id], "reset", now)]
  BY DEF reset_connector_cache
<1>2. now \in Nat
  BY FirstReading
<1>3. ASSUME NEW id \in DOMAIN records
      PROVE  ~owns_preservation(records'[id])
  <2>1. records[id] \in Lifecycle
    BY InvParts, Zenon DEF RegistryAt, RecordOK
  <2>2. ClearedRetained(records)[id] \in Lifecycle
    BY <2>1 DEF ClearedRetained, Lifecycle
  <2>3. Terminal(Terminalized(ClearedRetained(records)[id], "reset", now))
    BY <1>2, <2>2, TerminalizedFacts DEF TerminalCause
  <2> QED
    BY <1>1, <2>3 DEF owns_preservation
<1> QED
  BY <1>1, <1>3
-----------------------------------------------------------------------------
(* Stores in flight and the lifecycles that wait for them *)

\* The inductive invariant: PendingIsWritten, and the keys whose completion
\* is being handed on are ready.
HandoverInv ==
    /\ PendingIsWritten
    /\ turn.op = "retain" => \A k \in turn.keys : status[k] = "ready"

\* Each key being written has one of the stores js.
Written(js, st) ==
    /\ UNION js = {k \in Key : st[k] = "writing"}
    /\ \A j1, j2 \in js : j1 = j2 \/ j1 \cap j2 = {}

\* Every key a lifecycle waits for is being written.
Waited(recs, st) ==
    \A id \in DOMAIN recs : \A k \in recs[id].pending_retention : st[k] = "writing"

\* Outside the loop over completed keys, every lifecycle waits for writes.
LEMMA HandoverParts ==
    ASSUME HandoverInv
    PROVE  /\ Written(jobs, status)
           /\ turn.op # "retain" => Waited(records, status)
BY Zenon DEF HandoverInv, PendingIsWritten, Written, Waited

\* And that is enough outside that loop.
LEMMA HandoverFromParts ==
    ASSUME Written(jobs', status'), Waited(records', status'), turn'.op # "retain"
    PROVE  HandoverInv'
BY Zenon DEF HandoverInv, PendingIsWritten, Written, Waited

\* A loop that is not over completed keys does not become one.
LEMMA VisitedOp ==
    ASSUME NEW id, Visited(id), turn.op # "retain"
    PROVE  turn'.op # "retain"
BY DEF Visited, Turn, NoTurn

\* What a lifecycle waits for is still being written if the store leaves the
\* writes alone.
LEMMA WaitedFor ==
    ASSUME RegistryInv', NEW id \in DOMAIN records', CarriedFor(id), Waited(records, status),
           \A k \in Key : status[k] = "writing" => status'[k] = "writing"
    PROVE  \A k \in records'[id].pending_retention : status'[k] = "writing"
<1>1. ASSUME NEW k \in records'[id].pending_retention
      PROVE  status'[k] = "writing"
  <2>1. RecordOK(records'[id], swept')
    BY DEF RegistryInv
  <2>2. owns_preservation(records'[id])
    BY <1>1, <2>1, Zenon DEF RecordOK
  <2>3. k \in Key
    BY <2>1 DEF RecordOK, Lifecycle
  <2>4. id \in DOMAIN records /\ k \in records[id].pending_retention
    BY <1>1, <2>2, Zenon DEF CarriedFor
  <2> QED
    BY <2>3, <2>4, Zenon DEF Waited
<1> QED
  BY <1>1, Zenon

\* An accepted store is one more write, of keys nobody was writing.
LEMMA WrittenPrepared ==
    ASSUME NEW new \in SUBSET Key, NEW evicted \in SUBSET Key, NEW st,
           PreparedOK(new, evicted, st), Written(jobs, status)
    PROVE  /\ Written(jobs \cup {new}, st)
           /\ Written(jobs \cup ({new} \ {{}}), st)
           /\ \A k \in Key : status[k] = "writing" => st[k] = "writing" /\ k \notin new
<1>1. \A k \in Key : status[k] = "writing" => st[k] = "writing" /\ k \notin new
  BY DEF PreparedOK
<1>2. {k \in Key : st[k] = "writing"} = {k \in Key : status[k] = "writing"} \cup new
  BY <1>1 DEF PreparedOK
<1>3. \A j \in jobs : j \subseteq {k \in Key : status[k] = "writing"}
  BY DEF Written
<1>4. \A j \in jobs : j \cap new = {}
  BY <1>1, <1>3
<1>5. ASSUME NEW js, js = jobs \cup {new} \/ js = jobs \cup ({new} \ {{}})
      PROVE  Written(js, st)
  <2>1. \A k : k \in UNION js <=> k \in UNION jobs \/ k \in new
    <3>1. ASSUME NEW k \in UNION js PROVE k \in UNION jobs \/ k \in new
      BY <1>5
    <3>2. ASSUME NEW k \in UNION jobs PROVE k \in UNION js
      BY <1>5
    <3>3. ASSUME NEW k \in new PROVE k \in UNION js
      <4>1. new # {}
        BY <3>3
      <4>2. new \in js
        BY <1>5, <4>1
      <4> QED
        BY <3>3, <4>2
    <3> QED
      BY <3>1, <3>2, <3>3, Zenon
  <2>2. UNION js = {k \in Key : st[k] = "writing"}
    BY <1>2, <2>1 DEF Written
  <2>3. ASSUME NEW j1 \in js, NEW j2 \in js PROVE j1 = j2 \/ j1 \cap j2 = {}
    <3>1. (j1 \in jobs \/ j1 = new) /\ (j2 \in jobs \/ j2 = new)
      BY <1>5
    <3>2. CASE j1 \in jobs /\ j2 \in jobs
      BY <3>2, Zenon DEF Written
    <3>3. CASE j1 = new /\ j2 \in jobs
      BY <1>4, <3>3
    <3>4. CASE j1 \in jobs /\ j2 = new
      BY <1>4, <3>4
    <3> QED
      BY <3>1, <3>2, <3>3, <3>4
  <2> QED
    BY <2>2, <2>3, Zenon DEF Written
<1> QED
  BY <1>1, <1>5, Zenon

\* An accepted store that is undone was no write.
LEMMA WrittenUndone ==
    ASSUME NEW new \in SUBSET Key, NEW evicted \in SUBSET Key, NEW st,
           PreparedOK(new, evicted, st), Written(jobs, status)
    PROVE  /\ Written(jobs, Abandoned(st, new))
           /\ \A k \in Key : status[k] = "writing" => Abandoned(st, new)[k] = "writing"
<1>1. \A k \in Key : status[k] = "writing" <=> Abandoned(st, new)[k] = "writing"
  BY DEF PreparedOK, Abandoned, Completed
<1>2. {k \in Key : Abandoned(st, new)[k] = "writing"} = {k \in Key : status[k] = "writing"}
  BY <1>1, Zenon
<1> QED
  BY <1>1, <1>2, Zenon DEF Written

\* Completed stores are no more writes, and theirs are the keys made ready.
LEMMA WrittenCompleted ==
    ASSUME status \in [Key -> Status], NEW J \in SUBSET jobs, Written(jobs, status)
    PROVE  LET st == Completed(status, UNION J, TRUE) IN
           /\ Written(jobs \ J, st)
           /\ \A k \in UNION J : k \in Key /\ st[k] = "ready"
           /\ \A k \in Key : status[k] = "writing" => st[k] = "writing" \/ k \in UNION J
<1> DEFINE st == Completed(status, UNION J, TRUE)
<1>1. \A k \in UNION J : k \in Key /\ status[k] = "writing"
  BY DEF Written
<1>2. /\ \A k \in UNION J : st[k] = "ready"
      /\ \A k \in Key \ UNION J : st[k] = status[k]
  BY <1>1 DEF Completed
<1> HIDE DEF st
<1>3. UNION (jobs \ J) = (UNION jobs) \ (UNION J)
  <2>1. ASSUME NEW j1 \in jobs \ J, NEW j2 \in J PROVE j1 \cap j2 = {}
    <3>1. j1 \in jobs /\ j2 \in jobs /\ j1 # j2
      OBVIOUS
    <3> QED
      BY <3>1, Zenon DEF Written
  <2>2. ASSUME NEW k \in UNION (jobs \ J) PROVE k \in UNION jobs /\ k \notin UNION J
    BY <2>1
  <2>3. ASSUME NEW k \in UNION jobs, k \notin UNION J PROVE k \in UNION (jobs \ J)
    BY <2>3
  <2>4. \A k : k \in UNION (jobs \ J) <=> k \in UNION jobs /\ k \notin UNION J
    BY <2>2, <2>3, Zenon
  <2> QED
    BY <2>4
<1>4. {k \in Key : st[k] = "writing"} = {k \in Key : status[k] = "writing"} \ UNION J
  BY <1>2
<1>5. Written(jobs \ J, st)
  BY <1>3, <1>4 DEF Written
<1> QED
  BY <1>1, <1>2, <1>5, Zenon DEF st

\* A step that changes neither what is written nor what lifecycles wait for.
LEMMA QuietStep ==
    ASSUME RegistryInv', HandoverInv, Carried, status' = status, jobs' = jobs,
           turn.op # "retain", turn'.op # "retain"
    PROVE  HandoverInv'
<1>1. Waited(records, status) /\ Written(jobs, status)
  BY HandoverParts
<1>2. Waited(records', status')
  BY <1>1, WaitedFor, Zenon DEF Waited, Carried
<1> QED
  BY <1>1, <1>2, HandoverFromParts, Zenon

\* Nothing happens to the records.
LEMMA SameRecords ==
    ASSUME records' = records
    PROVE  Carried
<1>1. ASSUME NEW id \in DOMAIN records' PROVE CarriedFor(id)
  BY DEF CarriedFor
<1> QED
  BY <1>1 DEF Carried

\* Only the marker of the record passed over changes.
LEMMA pass_over_carries ==
    ASSUME RegistryInv, NEW id, pass_over(id)
    PROVE  Carried
<1>1. ASSUME NEW i \in DOMAIN records' PROVE CarriedFor(i)
  <2>1. /\ i \in DOMAIN records
        /\ records'[i] = Evaluated(records[i]) \/ records'[i] = records[i]
    BY DEF pass_over
  <2>2. records[i] \in Lifecycle
    BY <2>1, InvParts, Zenon DEF RegistryAt, RecordOK
  <2>3. /\ records'[i].retained = records[i].retained
        /\ records'[i].pending_retention = records[i].pending_retention
    BY <2>1, <2>2, EvaluatedFacts, ZenonT(30)
  <2> QED
    BY <2>1, <2>3, Zenon DEF CarriedFor
<1> QED
  BY <1>1, Zenon DEF Carried

\* The record that gives up owns nothing.
LEMMA give_up_carries ==
    ASSUME RegistryInv, NEW id, NEW seconds, give_up(id, seconds)
    PROVE  Carried
<1>1. PICK r : id \in DOMAIN records /\ ~owns_preservation(r) /\ records' = Put(records, id, r)
  BY DEF give_up
<1>2. ASSUME NEW i \in DOMAIN records' PROVE CarriedFor(i)
  BY <1>1 DEF CarriedFor, Put
<1> QED
  BY <1>2, Zenon DEF Carried

\* What a batch leaves in its own record, and in the others.
LEMMA BatchCarries ==
    ASSUME RegistryInv, NEW id \in DOMAIN records, Eligible(records[id]),
           NEW seconds \in Lead, NEW now \in Reading(clock), NEW t \in Reading(now)
    PROVE  /\ DOMAIN BatchRecords(id, seconds, now) = DOMAIN records
           /\ BatchRecords(id, seconds, now)[id].pending_retention = {}
           /\ \A i \in DOMAIN records : i # id => BatchRecords(id, seconds, now)[i] = records[i]
           /\ \A i \in DOMAIN BatchExpired(id, seconds, now, t) : i # id =>
                /\ i \in DOMAIN records
                /\ owns_preservation(BatchExpired(id, seconds, now, t)[i]) =>
                     BatchExpired(id, seconds, now, t)[i] = records[i]
<1> DEFINE s == WithEstimate(Evaluated(records[id]), seconds, now)
           est == BatchRecords(id, seconds, now)
<1>1. s.pending_retention = {}
  BY EstimatedOK
<1> HIDE DEF s
<1>2. /\ DOMAIN est = DOMAIN records /\ est[id] = s
      /\ \A i \in DOMAIN records : i # id => est[i] = records[i]
  BY DEF BatchRecords, Put, s
<1> HIDE DEF est
<1>3. t \in Nat
  BY FirstReading, LaterReading
<1>4. ASSUME NEW i \in DOMAIN Expired(est, t), i # id
      PROVE  /\ i \in DOMAIN records
             /\ owns_preservation(Expired(est, t)[i]) => Expired(est, t)[i] = records[i]
  <2>1. i \in DOMAIN records /\ Expired(est, t)[i] = Aged(records[i], t)
    BY <1>2, <1>4 DEF Expired
  <2>2. records[i] \in Lifecycle
    BY <2>1, InvParts, Zenon DEF RegistryAt, RecordOK
  <2> QED
    BY <1>3, <2>1, <2>2, AgedOwner, Zenon
<1> QED
  BY <1>1, <1>2, <1>4, Zenon DEF BatchExpired, est

\* A batch touches no other lifecycle's blocks.
LEMMA register_store_carries ==
    ASSUME RegistryInv, NEW id \in LifecycleId, NEW K \in SUBSET Key, NEW seconds \in Lead,
           _register_store(id, K, seconds)
    PROVE  \A i \in DOMAIN records' : i # id => CarriedFor(i)
<1>1. id \in DOMAIN records /\ Eligible(records[id])
  BY RegisterOutcomes, ZenonT(30)
<1>2. PICK now \in Reading(clock) : \E t \in Reading(now) : RegisterOutcome(id, K, seconds, now, t)
  BY RegisterOutcomes, Zenon
<1>3. PICK t \in Reading(now) : RegisterOutcome(id, K, seconds, now, t)
  BY <1>2, Zenon
<1> DEFINE est == BatchRecords(id, seconds, now)
           recs == BatchExpired(id, seconds, now, t)
<1>4. /\ DOMAIN est = DOMAIN records
      /\ \A i \in DOMAIN records : i # id => est[i] = records[i]
      /\ \A i \in DOMAIN recs : i # id =>
           i \in DOMAIN records /\ (owns_preservation(recs[i]) => recs[i] = records[i])
  BY <1>1, BatchCarries, ZenonT(40)
<1>5. \/ records' = est
      \/ \E u : records' = Put(recs, id, u)
      \/ records' = recs
  BY <1>3, Zenon DEF RegisterOutcome, Refused, Accepted, Undone
<1> HIDE DEF est, recs
<1>6. ASSUME NEW i \in DOMAIN records', i # id
      PROVE  CarriedFor(i)
  BY <1>4, <1>5, <1>6 DEF CarriedFor, Put
<1> QED
  BY <1>6, Zenon

\* A batch waits for writes that are under way, and adds its own.
LEMMA register_store_handover ==
    ASSUME RegistryInv, RegistryInv', HandoverInv, NEW id \in LifecycleId, NEW K \in SUBSET Key,
           NEW seconds \in Lead, _register_store(id, K, seconds)
    PROVE  HandoverInv'
<1>1. /\ id \in DOMAIN records /\ Eligible(records[id])
      /\ turn.op = "evaluate" /\ Visited(id)
  BY RegisterOutcomes, Zenon
<1>2. PICK now \in Reading(clock) : \E t \in Reading(now) : RegisterOutcome(id, K, seconds, now, t)
  BY RegisterOutcomes, Zenon
<1>3. PICK t \in Reading(now) : RegisterOutcome(id, K, seconds, now, t)
  BY <1>2, Zenon
<1>4. Waited(records, status) /\ Written(jobs, status) /\ turn'.op # "retain"
  BY <1>1, HandoverParts, VisitedOp
<1>5. ASSUME \A k \in Key : status[k] = "writing" => status'[k] = "writing",
             Written(jobs', status'),
             id \in DOMAIN records' =>
               \A k \in records'[id].pending_retention : status'[k] = "writing"
      PROVE  HandoverInv'
  <2>1. ASSUME NEW i \in DOMAIN records', i # id
        PROVE  \A k \in records'[i].pending_retention : status'[k] = "writing"
    <3>1. CarriedFor(i)
      BY <2>1, register_store_carries, Zenon
    <3> QED
      BY <1>4, <1>5, <3>1, WaitedFor, Zenon
  <2>2. Waited(records', status')
    BY <1>5, <2>1, Zenon DEF Waited
  <2> QED
    BY <1>4, <1>5, <2>2, HandoverFromParts, Zenon
<1>6. CASE Refused(id, seconds, now)
  <2>1. /\ records' = BatchRecords(id, seconds, now) /\ jobs' = jobs /\ status' = status
    BY <1>6 DEF Refused, store_vars
  <2>2. records'[id].pending_retention = {}
    BY <1>1, <2>1, BatchCarries, Zenon
  <2> QED
    BY <1>4, <1>5, <2>1, <2>2, Zenon
<1>7. ASSUME NEW new \in SUBSET K, NEW evicted \in SUBSET (Key \ K),
             CanPrepare(status, readers, K, new, evicted), NEW recs, NEW rd,
             \/ Accepted(id, K, recs, rd, new, Prepared(status, new, evicted), t)
             \/ Undone(id, recs, rd, new, Prepared(status, new, evicted), t)
      PROVE  HandoverInv'
  <2> DEFINE st == Prepared(status, new, evicted)
  <2>1. new \in SUBSET Key /\ evicted \in SUBSET Key
    OBVIOUS
  <2>2. CanPrepare(status, readers, K, new, evicted)
    BY <1>7
  <2>3. PreparedOK(new, evicted, Prepared(status, new, evicted))
    BY <2>2, PreparedSafe
  <2> HIDE DEF st
  <2>4. PreparedOK(new, evicted, st)
    BY <2>3 DEF st
  <2>5. CASE Accepted(id, K, recs, rd, new, st, t)
    <3>1. /\ status' = st /\ jobs' = jobs \cup ({new} \ {{}})
          /\ \E A : records' = Put(recs, id, Registered(recs[id], A, PendingOn(K, st)))
          /\ owns_preservation(recs[id])
      BY <2>5, Zenon DEF Accepted, Registered
    <3>2. /\ Written(jobs', status')
          /\ \A k \in Key : status[k] = "writing" => status'[k] = "writing"
      BY <1>4, <2>1, <2>4, <3>1, WrittenPrepared, Zenon
    <3>3. PICK A : records' = Put(recs, id, Registered(recs[id], A, PendingOn(K, st)))
      BY <3>1
    <3>4. records'[id] = Registered(recs[id], A, PendingOn(K, st)) /\ id \in DOMAIN records'
      BY <3>3 DEF Put
    <3>5. records'[id] \in Lifecycle
      BY <3>4, Zenon DEF RegistryInv, RecordOK
    <3>6. records'[id].pending_retention \subseteq PendingOn(K, st)
      BY <3>4, <3>5 DEF Registered, Lifecycle
    <3> QED
      BY <1>5, <3>1, <3>2, <3>6, Zenon DEF PendingOn
  <2>6. CASE Undone(id, recs, rd, new, st, t)
    <3>1. /\ status' = Abandoned(st, new) /\ jobs' = jobs /\ records' = recs
          /\ ~owns_preservation(recs[id])
      BY <2>6, Zenon DEF Undone
    <3>2. /\ Written(jobs', status')
          /\ \A k \in Key : status[k] = "writing" => status'[k] = "writing"
      BY <1>4, <2>1, <2>4, <3>1, WrittenUndone, SMTT(20)
    <3>3. id \in DOMAIN records' => records'[id].pending_retention = {}
      BY <3>1, Zenon DEF RegistryInv, RecordOK
    <3> QED
      BY <1>5, <3>2, <3>3, Zenon
  <2> QED
    BY <1>7, <2>5, <2>6, Zenon DEF st
<1> QED
  BY <1>3, <1>6, <1>7, Zenon DEF RegisterOutcome

\* An ordinary request's store is one more write.
LEMMA ordinary_store_handover ==
    ASSUME RegistryInv, RegistryInv', HandoverInv, NEW K \in SUBSET Key, ordinary_store(K)
    PROVE  HandoverInv' /\ Carried
<1>1. turn = NoTurn /\ turn' = turn /\ records' = records
  BY DEF ordinary_store, registry_vars
<1>2. PICK new \in SUBSET K, evicted \in SUBSET (Key \ K) :
        /\ CanPrepare(status, readers, K, new, evicted)
        /\ status' = Prepared(status, new, evicted)
        /\ jobs' = jobs \cup {new}
  BY Zenon DEF ordinary_store
<1>3. Carried
  BY <1>1, SameRecords
<1>4. turn.op # "retain" /\ turn'.op # "retain"
  BY <1>1 DEF NoTurn
<1>5. Waited(records, status) /\ Written(jobs, status)
  BY <1>4, HandoverParts
<1>6. PreparedOK(new, evicted, Prepared(status, new, evicted))
  BY <1>2, PreparedSafe
<1>7. new \in SUBSET Key /\ evicted \in SUBSET Key
  OBVIOUS
<1>8. /\ Written(jobs', status')
      /\ \A k \in Key : status[k] = "writing" => status'[k] = "writing"
  BY <1>2, <1>5, <1>6, <1>7, WrittenPrepared, Zenon
<1>9. Waited(records', status')
  BY <1>3, <1>5, <1>8, WaitedFor, Zenon DEF Waited, Carried
<1> QED
  BY <1>3, <1>4, <1>8, <1>9, HandoverFromParts, Zenon

\* Completed keys are ready, and every lifecycle that waits for one is still
\* to be visited.
LEMMA update_connector_output_handover ==
    ASSUME RegistryInv, RegistryInv', HandoverInv, NEW J \in SUBSET jobs,
           update_connector_output(J)
    PROVE  HandoverInv' /\ Carried
<1>1. /\ turn = NoTurn /\ jobs' = jobs \ J
      /\ status' = Completed(status, UNION J, TRUE)
      /\ turn' = Turn("retain", DOMAIN records', UNION J)
  BY Zenon DEF update_connector_output
<1>2. Carried
  <2>1. PICK t \in Reading(clock) : records' = RecordsAt(t)
    BY Zenon DEF update_connector_output
  <2> QED
    BY <2>1, CarriedByExpire, Zenon
<1>3. Waited(records, status) /\ Written(jobs, status)
  BY <1>1, HandoverParts DEF NoTurn
<1>4. /\ Written(jobs', status')
      /\ \A k \in UNION J : k \in Key /\ status'[k] = "ready"
      /\ \A k \in Key : status[k] = "writing" => status'[k] = "writing" \/ k \in UNION J
  BY <1>1, <1>3, InvParts, WrittenCompleted, Zenon
<1>5. ASSUME NEW id \in DOMAIN records', NEW k \in records'[id].pending_retention
      PROVE  \/ status'[k] = "writing"
             \/ /\ turn'.op = "retain" /\ id \in turn'.ids
                /\ k \in turn'.keys /\ status'[k] = "ready"
  <2>1. RecordOK(records'[id], swept')
    BY DEF RegistryInv
  <2>2. owns_preservation(records'[id])
    BY <1>5, <2>1, Zenon DEF RecordOK
  <2>3. k \in Key
    BY <2>1 DEF RecordOK, Lifecycle
  <2>4. id \in DOMAIN records /\ k \in records[id].pending_retention
    BY <1>2, <1>5, <2>2, Zenon DEF Carried, CarriedFor
  <2>5. status'[k] = "writing" \/ k \in UNION J
    BY <1>3, <1>4, <2>3, <2>4, Zenon DEF Waited
  <2>6. turn' = [op |-> "retain", ids |-> DOMAIN records', keys |-> UNION J]
    BY <1>1, SMTT(20) DEF Turn
  <2>7. turn'.op = "retain" /\ turn'.ids = DOMAIN records' /\ turn'.keys = UNION J
    BY <2>6, ZenonT(40)
  <2> QED
    BY <1>4, <2>5, <2>7, Zenon
<1>6. turn'.op = "retain" => turn'.keys = UNION J
  BY <1>1 DEF Turn, NoTurn
<1> QED
  BY <1>2, <1>4, <1>5, <1>6, Zenon DEF HandoverInv, PendingIsWritten, Written

\* What a lifecycle's visit does to it: each completed key it waited for is
\* retained, if it still owns its preservation.
LEMMA retain_completed_effect ==
    ASSUME RegistryInv, RegistryInv', HandoverInv, KeysOK, NEW id \in LifecycleId,
           retain_completed(id)
    PROVE  /\ \A i \in DOMAIN records' : i # id => CarriedFor(i)
           /\ id \in DOMAIN records' /\ owns_preservation(records'[id]) =>
                /\ id \in DOMAIN records
                /\ records'[id].pending_retention = records[id].pending_retention \ turn.keys
                /\ records[id].retained \cup (records[id].pending_retention \cap turn.keys)
                     \subseteq records'[id].retained
<1> DEFINE ready == records[id].pending_retention \cap turn.keys
<1>1. CASE id \in DOMAIN records /\ ready # {}
  <2>1. PICK t \in Reading(clock) :
          records' = Put(RecordsAt(t), id, Resolved(RecordsAt(t)[id], ready,
                            Retainable(RecordsAt(t)[id], ready, status)))
    BY <1>1, Zenon DEF retain_completed
  <2> DEFINE r == RecordsAt(t)[id]
             A == Retainable(r, ready, status)
             u == Resolved(r, ready, A)
  <2>2. id \in DOMAIN RecordsAt(t)
    BY <1>1, WaitingSurvives, SMTT(20)
  <2>3. t \in Nat /\ RecordOK(r, t)
    BY <2>2, AfterExpire, ZenonT(40) DEF RegistryAt
  <2>4. ready \in SUBSET Key /\ \A k \in ready : status[k] = "ready"
    BY Zenon DEF KeysOK, HandoverInv, retain_completed
  <2>5. records'[id] = u /\ id \in DOMAIN records'
        /\ \A i \in DOMAIN records' : i # id => i \in DOMAIN RecordsAt(t)
                                                /\ records'[i] = RecordsAt(t)[i]
    BY <2>1, <2>2 DEF Put
  <2>6. owns_preservation(r) => r = records[id]
    BY <2>2, ExpiredOwner, Zenon
  <2> HIDE DEF ready, r
  <2>7. /\ u.retained = r.retained \cup A /\ u.pending_retention = r.pending_retention \ ready
        /\ owns_preservation(u) <=> owns_preservation(r)
    <3>1. ResolvedInOrder(r, ready, status, t)
      BY <2>3, <2>4, ResolvedOK, SMTT(20)
    <3> QED
      BY <3>1, Zenon DEF ResolvedInOrder
  <2>8. owns_preservation(r) => ready \subseteq r.retained \cup A
    BY <2>4, SMTT(20) DEF Retainable, Ready
  <2> HIDE DEF A, u
  <2>9. ASSUME owns_preservation(records'[id])
        PROVE  /\ records'[id].pending_retention = records[id].pending_retention \ turn.keys
               /\ records[id].retained \cup (records[id].pending_retention \cap turn.keys)
                    \subseteq records'[id].retained
    <3>1. owns_preservation(r) /\ r = records[id]
      BY <2>5, <2>6, <2>7, <2>9, Zenon
    <3>2. /\ records'[id].retained = records[id].retained \cup A
          /\ records'[id].pending_retention = records[id].pending_retention \ ready
          /\ ready \subseteq records[id].retained \cup A
      BY <2>5, <2>7, <2>8, <3>1, Zenon
    <3> QED
      BY <3>2 DEF ready
  <2>10. ASSUME NEW i \in DOMAIN records', i # id PROVE CarriedFor(i)
    BY <2>5, <2>10, ExpiredOwner, Zenon DEF CarriedFor
  <2> QED
    BY <1>1, <2>9, <2>10, Zenon
<1>2. CASE ~(id \in DOMAIN records /\ ready # {})
  <2>1. records' = records
    BY <1>2, Zenon DEF retain_completed
  <2>2. Carried
    BY <2>1, SameRecords
  <2>3. ASSUME id \in DOMAIN records
        PROVE  /\ records'[id].pending_retention = records[id].pending_retention \ turn.keys
               /\ records[id].retained \cup (records[id].pending_retention \cap turn.keys)
                    \subseteq records'[id].retained
    BY <1>2, <2>1, <2>3
  <2> QED
    BY <2>1, <2>2, <2>3, Zenon DEF Carried
<1> QED
  BY <1>1, <1>2, Zenon

\* A visit leaves nothing behind that its lifecycle waits for in vain.
LEMMA retain_completed_handover ==
    ASSUME RegistryInv, RegistryInv', HandoverInv, KeysOK, NEW id \in LifecycleId,
           retain_completed(id)
    PROVE  HandoverInv'
<1>1. /\ turn.op = "retain" /\ status' = status /\ jobs' = jobs
      /\ turn' = Turn(turn.op, turn.ids \ {id}, turn.keys)
  BY Zenon DEF retain_completed, Visited
<1>2. ASSUME NEW i \in turn.ids \ {id}
      PROVE  turn'.op = "retain" /\ i \in turn'.ids /\ turn'.keys = turn.keys
  BY <1>1 DEF Turn
<1>3. turn'.op = "retain" => turn'.keys = turn.keys
  BY <1>1 DEF Turn, NoTurn
<1>4. ASSUME NEW i \in DOMAIN records', NEW k \in records'[i].pending_retention
      PROVE  \/ status'[k] = "writing"
             \/ /\ turn'.op = "retain" /\ i \in turn'.ids
                /\ k \in turn'.keys /\ status'[k] = "ready"
  <2>1. owns_preservation(records'[i])
    BY <1>4, Zenon DEF RegistryInv, RecordOK
  <2>2. CASE i = id
    <3>0. id \in DOMAIN records' /\ owns_preservation(records'[id])
      BY <2>1, <2>2
    <3>1. /\ id \in DOMAIN records
          /\ records'[id].pending_retention = records[id].pending_retention \ turn.keys
      BY <3>0, retain_completed_effect, Zenon
    <3>2. k \in records[id].pending_retention \ turn.keys
      BY <2>2, <3>1, SMTT(20)
    <3> QED
      BY <1>1, <3>1, <3>2, Zenon DEF HandoverInv, PendingIsWritten
  <2>3. CASE i # id
    <3>1. CarriedFor(i)
      BY <2>3, retain_completed_effect, Zenon
    <3>2. i \in DOMAIN records /\ k \in records[i].pending_retention
      BY <1>4, <2>1, <3>1, Zenon DEF CarriedFor
    <3>3. status[k] = "writing" \/ (i \in turn.ids /\ k \in turn.keys /\ status[k] = "ready")
      <4>1. \A j \in DOMAIN records : \A l \in records[j].pending_retention :
              \/ status[l] = "writing"
              \/ turn.op = "retain" /\ j \in turn.ids /\ l \in turn.keys /\ status[l] = "ready"
        BY Zenon DEF HandoverInv, PendingIsWritten
      <4> QED
        BY <3>2, <4>1, Zenon
    <3> QED
      BY <1>1, <1>2, <2>3, <3>3
  <2> QED
    BY <2>2, <2>3, Zenon
<1>5. Written(jobs', status')
  BY <1>1, HandoverParts, Zenon
<1>6. turn'.op = "retain" => \A k \in turn'.keys : status'[k] = "ready"
  BY <1>1, <1>3, Zenon DEF HandoverInv
<1> QED
  BY <1>4, <1>5, <1>6, Zenon DEF HandoverInv, PendingIsWritten, Written

\* A reset discards the stores with the keys, and nobody waits for them.
LEMMA reset_handover ==
    ASSUME RegistryInv, RegistryInv', reset_cache_and_jobs
    PROVE  HandoverInv' /\ Carried
<1>1. /\ reset_connector_cache /\ jobs' = {} /\ turn' = NoTurn
      /\ status' = [k \in Key |-> "absent"]
  BY DEF reset_cache_and_jobs, reset_connector_cache
<1>2. \A id \in DOMAIN records' : ~owns_preservation(records'[id])
  BY <1>1, reset_carries
<1>3. Carried
  BY <1>2, Zenon DEF Carried, CarriedFor
<1>4. \A id \in DOMAIN records' : records'[id].pending_retention = {}
  BY <1>2, Zenon DEF RegistryInv, RecordOK
<1>5. Waited(records', status')
  BY <1>4, Zenon DEF Waited
<1>6. Written(jobs', status')
  BY <1>1 DEF Written
<1>7. turn'.op # "retain"
  BY <1>1 DEF NoTurn
<1> QED
  BY <1>3, <1>5, <1>6, <1>7, HandoverFromParts, ZenonT(30)

\* What PreservationHandedOn says of a step.
HandedOn ==
    \A id \in DOMAIN records \cap DOMAIN records' :
        owns_preservation(records'[id]) =>
            records[id].retained \cup records[id].pending_retention
                \subseteq records'[id].retained \cup records'[id].pending_retention

\* Keys that stay where they are were handed on.
LEMMA CarriedHandsOn ==
    ASSUME Carried
    PROVE  HandedOn
BY DEF Carried, CarriedFor, HandedOn

\* A step in which the stores in flight stay as they are.
LEMMA QuietHandover ==
    ASSUME RegistryInv', HandoverInv, Carried, status' = status, jobs' = jobs,
           turn.op # "retain", turn'.op # "retain"
    PROVE  HandoverInv' /\ HandedOn
BY QuietStep, CarriedHandsOn

\* Every step hands on what owners hold and wait for.
LEMMA HandoverStep ==
    ASSUME RegistryInv, RegistryInv', HandoverInv, KeysOK, OffloadingNext
    PROVE  HandoverInv' /\ HandedOn
<1> DEFINE Goal == HandoverInv' /\ HandedOn
<1>1. ASSUME Carried, turn = NoTurn, UNCHANGED offloading_vars, status' = status
      PROVE  Goal
  <2>1. jobs' = jobs /\ turn.op # "retain" /\ turn'.op # "retain"
    BY <1>1 DEF offloading_vars, NoTurn
  <2> QED
    BY <1>1, <2>1, QuietHandover
<1>2. ASSUME NEW req \in RequestId, NEW id \in LifecycleId, Between(associate(req, id))
      PROVE  Goal
  <2>1. Carried
    BY <1>2, associate_carries DEF Between
  <2>2. status' = status
    BY <1>2 DEF Between, associate
  <2> QED
    BY <1>1, <1>2, <2>1, <2>2, Zenon DEF Between
<1>3. ASSUME NEW req \in RequestId, NEW cause \in GenerationCause, NEW snapshot \in SUBSET Key,
             Between(generation_finished(req, cause, snapshot))
      PROVE  Goal
  <2>1. Carried
    BY <1>3, generation_finished_carries DEF Between
  <2>2. status' = status
    BY <1>3, ZenonT(30) DEF Between, generation_finished
  <2> QED
    BY <1>1, <1>3, <2>1, <2>2, Zenon DEF Between
<1>4. ASSUME NEW id \in LifecycleId, NEW event \in StartEvent, Between(apply_start(id, event))
      PROVE  Goal
  <2>1. Carried
    BY <1>4, apply_start_carries DEF Between
  <2>2. status' = status
    BY <1>4 DEF Between, apply_start
  <2> QED
    BY <1>1, <1>4, <2>1, <2>2, Zenon DEF Between
<1>5. ASSUME NEW id \in LifecycleId, Between(apply_finish(id)) PROVE Goal
  <2>1. Carried
    BY <1>5, apply_finish_carries DEF Between
  <2>2. status' = status
    BY <1>5 DEF Between, apply_finish
  <2> QED
    BY <1>1, <1>5, <2>1, <2>2, Zenon DEF Between
<1>6. ASSUME Between(invalidate_snapshots) PROVE Goal
  <2>1. Carried
    BY <1>6, invalidate_snapshots_carries, SMTT(20) DEF Between
  <2>2. status' = status
    BY <1>6, Zenon DEF Between, invalidate_snapshots, store_vars
  <2> QED
    BY <1>1, <1>6, <2>1, <2>2, Zenon DEF Between
<1>7. ASSUME NEW K \in SUBSET Key, Between(connector_load(K)) \/ Between(connector_loaded(K))
      PROVE  Goal
  <2>1. records' = records /\ status' = status /\ turn = NoTurn /\ UNCHANGED offloading_vars
    BY <1>7 DEF Between, connector_load, connector_loaded, registry_vars, prepare_load,
                complete_load
  <2> QED
    BY <1>1, <2>1, SameRecords, SMTT(20)
<1>8. ASSUME evaluate_pending PROVE Goal
  <2>1. /\ status' = status /\ jobs' = jobs /\ turn = NoTurn
        /\ turn' = Turn("evaluate", DOMAIN records', {})
    BY <1>8, Zenon DEF evaluate_pending
  <2>2. PICK t \in Reading(clock) : records' = RecordsAt(t)
    BY <1>8, Zenon DEF evaluate_pending
  <2>3. Carried
    BY <2>2, CarriedByExpire, Zenon
  <2>4. turn.op # "retain" /\ turn'.op # "retain"
    BY <2>1 DEF NoTurn, Turn
  <2> QED
    BY <2>1, <2>3, <2>4, QuietHandover
<1>9. ASSUME NEW id \in LifecycleId, pass_over(id) PROVE Goal
  <2>1. status' = status /\ jobs' = jobs /\ turn.op = "evaluate" /\ Visited(id)
    BY <1>9 DEF pass_over, store_vars
  <2>2. turn.op # "retain" /\ turn'.op # "retain"
    BY <2>1, VisitedOp
  <2> QED
    BY <1>9, <2>1, <2>2, pass_over_carries, QuietHandover
<1>10. ASSUME NEW id \in LifecycleId, NEW seconds \in Lead, give_up(id, seconds)
       PROVE  Goal
  <2>1. status' = status /\ jobs' = jobs /\ turn.op = "evaluate" /\ Visited(id)
    BY <1>10 DEF give_up, store_vars
  <2>2. turn.op # "retain" /\ turn'.op # "retain"
    BY <2>1, VisitedOp
  <2> QED
    BY <1>10, <2>1, <2>2, give_up_carries, QuietHandover, SMTT(20)
<1>11. ASSUME NEW id \in LifecycleId, NEW K \in SUBSET Key, NEW seconds \in Lead,
              _register_store(id, K, seconds)
       PROVE  Goal
  <2>1. HandoverInv'
    BY <1>11, register_store_handover
  <2>2. \A i \in DOMAIN records' : i # id => CarriedFor(i)
    BY <1>11, register_store_carries
  <2>3. id \in DOMAIN records /\ Eligible(records[id])
    BY <1>11, RegisterOutcomes, Zenon
  <2>4. records[id].retained = {} /\ records[id].pending_retention = {}
    BY <2>3, SMTT(20) DEF Eligible
  <2>5. HandedOn
    BY <2>2, <2>4 DEF HandedOn, CarriedFor
  <2> QED
    BY <2>1, <2>5
<1>12. ASSUME NEW K \in SUBSET Key, ordinary_store(K) PROVE Goal
  BY <1>12, ordinary_store_handover, CarriedHandsOn
<1>13. ASSUME NEW J \in SUBSET jobs, update_connector_output(J) PROVE Goal
  BY <1>13, update_connector_output_handover, CarriedHandsOn
<1>14. ASSUME NEW id \in LifecycleId, retain_completed(id) PROVE Goal
  <2>1. HandoverInv'
    BY <1>14, retain_completed_handover
  <2>2. /\ \A i \in DOMAIN records' : i # id => CarriedFor(i)
        /\ id \in DOMAIN records' /\ owns_preservation(records'[id]) =>
             /\ records'[id].pending_retention = records[id].pending_retention \ turn.keys
             /\ records[id].retained \cup (records[id].pending_retention \cap turn.keys)
                  \subseteq records'[id].retained
    BY <1>14, retain_completed_effect
  <2>3. HandedOn
    BY <2>2 DEF HandedOn, CarriedFor
  <2> QED
    BY <2>1, <2>3
<1>15. ASSUME reset_cache_and_jobs PROVE Goal
  BY <1>15, reset_handover, CarriedHandsOn
<1> HIDE DEF Goal
<1>16. Goal
  BY <1>2, <1>3, <1>4, <1>5, <1>6, <1>7, <1>8, <1>9, <1>10, <1>11, <1>12, <1>13, <1>14, <1>15,
     Zenon DEF OffloadingNext
<1> QED
  BY <1>16 DEF Goal
-----------------------------------------------------------------------------
(* The theorems *)

\* The scheduler's inductive invariant.
OffloadingInv == RegistryInv /\ KeysOK /\ HandoverInv

\* It holds at first, and every step keeps it.
LEMMA OffloadingInitInv == OffloadingInit => OffloadingInv
<1> SUFFICES ASSUME OffloadingInit PROVE OffloadingInv
  OBVIOUS
<1>1. RegistryInv
  BY InitInv DEF OffloadingInit
<1>2. KeysOK
  BY DEF OffloadingInit, KeysOK, NoTurn
<1>3. /\ jobs = {} /\ turn.op # "retain" /\ status = [k \in Key |-> "absent"]
      /\ DOMAIN records = {}
  BY DEF OffloadingInit, NoTurn, Init, StoreInit
<1>4. PendingIsWritten
  BY <1>3 DEF PendingIsWritten
<1> QED
  BY <1>1, <1>2, <1>3, <1>4 DEF OffloadingInv, HandoverInv

\* Every step keeps the inductive invariant.
LEMMA OffloadingNextInv == OffloadingInv /\ [OffloadingNext]_all_vars => OffloadingInv'
<1> SUFFICES ASSUME OffloadingInv, [OffloadingNext]_all_vars PROVE OffloadingInv'
  OBVIOUS
<1>1. RegistryInv' /\ KeysOK'
  BY OffloadingStep, KeysStep DEF OffloadingInv
<1>2. CASE OffloadingNext
  BY <1>1, <1>2, HandoverStep DEF OffloadingInv
<1>3. CASE UNCHANGED all_vars
  <2>1. jobs' = jobs /\ turn' = turn /\ status' = status /\ records' = records
    BY <1>3 DEF all_vars, vars, offloading_vars, registry_vars, store_vars
  <2>2. HandoverInv'
    BY <2>1, Zenon DEF OffloadingInv, HandoverInv, PendingIsWritten
  <2> QED
    BY <1>1, <2>2 DEF OffloadingInv
<1> QED
  BY <1>2, <1>3

\* It holds in every reachable state of the offloading scheduler.
THEOREM OffloadingInvariant == OffloadingSpec => []OffloadingInv
BY OffloadingInitInv, OffloadingNextInv, PTL DEF OffloadingSpec

\* Whatever the scheduler's loops and the connector's stores do, the store's
\* reference counts are the loads in flight and the retentions, ...
THEOREM OffloadingCounts == OffloadingSpec => []RetentionsCounted
<1>1. OffloadingInv => RetentionsCounted
  BY DEF OffloadingInv, RegistryInv, Counted, Holders, RetentionsCounted
<1> QED
  BY <1>1, OffloadingInvariant, PTL

\* ... every state is well typed, so release() finds a reference to return, ...
THEOREM OffloadingTypes == OffloadingSpec => []RegistryTypeOK
<1>1. OffloadingInv => RegistryTypeOK
  BY DEF OffloadingInv, RegistryInv
<1> QED
  BY <1>1, OffloadingInvariant, PTL

\* ... only owners hold blocks or wait for them, ...
THEOREM OffloadingOwners == OffloadingSpec => []OnlyOwnersRetain
<1>1. OffloadingInv => OnlyOwnersRetain
  BY Zenon DEF OffloadingInv, RegistryInv, RecordOK, OnlyOwnersRetain
<1> QED
  BY <1>1, OffloadingInvariant, PTL

\* ... and the store stays within capacity and evicts nothing that is read.
THEOREM OffloadingStoreSafe == OffloadingSpec => []StoreSafe
<1>1. OffloadingInv => StoreSafe
  BY SMTT(20) DEF OffloadingInv, RegistryInv
<1> QED
  BY <1>1, OffloadingInvariant, PTL

\* Every write has one store in flight, and no lifecycle waits for a store
\* that is over, undone or discarded: evaluate_pending and
\* update_connector_output lose no completion.
THEOREM NothingWaitsInVain == OffloadingSpec => []PendingIsWritten
<1>1. OffloadingInv => PendingIsWritten
  BY DEF OffloadingInv, HandoverInv
<1> QED
  BY <1>1, OffloadingInvariant, PTL

\* No step takes from an owner a key it holds or waits for.
THEOREM PreservationIsHandedOn == OffloadingSpec => PreservationHandedOn
<1>1. OffloadingInv /\ OffloadingInv' /\ [OffloadingNext]_all_vars => [HandedOn]_all_vars
  BY HandoverStep DEF OffloadingInv
<1>2. OffloadingSpec => [][HandedOn]_all_vars
  BY <1>1, OffloadingInvariant, PTL DEF OffloadingSpec
<1> QED
  BY <1>2 DEF PreservationHandedOn, HandedOn
=============================================================================
