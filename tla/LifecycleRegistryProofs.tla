----------------------- MODULE LifecycleRegistryProofs -----------------------
(***************************************************************************)
(* Proofs that LifecycleRegistry counts its retentions exactly, lets only  *)
(* owners retain, keeps to the deadlines and keeps one generation per id,  *)
(* for every set of ids, requests, keys and durations and every bound.     *)
(***************************************************************************)
EXTENDS LifecycleRegistry, FiniteSetTheorems, TLAPS

-----------------------------------------------------------------------------
(* Records *)

\* release() gives everything back and marks the record.
LEMMA ReleasedFacts ==
    ASSUME NEW r \in Lifecycle
    PROVE  /\ Released(r) \in Lifecycle
           /\ Released(r).retained = {} /\ Released(r).pending_retention = {}
           /\ Released(r).ownership_released
           /\ Released(r).start = r.start /\ Released(r).started_at = r.started_at
           /\ Released(r).completed_at = r.completed_at
           /\ Released(r).terminal_at = r.terminal_at
           /\ Released(r).snapshot = r.snapshot
           /\ Released(r).pending_evaluation = r.pending_evaluation
BY Zenon DEF Released, Lifecycle

\* _terminalize() keeps a terminal record and ends any other one.
LEMMA TerminalizedFacts ==
    ASSUME NEW r \in Lifecycle, NEW cause \in TerminalCause, NEW now \in Nat
    PROVE  LET s == Terminalized(r, cause, now) IN
           /\ s \in Lifecycle
           /\ Terminal(s)
           /\ Terminal(r) => s = r
           /\ ~Terminal(r) => /\ s.retained = {} /\ s.pending_retention = {}
                              /\ s.snapshot = {} /\ ~s.pending_evaluation
           /\ s.start = r.start /\ s.started_at = r.started_at
           /\ s.completed_at = r.completed_at
<1> DEFINE s == Terminalized(r, cause, now)
<1>1. CASE Terminal(r)
  BY <1>1 DEF Terminalized
<1>2. CASE ~Terminal(r)
  <2>1. s = [Released(r) EXCEPT !.snapshot = {}, !.pending_evaluation = FALSE,
                                !.terminal_cause = cause, !.terminal_at = now]
    BY <1>2 DEF Terminalized
  <2>2. s \in Lifecycle
    <3>1. ASSUME NEW q \in Lifecycle
          PROVE  [q EXCEPT !.snapshot = {}, !.pending_evaluation = FALSE,
                           !.terminal_cause = cause, !.terminal_at = now] \in Lifecycle
      BY Zenon DEF Lifecycle, Time
    <3> QED
      BY <2>1, <3>1, ReleasedFacts, Zenon
  <2>3. /\ s.terminal_at = now /\ s.snapshot = {} /\ s.pending_evaluation = FALSE
        /\ s.retained = Released(r).retained
        /\ s.pending_retention = Released(r).pending_retention
        /\ s.start = Released(r).start /\ s.started_at = Released(r).started_at
        /\ s.completed_at = Released(r).completed_at
    BY <2>1, ReleasedFacts DEF Lifecycle
  <2> QED
    BY <1>2, <2>2, <2>3, ReleasedFacts DEF Terminal, None
<1> QED
  BY <1>1, <1>2

\* A terminalized record is in order, whatever time it is.
LEMMA TerminalizedOK ==
    ASSUME NEW r \in Lifecycle, NEW cause \in TerminalCause, NEW now \in Nat,
           NEW sw \in Nat, NEW t \in Nat, RecordOK(r, sw)
    PROVE  RecordOK(Terminalized(r, cause, now), t)
BY TerminalizedFacts DEF RecordOK, owns_preservation

\* expire() leaves a record in order at the time it reads.
LEMMA AgedOK ==
    ASSUME NEW r, NEW sw \in Nat, NEW t \in Nat, RecordOK(r, sw)
    PROVE  RecordOK(Aged(r, t), t)
<1>1. r \in Lifecycle
  BY DEF RecordOK
<1>2. CASE Overdue(r, t)
  BY <1>1, <1>2, TerminalizedOK DEF Aged, TerminalCause
<1>3. CASE ~Overdue(r, t) /\ PastRelease(r, t)
  BY <1>1, <1>3, ReleasedFacts DEF Aged, RecordOK, owns_preservation, Terminal
<1>4. CASE ~Overdue(r, t) /\ ~PastRelease(r, t)
  <2>1. Aged(r, t) = r
    BY <1>4 DEF Aged
  <2>2. ASSUME owns_preservation(r)
        PROVE  t < r.release_deadline /\ t < r.safety_deadline
    <3>1. ~Terminal(r) /\ r.started_at # None
      BY <2>2 DEF owns_preservation, RecordOK
    <3>2. r.release_deadline \in Int /\ r.safety_deadline \in Int
      BY <1>1 DEF Lifecycle
    <3> QED
      BY <1>4, <3>1, <3>2 DEF Overdue, PastRelease
  <2> QED
    BY <2>1, <2>2 DEF RecordOK
<1> QED
  BY <1>2, <1>3, <1>4

\* Only a record that expire() releases loses its retained keys.
LEMMA AgedRetained ==
    ASSUME NEW r \in Lifecycle, NEW t \in Nat
    PROVE  Aged(r, t).retained =
             IF Overdue(r, t) \/ PastRelease(r, t) THEN {} ELSE r.retained
<1>1. CASE Overdue(r, t)
  <2>1. ~Terminal(r) /\ "expired" \in TerminalCause
    BY <1>1 DEF Overdue, TerminalCause
  <2>2. Terminalized(r, "expired", t).retained = {}
    BY <2>1, TerminalizedFacts
  <2> QED
    BY <1>1, <2>2 DEF Aged
<1>2. CASE ~Overdue(r, t)
  BY <1>2, ReleasedFacts DEF Aged
<1> QED
  BY <1>1, <1>2

\* expire() neither revives a record nor changes when its generation ended.
LEMMA AgedHistory ==
    ASSUME NEW r \in Lifecycle, NEW t \in Nat
    PROVE  /\ Aged(r, t).completed_at = r.completed_at
           /\ Terminal(r) => Aged(r, t) = r
<1>1. "expired" \in TerminalCause
  BY DEF TerminalCause
<1> QED
  BY <1>1, TerminalizedFacts, ReleasedFacts DEF Aged, Overdue, PastRelease
-----------------------------------------------------------------------------
(* Counting *)

\* The records of a registry in order, and reader counts that match them.
RegistryAt(rd, ld, recs, now) ==
    /\ DOMAIN recs \subseteq LifecycleId
    /\ \A id \in DOMAIN recs : RecordOK(recs[id], now)
    /\ rd \in [Key -> Int] /\ ld \in [Key -> Nat]
    /\ Counted(rd, ld, recs)

\* The holders of a key are finitely many.
LEMMA HoldersFinite ==
    ASSUME NEW recs, NEW k, DOMAIN recs \subseteq LifecycleId
    PROVE  IsFiniteSet(Holders(recs, k)) /\ Cardinality(Holders(recs, k)) \in Nat
<1>1. Holders(recs, k) \in SUBSET LifecycleId
  BY DEF Holders
<1> QED
  BY <1>1, RegistryAssumption, FS_Subset, FS_CardinalityType

\* expire() returns to the store exactly the references of the records that
\* stop holding, and forgets only records that hold nothing.
LEMMA ExpireKeepsCount ==
    ASSUME NEW rd, NEW ld, NEW recs, NEW sw \in Nat, NEW t \in Nat,
           RegistryAt(rd, ld, recs, sw)
    PROVE  RegistryAt(Returned(rd, recs, Expiring(recs, t)), ld, Expired(recs, t), t)
<1> DEFINE rd2 == Returned(rd, recs, Expiring(recs, t))
           recs2 == Expired(recs, t)
<1>1. DOMAIN recs2 \subseteq DOMAIN recs /\ DOMAIN recs \subseteq LifecycleId
  BY DEF Expired, RegistryAt
<1>2. \A id \in DOMAIN recs2 : recs2[id] = Aged(recs[id], t)
  BY DEF Expired
<1>3. \A id \in DOMAIN recs2 : RecordOK(recs2[id], t)
  BY <1>1, <1>2, AgedOK DEF RegistryAt
<1>4. ASSUME NEW k \in Key
      PROVE  rd2[k] \in Int /\ rd2[k] = ld[k] + Cardinality(Holders(recs2, k))
  <2> DEFINE H == Holders(recs, k)
             X == {id \in Expiring(recs, t) : k \in recs[id].retained}
  <2>1. IsFiniteSet(H) /\ Cardinality(H) \in Nat
    BY <1>1, HoldersFinite
  <2>2. X \in SUBSET H
    BY DEF Expiring, Holders
  <2>3. Holders(recs2, k) = H \ X
    <3>1. ASSUME NEW id \in DOMAIN recs
          PROVE  id \in Holders(recs2, k) <=> id \in H /\ id \notin X
      <4>1. recs[id] \in Lifecycle
        BY DEF RegistryAt, RecordOK
      <4>2. Forgotten(recs[id], t) => recs[id].retained = {}
        BY DEF RegistryAt, RecordOK, owns_preservation, Forgotten
      <4>3. id \in DOMAIN recs2 <=> ~Forgotten(recs[id], t)
        BY DEF Expired
      <4>4. Aged(recs[id], t).retained =
              IF Overdue(recs[id], t) \/ PastRelease(recs[id], t)
              THEN {} ELSE recs[id].retained
        BY <4>1, AgedRetained
      <4>5. id \in X <=> /\ Overdue(recs[id], t) \/ PastRelease(recs[id], t)
                         /\ k \in recs[id].retained
        BY DEF Expiring
      <4>6. id \in H <=> k \in recs[id].retained
        BY DEF Holders
      <4>7. id \in Holders(recs2, k) <=> id \in DOMAIN recs2 /\ k \in recs2[id].retained
        BY DEF Holders
      <4> QED
        BY <1>2, <4>2, <4>3, <4>4, <4>5, <4>6, <4>7
    <3>2. Holders(recs2, k) \subseteq DOMAIN recs /\ H \subseteq DOMAIN recs
      BY <1>1 DEF Holders
    <3> QED
      BY <3>1, <3>2
  <2>4. Cardinality(H \ X) = Cardinality(H) - Cardinality(X)
    <3>1. H \cap X = X
      BY <2>2
    <3> QED
      BY <2>1, <3>1, FS_Difference, Zenon
  <2>5. Cardinality(X) \in Nat
    BY <2>1, <2>2, FS_Subset, FS_CardinalityType
  <2>6. rd2[k] = rd[k] - Cardinality(X)
    BY DEF Returned
  <2>7. rd[k] = ld[k] + Cardinality(H) /\ rd[k] \in Int /\ ld[k] \in Nat
    BY DEF RegistryAt, Counted
  <2> HIDE DEF H, X
  <2> QED
    BY <2>1, <2>3, <2>4, <2>5, <2>6, <2>7
<1>5. rd2 \in [Key -> Int]
  BY <1>4 DEF Returned
<1> QED
  BY <1>1, <1>3, <1>4, <1>5 DEF RegistryAt, Counted

\* Replacing a record by one that gives back the keys in D.
LEMMA PutDropped ==
    ASSUME NEW rd, NEW ld, NEW recs, NEW t \in Nat, RegistryAt(rd, ld, recs, t),
           NEW id \in DOMAIN recs, NEW s, RecordOK(s, t),
           NEW D \in SUBSET recs[id].retained, s.retained = recs[id].retained \ D
    PROVE  RegistryAt(Dropped(rd, D), ld, Put(recs, id, s), t)
<1> DEFINE recs2 == Put(recs, id, s)
           rd2 == Dropped(rd, D)
<1>1. /\ DOMAIN recs2 = DOMAIN recs /\ DOMAIN recs \subseteq LifecycleId
      /\ \A i \in DOMAIN recs : recs2[i] = IF i = id THEN s ELSE recs[i]
  BY Zenon DEF Put, RegistryAt
<1>2. \A i \in DOMAIN recs2 : RecordOK(recs2[i], t)
  BY <1>1 DEF RegistryAt
<1>3. ASSUME NEW k \in Key
      PROVE  rd2[k] \in Int /\ rd2[k] = ld[k] + Cardinality(Holders(recs2, k))
  <2>1. IsFiniteSet(Holders(recs, k)) /\ Cardinality(Holders(recs, k)) \in Nat
    BY <1>1, HoldersFinite
  <2>2. rd[k] = ld[k] + Cardinality(Holders(recs, k)) /\ rd[k] \in Int /\ ld[k] \in Nat
    BY DEF RegistryAt, Counted
  <2>3. CASE k \in D
    <3>1. Holders(recs2, k) = Holders(recs, k) \ {id} /\ id \in Holders(recs, k)
      BY <1>1, <2>3 DEF Holders
    <3>2. Cardinality(Holders(recs2, k)) = Cardinality(Holders(recs, k)) - 1
      BY <2>1, <3>1, FS_RemoveElement, Zenon
    <3> QED
      BY <2>1, <2>2, <2>3, <3>2 DEF Dropped
  <2>4. CASE k \notin D
    <3>1. Holders(recs2, k) = Holders(recs, k)
      BY <1>1, <2>4 DEF Holders
    <3> QED
      BY <2>2, <2>4, <3>1 DEF Dropped
  <2> QED
    BY <2>3, <2>4
<1>4. rd2 \in [Key -> Int]
  BY <1>3 DEF Dropped
<1> QED
  BY <1>1, <1>2, <1>3, <1>4 DEF RegistryAt, Counted

\* Replacing a record by one that retains the keys in A as well.
LEMMA PutAcquired ==
    ASSUME NEW rd, NEW ld, NEW recs, NEW t \in Nat, RegistryAt(rd, ld, recs, t),
           NEW id \in DOMAIN recs, NEW s, RecordOK(s, t),
           NEW A \in SUBSET (Key \ recs[id].retained), s.retained = recs[id].retained \cup A
    PROVE  RegistryAt(Acquired(rd, A), ld, Put(recs, id, s), t)
<1> DEFINE recs2 == Put(recs, id, s)
           rd2 == Acquired(rd, A)
<1>1. /\ DOMAIN recs2 = DOMAIN recs /\ DOMAIN recs \subseteq LifecycleId
      /\ \A i \in DOMAIN recs : recs2[i] = IF i = id THEN s ELSE recs[i]
  BY SMTT(20) DEF Put, RegistryAt
<1>2. \A i \in DOMAIN recs2 : RecordOK(recs2[i], t)
  BY <1>1 DEF RegistryAt
<1>3. ASSUME NEW k \in Key
      PROVE  rd2[k] \in Int /\ rd2[k] = ld[k] + Cardinality(Holders(recs2, k))
  <2>1. IsFiniteSet(Holders(recs, k)) /\ Cardinality(Holders(recs, k)) \in Nat
    BY <1>1, HoldersFinite
  <2>2. rd[k] = ld[k] + Cardinality(Holders(recs, k)) /\ rd[k] \in Int /\ ld[k] \in Nat
    BY DEF RegistryAt, Counted
  <2>3. CASE k \in A
    <3>1. Holders(recs2, k) = Holders(recs, k) \cup {id} /\ id \notin Holders(recs, k)
      BY <1>1, <2>3 DEF Holders
    <3>2. Cardinality(Holders(recs2, k)) = Cardinality(Holders(recs, k)) + 1
      BY <2>1, <3>1, FS_AddElement, Zenon
    <3> QED
      BY <2>1, <2>2, <2>3, <3>2 DEF Acquired
  <2>4. CASE k \notin A
    <3>1. Holders(recs2, k) = Holders(recs, k)
      BY <1>1, <2>4 DEF Holders
    <3> QED
      BY <2>2, <2>4, <3>1 DEF Acquired
  <2> QED
    BY <2>3, <2>4
<1>4. rd2 \in [Key -> Int]
  BY <1>3 DEF Acquired
<1> QED
  BY <1>1, <1>2, <1>3, <1>4 DEF RegistryAt, Counted

\* Adding a record that retains nothing.
LEMMA PutNew ==
    ASSUME NEW rd, NEW ld, NEW recs, NEW t \in Nat, RegistryAt(rd, ld, recs, t),
           NEW id \in LifecycleId, id \notin DOMAIN recs, NEW s, RecordOK(s, t), s.retained = {}
    PROVE  RegistryAt(rd, ld, Put(recs, id, s), t)
<1> DEFINE recs2 == Put(recs, id, s)
<1>1. /\ DOMAIN recs2 = DOMAIN recs \cup {id} /\ DOMAIN recs \subseteq LifecycleId
      /\ \A i \in DOMAIN recs2 : recs2[i] = IF i = id THEN s ELSE recs[i]
  BY DEF Put, RegistryAt
<1>2. \A i \in DOMAIN recs2 : RecordOK(recs2[i], t)
  BY <1>1 DEF RegistryAt
<1>3. \A k \in Key : Holders(recs2, k) = Holders(recs, k)
  BY <1>1 DEF Holders
<1> QED
  BY <1>1, <1>2, <1>3 DEF RegistryAt, Counted
-----------------------------------------------------------------------------
(* The invariant, in the parts that the steps establish *)

Associated(gens, reqs) ==
    /\ DOMAIN gens \subseteq LifecycleId /\ DOMAIN reqs \subseteq RequestId
    /\ \A req \in DOMAIN reqs :
          reqs[req] \in DOMAIN gens /\ gens[reqs[req]] = req
    /\ \A id \in DOMAIN gens :
          gens[id] \in DOMAIN reqs /\ reqs[gens[id]] = id

\* A record that waits for its generation has one.
Awaited(recs, gens) ==
    \A id \in DOMAIN recs :
        ~Terminal(recs[id]) /\ recs[id].completed_at = None => id \in DOMAIN gens

\* RegistryInv gives its parts.
LEMMA InvParts ==
    ASSUME RegistryInv
    PROVE  /\ RegistryAt(readers, loads, records, swept)
           /\ Associated(generations, requests)
           /\ Awaited(records, generations)
           /\ status \in [Key -> Status] /\ readers \in [Key -> Nat] /\ loads \in [Key -> Nat]
           /\ clock \in Nat /\ swept \in Nat /\ swept <= clock
<1>1. RegistryAt(readers, loads, records, swept)
  BY DEF RegistryInv, RegistryTypeOK, StoreTypeOK, RegistryAt
<1>2. Associated(generations, requests) /\ Awaited(records, generations)
  BY DEF RegistryInv, RegistryTypeOK, GenerationsAreLive, Associated, Awaited
<1> QED
  BY <1>1, <1>2 DEF RegistryInv, RegistryTypeOK, StoreTypeOK

\* The parts give RegistryInv in the next state.
LEMMA InvFromParts ==
    ASSUME RegistryAt(readers', loads', records', swept'),
           Associated(generations', requests'), Awaited(records', generations'),
           status' \in [Key -> Status], StoreSafe',
           clock' \in Nat, swept' \in Nat, swept' <= clock'
    PROVE  RegistryInv'
<1>1. readers' \in [Key -> Nat]
  <2>1. ASSUME NEW k \in Key PROVE readers'[k] \in Nat
    <3>1. Cardinality(Holders(records', k)) \in Nat
      BY HoldersFinite DEF RegistryAt
    <3> QED
      BY <3>1 DEF RegistryAt, Counted
  <2> QED
    BY <2>1 DEF RegistryAt
<1>2. RegistryTypeOK'
  BY <1>1 DEF RegistryTypeOK, StoreTypeOK, RegistryAt, RecordOK, Associated
<1>3. GenerationsAreLive'
  BY DEF GenerationsAreLive, Associated, Awaited
<1> QED
  BY <1>2, <1>3 DEF RegistryInv, RegistryAt

\* A step that leaves the store's keys alone and adds readers to ready keys
\* only keeps the store safe.
LEMMA SameKeysSafe ==
    ASSUME RegistryInv, status' = status, readers' \in [Key -> Int],
           \A k \in Key : readers'[k] <= readers[k] \/ status[k] = "ready"
    PROVE  StoreSafe' /\ status' \in [Key -> Status]
<1>1. status \in [Key -> Status] /\ readers \in [Key -> Nat]
  BY InvParts
<1>2. Resident(status') = Resident(status)
  OBVIOUS
<1> QED
  BY <1>1, <1>2 DEF RegistryInv, StoreSafe

\* The first reading of the clock in a handler.
LEMMA FirstReading ==
    ASSUME RegistryInv, NEW t \in Reading(clock)
    PROVE  t \in Nat /\ clock <= t /\ clock \in Nat /\ swept \in Nat /\ swept <= t
<1>1. clock \in Nat /\ swept \in Nat /\ swept <= clock
  BY InvParts
<1> QED
  BY <1>1, RegistryAssumption DEF Reading

\* A later reading of the clock in the same handler.
LEMMA LaterReading ==
    ASSUME NEW t \in Nat, NEW now \in Reading(t)
    PROVE  now \in Nat /\ t <= now
BY RegistryAssumption DEF Reading

\* What expire() leaves for the rest of a handler.
LEMMA AfterExpire ==
    ASSUME RegistryInv, NEW t \in Reading(clock)
    PROVE  /\ t \in Nat /\ clock <= t
           /\ RegistryAt(ReadersAt(t), loads, RecordsAt(t), t)
           /\ \A k \in Key : ReadersAt(t)[k] <= readers[k]
           /\ Awaited(RecordsAt(t), generations)
           /\ DOMAIN RecordsAt(t) \subseteq DOMAIN records
           /\ \A id \in DOMAIN RecordsAt(t) : RecordsAt(t)[id] \in Lifecycle
<1>1. t \in Nat /\ clock <= t /\ clock \in Nat /\ swept \in Nat
  BY FirstReading
<1>2. RegistryAt(ReadersAt(t), loads, RecordsAt(t), t)
  BY <1>1, InvParts, ExpireKeepsCount DEF ReadersAt, RecordsAt
<1>3. \A id \in DOMAIN RecordsAt(t) :
        /\ id \in DOMAIN records
        /\ RecordsAt(t)[id] = Aged(records[id], t)
        /\ records[id] \in Lifecycle
  BY InvParts DEF RecordsAt, Expired, RegistryAt, RecordOK
<1>4. ASSUME NEW k \in Key PROVE ReadersAt(t)[k] <= readers[k]
  <2> DEFINE X == {id \in Expiring(records, t) : k \in records[id].retained}
  <2>1. X \in SUBSET LifecycleId
    BY InvParts DEF Expiring, RegistryAt
  <2>2. Cardinality(X) \in Nat
    BY <2>1, RegistryAssumption, FS_Subset, FS_CardinalityType
  <2>3. ReadersAt(t)[k] = readers[k] - Cardinality(X) /\ readers[k] \in Nat
    BY InvParts DEF ReadersAt, Returned
  <2> QED
    BY <2>2, <2>3
<1>5. Awaited(RecordsAt(t), generations)
  BY <1>1, <1>3, AgedHistory, InvParts DEF Awaited
<1>6. \A id \in DOMAIN RecordsAt(t) : RecordsAt(t)[id] \in Lifecycle
  BY <1>2 DEF RegistryAt, RecordOK
<1> QED
  BY <1>1, <1>2, <1>3, <1>4, <1>5, <1>6

\* The handlers that only expire.
LEMMA OnlyExpires ==
    ASSUME RegistryInv, NEW t \in Reading(clock),
           records' = RecordsAt(t), readers' = ReadersAt(t),
           swept' = t, clock' = t, UNCHANGED <<generations, requests, status, loads>>
    PROVE  RegistryInv'
<1>1. readers' \in [Key -> Int]
  BY AfterExpire DEF RegistryAt
<1>2. StoreSafe' /\ status' \in [Key -> Status]
  BY <1>1, AfterExpire, SameKeysSafe
<1> QED
  BY <1>2, AfterExpire, InvParts, InvFromParts

\* The handlers that expire and then replace the record of id by s, giving
\* back the keys in D.
LEMMA ExpiresAndDrops ==
    ASSUME RegistryInv, NEW t \in Reading(clock), NEW id \in DOMAIN RecordsAt(t),
           NEW s, NEW D \in SUBSET RecordsAt(t)[id].retained,
           RecordOK(s, t), s.retained = RecordsAt(t)[id].retained \ D,
           ~Terminal(s) /\ s.completed_at = None => RecordsAt(t)[id].completed_at = None
                                                 /\ ~Terminal(RecordsAt(t)[id]),
           records' = Put(RecordsAt(t), id, s), readers' = Dropped(ReadersAt(t), D),
           swept' = t, clock' \in Nat, t <= clock',
           UNCHANGED <<generations, requests, status, loads>>
    PROVE  RegistryInv'
<1>1. t \in Nat /\ RegistryAt(ReadersAt(t), loads, RecordsAt(t), t)
  BY AfterExpire
<1>2. RegistryAt(readers', loads', records', swept')
  BY <1>1, PutDropped
<1>3. Awaited(records', generations')
  BY AfterExpire DEF Awaited, Put
<1>4. ASSUME NEW k \in Key PROVE readers'[k] <= readers[k]
  <2>1. ReadersAt(t)[k] \in Int /\ ReadersAt(t)[k] <= readers[k] /\ readers[k] \in Nat
    BY <1>1, AfterExpire, InvParts DEF RegistryAt
  <2>2. readers'[k] = ReadersAt(t)[k] \/ readers'[k] = ReadersAt(t)[k] - 1
    BY DEF Dropped
  <2> QED
    BY <2>1, <2>2
<1>5. StoreSafe' /\ status' \in [Key -> Status]
  <2>1. readers' \in [Key -> Int]
    BY <1>2 DEF RegistryAt
  <2> QED
    BY <1>4, <2>1, SameKeysSafe
<1> QED
  BY <1>1, <1>2, <1>3, <1>5, InvParts, InvFromParts
-----------------------------------------------------------------------------
(* What each handler makes of a record *)

\* A record that associate() creates is in order.
LEMMA NewLifecycleOK ==
    ASSUME NEW t \in Nat
    PROVE  RecordOK(NewLifecycle, t) /\ NewLifecycle.retained = {}
<1>1. NewLifecycle \in Lifecycle
  BY DEF NewLifecycle, Lifecycle, Time, None
<1>2. /\ NewLifecycle.start = NoEvent /\ NewLifecycle.started_at = None
      /\ NewLifecycle.retained = {} /\ NewLifecycle.pending_retention = {}
      /\ NewLifecycle.terminal_at = None
  BY DEF NewLifecycle
<1> QED
  BY <1>1, <1>2 DEF RecordOK, Terminal, owns_preservation

\* generation_finished() leaves its record in order, terminal or completed.
LEMMA GenerationFinishedOK ==
    ASSUME NEW t \in Nat, NEW now \in Nat, NEW r, RecordOK(r, t), ~Terminal(r),
           NEW cause \in GenerationCause, NEW snapshot \in SUBSET Key
    PROVE  LET s == GenerationFinished(r, cause, snapshot, now)
               D == DroppedByFinish(r, cause)
           IN  /\ RecordOK(s, t)
               /\ D \in SUBSET r.retained /\ s.retained = r.retained \ D
               /\ Terminal(s) \/ s.completed_at # None
<1>1. r \in Lifecycle /\ cause \in TerminalCause
  BY DEF RecordOK, GenerationCause, TerminalCause
<1>2. CASE cause # "completed" \/ ~enabled
  <2>1. GenerationFinished(r, cause, snapshot, now) = Terminalized(r, cause, now)
    BY <1>2 DEF GenerationFinished
  <2>2. DroppedByFinish(r, cause) = r.retained
    BY <1>2 DEF DroppedByFinish
  <2> QED
    BY <1>1, <2>1, <2>2, TerminalizedFacts, TerminalizedOK, SMTT(30)
<1>3. CASE ~(cause # "completed" \/ ~enabled)
  <2> DEFINE s == [r EXCEPT !.completed_at = now, !.snapshot = snapshot,
                            !.pending_evaluation = r.start # NoEvent]
  <2>1. GenerationFinished(r, cause, snapshot, now) = s /\ DroppedByFinish(r, cause) = {}
    BY <1>3 DEF GenerationFinished, DroppedByFinish
  <2>2. s \in Lifecycle
    BY <1>1, Zenon DEF Lifecycle, Time
  <2>3. /\ s.completed_at = now /\ s.start = r.start /\ s.started_at = r.started_at
        /\ s.retained = r.retained /\ s.pending_retention = r.pending_retention
        /\ s.terminal_at = r.terminal_at /\ s.ownership_released = r.ownership_released
        /\ s.release_deadline = r.release_deadline /\ s.safety_deadline = r.safety_deadline
    BY <1>1 DEF Lifecycle
  <2>4. now # None
    BY DEF None
  <2> HIDE DEF s
  <2>5. RecordOK(s, t)
    BY <2>2, <2>3 DEF RecordOK, owns_preservation, Terminal
  <2> QED
    BY <2>1, <2>3, <2>4, <2>5
<1> QED
  BY <1>2, <1>3

\* The record s is what an estimate makes of r, D being the keys given back.
Estimated(r, s, D, t) ==
    /\ RecordOK(s, t)
    /\ D \in SUBSET r.retained /\ s.retained = r.retained \ D
    /\ s.completed_at = r.completed_at /\ ~Terminal(s) /\ s.start = r.start

\* set_h2d_estimate of a started, owning or not yet owning, record.
LEMMA WithEstimateOK ==
    ASSUME NEW t \in Nat, NEW now \in Nat, t <= now, NEW seconds \in Nat,
           NEW r \in Lifecycle, r.start # NoEvent, r.started_at \in Nat, ~Terminal(r),
           r.ownership_released => r.retained = {} /\ r.pending_retention = {},
           t < r.safety_deadline
    PROVE  Estimated(r, WithEstimate(r, seconds, now), DroppedByEstimate(r, seconds, now), t)
<1> USE DEF Estimated
<1> DEFINE d == ReleaseDeadline(r, seconds)
           q == [r EXCEPT !.release_deadline = d]
<1>1. d \in Int
  BY RegistryAssumption DEF ReleaseDeadline, Greatest, Lifecycle
<1> HIDE DEF d
<1>2. /\ q \in Lifecycle /\ q.release_deadline = d
      /\ q.start = r.start /\ q.started_at = r.started_at
      /\ q.completed_at = r.completed_at /\ q.terminal_at = r.terminal_at
      /\ q.retained = r.retained /\ q.pending_retention = r.pending_retention
      /\ q.ownership_released = r.ownership_released
      /\ q.safety_deadline = r.safety_deadline
  BY <1>1 DEF Lifecycle
<1>3. /\ WithEstimate(r, seconds, now) = IF now >= d THEN Released(q) ELSE q
      /\ DroppedByEstimate(r, seconds, now) = IF now >= d THEN r.retained ELSE {}
  BY <1>2 DEF WithEstimate, DroppedByEstimate, d
<1> HIDE DEF q
<1>4. r.started_at # None
  BY SMTT(20) DEF None
<1>5. CASE now >= d
  BY <1>2, <1>3, <1>4, <1>5, ReleasedFacts, ZenonT(40) DEF RecordOK, owns_preservation, Terminal
<1>6. CASE ~(now >= d)
  <2>1. t < d
    BY <1>1, <1>6
  <2>2. RecordOK(q, t)
    BY <1>2, <1>4, <2>1 DEF RecordOK, owns_preservation, Terminal
  <2> QED
    BY <1>2, <1>3, <1>6, <2>2 DEF Terminal
<1> QED
  BY <1>5, <1>6

\* An accepted stall_started.
LEMMA StartedOK ==
    ASSUME NEW t \in Nat, NEW now \in Nat, t <= now, NEW later \in Nat, now <= later,
           NEW r, RecordOK(r, t), ~Terminal(r), r.start = NoEvent,
           NEW event \in StartEvent, NEW predicted \in Nat
    PROVE  LET s == Started(r, event, predicted, now)
               u == [WithEstimate(s, 0, later) EXCEPT
                        !.pending_evaluation = r.completed_at # None]
               D == DroppedByEstimate(s, 0, later)
           IN  /\ RecordOK(u, t)
               /\ D \in SUBSET r.retained /\ u.retained = r.retained \ D
               /\ u.completed_at = r.completed_at /\ u.start = event
<1> DEFINE s == Started(r, event, predicted, now)
           w == WithEstimate(s, 0, later)
           u == [w EXCEPT !.pending_evaluation = r.completed_at # None]
<1>1. r \in Lifecycle /\ r.retained = {} /\ r.pending_retention = {}
  BY DEF RecordOK, owns_preservation
<1>2. now + Least(MaxSafety, Greatest(MinSafety, 4 * predicted)) \in Int
      /\ t < now + Least(MaxSafety, Greatest(MinSafety, 4 * predicted))
  BY RegistryAssumption DEF Least, Greatest
<1>3. /\ s \in Lifecycle /\ s.start = event /\ s.started_at = now
      /\ s.safety_deadline = now + Least(MaxSafety, Greatest(MinSafety, 4 * predicted))
      /\ s.retained = r.retained /\ s.pending_retention = r.pending_retention
      /\ s.completed_at = r.completed_at /\ s.terminal_at = r.terminal_at
  BY <1>1, <1>2, Zenon DEF Started, Lifecycle, Time
<1>4. event # NoEvent
  BY RegistryAssumption
<1> HIDE DEF s
<1>5. /\ RecordOK(w, t)
      /\ DroppedByEstimate(s, 0, later) \in SUBSET s.retained
      /\ w.retained = s.retained \ DroppedByEstimate(s, 0, later)
      /\ w.completed_at = s.completed_at /\ ~Terminal(w) /\ w.start = s.start
  <2>1. /\ s.started_at \in Nat /\ s.start # NoEvent /\ ~Terminal(s) /\ 0 \in Nat
        /\ s.ownership_released => s.retained = {} /\ s.pending_retention = {}
        /\ t < s.safety_deadline /\ t <= later
    BY <1>1, <1>2, <1>3, <1>4 DEF Terminal
  <2> QED
    BY <1>3, <2>1, WithEstimateOK, SMTT(30) DEF Estimated
<1> HIDE DEF w
<1>6. /\ u \in Lifecycle /\ u.start = w.start /\ u.started_at = w.started_at
      /\ u.retained = w.retained /\ u.pending_retention = w.pending_retention
      /\ u.completed_at = w.completed_at /\ u.terminal_at = w.terminal_at
      /\ u.ownership_released = w.ownership_released
      /\ u.release_deadline = w.release_deadline /\ u.safety_deadline = w.safety_deadline
  BY <1>5, Zenon DEF RecordOK, Lifecycle
<1> HIDE DEF u
<1>7. RecordOK(u, t)
  BY <1>5, <1>6 DEF RecordOK, owns_preservation, Terminal
<1> QED
  BY <1>3, <1>5, <1>6, <1>7 DEF s, w, u

\* An accepted stall_finished.
LEMMA FinishedOK ==
    ASSUME NEW t \in Nat, NEW now \in Nat, NEW r, RecordOK(r, t), ~Terminal(r)
    PROVE  LET u == [Terminalized(r, "finished", now) EXCEPT !.finish_accepted = TRUE]
           IN  RecordOK(u, t) /\ u.retained = {} /\ Terminal(u)
<1> DEFINE w == Terminalized(r, "finished", now)
           u == [w EXCEPT !.finish_accepted = TRUE]
<1>1. r \in Lifecycle /\ "finished" \in TerminalCause
  BY DEF RecordOK, TerminalCause
<1>2. RecordOK(w, t) /\ w.retained = {} /\ Terminal(w)
  BY <1>1, TerminalizedFacts, TerminalizedOK
<1> HIDE DEF w
<1>3. /\ u \in Lifecycle /\ u.start = w.start /\ u.started_at = w.started_at
      /\ u.retained = w.retained /\ u.pending_retention = w.pending_retention
      /\ u.terminal_at = w.terminal_at /\ u.snapshot = w.snapshot
      /\ u.pending_evaluation = w.pending_evaluation
  BY <1>2, Zenon DEF RecordOK, Lifecycle
<1> HIDE DEF u
<1> QED
  BY <1>2, <1>3 DEF RecordOK, owns_preservation, Terminal, u, w

\* retain_ready leaves a terminal record alone.
LEMMA RetainTerminal ==
    ASSUME NEW r \in Lifecycle, Terminal(r), NEW K, NEW st
    PROVE  [r EXCEPT !.retained = @ \cup Retainable(r, K, st)] = r
<1> DEFINE A == Retainable(r, K, st)
<1>1. A = {}
  BY DEF Retainable, owns_preservation
<1> HIDE DEF A
<1>2. r.retained \cup A = r.retained
  BY <1>1
<1>3. [r EXCEPT !.retained = @ \cup A] = r
  BY <1>2 DEF Lifecycle
<1> QED
  BY <1>3 DEF A

\* retain_ready keeps a record in order: it adds keys for an owner only.
LEMMA RetainOK ==
    ASSUME NEW t \in Nat, NEW r, RecordOK(r, t), NEW K \in SUBSET Key, NEW st
    PROVE  LET A == Retainable(r, K, st)
               u == [r EXCEPT !.retained = @ \cup A]
           IN  /\ RecordOK(u, t) /\ A \in SUBSET (Key \ r.retained)
               /\ u.retained = r.retained \cup A
               /\ u.completed_at = r.completed_at /\ u.terminal_at = r.terminal_at
<1> DEFINE A == Retainable(r, K, st)
           u == [r EXCEPT !.retained = @ \cup A]
<1>1. r \in Lifecycle
  BY DEF RecordOK
<1>2. A \in SUBSET (Key \ r.retained) /\ (~owns_preservation(r) => A = {})
  BY DEF Retainable
<1> HIDE DEF A
<1>3. /\ u \in Lifecycle /\ u.start = r.start /\ u.started_at = r.started_at
      /\ u.retained = r.retained \cup A /\ u.pending_retention = r.pending_retention
      /\ u.completed_at = r.completed_at /\ u.terminal_at = r.terminal_at
      /\ u.snapshot = r.snapshot /\ u.pending_evaluation = r.pending_evaluation
      /\ u.ownership_released = r.ownership_released
      /\ u.release_deadline = r.release_deadline /\ u.safety_deadline = r.safety_deadline
  BY <1>1, <1>2 DEF Lifecycle
<1> HIDE DEF u
<1>4. RecordOK(u, t)
  BY <1>2, <1>3 DEF RecordOK, owns_preservation, Terminal
<1> QED
  BY <1>2, <1>3, <1>4 DEF A, u
-----------------------------------------------------------------------------
(* Every step preserves the invariant: one lemma per handler *)

\* associate() adds a record that holds nothing, or changes nothing.
LEMMA associate_inv ==
    ASSUME RegistryInv, NEW req \in RequestId, NEW id \in LifecycleId, associate(req, id)
    PROVE  RegistryInv'
<1>1. PICK t \in Reading(clock) :
        /\ req \notin DOMAIN requests
        /\ IF Claimed(RecordsAt(t), id)
           THEN /\ records' = RecordsAt(t)
                /\ UNCHANGED <<generations, requests>>
           ELSE /\ records' = Put(RecordsAt(t), id, NewLifecycle)
                /\ generations' = Put(generations, id, req)
                /\ requests' = Put(requests, req, id)
        /\ readers' = ReadersAt(t)
        /\ clock' = t /\ swept' = t
        /\ UNCHANGED <<status, loads>>
  BY DEF associate
<1>2. CASE Claimed(RecordsAt(t), id)
  BY <1>1, <1>2, OnlyExpires, SMTT(20)
<1>3. CASE ~Claimed(RecordsAt(t), id)
  <2>1. id \notin DOMAIN RecordsAt(t) /\ id \notin DOMAIN generations
    BY <1>3, SMTT(20) DEF Claimed
  <2>2. t \in Nat /\ RegistryAt(readers', loads', records', swept')
    BY <1>1, <1>3, <2>1, AfterExpire, NewLifecycleOK, PutNew, ZenonT(40)
  <2>3. Associated(generations', requests')
    BY <1>1, <1>3, <2>1, InvParts DEF Associated, Put
  <2>4. Awaited(records', generations')
    BY <1>1, <1>3, AfterExpire, SMTT(20) DEF Awaited, Put
  <2>5. StoreSafe' /\ status' \in [Key -> Status]
    <3>1. readers' \in [Key -> Int]
      BY <2>2 DEF RegistryAt
    <3> QED
      BY <1>1, <3>1, AfterExpire, SameKeysSafe
  <2> QED
    BY <1>1, <2>2, <2>3, <2>4, <2>5, InvFromParts, SMTT(20)
<1> QED
  BY <1>2, <1>3

\* generation_finished() returns what a terminalized record retained.
LEMMA generation_finished_inv ==
    ASSUME RegistryInv, NEW req \in RequestId, NEW cause \in GenerationCause,
           NEW snapshot \in SUBSET Key, generation_finished(req, cause, snapshot)
    PROVE  RegistryInv'
<1> DEFINE id == requests[req]
<1> DEFINE Body(t, now) ==
        /\ IF id \in DOMAIN RecordsAt(t) /\ ~Terminal(RecordsAt(t)[id])
           THEN LET r == RecordsAt(t)[id] IN
                /\ records' = Put(RecordsAt(t), id, GenerationFinished(r, cause, snapshot, now))
                /\ readers' = Dropped(ReadersAt(t), DroppedByFinish(r, cause))
           ELSE records' = RecordsAt(t) /\ readers' = ReadersAt(t)
        /\ generations' = Remove(generations, id)
        /\ requests' = Remove(requests, req)
        /\ clock' = now /\ swept' = t
        /\ UNCHANGED <<status, loads>>
<1>0. PICK t \in Reading(clock) : \E now \in Reading(t) : Body(t, now)
  BY Zenon DEF generation_finished
<1>1. PICK now \in Reading(t) : Body(t, now)
  BY <1>0, Zenon
<1>2. req \in DOMAIN requests
  BY DEF generation_finished
<1>3. t \in Nat /\ now \in Nat /\ t <= now
  BY FirstReading, LaterReading, SMTT(20)
<1>4. Associated(generations', requests')
  <2>1. generations' = Remove(generations, id) /\ requests' = Remove(requests, req)
    BY <1>1
  <2>2. Associated(generations, requests)
    BY InvParts, SMTT(20)
  <2> QED
    BY <1>2, <2>1, <2>2, ZenonT(40) DEF Associated, Remove
<1>5. /\ RegistryAt(readers', loads', records', swept')
      /\ Awaited(records', generations')
      /\ \A k \in Key : readers'[k] <= readers[k]
  <2>1. CASE id \in DOMAIN RecordsAt(t) /\ ~Terminal(RecordsAt(t)[id])
    <3> DEFINE r == RecordsAt(t)[id]
               u == GenerationFinished(r, cause, snapshot, now)
               D == DroppedByFinish(r, cause)
    <3>1. RegistryAt(ReadersAt(t), loads, RecordsAt(t), t) /\ RecordOK(r, t)
      BY <2>1, AfterExpire, ZenonT(40) DEF RegistryAt
    <3>2. /\ RecordOK(u, t) /\ D \in SUBSET r.retained /\ u.retained = r.retained \ D
          /\ Terminal(u) \/ u.completed_at # None
      <4>1. ~Terminal(r)
        BY <2>1, Zenon
      <4> HIDE DEF r
      <4> QED
        BY <1>3, <3>1, <4>1, GenerationFinishedOK, SMTT(30)
    <3>3. records' = Put(RecordsAt(t), id, u) /\ readers' = Dropped(ReadersAt(t), D)
      BY <1>1, <2>1, Zenon
    <3> HIDE DEF u, D
    <3>4. RegistryAt(readers', loads', records', swept')
      BY <1>1, <1>3, <2>1, <3>1, <3>2, <3>3, PutDropped, Zenon
    <3>5. Awaited(records', generations')
      BY <1>1, <3>2, <3>3, AfterExpire, SMTT(20) DEF Awaited, Put, Remove
    <3>6. ASSUME NEW k \in Key PROVE readers'[k] <= readers[k]
      <4>1. ReadersAt(t)[k] \in Int /\ ReadersAt(t)[k] <= readers[k] /\ readers[k] \in Nat
        BY <3>1, AfterExpire, InvParts, Zenon DEF RegistryAt
      <4>2. readers'[k] = ReadersAt(t)[k] \/ readers'[k] = ReadersAt(t)[k] - 1
        BY <3>3 DEF Dropped
      <4> QED
        BY <4>1, <4>2
    <3> QED
      BY <3>4, <3>5, <3>6, SMTT(20)
  <2>2. CASE ~(id \in DOMAIN RecordsAt(t) /\ ~Terminal(RecordsAt(t)[id]))
    <3>1. records' = RecordsAt(t) /\ readers' = ReadersAt(t)
      BY <1>1, <2>2, Zenon
    <3>2. Awaited(records', generations')
      BY <1>1, <2>2, <3>1, AfterExpire, Zenon DEF Awaited, Remove
    <3> QED
      BY <1>1, <3>1, <3>2, AfterExpire, Zenon
  <2> QED
    BY <2>1, <2>2, ZenonT(40)
<1>6. StoreSafe' /\ status' \in [Key -> Status]
  <2>1. readers' \in [Key -> Int]
    BY <1>5 DEF RegistryAt
  <2> QED
    BY <1>1, <1>5, <2>1, SameKeysSafe, Zenon
<1> QED
  BY <1>1, <1>3, <1>4, <1>5, <1>6, InvFromParts, Zenon

\* A stall_started event may release its own record at once, and no other.
LEMMA apply_start_inv ==
    ASSUME RegistryInv, NEW id \in LifecycleId, NEW event \in StartEvent,
           apply_start(id, event)
    PROVE  RegistryInv'
<1> USE DEF StartDisposition
<1>1. PICK t \in Reading(clock) :
        /\ swept' = t
        /\ \/ records' = RecordsAt(t) /\ readers' = ReadersAt(t) /\ clock' = t
           \/ /\ id \in DOMAIN RecordsAt(t)
              /\ RecordsAt(t)[id].start # event /\ RecordsAt(t)[id].start = NoEvent
              /\ ~Terminal(RecordsAt(t)[id])
              /\ \E now \in Reading(t), predicted \in Duration : \E later \in Reading(now) :
                    LET r == RecordsAt(t)[id]
                        s == Started(r, event, predicted, now) IN
                    /\ records' = Put(RecordsAt(t), id,
                          [WithEstimate(s, 0, later) EXCEPT
                              !.pending_evaluation = r.completed_at # None])
                    /\ readers' = Dropped(ReadersAt(t), DroppedByEstimate(s, 0, later))
                    /\ clock' = later
  BY DEF apply_start, Unknown
<1>2. UNCHANGED <<generations, requests, status, loads>>
  BY DEF apply_start
<1>3. CASE records' = RecordsAt(t) /\ readers' = ReadersAt(t) /\ clock' = t
  BY <1>1, <1>2, <1>3, OnlyExpires
<1>4. ASSUME id \in DOMAIN RecordsAt(t), RecordsAt(t)[id].start = NoEvent,
             ~Terminal(RecordsAt(t)[id]),
             NEW now \in Reading(t), NEW predicted \in Duration, NEW later \in Reading(now),
             records' = Put(RecordsAt(t), id,
                 [WithEstimate(Started(RecordsAt(t)[id], event, predicted, now), 0, later)
                     EXCEPT !.pending_evaluation = RecordsAt(t)[id].completed_at # None]),
             readers' = Dropped(ReadersAt(t), DroppedByEstimate(
                           Started(RecordsAt(t)[id], event, predicted, now), 0, later)),
             clock' = later
      PROVE  RegistryInv'
  <2> DEFINE r == RecordsAt(t)[id]
             s == Started(r, event, predicted, now)
             u == [WithEstimate(s, 0, later) EXCEPT !.pending_evaluation = r.completed_at # None]
             D == DroppedByEstimate(s, 0, later)
  <2>1. /\ t \in Nat /\ now \in Nat /\ later \in Nat /\ t <= now /\ now <= later
        /\ predicted \in Nat
    BY <1>4, FirstReading, LaterReading, RegistryAssumption
  <2>2. RecordOK(r, t)
    BY <1>4, AfterExpire DEF RegistryAt
  <2>3. /\ RecordOK(u, t) /\ D \in SUBSET r.retained /\ u.retained = r.retained \ D
        /\ u.completed_at = r.completed_at
    BY <1>4, <2>1, <2>2, StartedOK
  <2>4. records' = Put(RecordsAt(t), id, u) /\ readers' = Dropped(ReadersAt(t), D)
    BY <1>4
  <2> HIDE DEF u, D
  <2>5. clock' \in Nat /\ t <= clock'
    BY <1>4, <2>1
  <2> QED
    BY <1>1, <1>2, <1>4, <2>3, <2>4, <2>5, ExpiresAndDrops, Zenon
<1> QED
  BY <1>1, <1>3, <1>4, Zenon

\* A stall_finished event returns everything its record retained.
LEMMA apply_finish_inv ==
    ASSUME RegistryInv, NEW id \in LifecycleId, apply_finish(id)
    PROVE  RegistryInv'
<1>1. PICK t \in Reading(clock) :
        /\ swept' = t
        /\ \/ records' = RecordsAt(t) /\ readers' = ReadersAt(t) /\ clock' = t
           \/ /\ id \in DOMAIN RecordsAt(t) /\ ~Terminal(RecordsAt(t)[id])
              /\ \E now \in Reading(t) :
                    /\ records' = Put(RecordsAt(t), id,
                          [Terminalized(RecordsAt(t)[id], "finished", now) EXCEPT
                              !.finish_accepted = TRUE])
                    /\ readers' = Dropped(ReadersAt(t), RecordsAt(t)[id].retained)
                    /\ clock' = now
  BY DEF apply_finish, Unknown, FinishDisposition
<1>2. UNCHANGED <<generations, requests, status, loads>>
  BY DEF apply_finish
<1>3. CASE records' = RecordsAt(t) /\ readers' = ReadersAt(t) /\ clock' = t
  BY <1>1, <1>2, <1>3, OnlyExpires
<1>4. ASSUME id \in DOMAIN RecordsAt(t), ~Terminal(RecordsAt(t)[id]), NEW now \in Reading(t),
             records' = Put(RecordsAt(t), id,
                 [Terminalized(RecordsAt(t)[id], "finished", now) EXCEPT
                     !.finish_accepted = TRUE]),
             readers' = Dropped(ReadersAt(t), RecordsAt(t)[id].retained), clock' = now
      PROVE  RegistryInv'
  <2> DEFINE r == RecordsAt(t)[id]
             u == [Terminalized(r, "finished", now) EXCEPT !.finish_accepted = TRUE]
  <2>1. t \in Nat /\ now \in Nat /\ t <= now
    BY <1>4, FirstReading, LaterReading
  <2>2. RecordOK(r, t)
    BY <1>4, AfterExpire DEF RegistryAt
  <2>3. RecordOK(u, t) /\ u.retained = {} /\ Terminal(u)
    BY <1>4, <2>1, <2>2, FinishedOK
  <2>4. records' = Put(RecordsAt(t), id, u) /\ readers' = Dropped(ReadersAt(t), r.retained)
    BY <1>4
  <2> HIDE DEF u
  <2>5. r.retained \in SUBSET r.retained /\ u.retained = r.retained \ r.retained
    BY <2>3
  <2>6. clock' \in Nat /\ t <= clock'
    BY <1>4, <2>1
  <2> QED
    BY <1>1, <1>2, <1>4, <2>3, <2>4, <2>5, <2>6, ExpiresAndDrops, Zenon
<1> QED
  BY <1>1, <1>3, <1>4, Zenon

\* retain_ready() takes one reference per key it adds to the record.
LEMMA retain_ready_inv ==
    ASSUME RegistryInv, NEW id \in LifecycleId, NEW K \in SUBSET Key, retain_ready(id, K)
    PROVE  RegistryInv'
<1> DEFINE r(t) == RecordsAt(t)[id]
           A(t) == Retainable(r(t), K, status)
           u(t) == [r(t) EXCEPT !.retained = @ \cup A(t)]
<1>1. PICK t \in Reading(clock) :
        /\ id \in DOMAIN RecordsAt(t)
        /\ records' = Put(RecordsAt(t), id, u(t))
        /\ readers' = Acquired(ReadersAt(t), A(t))
        /\ clock' = t /\ swept' = t
  BY Zenon DEF retain_ready
<1>2. UNCHANGED <<generations, requests, status, loads>>
  BY DEF retain_ready
<1>3. t \in Nat /\ RegistryAt(ReadersAt(t), loads, RecordsAt(t), t) /\ RecordOK(r(t), t)
  BY <1>1, AfterExpire DEF RegistryAt
<1>4. /\ RecordOK(u(t), t) /\ A(t) \in SUBSET (Key \ r(t).retained)
      /\ u(t).retained = r(t).retained \cup A(t)
      /\ u(t).completed_at = r(t).completed_at /\ u(t).terminal_at = r(t).terminal_at
  BY <1>3, RetainOK, SMTT(20)
<1>5. A(t) \subseteq Ready(status)
  BY Zenon DEF Retainable
<1> HIDE DEF A, u
<1>6. RegistryAt(readers', loads', records', swept')
  BY <1>1, <1>2, <1>3, <1>4, PutAcquired
<1>7. Awaited(records', generations')
  BY <1>1, <1>2, <1>4, AfterExpire, Zenon DEF Awaited, Put, Terminal
<1>8. \A k \in Key : readers'[k] <= readers[k] \/ status[k] = "ready"
  BY <1>1, <1>5, AfterExpire, Zenon DEF Acquired, Ready
<1>9. StoreSafe' /\ status' \in [Key -> Status]
  <2>1. readers' \in [Key -> Int]
    BY <1>6 DEF RegistryAt
  <2> QED
    BY <1>2, <1>8, <2>1, SameKeysSafe
<1> QED
  BY <1>1, <1>2, <1>3, <1>6, <1>7, <1>9, InvParts, InvFromParts

\* set_h2d_estimate() releases the record when its deadline has moved behind
\* the clock.
LEMMA set_h2d_estimate_inv ==
    ASSUME RegistryInv, NEW id \in LifecycleId, NEW seconds \in Lead,
           set_h2d_estimate(id, seconds)
    PROVE  RegistryInv'
<1> DEFINE r == records[id]
           u(now) == WithEstimate(r, seconds, now)
           D(now) == DroppedByEstimate(r, seconds, now)
<1>1. PICK now \in Reading(clock) :
        /\ records' = Put(records, id, u(now)) /\ readers' = Dropped(readers, D(now))
        /\ clock' = now
  BY DEF set_h2d_estimate
<1>2. UNCHANGED <<swept, generations, requests, status, loads>>
  BY DEF set_h2d_estimate
<1>3. id \in DOMAIN records /\ owns_preservation(r)
  BY DEF set_h2d_estimate
<1>4. now \in Nat /\ swept \in Nat /\ swept <= now /\ seconds \in Nat
  BY <1>1, FirstReading, RegistryAssumption
<1>5. RegistryAt(readers, loads, records, swept) /\ RecordOK(r, swept)
  BY <1>3, InvParts DEF RegistryAt
<1>6. /\ r \in Lifecycle /\ r.start # NoEvent /\ r.started_at \in Nat /\ ~Terminal(r)
      /\ ~r.ownership_released /\ swept < r.safety_deadline
  BY <1>3, <1>5, Zenon DEF RecordOK, owns_preservation, Lifecycle, Time
<1>7. /\ RecordOK(u(now), swept)
      /\ D(now) \in SUBSET r.retained /\ u(now).retained = r.retained \ D(now)
      /\ u(now).completed_at = r.completed_at /\ ~Terminal(u(now))
  <2>1. r.ownership_released => r.retained = {} /\ r.pending_retention = {}
    BY <1>6, Zenon
  <2> HIDE DEF r
  <2>2. Estimated(r, u(now), D(now), swept)
    BY <1>4, <1>6, <2>1, WithEstimateOK, ZenonT(30)
  <2> HIDE DEF u, D
  <2> QED
    BY <2>2, Zenon DEF Estimated
<1> HIDE DEF u, D
<1>8. RegistryAt(readers', loads', records', swept')
  BY <1>1, <1>2, <1>3, <1>4, <1>5, <1>7, PutDropped, Zenon
<1>9. Awaited(records', generations')
  BY <1>1, <1>2, <1>3, <1>6, <1>7, InvParts, Zenon DEF Awaited, Put
<1>10. StoreSafe' /\ status' \in [Key -> Status]
  <2>1. readers' \in [Key -> Int]
    BY <1>8 DEF RegistryAt
  <2>2. \A k \in Key : readers'[k] <= readers[k]
    BY <1>1, InvParts DEF Dropped
  <2> QED
    BY <1>2, <2>1, <2>2, SameKeysSafe
<1> QED
  BY <1>1, <1>2, <1>4, <1>8, <1>9, <1>10, InvParts, InvFromParts, SMTT(20)

\* invalidate_snapshots() touches neither retentions nor deadlines.
LEMMA invalidate_snapshots_inv ==
    ASSUME RegistryInv, invalidate_snapshots
    PROVE  RegistryInv'
<1> DEFINE u(id) == [records[id] EXCEPT !.snapshot = {}, !.pending_evaluation = FALSE]
<1>1. /\ records' = [id \in DOMAIN records |-> u(id)]
      /\ UNCHANGED <<clock, swept, generations, requests, loads, store_vars>>
  BY Zenon DEF invalidate_snapshots
<1>2. ASSUME NEW id \in DOMAIN records
      PROVE  /\ RecordOK(u(id), swept) /\ u(id).retained = records[id].retained
             /\ u(id).completed_at = records[id].completed_at
             /\ u(id).terminal_at = records[id].terminal_at
  <2>1. RecordOK(records[id], swept) /\ records[id] \in Lifecycle
    BY InvParts, Zenon DEF RegistryAt, RecordOK
  <2>2. /\ u(id) \in Lifecycle /\ u(id).start = records[id].start
        /\ u(id).started_at = records[id].started_at
        /\ u(id).retained = records[id].retained
        /\ u(id).pending_retention = records[id].pending_retention
        /\ u(id).completed_at = records[id].completed_at
        /\ u(id).terminal_at = records[id].terminal_at
        /\ u(id).snapshot = {} /\ u(id).pending_evaluation = FALSE
        /\ u(id).ownership_released = records[id].ownership_released
        /\ u(id).release_deadline = records[id].release_deadline
        /\ u(id).safety_deadline = records[id].safety_deadline
    BY <2>1, Zenon DEF Lifecycle
  <2> HIDE DEF u
  <2> QED
    BY <2>1, <2>2 DEF RecordOK, owns_preservation, Terminal
<1> HIDE DEF u
<1>3. \A k \in Key : Holders(records', k) = Holders(records, k)
  BY <1>1, <1>2, Zenon DEF Holders
<1>4. RegistryAt(readers', loads', records', swept')
  BY <1>1, <1>2, <1>3, InvParts, SMTT(20) DEF RegistryAt, Counted, store_vars
<1>5. Awaited(records', generations')
  BY <1>1, <1>2, InvParts, Zenon DEF Awaited, Terminal
<1>6. StoreSafe' /\ status' \in [Key -> Status]
  BY <1>1, InvParts, SameKeysSafe DEF store_vars
<1> QED
  BY <1>1, <1>4, <1>5, <1>6, InvParts, InvFromParts

\* After a reset no record holds a key and no key has a reader.
LEMMA reset_connector_cache_inv ==
    ASSUME RegistryInv, reset_connector_cache
    PROVE  RegistryInv'
<1> DEFINE c(id) == [records[id] EXCEPT !.retained = {}]
           u(id, now) == Terminalized(c(id), "reset", now)
<1>1. PICK now \in Reading(clock) :
        records' = [id \in DOMAIN records |-> u(id, now)] /\ clock' = now
  BY SMTT(20) DEF reset_connector_cache, ClearedRetained
<1>2. /\ UNCHANGED <<swept, generations, requests>>
      /\ status' = [k \in Key |-> "absent"] /\ loads' = [k \in Key |-> 0]
      /\ readers' = Returned([k \in Key |-> 0], ClearedRetained(records), DOMAIN records)
  BY DEF reset_connector_cache
<1>3. now \in Nat /\ swept \in Nat /\ swept <= now /\ "reset" \in TerminalCause
  BY <1>1, FirstReading, SMTT(20) DEF TerminalCause
<1>4. ASSUME NEW id \in DOMAIN records
      PROVE  /\ RecordOK(u(id, now), swept) /\ u(id, now).retained = {}
             /\ Terminal(u(id, now)) /\ c(id).retained = {}
  <2>1. RecordOK(records[id], swept) /\ records[id] \in Lifecycle
    BY InvParts, Zenon DEF RegistryAt, RecordOK
  <2>2. /\ c(id) \in Lifecycle /\ c(id).start = records[id].start
        /\ c(id).started_at = records[id].started_at
        /\ c(id).retained = {}
        /\ c(id).pending_retention = records[id].pending_retention
        /\ c(id).terminal_at = records[id].terminal_at
        /\ c(id).snapshot = records[id].snapshot
        /\ c(id).pending_evaluation = records[id].pending_evaluation
        /\ c(id).ownership_released = records[id].ownership_released
        /\ c(id).release_deadline = records[id].release_deadline
        /\ c(id).safety_deadline = records[id].safety_deadline
    BY <2>1, SMTT(20) DEF Lifecycle
  <2> HIDE DEF c
  <2>3. RecordOK(c(id), swept)
    BY <2>1, <2>2 DEF RecordOK, owns_preservation, Terminal
  <2> QED
    BY <1>3, <2>2, <2>3, TerminalizedOK, TerminalizedFacts, ZenonT(40)
<1>5. \A k \in Key : readers'[k] = 0
  <2>1. ASSUME NEW k \in Key PROVE readers'[k] = 0
    <3>1. {id \in DOMAIN records : k \in ClearedRetained(records)[id].retained} = {}
      BY <1>4 DEF ClearedRetained
    <3>2. readers'[k] = [j \in Key |-> 0][k]
             - Cardinality({id \in DOMAIN records : k \in ClearedRetained(records)[id].retained})
      BY <1>2, Zenon DEF Returned
    <3>3. Cardinality({id \in DOMAIN records : k \in ClearedRetained(records)[id].retained}) = 0
      BY <3>1, FS_EmptySet, Zenon
    <3> QED
      BY <3>2, <3>3
  <2> QED
    BY <2>1, SMTT(20)
<1>6. readers' \in [Key -> Int]
  BY <1>2, <1>5 DEF Returned
<1> HIDE DEF c, u
<1>7. \A k \in Key : Cardinality(Holders(records', k)) = 0
  <2>1. \A k \in Key : Holders(records', k) = {}
    BY <1>1, <1>4 DEF Holders
  <2> QED
    BY <2>1, FS_EmptySet
<1>8. RegistryAt(readers', loads', records', swept')
  BY <1>1, <1>2, <1>4, <1>5, <1>6, <1>7, InvParts DEF RegistryAt, Counted
<1>9. Awaited(records', generations')
  BY <1>1, <1>4, Zenon DEF Awaited
<1>10. StoreSafe' /\ status' \in [Key -> Status]
  <2>1. Resident(status') = {}
    BY <1>2 DEF Resident
  <2>2. Cardinality(Resident(status')) = 0 /\ num_blocks \in Nat
    BY <2>1, FS_EmptySet, StoreAssumption
  <2> QED
    BY <1>2, <1>5, <2>2 DEF StoreSafe, Status
<1> QED
  BY <1>1, <1>2, <1>3, <1>8, <1>9, <1>10, InvParts, InvFromParts

\* A load takes references of its own.
LEMMA connector_load_inv ==
    ASSUME RegistryInv, NEW K \in SUBSET Key, connector_load(K)
    PROVE  RegistryInv'
<1>1. /\ K \subseteq Ready(status) /\ readers' = Acquired(readers, K)
      /\ loads' = Acquired(loads, K) /\ UNCHANGED <<status, registry_vars>>
  BY DEF connector_load, prepare_load
<1>2. UNCHANGED <<clock, swept, records, generations, requests, status>>
  BY <1>1 DEF registry_vars
<1>3. readers' \in [Key -> Int] /\ loads' \in [Key -> Nat]
  BY <1>1, InvParts DEF Acquired
<1>4. Counted(readers', loads', records')
  <2>1. ASSUME NEW k \in Key
        PROVE  readers'[k] = loads'[k] + Cardinality(Holders(records, k))
    <3>1. Cardinality(Holders(records, k)) \in Nat
      BY HoldersFinite, InvParts DEF RegistryAt
    <3>2. readers[k] = loads[k] + Cardinality(Holders(records, k)) /\ loads[k] \in Nat
      BY InvParts DEF RegistryAt, Counted
    <3> QED
      BY <1>1, <3>1, <3>2 DEF Acquired
  <2> QED
    BY <1>2, <2>1, SMTT(20) DEF Counted
<1>5. RegistryAt(readers', loads', records', swept')
  BY <1>2, <1>3, <1>4, InvParts DEF RegistryAt
<1>6. \A k \in Key : readers'[k] <= readers[k] \/ status[k] = "ready"
  BY <1>1, InvParts DEF Acquired, Ready
<1>7. StoreSafe' /\ status' \in [Key -> Status]
  BY <1>2, <1>3, <1>6, SameKeysSafe, SMTT(20)
<1> QED
  BY <1>2, <1>5, <1>7, InvParts, InvFromParts

\* The end of a load returns references of its own.
LEMMA connector_loaded_inv ==
    ASSUME RegistryInv, NEW K \in SUBSET Key, connector_loaded(K)
    PROVE  RegistryInv'
<1>1. /\ \A k \in K : loads[k] > 0
      /\ readers' = Dropped(readers, K)
      /\ loads' = Dropped(loads, K) /\ UNCHANGED <<status, registry_vars>>
  BY DEF connector_loaded, complete_load
<1>2. UNCHANGED <<clock, swept, records, generations, requests, status>>
  BY <1>1 DEF registry_vars
<1>3. readers' \in [Key -> Int] /\ loads' \in [Key -> Nat]
  BY <1>1, InvParts, SMTT(20) DEF Dropped
<1>4. Counted(readers', loads', records')
  <2>1. ASSUME NEW k \in Key
        PROVE  readers'[k] = loads'[k] + Cardinality(Holders(records, k))
    <3>1. Cardinality(Holders(records, k)) \in Nat
      BY HoldersFinite, InvParts DEF RegistryAt
    <3>2. readers[k] = loads[k] + Cardinality(Holders(records, k)) /\ loads[k] \in Nat
      BY InvParts DEF RegistryAt, Counted
    <3> QED
      BY <1>1, <3>1, <3>2, SMTT(20) DEF Dropped
  <2> QED
    BY <1>2, <2>1 DEF Counted
<1>5. RegistryAt(readers', loads', records', swept')
  BY <1>2, <1>3, <1>4, InvParts DEF RegistryAt
<1>6. \A k \in Key : readers'[k] <= readers[k]
  BY <1>1, InvParts DEF Dropped
<1>7. StoreSafe' /\ status' \in [Key -> Status]
  BY <1>2, <1>3, <1>6, SameKeysSafe
<1> QED
  BY <1>2, <1>5, <1>7, InvParts, InvFromParts

\* A store evicts no key that is loaded or retained.
LEMMA connector_store_inv ==
    ASSUME RegistryInv, NEW K \in SUBSET Key, connector_store(K)
    PROVE  RegistryInv'
<1>1. PICK new \in SUBSET K, evicted \in SUBSET (Key \ K) :
        CanPrepare(status, readers, K, new, evicted) /\ status' = Prepared(status, new, evicted)
  BY DEF connector_store, prepare_store
<1>2. UNCHANGED <<clock, swept, records, generations, requests, readers, loads>>
  BY DEF connector_store, prepare_store, registry_vars
<1>3. status' \in [Key -> Status]
  BY <1>1, InvParts DEF Prepared, Status
<1>4. Resident(status') = (Resident(status) \ evicted) \cup new
  BY <1>1, InvParts, SMTT(20) DEF Prepared, Resident, CanPrepare, Evictable, Ready
<1>5. \A k \in Key : readers[k] > 0 => status'[k] = "ready"
  <2>1. \A k \in evicted : readers[k] = 0
    BY <1>1, Zenon DEF CanPrepare, Evictable
  <2>2. \A k \in new : k \in Key /\ status[k] = "absent"
    BY <1>1, ZenonT(40) DEF CanPrepare, Resident
  <2> QED
    BY <1>1, <2>1, <2>2, InvParts, SMTT(20) DEF RegistryInv, StoreSafe, Prepared
<1>6. StoreSafe'
  BY <1>1, <1>2, <1>4, <1>5 DEF StoreSafe, CanPrepare
<1> QED
  BY <1>2, <1>3, <1>6, InvParts, InvFromParts

\* The end of a store changes only keys being written, which nobody reads.
LEMMA connector_stored_inv ==
    ASSUME RegistryInv, NEW K \in SUBSET Key, NEW success \in BOOLEAN,
           connector_stored(K, success)
    PROVE  RegistryInv'
<1>1. status' = Completed(status, K, success)
  BY DEF connector_stored, complete_store
<1>2. UNCHANGED <<clock, swept, records, generations, requests, readers, loads>>
  BY DEF connector_stored, complete_store, registry_vars
<1>3. status' \in [Key -> Status]
  BY <1>1, InvParts DEF Completed, Status
<1>4. Cardinality(Resident(status')) <= num_blocks
  <2>1. Resident(status') \subseteq Resident(status) /\ Resident(status) \subseteq Key
    BY <1>1 DEF Completed, Resident
  <2>2. IsFiniteSet(Resident(status)) /\ IsFiniteSet(Resident(status'))
    BY <2>1, StoreAssumption, FS_Subset
  <2>3. Cardinality(Resident(status')) <= Cardinality(Resident(status))
    BY <2>1, <2>2, FS_Subset, SMTT(20)
  <2>4. Cardinality(Resident(status)) <= num_blocks
    BY DEF RegistryInv, StoreSafe
  <2>5. Cardinality(Resident(status')) \in Nat /\ Cardinality(Resident(status)) \in Nat
    BY <2>2, FS_CardinalityType
  <2> QED
    BY <2>3, <2>4, <2>5, StoreAssumption
<1>5. \A k \in Key : readers[k] > 0 => status'[k] = "ready"
  BY <1>1, InvParts, SMTT(20) DEF RegistryInv, StoreSafe, Completed
<1>6. StoreSafe'
  BY <1>2, <1>4, <1>5, SMTT(20) DEF StoreSafe
<1> QED
  BY <1>2, <1>3, <1>6, InvParts, InvFromParts
-----------------------------------------------------------------------------

\* The empty registry over the empty store.
LEMMA InitInv == Init => RegistryInv
<1> SUFFICES ASSUME Init PROVE RegistryInv
  OBVIOUS
<1>1. DOMAIN records = {} /\ DOMAIN generations = {} /\ DOMAIN requests = {}
  BY DEF Init
<1>2. status \in [Key -> Status] /\ readers \in [Key -> Nat] /\ loads \in [Key -> Nat]
  BY DEF Init, StoreInit, Status
<1>3. RegistryTypeOK
  BY <1>1, <1>2 DEF Init, RegistryTypeOK, StoreTypeOK
<1>4. Counted(readers, loads, records)
  <2>1. \A k \in Key : Holders(records, k) = {}
    BY <1>1 DEF Holders
  <2>2. \A k \in Key : readers[k] = 0 /\ loads[k] = 0
    BY DEF Init, StoreInit
  <2>3. Cardinality({}) = 0
    BY FS_EmptySet
  <2> QED
    BY <2>1, <2>2, <2>3 DEF Counted
<1>5. StoreSafe
  <2>1. Resident(status) = {}
    BY DEF Init, StoreInit, Resident
  <2>2. Cardinality({}) = 0 /\ num_blocks \in Nat
    BY FS_EmptySet, StoreAssumption
  <2>3. \A k \in Key : readers[k] = 0
    BY DEF Init, StoreInit
  <2> QED
    BY <2>1, <2>2, <2>3 DEF StoreSafe
<1> QED
  BY <1>1, <1>3, <1>4, <1>5 DEF RegistryInv, GenerationsAreLive

\* Every action of the registry and of the connector preserves RegistryInv.
LEMMA NextInv == RegistryInv /\ [Next]_vars => RegistryInv'
<1> SUFFICES ASSUME RegistryInv, [Next]_vars PROVE RegistryInv'
  OBVIOUS
<1>1. CASE \E req \in RequestId, id \in LifecycleId : associate(req, id)
  BY <1>1, associate_inv
<1>2. CASE \E req \in RequestId, cause \in GenerationCause, snapshot \in SUBSET Key :
              generation_finished(req, cause, snapshot)
  BY <1>2, generation_finished_inv
<1>3. CASE \E id \in LifecycleId, event \in StartEvent : apply_start(id, event)
  BY <1>3, apply_start_inv
<1>4. CASE \E id \in LifecycleId : apply_finish(id)
  BY <1>4, apply_finish_inv
<1>5. CASE \E id \in LifecycleId, K \in SUBSET Key : retain_ready(id, K)
  BY <1>5, retain_ready_inv
<1>6. CASE \E id \in LifecycleId, seconds \in Lead : set_h2d_estimate(id, seconds)
  BY <1>6, set_h2d_estimate_inv
<1>7. CASE invalidate_snapshots
  BY <1>7, invalidate_snapshots_inv
<1>8. CASE reset_connector_cache
  BY <1>8, reset_connector_cache_inv
<1>9. CASE \E K \in SUBSET Key : connector_load(K)
  BY <1>9, connector_load_inv
<1>10. CASE \E K \in SUBSET Key : connector_loaded(K)
  BY <1>10, connector_loaded_inv
<1>11. CASE \E K \in SUBSET Key : connector_store(K)
  BY <1>11, connector_store_inv
<1>12. CASE \E K \in SUBSET Key, success \in BOOLEAN : connector_stored(K, success)
  BY <1>12, connector_stored_inv
<1>13. CASE UNCHANGED vars
  <2>1. /\ readers' = readers /\ loads' = loads /\ records' = records /\ status' = status
        /\ swept' = swept /\ clock' = clock
        /\ generations' = generations /\ requests' = requests
    BY <1>13 DEF vars, registry_vars, store_vars
  <2>2. /\ RegistryAt(readers', loads', records', swept')
        /\ Associated(generations', requests') /\ Awaited(records', generations')
        /\ status' \in [Key -> Status] /\ clock' \in Nat /\ swept' \in Nat /\ swept' <= clock'
    BY <2>1, InvParts, Zenon
  <2>3. StoreSafe'
    BY <2>1 DEF RegistryInv, StoreSafe, Resident
  <2> QED
    BY <2>2, <2>3, InvFromParts, Zenon
<1> QED
  BY <1>1, <1>2, <1>3, <1>4, <1>5, <1>6, <1>7, <1>8, <1>9, <1>10, <1>11, <1>12, <1>13, SMTT(20) DEF Next

\* RegistryInv holds in every reachable state of the registry and its store.
THEOREM RegistryInvariant == Spec => []RegistryInv
BY InitInv, NextInv, PTL DEF Spec
\* Every reachable state is well typed; in particular release() never drives
\* a reader count below zero.
THEOREM TypeCorrect == Spec => []RegistryTypeOK
<1>1. RegistryInv => RegistryTypeOK
  BY DEF RegistryInv
<1> QED
  BY <1>1, RegistryInvariant, PTL

\* The store's reference counts are exactly the loads in flight and the
\* retentions: none is returned twice, none is left behind by a lifecycle
\* that ends, expires, is forgotten or is reset.
THEOREM RetentionsAreCounted == Spec => []RetentionsCounted
<1>1. RegistryInv => RetentionsCounted
  BY DEF RegistryInv, Counted, Holders, RetentionsCounted
<1> QED
  BY <1>1, RegistryInvariant, PTL

\* Only an owner holds blocks, and a terminal record keeps no snapshot.
THEOREM OwnersRetain == Spec => []OnlyOwnersRetain
<1>1. RegistryInv => OnlyOwnersRetain
  BY Zenon DEF RegistryInv, RecordOK, OnlyOwnersRetain
<1> QED
  BY <1>1, RegistryInvariant, PTL

\* expire() leaves no owner past its release or its safety deadline.
THEOREM DeadlinesKept == Spec => []OwnershipWithinDeadlines
<1>1. RegistryInv => OwnershipWithinDeadlines
  BY DEF RegistryInv, RecordOK, OwnershipWithinDeadlines
<1> QED
  BY <1>1, RegistryInvariant, PTL

\* One generation per lifecycle id, and one lifecycle id per generation.
THEOREM OneGeneration == Spec => []GenerationsAreLive
<1>1. RegistryInv => GenerationsAreLive
  BY DEF RegistryInv
<1> QED
  BY <1>1, RegistryInvariant, PTL

\* The store stays within its capacity and evicts nothing that is being read,
\* whatever the registry and the connector ask of it.
THEOREM StoreStaysSafe == Spec => []StoreSafe
<1>1. RegistryInv => StoreSafe
  BY SMTT(20) DEF RegistryInv
<1> QED
  BY <1>1, RegistryInvariant, PTL
-----------------------------------------------------------------------------
(* Tombstones *)

\* What a step may do to a terminal record.
KeepsTombstone(id) ==
    \/ id \in DOMAIN records' /\ records'[id] = records[id]
    \/ swept' >= records[id].terminal_at + TombstoneSeconds

\* expire() keeps a terminal record until its tombstone is due.
LEMMA TerminalAges ==
    ASSUME RegistryInv, NEW t \in Reading(clock), NEW id \in DOMAIN records,
           Terminal(records[id])
    PROVE  \/ id \in DOMAIN RecordsAt(t) /\ RecordsAt(t)[id] = records[id]
           \/ t >= records[id].terminal_at + TombstoneSeconds
<1>1. records[id] \in Lifecycle /\ t \in Nat
  BY AfterExpire, InvParts, Zenon DEF RegistryAt, RecordOK
<1>2. Aged(records[id], t) = records[id]
  BY <1>1, AgedHistory
<1> QED
  BY <1>2 DEF RecordsAt, Expired, Forgotten

\* A handler that expires and at most replaces a record that is not terminal.
LEMMA TombstoneKept ==
    ASSUME RegistryInv, NEW t \in Reading(clock), swept' = t,
           NEW id \in DOMAIN records, Terminal(records[id]),
           \/ records' = RecordsAt(t)
           \/ \E i, s : /\ records' = Put(RecordsAt(t), i, s)
                        /\ i \in DOMAIN RecordsAt(t) /\ Terminal(RecordsAt(t)[i])
                              => s = RecordsAt(t)[i]
    PROVE  KeepsTombstone(id)
BY TerminalAges, Zenon DEF KeepsTombstone, Put

\* No action changes a terminal record before its tombstone is due.
LEMMA TombstoneStep ==
    ASSUME RegistryInv, Next, NEW id \in DOMAIN records, Terminal(records[id])
    PROVE  KeepsTombstone(id)
<1>1. ASSUME NEW req, NEW i, associate(req, i)
      PROVE  KeepsTombstone(id)
  <2>1. PICK t \in Reading(clock) :
          /\ swept' = t
          /\ \/ records' = RecordsAt(t)
             \/ i \notin DOMAIN RecordsAt(t) /\ records' = Put(RecordsAt(t), i, NewLifecycle)
    BY <1>1, SMTT(20) DEF associate, Claimed
  <2> QED
    BY <2>1, TombstoneKept
<1>2. ASSUME NEW req, NEW cause, NEW snapshot, generation_finished(req, cause, snapshot)
      PROVE  KeepsTombstone(id)
  <2>1. PICK t \in Reading(clock) :
          /\ swept' = t
          /\ \/ records' = RecordsAt(t)
             \/ \E i, s : ~Terminal(RecordsAt(t)[i]) /\ records' = Put(RecordsAt(t), i, s)
    BY <1>2, Zenon DEF generation_finished
  <2> QED
    BY <2>1, TombstoneKept
<1>3. ASSUME NEW i, NEW event, apply_start(i, event)
      PROVE  KeepsTombstone(id)
  <2>1. PICK t \in Reading(clock) :
          /\ swept' = t
          /\ \/ records' = RecordsAt(t)
             \/ \E s : ~Terminal(RecordsAt(t)[i]) /\ records' = Put(RecordsAt(t), i, s)
    BY <1>3, Zenon DEF apply_start, Unknown, StartDisposition
  <2> QED
    BY <2>1, TombstoneKept
<1>4. ASSUME NEW i, apply_finish(i)
      PROVE  KeepsTombstone(id)
  <2>1. PICK t \in Reading(clock) :
          /\ swept' = t
          /\ \/ records' = RecordsAt(t)
             \/ \E s : ~Terminal(RecordsAt(t)[i]) /\ records' = Put(RecordsAt(t), i, s)
    BY <1>4, Zenon DEF apply_finish, Unknown, FinishDisposition
  <2> QED
    BY <2>1, TombstoneKept
<1>5. ASSUME NEW i, NEW K \in SUBSET Key, retain_ready(i, K)
      PROVE  KeepsTombstone(id)
  <2>1. PICK t \in Reading(clock) :
          /\ i \in DOMAIN RecordsAt(t) /\ swept' = t
          /\ records' = Put(RecordsAt(t), i, [RecordsAt(t)[i] EXCEPT
                          !.retained = @ \cup Retainable(RecordsAt(t)[i], K, status)])
    BY <1>5, Zenon DEF retain_ready
  <2>2. RecordsAt(t)[i] \in Lifecycle
    BY <2>1, AfterExpire DEF RegistryAt, RecordOK
  <2>3. Terminal(RecordsAt(t)[i]) =>
          [RecordsAt(t)[i] EXCEPT !.retained =
             @ \cup Retainable(RecordsAt(t)[i], K, status)] = RecordsAt(t)[i]
    BY <2>2, RetainTerminal, SMTT(20)
  <2> QED
    BY <2>1, <2>3, TombstoneKept, Zenon
<1>6. ASSUME NEW i, NEW seconds, set_h2d_estimate(i, seconds)
      PROVE  KeepsTombstone(id)
  BY <1>6 DEF set_h2d_estimate, owns_preservation, Put, KeepsTombstone
<1>7. ASSUME records'[id] = records[id], DOMAIN records' = DOMAIN records
      PROVE  KeepsTombstone(id)
  BY <1>7 DEF KeepsTombstone
<1>8. /\ records[id] \in Lifecycle /\ records[id].retained = {}
      /\ records[id].snapshot = {} /\ records[id].pending_evaluation = FALSE
  BY InvParts, Zenon DEF RegistryAt, RecordOK, owns_preservation, Lifecycle
<1>9. ASSUME invalidate_snapshots
      PROVE  KeepsTombstone(id)
  <2>1. [records[id] EXCEPT !.snapshot = {}, !.pending_evaluation = FALSE] = records[id]
    BY <1>8, Zenon DEF Lifecycle
  <2> QED
    BY <1>7, <1>9, <2>1, Zenon DEF invalidate_snapshots
<1>10. ASSUME reset_connector_cache
       PROVE  KeepsTombstone(id)
  <2>1. [records[id] EXCEPT !.retained = {}] = records[id]
    BY <1>8 DEF Lifecycle
  <2>2. ClearedRetained(records)[id] = records[id]
    BY <2>1 DEF ClearedRetained
  <2>3. \A now : Terminalized(ClearedRetained(records)[id], "reset", now) = records[id]
    BY <2>2 DEF Terminalized
  <2> QED
    BY <1>7, <1>10, <2>3, Zenon DEF reset_connector_cache
<1>11. ASSUME UNCHANGED registry_vars
       PROVE  KeepsTombstone(id)
  BY <1>11, <1>7 DEF registry_vars
<1> QED
  BY <1>1, <1>2, <1>3, <1>4, <1>5, <1>6, <1>9, <1>10, <1>11, Zenon
     DEF Next, connector_load, connector_loaded, connector_store, connector_stored

\* No late, repeated or reordered event, completion, retention or reset
\* changes a terminal record before its tombstone is due.
THEOREM TombstonesAreFinal == Spec => TombstoneIsFinal
<1> DEFINE Final == \A id \in DOMAIN records : Terminal(records[id]) => KeepsTombstone(id)
<1>1. RegistryInv /\ [Next]_vars => [Final]_vars
  BY TombstoneStep
<1>2. [Final]_vars => [\A id \in DOMAIN records : Terminal(records[id]) =>
          \/ id \in DOMAIN records' /\ records'[id] = records[id]
          \/ swept' >= records[id].terminal_at + TombstoneSeconds]_vars
  BY DEF KeepsTombstone
<1> QED
  BY <1>1, <1>2, RegistryInvariant, PTL DEF Spec, TombstoneIsFinal
-----------------------------------------------------------------------------
(* Replies *)

\* What ReplyTruthful asks of the record r that a known id has.
ReplyFits(rep, r) ==
    /\ rep.state = State(r)
    /\ rep.event = "stall_finished" =>
          IF rep.disposition = "conflict" THEN r.start = NoEvent /\ ~Terminal(r)
          ELSE Terminal(r) /\ r.retained = {} /\ r.pending_retention = {}
    /\ rep.event = "stall_started" =>
          IF rep.disposition = "conflict" THEN r.start # NoEvent \/ Terminal(r)
          ELSE r.start # NoEvent

\* The reply to a stall_started event is true of the record it leaves.
LEMMA apply_start_reply ==
    ASSUME RegistryInv, NEW id \in LifecycleId, NEW event \in StartEvent,
           apply_start(id, event)
    PROVE  ReplyTruthful'
<1>1. PICK t \in Reading(clock) :
        \/ Unknown("stall_started", id, t)
        \/ /\ id \in DOMAIN RecordsAt(t)
           /\ LET r == RecordsAt(t)[id]
                  disposition == StartDisposition(r, event)
              IN  /\ IF disposition = "applied"
                     THEN \E now \in Reading(t), predicted \in Duration :
                          \E later \in Reading(now) :
                             records' = Put(RecordsAt(t), id,
                                [WithEstimate(Started(r, event, predicted, now), 0, later)
                                   EXCEPT !.pending_evaluation = r.completed_at # None])
                     ELSE records' = RecordsAt(t)
                  /\ reply' = Reply("stall_started", id, State(records'[id]), disposition)
  BY Zenon DEF apply_start
<1>2. event # NoEvent
  BY RegistryAssumption
<1>3. CASE Unknown("stall_started", id, t)
  BY <1>3, Zenon DEF Unknown, Reply, ReplyTruthful
<1> DEFINE r == RecordsAt(t)[id]
<1>4. CASE id \in DOMAIN RecordsAt(t) /\ ~Unknown("stall_started", id, t)
  <2>1. reply' = Reply("stall_started", id, State(records'[id]), StartDisposition(r, event))
    BY <1>1, <1>4
  <2>2. id \in DOMAIN records'
    BY <1>1, <1>4, SMTT(20) DEF Put
  <2>3. ReplyFits(reply', records'[id])
    <3>1. CASE StartDisposition(r, event) # "applied"
      <4>1. records'[id] = r
        BY <1>1, <1>4, <3>1
      <4> QED
        BY <1>2, <2>1, <3>1, <4>1, Zenon DEF ReplyFits, Reply, StartDisposition
    <3>2. CASE StartDisposition(r, event) = "applied"
      <4>1. r.start = NoEvent /\ ~Terminal(r)
        BY <3>2 DEF StartDisposition
      <4>2. PICK now \in Reading(t), predicted \in Duration : \E later \in Reading(now) :
              records'[id] = [WithEstimate(Started(r, event, predicted, now), 0, later)
                                EXCEPT !.pending_evaluation = r.completed_at # None]
        BY <1>1, <1>4, <3>2 DEF Put
      <4>3. PICK later \in Reading(now) :
              records'[id] = [WithEstimate(Started(r, event, predicted, now), 0, later)
                                EXCEPT !.pending_evaluation = r.completed_at # None]
        BY <4>2
      <4>4. /\ t \in Nat /\ now \in Nat /\ later \in Nat /\ t <= now /\ now <= later
            /\ predicted \in Nat
        BY FirstReading, LaterReading, RegistryAssumption
      <4>5. RecordOK(r, t)
        BY <1>4, AfterExpire, Zenon DEF RegistryAt
      <4>6. records'[id].start = event
        BY <4>1, <4>3, <4>4, <4>5, StartedOK
      <4> QED
        BY <1>2, <2>1, <3>2, <4>6, Zenon DEF ReplyFits, Reply
    <3> QED
      BY <3>1, <3>2
  <2>4. reply'.id = id /\ reply'.disposition # "unknown"
    BY <2>1, Zenon DEF Reply, StartDisposition
  <2> QED
    BY <2>2, <2>3, <2>4, Zenon DEF ReplyTruthful, ReplyFits
<1> QED
  BY <1>1, <1>3, <1>4

\* The reply to a stall_finished event is true of the record it leaves.
LEMMA apply_finish_reply ==
    ASSUME RegistryInv, NEW id \in LifecycleId, apply_finish(id)
    PROVE  ReplyTruthful'
<1>1. PICK t \in Reading(clock) :
        \/ Unknown("stall_finished", id, t)
        \/ /\ id \in DOMAIN RecordsAt(t)
           /\ LET r == RecordsAt(t)[id]
                  disposition == FinishDisposition(r)
              IN  /\ IF disposition = "applied"
                     THEN \E now \in Reading(t) :
                             records' = Put(RecordsAt(t), id,
                                [Terminalized(r, "finished", now) EXCEPT
                                    !.finish_accepted = TRUE])
                     ELSE records' = RecordsAt(t)
                  /\ reply' = Reply("stall_finished", id, State(records'[id]), disposition)
  BY Zenon DEF apply_finish
<1>2. CASE Unknown("stall_finished", id, t)
  BY <1>2, Zenon DEF Unknown, Reply, ReplyTruthful
<1> DEFINE r == RecordsAt(t)[id]
<1>3. CASE id \in DOMAIN RecordsAt(t) /\ ~Unknown("stall_finished", id, t)
  <2>1. reply' = Reply("stall_finished", id, State(records'[id]), FinishDisposition(r))
    BY <1>1, <1>3
  <2>2. id \in DOMAIN records'
    BY <1>1, <1>3 DEF Put
  <2>3. t \in Nat /\ RecordOK(r, t)
    BY <1>3, AfterExpire, Zenon DEF RegistryAt
  <2>4. ReplyFits(reply', records'[id])
    <3>1. CASE FinishDisposition(r) # "applied"
      <4>1. records'[id] = r
        BY <1>1, <1>3, <3>1
      <4>2. Terminal(r) => r.retained = {} /\ r.pending_retention = {}
        BY <2>3, Zenon DEF RecordOK, owns_preservation
      <4> QED
        BY <2>1, <3>1, <4>1, <4>2, Zenon DEF ReplyFits, Reply, FinishDisposition
    <3>2. CASE FinishDisposition(r) = "applied"
      <4>1. ~Terminal(r)
        BY <3>2 DEF FinishDisposition
      <4>2. PICK now \in Reading(t) :
              records'[id] = [Terminalized(r, "finished", now) EXCEPT !.finish_accepted = TRUE]
        BY <1>1, <1>3, <3>2, Zenon DEF Put
      <4>3. now \in Nat
        BY <2>3, LaterReading
      <4>4. RecordOK(records'[id], t) /\ records'[id].retained = {} /\ Terminal(records'[id])
        BY <2>3, <4>1, <4>2, <4>3, FinishedOK, SMTT(20)
      <4>5. records'[id].pending_retention = {}
        BY <4>4 DEF RecordOK, owns_preservation
      <4> QED
        BY <2>1, <3>2, <4>4, <4>5, Zenon DEF ReplyFits, Reply
    <3> QED
      BY <3>1, <3>2
  <2>5. reply'.id = id /\ reply'.disposition # "unknown"
    BY <2>1, Zenon DEF Reply, FinishDisposition
  <2> QED
    BY <2>2, <2>4, <2>5 DEF ReplyTruthful, ReplyFits
<1> QED
  BY <1>1, <1>2, <1>3

\* What the registry answers to an event is true of the record it leaves, and
\* after every answered stall_finished but a refused one nothing is retained.
THEOREM RepliesAreTruthful == Spec => []ReplyTruthful
<1>1. Init => ReplyTruthful
  BY DEF Init, ReplyTruthful
<1>2. RegistryInv /\ ReplyTruthful /\ [Next]_vars => ReplyTruthful'
  <2> SUFFICES ASSUME RegistryInv, ReplyTruthful, [Next]_vars PROVE ReplyTruthful'
    BY SMTT(20)
  <2>1. ASSUME reply' = NoReply PROVE ReplyTruthful'
    BY <2>1, ZenonT(40) DEF ReplyTruthful
  <2>2. ASSUME UNCHANGED registry_vars PROVE ReplyTruthful'
    BY <2>2 DEF registry_vars, ReplyTruthful
  <2>3. ASSUME NEW id \in LifecycleId, NEW event \in StartEvent, apply_start(id, event)
        PROVE  ReplyTruthful'
    BY <2>3, apply_start_reply
  <2>4. ASSUME NEW id \in LifecycleId, apply_finish(id)
        PROVE  ReplyTruthful'
    BY <2>4, apply_finish_reply
  <2> QED
    BY <2>1, <2>2, <2>3, <2>4, Zenon DEF Next, vars, associate, generation_finished, retain_ready,
       set_h2d_estimate, invalidate_snapshots, reset_connector_cache,
       connector_load, connector_loaded, connector_store, connector_stored
<1> QED
  BY <1>1, <1>2, RegistryInvariant, PTL DEF Spec
=============================================================================
