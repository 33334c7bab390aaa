----------------------------- MODULE CachePolicy -----------------------------
(***************************************************************************)
(* The two eviction policies of the CPU block pool                         *)
(* (vllm/v1/kv_offload/cpu/policies/lru.py and arc.py), as functions of    *)
(* the keys they order.  A policy holds the resident keys in t1 and, for   *)
(* ARC, in t2, oldest first, and for ARC the ghosts b1 and b2 of the keys  *)
(* it evicted from each.  LRU keeps one list: here t1 alone.               *)
(*                                                                         *)
(* ARC's float target_t1_size is a multiple of 1 / Unit: the ratio of the  *)
(* ghost lists' lengths is exact, where the code rounds it from a capacity *)
(* of four on.                                                             *)
(***************************************************************************)
EXTENDS Lists

CONSTANT num_blocks     \* cache_capacity

ASSUME CapacityAssumption == num_blocks \in Nat

Unit ==
    LET factorial[n \in 0..num_blocks] == IF n = 0 THEN 1 ELSE n * factorial[n - 1]
    IN  factorial[num_blocks]

Policy(t1, t2, b1, b2, target) ==
    [t1 |-> t1, t2 |-> t2, b1 |-> b1, b2 |-> b2, target_t1_size |-> target]

EmptyCache == Policy(<<>>, <<>>, <<>>, <<>>, 0)

\* Seeded fault: a key that comes back stays on its ghost list.
insert_ghostly(cache, new) ==
    Policy(cache.t1 \o new, cache.t2, cache.b1, cache.b2, cache.target_t1_size)

insert(cache, new) ==
    Policy(cache.t1 \o new, cache.t2, Without(cache.b1, Range(new)), Without(cache.b2, Range(new)),
           cache.target_t1_size)

remove(cache, K) ==
    Policy(Without(cache.t1, K), Without(cache.t2, K), cache.b1, cache.b2, cache.target_t1_size)

-----------------------------------------------------------------------------
(* LRU.  free is the set of keys that nobody references and that the call  *)
(* does not protect; n keys of it are wanted.                              *)

lru_touch(cache, ks) ==
    LET moved == Only(Reverse(ks), Range(cache.t1))
    IN  Policy(Without(cache.t1, Range(moved)) \o moved, cache.t2, cache.b1, cache.b2,
               cache.target_t1_size)

\* Seeded fault: eviction from the recent end.
lru_candidates_newest(cache, n, free) ==
    Take(Only(Reverse(cache.t1), free), n)

lru_candidates(cache, n, free) == Take(Only(cache.t1, free), n)

-----------------------------------------------------------------------------
(* ARC *)

\* How far a hit on a ghost list of length mine moves the target.
Delta(mine, other) == Larger(Unit, (other * Unit) \div mine)

ArcTouched(cache, k, ready) ==
    LET t1 == cache.t1  t2 == cache.t2  b1 == cache.b1  b2 == cache.b2
        target == cache.target_t1_size
    IN  CASE k \in Range(t1) /\ k \in ready -> Policy(Without(t1, {k}), Append(t2, k), b1, b2, target)
          [] k \in Range(t1) /\ k \notin ready -> Policy(MovedToEnd(t1, k), t2, b1, b2, target)
          [] k \in Range(t2) -> Policy(t1, MovedToEnd(t2, k), b1, b2, target)
          [] k \in Range(b1) ->
                Policy(t1, t2, MovedToEnd(b1, k), b2,
                       Lesser(target + Delta(Len(b1), Len(b2)), num_blocks * Unit))
          [] k \in Range(b2) ->
                Policy(t1, t2, b1, MovedToEnd(b2, k), Larger(target - Delta(Len(b2), Len(b1)), 0))
          [] OTHER -> cache

arc_touch(cache, ks, ready) ==
    LET touched[i \in 0..Len(ks)] ==
            IF i = 0 THEN cache ELSE ArcTouched(touched[i - 1], Reverse(ks)[i], ready)
    IN  touched[Len(ks)]

\* T1 gives keys while it is no smaller than its target and has one to give;
\* then T2 does.  Once T1 gives none it gives none for the rest of the call.
arc_candidates(cache, n, free) ==
    LET from_t1 == Only(cache.t1, free)
        from_t2 == Only(cache.t2, free)
        above == Larger(Len(cache.t1) - (cache.target_t1_size \div Unit) + 1, 0)
        first == Take(from_t1, Lesser(n, above))
    IN  first \o Take(from_t2, n - Len(first))

\* The victims leave a ghost, and each ghost list forgets its oldest.
Ghosts(ghosts, victims, list) ==
    LET all == ghosts \o Only(victims, Range(list))
    IN  SubSeq(all, Larger(Len(all) - num_blocks, 0) + 1, Len(all))

arc_evicted(cache, victims) ==
    Policy(Without(cache.t1, Range(victims)), Without(cache.t2, Range(victims)),
           Ghosts(cache.b1, victims, cache.t1), Ghosts(cache.b2, victims, cache.t2),
           cache.target_t1_size)

-----------------------------------------------------------------------------
Cache(U) ==
    [t1 : Seq(U), t2 : Seq(U), b1 : Seq(U), b2 : Seq(U), target_t1_size : 0..(num_blocks * Unit)]

\* A policy's lists over keys from U, for resident keys K of which R are ready:
\* every resident key is on one of T1 and T2, once, a key in T2 is ready, and a
\* ghost is not resident and is on one ghost list, once.
SoundCache(c, U, K, R) ==
    /\ c \in Cache(U)
    /\ IsInjective(c.t1) /\ IsInjective(c.t2) /\ IsInjective(c.b1) /\ IsInjective(c.b2)
    /\ Range(c.t1) \cap Range(c.t2) = {} /\ Range(c.t1) \cup Range(c.t2) = K
    /\ Range(c.t2) \subseteq R
    /\ Range(c.b1) \cap Range(c.b2) = {} /\ (Range(c.b1) \cup Range(c.b2)) \cap K = {}
    /\ Len(c.b1) <= num_blocks /\ Len(c.b2) <= num_blocks
=============================================================================
