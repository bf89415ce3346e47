----------------------- MODULE EvictionPolicyScheduler -----------------------
(***************************************************************************)
(* EvictionPolicyScheduler and its ShadowPolicyCaches (core/evictor.py).   *)
(*                                                                         *)
(* While the real cache runs the `ml' policy, every observe_stride-th      *)
(* access is replayed on one metadata-only shadow cache per traditional    *)
(* policy.  The first sampled access after the warm-up compares the real   *)
(* hit rate with the shadow hit rates and fixes the policy.                *)
(* reset_prefix_cache builds a new evictor, hence a new scheduler.         *)
(*                                                                         *)
(* Time is counted from the construction of the current scheduler and      *)
(* advances with every access (time.time() differs between two calls of    *)
(* observe).  Hit rates are exact fractions; where the code's floating     *)
(* point comparison is a tie, either outcome is possible.                  *)
(***************************************************************************)
EXTENDS Naturals, Sequences, FiniteSets, FiniteSetsExt, Functions, ProtectingDistance

CONSTANTS
  Hashes,            \* content hashes, ordered (ties are broken by hash)
  Capacity,          \* number of device blocks, from set_capacity
  ShadowPolicies,    \* scheduler_shadow_policies, a sequence without "ml"
  Warmup,            \* scheduler_warmup
  ObserveStride,     \* scheduler_observe_stride
  ModelSizeB,        \* model_size_b
  SmallThreshold,    \* scheduler_small_threshold, in units of 1/ThresholdUnit
  LargeThreshold,    \* scheduler_large_threshold, likewise
  ThresholdUnit,
  InitialPd,         \* pdp_initial_pd
  RecomputeInterval, \* pdp_recompute_interval
  Gaps,              \* time from one access to the next
  MaxResets          \* bound on reset_prefix_cache calls

Policies == {"lru", "rrip", "fifo", "pdp"}
Shadows == {ShadowPolicies[i] : i \in DOMAIN ShadowPolicies}

ASSUME SchedulerAssumption ==
  /\ Hashes \subseteq Nat
  /\ Capacity \in Nat
  /\ ShadowPolicies \in Seq(Policies) /\ ShadowPolicies # <<>>
  /\ Warmup \in Nat
  /\ Gaps \subseteq Nat \ {0}
  /\ {ObserveStride, ThresholdUnit, RecomputeInterval, InitialPd} \subseteq Nat \ {0}
  /\ {ModelSizeB, SmallThreshold, LargeThreshold, MaxResets} \subseteq Nat

VARIABLES
  now,            \* time since start_time
  finalized,
  currentPolicy,
  numObserved,    \* num_observed_accesses
  mlEvents,       \* ml_events: [hits, total]
  shadow,         \* shadow_caches, per policy
  sampled,        \* history: the hashes that were sampled
  resets          \* bounds the number of resets

vars == <<now, finalized, currentPolicy, numObserved, mlEvents, shadow, sampled,
          resets>>

RripMax == 3
RripInsert == RripMax - 1
RripHit == 0

-----------------------------------------------------------------------------
(* ShadowPolicyCache.  pdp_epoch and pdp_total_accesses both count accesses, *)
(* as `total' does.                                                         *)

Entry == [first : Nat, last : Nat, rrpv : 0 .. RripMax,
          protectedUntil : Nat, lastEpoch : Nat, reused : BOOLEAN]

\* table is a partial function from hashes to entries.
EmptyShadow ==
  [table |-> <<>>, hits |-> 0, total |-> 0, protecting |-> InitialPd,
   lastSeen |-> [h \in Hashes |-> 0], counts |-> [d \in Distances |-> 0]]

Before(x, y) ==
  \E i \in DOMAIN x : x[i] < y[i] /\ \A j \in 1 .. i - 1 : x[j] = y[j]

\* The hash whose key is lexicographically least.
LeastBy(key) ==
  CHOOSE h \in DOMAIN key : \A g \in DOMAIN key \ {h} : Before(key[h], key[g])

\* _pdp_victim_key; tiers 0 expired, 1 inserted, 2 reused.  Negated components
\* are offset by a large constant.
PdpVictimKey(c, h) ==
  LET e == c.table[h]
      big == c.total + c.protecting + MaxDistance + InitialPd
  IN  IF e.protectedUntil <= c.total
      THEN <<0, e.lastEpoch, e.last, h>>
      ELSE <<IF e.reused THEN 2 ELSE 1,
             big - (e.protectedUntil - c.total), big - e.lastEpoch, h>>

\* Mutated form: the loop does not stop at the first entry that reaches RripMax.
AgedToTheEnd(table) ==
  [h \in DOMAIN table |-> [table[h] EXCEPT !.rrpv = @ + RripMax]]

\* The aging loop of _rrip_victim runs until some entry reaches RripMax.
Aged(table) ==
  LET steps == RripMax - Max({table[h].rrpv : h \in DOMAIN table})
  IN  [h \in DOMAIN table |-> [table[h] EXCEPT !.rrpv = @ + steps]]

\* _evict: the victim of each policy, and the cache without it.
ShadowEvict(policy, c) ==
  LET table == IF policy = "rrip" THEN Aged(c.table) ELSE c.table
      all == DOMAIN table
      victim ==
        CASE policy = "fifo" -> LeastBy([h \in all |-> <<table[h].first, h>>])
          [] policy = "rrip" -> LeastBy([h \in {g \in all : table[g].rrpv >= RripMax} |->
                                          <<table[h].last, h>>])
          [] policy = "pdp"  -> LeastBy([h \in all |-> PdpVictimKey(c, h)])
          [] policy = "lru"  -> LeastBy([h \in all |-> <<table[h].last, h>>])
  IN  [c EXCEPT !.table = Restrict(table, all \ {victim})]

\* The PDP bookkeeping that precedes the lookup of an access.
PdpRecord(c, h) ==
  LET epoch == c.total + 1
      counts == IF c.lastSeen[h] = 0 THEN c.counts
                ELSE [c.counts EXCEPT ![BucketDistance(epoch - c.lastSeen[h])] = @ + 1]
  IN  [c EXCEPT !.lastSeen[h] = epoch,
                !.counts = counts,
                !.protecting = IF epoch % RecomputeInterval = 0
                               THEN RecomputedDistance(counts, epoch, @) ELSE @]

\* Mutated form: a hit does not refresh last_accessed.
ShadowHitKeepsTime(c, h, t) ==
  [c EXCEPT !.table[h].rrpv = RripHit]

\* A hit in the shadow table.
ShadowHit(c, h, t) ==
  [c EXCEPT !.table[h] = [@ EXCEPT !.last = t,
                                   !.rrpv = RripHit,
                                   !.protectedUntil = c.total + c.protecting,
                                   !.lastEpoch = c.total,
                                   !.reused = TRUE]]

\* Mutated form: evict only when the table is over its capacity.
ShadowInsertOverCapacity(policy, c, h, t) ==
  LET room == IF Cardinality(DOMAIN c.table) > Capacity
              THEN ShadowEvict(policy, c) ELSE c
      new == [first |-> t, last |-> t, rrpv |-> RripInsert,
              protectedUntil |-> c.total + c.protecting,
              lastEpoch |-> c.total, reused |-> FALSE]
  IN  IF Capacity = 0 THEN c
      ELSE [room EXCEPT !.table = [g \in DOMAIN @ \cup {h} |->
                                     IF g = h THEN new ELSE @[g]]]

\* A miss: make room, then insert.
ShadowInsert(policy, c, h, t) ==
  LET room == IF Cardinality(DOMAIN c.table) >= Capacity
              THEN ShadowEvict(policy, c) ELSE c
      new == [first |-> t, last |-> t, rrpv |-> RripInsert,
              protectedUntil |-> c.total + c.protecting,
              lastEpoch |-> c.total, reused |-> FALSE]
  IN  IF Capacity = 0 THEN c
      ELSE [room EXCEPT !.table = [g \in DOMAIN @ \cup {h} |->
                                     IF g = h THEN new ELSE @[g]]]

\* access(content_hash, now)
ShadowAccess(policy, c, h, t) ==
  LET hit == h \in DOMAIN c.table
      noted == IF policy = "pdp" THEN PdpRecord(c, h) ELSE c
      counted == [noted EXCEPT !.total = @ + 1, !.hits = IF hit THEN @ + 1 ELSE @]
  IN  IF hit THEN ShadowHit(counted, h, t)
      ELSE ShadowInsert(policy, counted, h, t)

-----------------------------------------------------------------------------
(* EvictionPolicyScheduler.                                                 *)

TypeOK ==
  /\ now \in Nat
  /\ finalized \in BOOLEAN
  /\ currentPolicy \in {"ml"} \cup Shadows
  /\ numObserved \in Nat
  /\ mlEvents \in [hits : Nat, total : Nat]
  /\ DOMAIN shadow = Shadows
  /\ \A p \in Shadows :
       /\ DOMAIN shadow[p].table \subseteq Hashes
       /\ \A h \in DOMAIN shadow[p].table : shadow[p].table[h] \in Entry
       /\ shadow[p].protecting \in Nat \ {0}
  /\ sampled \in Seq(Hashes)
  /\ resets \in 0 .. MaxResets

Fresh ==
  [now |-> 0, finalized |-> FALSE, currentPolicy |-> "ml", numObserved |-> 0,
   mlEvents |-> [hits |-> 0, total |-> 0],
   shadow |-> [p \in Shadows |-> EmptyShadow], sampled |-> <<>>]

Init ==
  /\ now = Fresh.now
  /\ finalized = Fresh.finalized
  /\ currentPolicy = Fresh.currentPolicy
  /\ numObserved = Fresh.numObserved
  /\ mlEvents = Fresh.mlEvents
  /\ shadow = Fresh.shadow
  /\ sampled = Fresh.sampled
  /\ resets = 0

Threshold == IF ModelSizeB <= 14 THEN SmallThreshold ELSE LargeThreshold

\* The first shadow policy, in configuration order, with the highest hit rate.
BestShadow(sh) ==
  LET best == {i \in DOMAIN ShadowPolicies : \A j \in DOMAIN ShadowPolicies :
                 sh[ShadowPolicies[i]].hits * sh[ShadowPolicies[j]].total
                   >= sh[ShadowPolicies[j]].hits * sh[ShadowPolicies[i]].total}
  IN  ShadowPolicies[Min(best)]

\* hit rate of ml minus (hit rate of c plus threshold), over one denominator.
MlSide(ml, c) == ml.hits * c.total * ThresholdUnit
ShadowSide(ml, c) ==
  c.hits * ml.total * ThresholdUnit + Threshold * ml.total * c.total

\* Mutated form: the threshold favours ml instead of its rivals.
FinalPoliciesBelow(ml, sh) ==
  LET best == BestShadow(sh)
  IN  IF MlSide(ml, sh[best]) + Threshold * ml.total * sh[best].total
           >= sh[best].hits * ml.total * ThresholdUnit
      THEN {"ml"} ELSE {best}

\* _finalize_policy: what it may choose (two choices only for a tie).
FinalPolicies(ml, sh) ==
  LET best == BestShadow(sh)
      events == {ml.total} \cup {sh[p].total : p \in Shadows}
      mine == MlSide(ml, sh[best])
      theirs == ShadowSide(ml, sh[best])
  IN  IF Min(events) = 0 THEN {"ml"}
      ELSE (IF mine >= theirs THEN {"ml"} ELSE {})
             \cup (IF mine <= theirs THEN {best} ELSE {})

\* A sampled access: one event for the real cache, one access of every shadow,
\* and the decision if the warm-up is over.
Sample(h, realHit) ==
  /\ mlEvents' = [hits  |-> mlEvents.hits + (IF realHit THEN 1 ELSE 0),
                  total |-> mlEvents.total + 1]
  /\ shadow' = [p \in Shadows |-> ShadowAccess(p, shadow[p], h, now')]
  /\ sampled' = Append(sampled, h)
  /\ IF now' >= Warmup
     THEN /\ currentPolicy' \in FinalPolicies(mlEvents', shadow')
          /\ finalized' = TRUE
     ELSE UNCHANGED <<finalized, currentPolicy>>

SkipSample == UNCHANGED <<finalized, currentPolicy, mlEvents, shadow, sampled>>

\* observe(content_hash, cache_hint, real_hit) with the scheduler enabled;
\* observe_cache_access does not call it any more once it has finalized.
Observe(h, realHit, elapsed) ==
  /\ ~finalized
  /\ now' = now + elapsed
  /\ numObserved' = numObserved + 1
  /\ UNCHANGED resets
  /\ IF numObserved' % ObserveStride # 0 THEN SkipSample ELSE Sample(h, realHit)

\* reset_prefix_cache replaces the evictor and with it the scheduler.
ResetPrefixCache ==
  /\ resets < MaxResets
  /\ resets' = resets + 1
  /\ now' = Fresh.now
  /\ finalized' = Fresh.finalized
  /\ currentPolicy' = Fresh.currentPolicy
  /\ numObserved' = Fresh.numObserved
  /\ mlEvents' = Fresh.mlEvents
  /\ shadow' = Fresh.shadow
  /\ sampled' = Fresh.sampled

Access == \E h \in Hashes, realHit \in BOOLEAN, elapsed \in Gaps :
            Observe(h, realHit, elapsed)

Next == Access \/ ResetPrefixCache

Spec == Init /\ [][Next]_vars

-----------------------------------------------------------------------------
(* Properties.                                                              *)

\* The shadow caches and the real cache are compared over the same sample: one
\* event each per sampled access, and no table outgrows the device.
SameSample ==
  /\ mlEvents.total = numObserved \div ObserveStride
  /\ \A p \in Shadows :
       /\ shadow[p].total = mlEvents.total
       /\ shadow[p].hits <= shadow[p].total
       /\ Cardinality(DOMAIN shadow[p].table) <= Capacity

\* Distinct hashes sampled at positions m+1 .. n.
Distinct(m, n) == {sampled[k] : k \in m + 1 .. n}

\* The hashes whose last access, among the first n, is followed by fewer than
\* Capacity other hashes: the content of an ideal LRU cache after n accesses.
IdealLRU(n) ==
  {h \in Distinct(0, n) : \E i \in 1 .. n :
     /\ sampled[i] = h
     /\ h \notin Distinct(i, n)
     /\ Cardinality(Distinct(i, n)) < Capacity}

\* The lru shadow, which only has time stamps to go by, is exactly an LRU cache
\* of the sampled accesses, in its content and in its hit count.
ShadowIsLRU ==
  "lru" \in Shadows =>
    /\ DOMAIN shadow["lru"].table = IdealLRU(Len(sampled))
    /\ shadow["lru"].hits =
         Cardinality({n \in DOMAIN sampled : sampled[n] \in IdealLRU(n - 1)})

\* The decision is the one the recorded hit rates call for: ml only if it leads
\* every shadow by the threshold, otherwise a shadow no other shadow beats and
\* that ml does not lead by more than the threshold.
DecisionJustified ==
  finalized =>
    IF currentPolicy = "ml"
    THEN \A p \in Shadows :
           MlSide(mlEvents, shadow[p]) >= ShadowSide(mlEvents, shadow[p])
    ELSE /\ \A p \in Shadows : shadow[p].hits <= shadow[currentPolicy].hits
         /\ MlSide(mlEvents, shadow[currentPolicy])
              <= ShadowSide(mlEvents, shadow[currentPolicy])
=============================================================================
