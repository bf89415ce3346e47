-------------------------- MODULE ProtectingDistance --------------------------
(***************************************************************************)
(* The arithmetic of the PDP policy (core/evictor.py).  PDPEvictor,        *)
(* ShadowPolicyCache and LRUMLEvictor hold one copy each of the two        *)
(* methods below; they are the same function of the histogram of reuse     *)
(* distances, which counts for every bucketed distance how often a hash    *)
(* was seen again after that many epochs.                                  *)
(***************************************************************************)
EXTENDS Naturals, FiniteSets, FiniteSetsExt

CONSTANTS
  MaxDistance,       \* pdp_max_distance
  BucketSize,        \* pdp_bucket_size
  EvictionDistance   \* pdp_eviction_distance

ASSUME DistanceAssumption ==
  /\ MaxDistance \in Nat \ {0}
  /\ BucketSize \in Nat \ {0}
  /\ EvictionDistance \in Nat

Distances == 1 .. MaxDistance

\* _bucket_distance: clamp, then round up to a multiple of the bucket size.
BucketDistance(distance) ==
  LET d == Max({1, Min({distance, MaxDistance})})
  IN  IF BucketSize = 1
      THEN d
      ELSE Min({MaxDistance,
                ((d + BucketSize - 1) \div BucketSize) * BucketSize})

\* The distances the loop tries: range(1, max_distance + 1, bucket_size).
Candidates == {d \in Distances : (d - 1) % BucketSize = 0}

\* Hits that a protection of d epochs keeps, and the epochs it spends.
CumulativeHits(counts, d) ==
  LET upTo[r \in 0 .. d] == IF r = 0 THEN 0 ELSE upTo[r - 1] + counts[r]
  IN  upTo[d]
CumulativeCost(counts, d) ==
  LET upTo[r \in 0 .. d] == IF r = 0 THEN 0 ELSE upTo[r - 1] + r * counts[r]
  IN  upTo[d]

\* The score of candidate d, a fraction <<numerator, denominator>>.
Score(counts, total, d) ==
  LET hits   == CumulativeHits(counts, d)
      misses == Max({0, total - hits})
      denominator == CumulativeCost(counts, d) + misses * (d + EvictionDistance)
  IN  IF denominator > 0 THEN <<hits, denominator>> ELSE <<0, 1>>

AtLeast(x, y) == x[1] * y[2] >= y[1] * x[2]

\* _recompute_protecting_distance: the loop keeps the first candidate with the
\* highest score; without any reuse so far the distance stays as it is.
RecomputedDistance(counts, total, current) ==
  IF total = 0 \/ \A d \in Distances : counts[d] = 0
  THEN current
  ELSE LET score == [d \in Candidates |-> Score(counts, total, d)]
       IN  Min({d \in Candidates : \A e \in Candidates : AtLeast(score[d], score[e])})
=============================================================================
