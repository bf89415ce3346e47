----------------------------- MODULE LRUMLEvictor -----------------------------
(***************************************************************************)
(* LRUMLEvictor (core/evictor.py): the evictor behind the policies ml,     *)
(* lru, rrip, fifo, belady and, once the scheduler has chosen it, pdp.     *)
(*                                                                         *)
(* It keeps the resident blocks twice: in free_table, by block id, and in  *)
(* sorted_dict, by (score, last_accessed, block id), a copy of what the    *)
(* score was when the entry was made.  _refresh adds a list of outdated    *)
(* blocks, and evict() takes its victim from that list before it looks at  *)
(* the scores.  Entries of both go stale and are filtered when used.       *)
(*                                                                         *)
(* The loop of evict() is modelled step by step: `evicting' is true while  *)
(* it runs.  A score that comes from the predictor (ml) or from a trace    *)
(* (belady) is any member of Scores each time it is computed; the          *)
(* protecting distance that pdp learns is any distance.                    *)
(***************************************************************************)
EXTENDS Integers, Sequences, SequencesExt, FiniteSets, FiniteSetsExt

CONSTANTS
  BlockIds,          \* block ids; equal keys are ordered by id
  Hashes,            \* content hashes
  Conversations,     \* cache_hint['id'], ordered
  Workloads,         \* ways to run the evictor: see workload
  FinalChoices,      \* what the scheduler may settle on
  Scores,            \* predicted scores
  Distances,         \* protecting distances
  MaxTime,           \* largest bound on the clock
  MaxEpoch,          \* bound on pdp_request_epoch
  MaxOutdated,       \* largest bound on the length of to_delete_blocks
  None

AllKinds == {"plain", "use_lru", "use_rrip", "use_fifo", "next_timestamp"}
Policies == {"ml", "lru", "rrip", "fifo", "pdp", "belady"}

Hint == [id : Conversations, kind : AllKinds, bound : Policies \cup {None}]
Time == 0 .. MaxTime

\* BlockMetaData
Metadata == [hash : Hashes, last : Time, hint : Hint, score : Int]

ASSUME EvictorAssumption ==
  /\ BlockIds \subseteq Nat /\ IsFiniteSet(BlockIds)
  /\ Conversations \subseteq Nat
  /\ Workloads \subseteq [scheduler : BOOLEAN, kinds : SUBSET AllKinds,
                           hashes : SUBSET Hashes, scores : SUBSET Scores,
                           maxTime : 1 .. MaxTime, maxOutdated : 0 .. MaxOutdated]
  /\ FinalChoices \subseteq Policies \ {"belady"}
  /\ Scores \subseteq Int
  /\ Distances \subseteq Nat \ {0}
  /\ \E least, largest \in Distances : Distances \subseteq least .. largest
  /\ {MaxTime, MaxEpoch, MaxOutdated} \subseteq Nat /\ MaxTime > 0
  /\ None \notin Nat \cup Hashes \cup Policies \cup Metadata

VARIABLES
  workload,     \* fixed when the evictor is built: enable_scheduler; then, of the
                \* environment, the kinds of cache_hint and the contents of
                \* requests, predicted scores, and the bounds on the clock and on
                \* the length of to_delete_blocks
  freeTable,    \* free_table: BlockMetaData of every resident block
  sortedDict,   \* sorted_dict: the items, see Item
  lastAccess,   \* id_to_last_access
  firstAccess,  \* id_to_first_access
  rripValues,   \* rrip_values
  toDelete,     \* to_delete_blocks
  pdp,          \* the pdp_* fields
  policy,       \* scheduler.current_policy
  finalized,    \* scheduler.finalized
  evicting,     \* inside the loop of evict()
  lost,         \* blocks that evict() reported under another hash
  failed,       \* an exception was raised
  now,          \* time of the current scheduling pass
  content,      \* environment: what every block of the device is cached for
  reusedAt      \* environment: time of the latest eviction of every block

evictorVars == <<freeTable, sortedDict, lastAccess, firstAccess, rripValues,
                 toDelete, pdp, policy, finalized>>
vars == <<workload, evictorVars, evicting, lost, failed, now, content, reusedAt>>

RripMax == 3
RripInsert == RripMax - 1
RripHit == 0

Resident(ft) == {b \in BlockIds : ft[b] # None}

TypeOK ==
  /\ workload \in Workloads
  /\ freeTable \in [BlockIds -> Metadata \cup {None}]
  /\ sortedDict \subseteq [score : Int, last : Time, id : BlockIds, hash : Hashes]
  /\ lastAccess \in [Conversations -> Time \cup {None}]
  /\ firstAccess \in [BlockIds -> Time \cup {None}]
  /\ rripValues \in [BlockIds -> 0 .. RripMax \cup {None}]
  /\ toDelete \in Seq([id : BlockIds, hash : Hashes, last : Time])
  /\ pdp \in [epoch : 0 .. MaxEpoch, distance : Distances,
              lastSeen : [Hashes -> Nat \cup {None}], until : [BlockIds -> Nat],
              lastEpoch : [BlockIds -> Nat], reused : [BlockIds -> BOOLEAN],
              map : [Hashes -> BlockIds \cup {None}]]
  /\ policy \in Policies
  /\ finalized \in BOOLEAN /\ evicting \in BOOLEAN /\ failed \in BOOLEAN
  /\ lost \subseteq BlockIds
  /\ now \in 1 .. MaxTime
  /\ content \in [BlockIds -> Hashes \cup {None}]
  /\ reusedAt \in [BlockIds -> Nat]

Init ==
  /\ workload \in Workloads
  /\ freeTable = [b \in BlockIds |-> None]
  /\ sortedDict = {}
  /\ lastAccess = [c \in Conversations |-> None]
  /\ firstAccess = [b \in BlockIds |-> None]
  /\ rripValues = [b \in BlockIds |-> None]
  /\ toDelete = <<>>
  /\ pdp = [epoch |-> 0, distance |-> Min(Distances),
            lastSeen |-> [h \in Hashes |-> None],
            until |-> [b \in BlockIds |-> 0],
            lastEpoch |-> [b \in BlockIds |-> 0],
            reused |-> [b \in BlockIds |-> FALSE],
            map |-> [h \in Hashes |-> None]]
  /\ policy = "ml"
  /\ finalized = FALSE
  /\ evicting = FALSE
  /\ lost = {}
  /\ failed = FALSE
  /\ now = 1
  /\ content = [b \in BlockIds |-> None]
  /\ reusedAt = [b \in BlockIds |-> 0]

-----------------------------------------------------------------------------
(* Policies and scores.                                                     *)

\* get_policy
GetPolicy(hint, current) ==
  CASE hint.kind = "use_rrip" -> "rrip"
    [] hint.kind = "use_lru"  -> "lru"
    [] hint.kind = "use_fifo" -> "fifo"
    [] hint.kind \in {"plain", "next_timestamp"} ->
         IF hint.bound # None THEN hint.bound
         ELSE IF workload.scheduler THEN current
         ELSE IF hint.kind = "next_timestamp" THEN "belady"
         ELSE "ml"

PolicyOf(b) == GetPolicy(freeTable[b].hint, policy)

\* _bind_scheduler_policy
BindSchedulerPolicy(hint) ==
  IF workload.scheduler /\ hint.kind \in {"plain", "next_timestamp"} /\ hint.bound = None
  THEN [hint EXCEPT !.bound = policy]
  ELSE hint

\* _pdp_score: the three tiers, far apart.
Tier == 10 * (MaxEpoch + Max(Distances) + 1)
PdpScore(p, b) ==
  LET remaining == p.until[b] - p.epoch
  IN  IF remaining <= 0 THEN -3 * Tier + p.lastEpoch[b]
      ELSE IF p.reused[b] THEN -Tier - remaining ELSE -2 * Tier - remaining

\* Mutated form: an expired block is compared like a protected one.
PdpVictimKeyNoExpiry(p, b) ==
  <<1, IF p.reused[b] THEN 1 ELSE 0, p.epoch - p.until[b], -p.lastEpoch[b], b>>

\* _pdp_victim_key, padded to one length.
PdpVictimKey(p, b) ==
  LET remaining == p.until[b] - p.epoch
  IN  IF remaining <= 0
      THEN <<0, p.lastEpoch[b], freeTable[b].last, b, 0>>
      ELSE <<1, IF p.reused[b] THEN 1 ELSE 0, -remaining, -p.lastEpoch[b], b>>

Before(x, y) ==
  \E i \in DOMAIN x : x[i] < y[i] /\ \A j \in 1 .. i - 1 : x[j] = y[j]

\* calc_score; predicted is the prediction for this call.
CalcScore(b, last, pol, rrip, first, p, predicted) ==
  CASE pol = "rrip" -> -(IF rrip[b] = None THEN RripInsert ELSE rrip[b])
    [] pol = "lru"  -> last
    [] pol = "fifo" -> first[b]
    [] pol = "pdp"  -> PdpScore(p, b)
    [] pol \in {"ml", "belady"} -> predicted

Item(b, m) == [score |-> m.score, last |-> m.last, id |-> b, hash |-> m.hash]

ItemKey(e) == <<e.score, e.last, e.id>>

\* sorted_dict[key] = value
PutItem(items, e) == {x \in items : ItemKey(x) # ItemKey(e)} \cup {e}

\* _rebuild_sorted_dict of table ft under policy `current': the new table, and
\* the items of a table.
Rescored(ft, current, rrip, first, p, predicted) ==
  [b \in BlockIds |->
     IF ft[b] = None THEN None
     ELSE [ft[b] EXCEPT !.score = CalcScore(b, ft[b].last, GetPolicy(ft[b].hint, current),
                                            rrip, first, p, predicted[b])]]
ItemsOf(ft) == {Item(b, ft[b]) : b \in Resident(ft)}

\* _remove_from_sorted_dict, which raises when the item is missing.
HasItem(b) == \E e \in sortedDict : ItemKey(e) = ItemKey(Item(b, freeTable[b]))
WithoutItem(b) == {e \in sortedDict : ItemKey(e) # ItemKey(Item(b, freeTable[b]))}

\* pdp bookkeeping for a block that leaves the table under pdp.
PdpForget(p, b, h) ==
  [p EXCEPT !.map[h] = IF @ = b THEN None ELSE @,
            !.until[b] = 0, !.lastEpoch[b] = 0, !.reused[b] = FALSE]

\* _pdp_protect_block
PdpProtect(p, b, reused) ==
  [p EXCEPT !.until[b] = p.epoch + p.distance,
            !.lastEpoch[b] = p.epoch,
            !.reused[b] = @ \/ reused]

-----------------------------------------------------------------------------
(* Operations.                                                              *)

Idle == ~evicting /\ ~failed
Raise == failed' = TRUE /\ UNCHANGED <<evictorVars, evicting, lost, content, reusedAt>>

\* The blocks _refresh finds outdated in table ft: their conversation has been
\* accessed since.  rrip and pdp blocks are exempt.
Outdated(ft, last) ==
  {b \in Resident(ft) : /\ GetPolicy(ft[b].hint, policy) \notin {"rrip", "pdp"}
                        /\ last[ft[b].hint.id] # ft[b].last}

\* Ways to list them, oldest first, by conversation among equals.
OutdatedLists(ft, last) ==
  {s \in SetToSeqs(Outdated(ft, last)) :
     \A i, j \in DOMAIN s : i < j =>
       ~Before(<<ft[s[j]].last, ft[s[j]].hint.id>>, <<ft[s[i]].last, ft[s[i]].hint.id>>)}

\* add(block_id, content_hash, num_hashed_tokens, last_accessed, cache_hint), by
\* the allocator when the last user of a cached block is gone, with a refresh
\* when the last one is long enough ago.
Add(b, h, ts, hint, refresh, predicted) ==
  LET bound == BindSchedulerPolicy(hint)
      pol   == GetPolicy(bound, policy)
      rrip  == IF pol = "rrip" /\ rripValues[b] = None
               THEN [rripValues EXCEPT ![b] = RripInsert] ELSE rripValues
      p     == IF pol # "pdp" THEN pdp
               ELSE [pdp EXCEPT !.until[b] = pdp.epoch + pdp.distance,
                                !.lastEpoch[b] = IF pdp.lastSeen[h] = None
                                                 THEN pdp.epoch ELSE pdp.lastSeen[h],
                                !.reused[b] = pdp.lastSeen[h] # None,
                                !.map[h] = b]
      first == IF firstAccess[b] = None
               THEN [firstAccess EXCEPT ![b] = ts] ELSE firstAccess
      meta  == [hash |-> h, last |-> ts, hint |-> bound,
                score |-> CalcScore(b, ts, pol, rrip, first, p, predicted[b])]
      ft    == [freeTable EXCEPT ![b] = meta]
      last  == [lastAccess EXCEPT ![hint.id] = ts]
  IN  /\ Idle
      /\ freeTable[b] = None
      /\ content[b] \in {None, h}
      /\ \A c \in BlockIds \ {b} : content[c] # h
      /\ ts > reusedAt[b]
      /\ content' = [content EXCEPT ![b] = h]
      /\ rripValues' = rrip
      /\ pdp' = p
      /\ firstAccess' = first
      /\ lastAccess' = last
      /\ IF refresh
         THEN \E list \in OutdatedLists(ft, last) :
                /\ Len(toDelete) + Len(list) <= workload.maxOutdated
                /\ freeTable' = Rescored(ft, policy, rrip, first, p, predicted)
                /\ sortedDict' = ItemsOf(freeTable')
                /\ toDelete' = toDelete \o [i \in DOMAIN list |->
                     [id |-> list[i], hash |-> ft[list[i]].hash, last |-> ft[list[i]].last]]
         ELSE /\ freeTable' = ft
              /\ sortedDict' = PutItem(sortedDict, Item(b, meta))
              /\ UNCHANGED toDelete
      /\ UNCHANGED <<policy, finalized, evicting, lost, failed, now, reusedAt>>

\* Mutated form: the metadata changes, the item stays.
UpdateInPlace(b, ts, hint, predicted) ==
  /\ Idle
  /\ freeTable[b] # None
  /\ ts > reusedAt[b]
  /\ freeTable' = [freeTable EXCEPT ![b].last = ts, ![b].hint = BindSchedulerPolicy(hint)]
  /\ lastAccess' = [lastAccess EXCEPT ![hint.id] = ts]
  /\ UNCHANGED <<sortedDict, rripValues, pdp, firstAccess, toDelete, policy, finalized,
                 evicting, lost, failed, now, content, reusedAt>>

\* update(block_id, last_accessed, cache_hint) of a resident block.
Update(b, ts, hint, predicted) ==
  LET bound == BindSchedulerPolicy(hint)
      pol   == GetPolicy(bound, policy)
      rrip  == IF pol = "rrip" THEN [rripValues EXCEPT ![b] = RripHit] ELSE rripValues
      p     == IF pol = "pdp" THEN PdpProtect(pdp, b, TRUE) ELSE pdp
      meta  == [freeTable[b] EXCEPT !.last = ts, !.hint = bound,
                  !.score = CalcScore(b, ts, pol, rrip, firstAccess, p, predicted[b])]
  IN  /\ Idle
      /\ freeTable[b] # None
      /\ ts > reusedAt[b]
      /\ UNCHANGED now
      /\ IF HasItem(b)
         THEN /\ rripValues' = rrip
              /\ pdp' = p
              /\ freeTable' = [freeTable EXCEPT ![b] = meta]
              /\ sortedDict' = PutItem(WithoutItem(b), Item(b, meta))
              /\ lastAccess' = [lastAccess EXCEPT ![hint.id] = ts]
              /\ UNCHANGED <<firstAccess, toDelete, policy, finalized, evicting,
                             lost, failed, content, reusedAt>>
         ELSE Raise

\* The rrip value of a block that is hit.  Mutated form: one less each time.
HitCountsDown(rrip, b) == [rrip EXCEPT ![b] = @ - 1]

HitValue(rrip, b) == [rrip EXCEPT ![b] = RripHit]

\* remove(block_id): the block is hit; it comes back with the same content.
RemoveHit(b) ==
  /\ Idle
  /\ freeTable[b] # None
  /\ UNCHANGED now
  /\ IF HasItem(b)
     THEN /\ rripValues' = IF PolicyOf(b) = "rrip"
                           THEN HitValue(rripValues, b) ELSE rripValues
          /\ pdp' = IF PolicyOf(b) = "pdp"
                    THEN PdpForget(pdp, b, freeTable[b].hash) ELSE pdp
          /\ sortedDict' = WithoutItem(b)
          /\ freeTable' = [freeTable EXCEPT ![b] = None]
          /\ UNCHANGED <<lastAccess, firstAccess, toDelete, policy, finalized,
                         evicting, lost, failed, content, reusedAt>>
     ELSE Raise

\* The end of evict(): block b leaves, and the caller is told hash h.
Evicts(b, h) ==
  /\ freeTable' = [freeTable EXCEPT ![b] = None]
  /\ firstAccess' = [firstAccess EXCEPT ![b] = None]
  /\ evicting' = FALSE
  /\ lost' = IF h = freeTable[b].hash THEN lost ELSE lost \cup {b}
  /\ content' = [content EXCEPT ![b] = None]
  /\ reusedAt' = [reusedAt EXCEPT ![b] = now]
  /\ UNCHANGED <<lastAccess, policy, finalized, failed, now>>

\* evict(), which is only called with a resident block.  The policy of the
\* first block of free_table decides which branch is taken; which block is the
\* first is left open.
EvictByPdp ==
  /\ Idle
  /\ \E sample \in Resident(freeTable) : PolicyOf(sample) = "pdp"
  /\ \E b \in Resident(freeTable) :
       /\ \A c \in Resident(freeTable) \ {b} : Before(PdpVictimKey(pdp, b), PdpVictimKey(pdp, c))
       /\ IF HasItem(b)
          THEN /\ sortedDict' = WithoutItem(b)
               /\ pdp' = PdpForget(pdp, b, freeTable[b].hash)
               /\ Evicts(b, freeTable[b].hash)
               /\ UNCHANGED <<rripValues, toDelete>>
          ELSE Raise /\ UNCHANGED now

EvictBegin ==
  /\ Idle
  /\ \E sample \in Resident(freeTable) : PolicyOf(sample) # "pdp"
  /\ evicting' = TRUE
  /\ UNCHANGED <<evictorVars, lost, failed, now, content, reusedAt>>

\* Mutated form: the rrip value outlives the content.
KeepRrip(b) == rripValues

\* The rrip value of a victim is dropped.
ForgetRrip(b) ==
  IF PolicyOf(b) = "rrip" THEN [rripValues EXCEPT ![b] = None] ELSE rripValues

\* Mutated form: any resident block of that id is accepted.
StillResident(d) == freeTable[d.id] # None

\* An entry of to_delete_blocks is used if the block has not been accessed since.
StillListed(d) == freeTable[d.id] # None /\ freeTable[d.id].last = d.last

\* One round of the loop while to_delete_blocks is not empty.
EvictOutdated ==
  /\ evicting
  /\ toDelete # <<>>
  /\ toDelete' = Front(toDelete)
  /\ UNCHANGED <<sortedDict, pdp>>
  /\ LET d == toDelete[Len(toDelete)]
     IN  IF StillListed(d)
         THEN /\ rripValues' = ForgetRrip(d.id)
              /\ Evicts(d.id, d.hash)
         ELSE UNCHANGED <<freeTable, lastAccess, firstAccess, rripValues, policy,
                          finalized, evicting, lost, failed, now, content, reusedAt>>

\* What _peek_valid_candidate accepts.
Valid(e) ==
  /\ freeTable[e.id] # None
  /\ freeTable[e.id].score = e.score
  /\ freeTable[e.id].last = e.last

\* Mutated form: aging stops at the insertion value.
AgedToInsert ==
  [b \in BlockIds |->
     IF freeTable[b] = None \/ PolicyOf(b) # "rrip" THEN rripValues[b]
     ELSE Min({RripInsert, 1 + IF rripValues[b] = None THEN RripInsert ELSE rripValues[b]})]

\* _age_rrip_blocks
Aged ==
  [b \in BlockIds |->
     IF freeTable[b] = None \/ PolicyOf(b) # "rrip" THEN rripValues[b]
     ELSE Min({RripMax, 1 + IF rripValues[b] = None THEN RripInsert ELSE rripValues[b]})]

\* One round of the loop on the scores: take the least valid item, dropping the
\* stale ones before it; an rrip block that is not due ages all rrip blocks.
EvictLeast(predicted) ==
  /\ evicting
  /\ toDelete = <<>>
  /\ UNCHANGED <<toDelete, pdp>>
  /\ IF \A e \in sortedDict : ~Valid(e)
     THEN /\ failed' = TRUE
          /\ evicting' = FALSE
          /\ sortedDict' = {}
          /\ UNCHANGED <<freeTable, lastAccess, firstAccess, rripValues, policy,
                         finalized, lost, now, content, reusedAt>>
     ELSE \E e \in {x \in sortedDict : Valid(x)} :
            /\ \A x \in sortedDict \ {e} : Valid(x) => Before(ItemKey(e), ItemKey(x))
            /\ IF PolicyOf(e.id) = "rrip" /\ rripValues[e.id] # RripMax
               THEN /\ rripValues' = Aged
                    /\ freeTable' = Rescored(freeTable, policy, Aged, firstAccess, pdp, predicted)
                    /\ sortedDict' = ItemsOf(freeTable')
                    /\ UNCHANGED <<lastAccess, firstAccess, policy, finalized, evicting,
                                   lost, failed, now, content, reusedAt>>
               ELSE /\ sortedDict' = {x \in sortedDict : Before(ItemKey(e), ItemKey(x))}
                    /\ rripValues' = ForgetRrip(e.id)
                    /\ Evicts(e.id, e.hash)

\* Mutated form: a policy that was bound at insertion stays.
ReboundOnce(hint, choice) == IF hint.bound = None THEN [hint EXCEPT !.bound = choice] ELSE hint

\* The hint of a resident block after the switch: no use_* flag, the new policy.
Rebound(hint, choice) ==
  [hint EXCEPT !.kind = IF @ = "next_timestamp" THEN @ ELSE "plain", !.bound = choice]

\* observe_cache_access when the scheduler finalizes: it settles on a policy, and
\* _rebind_scheduler_policy_for_existing_blocks moves every resident block to it.
\* The protecting distance is seeded by what the pdp shadow learned.
Finalize(choice, distance, predicted) ==
  LET hints == [b \in BlockIds |->
                  IF freeTable[b] = None THEN None
                  ELSE [freeTable[b] EXCEPT !.hint = Rebound(@, choice)]]
      all   == Resident(freeTable)
      rrip  == [b \in BlockIds |-> IF choice = "rrip" /\ b \in all THEN RripInsert ELSE None]
      p     == IF choice # "pdp" THEN pdp
               ELSE [pdp EXCEPT
                 !.distance  = distance,
                 !.until     = [b \in BlockIds |-> IF b \in all THEN pdp.epoch + distance ELSE @[b]],
                 !.lastEpoch = [b \in BlockIds |-> IF b \in all THEN pdp.epoch ELSE @[b]],
                 !.reused    = [b \in BlockIds |-> b \in all \/ @[b]],
                 !.map       = [h \in Hashes |->
                                  IF \E b \in all : freeTable[b].hash = h
                                  THEN CHOOSE b \in all : freeTable[b].hash = h ELSE None]]
  IN  /\ Idle
      /\ workload.scheduler /\ ~finalized
      /\ finalized' = TRUE
      /\ policy' = choice
      /\ rripValues' = rrip
      /\ pdp' = p
      /\ toDelete' = <<>>
      /\ freeTable' = Rescored(hints, choice, rrip, firstAccess, p, predicted)
      /\ sortedDict' = ItemsOf(freeTable')
      /\ UNCHANGED <<lastAccess, firstAccess, evicting, lost, failed, now, content, reusedAt>>

\* observe_cache_access once pdp has been chosen (_pdp_observe).
PdpObserve(h, realHit, distance) ==
  LET seen == [pdp EXCEPT !.epoch = @ + 1, !.lastSeen[h] = pdp.epoch + 1]
      b    == pdp.map[h]
      kept == IF b = None \/ freeTable[b] = None THEN seen
              ELSE PdpProtect(seen, b, realHit \/ pdp.lastSeen[h] # None)
  IN  /\ Idle
      /\ finalized /\ policy = "pdp"
      /\ pdp.epoch < MaxEpoch
      /\ pdp' = [kept EXCEPT !.distance = distance]
      /\ UNCHANGED <<freeTable, sortedDict, lastAccess, firstAccess, rripValues,
                     toDelete, policy, finalized, evicting, lost, failed, now,
                     content, reusedAt>>

\* The next scheduling pass.
Tick ==
  /\ Idle
  /\ now < workload.maxTime
  /\ now' = now + 1
  /\ UNCHANGED <<evictorVars, evicting, lost, failed, content, reusedAt>>

RequestHints == [id : Conversations, kind : workload.kinds, bound : {None}]
Predictions == [BlockIds -> workload.scores]

EvictStep == EvictOutdated \/ \E f \in Predictions : EvictLeast(f)

EvictorNext ==
  \/ \E b \in BlockIds, h \in workload.hashes, ts \in 1 .. now, hint \in RequestHints,
        refresh \in BOOLEAN, f \in Predictions : Add(b, h, ts, hint, refresh, f)
  \/ \E b \in BlockIds, ts \in 1 .. now, hint \in RequestHints, f \in Predictions :
        Update(b, ts, hint, f)
  \/ \E b \in BlockIds : RemoveHit(b)
  \/ EvictByPdp
  \/ EvictBegin
  \/ EvictOutdated
  \/ \E f \in Predictions : EvictLeast(f)
  \/ \E c \in FinalChoices, d \in Distances, f \in Predictions : Finalize(c, d, f)
  \/ \E h \in workload.hashes, hit \in BOOLEAN, d \in Distances : PdpObserve(h, hit, d)
  \/ Tick

Next == EvictorNext /\ UNCHANGED workload

SafeSpec == Init /\ [][Next]_vars

\* evict() runs on one thread, which does not stop inside the loop.
Spec == SafeSpec /\ WF_vars(EvictStep /\ UNCHANGED workload)

-----------------------------------------------------------------------------
(* Properties.                                                              *)

\* The two copies agree where it matters: every resident block has its item, a
\* valid item carries the hash the block is cached for, and everything calc_score
\* and _refresh look up is there; so no method raises, and evict() finds a victim
\* whenever a block is resident, whatever has gone stale.
TablesAgree ==
  /\ ~failed
  /\ \A b \in Resident(freeTable) :
       /\ HasItem(b)
       /\ freeTable[b].hash = content[b]
       /\ firstAccess[b] # None
       /\ lastAccess[freeTable[b].hint.id] # None
  /\ \A e \in sortedDict : Valid(e) => e.hash = freeTable[e.id].hash

\* What evict() reports is the content of the block it takes, also when the
\* victim comes from the list of outdated blocks: the allocator drops, and so
\* loses, a block that is reported under another hash.
ReportsOwnHash == lost = {}

Evicted(b) == content[b] # None /\ content'[b] = None

\* When the scores decide and one policy governs all resident blocks, the victim
\* is the one that policy names, whatever was added, hit, aged or refreshed before.
VictimByPolicy ==
  [][\A b \in BlockIds : Evicted(b) /\ toDelete = <<>> =>
       LET others == Resident(freeTable) \ {b}
       IN  (\A c \in others : PolicyOf(c) = PolicyOf(b)) =>
             \A c \in others :
               CASE PolicyOf(b) = "lru"  -> freeTable[b].last <= freeTable[c].last
                 [] PolicyOf(b) = "fifo" -> firstAccess[b] <= firstAccess[c]
                 [] PolicyOf(b) = "rrip" -> /\ rripValues[b] = RripMax
                                            /\ rripValues[c] = RripMax =>
                                                 freeTable[b].last <= freeTable[c].last
                 [] PolicyOf(b) = "pdp"  -> pdp.until[b] > pdp.epoch =>
                                              /\ pdp.until[c] > pdp.epoch
                                              /\ pdp.reused[b] => pdp.reused[c]
                 [] OTHER -> freeTable[b].score <= freeTable[c].score]_vars

\* Under rrip a block that holds new content starts at the insertion value: what
\* an earlier content earned or lost is forgotten.  With per-request hints this
\* does not hold: a block hit under rrip and then evicted under lru keeps its value.
FreshStartsLong ==
  [][\A b \in BlockIds :
       workload.scheduler /\ content[b] = None /\ content'[b] # None
         /\ GetPolicy(freeTable'[b].hint, policy') = "rrip" =>
       rripValues'[b] = RripInsert]_vars

\* pdp's reverse map names the resident blocks, each under its own hash.
PdpMapExact ==
  finalized /\ policy = "pdp" =>
    \A h \in Hashes, b \in BlockIds :
      pdp.map[h] = b <=> freeTable[b] # None /\ freeTable[b].hash = h

\* Once the scheduler has decided, every resident block is governed by its
\* choice, also the blocks that were in use when it decided; when the choice is
\* pdp, they are in its reverse map, and no others.
AllRebound ==
  /\ finalized => \A b \in Resident(freeTable) : PolicyOf(b) = policy
  /\ PdpMapExact

\* evict() returns: the loop drains the outdated list and ages at most three
\* times.
EvictReturns == evicting ~> ~evicting

=============================================================================
