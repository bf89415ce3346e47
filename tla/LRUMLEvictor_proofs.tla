------------------------- MODULE LRUMLEvictor_proofs -------------------------
(***************************************************************************)
(* The two copies of the resident blocks in LRUMLEvictor agree, evict()    *)
(* reports the content of its victim and takes the victim that the policy  *)
(* names, for any number of blocks, contents, conversations and scores.    *)
(*                                                                         *)
(* IndInv holds whatever the requests ask for.  GovInv adds what is true   *)
(* while requests leave the choice of the policy to the scheduler.         *)
(***************************************************************************)
EXTENDS LRUMLEvictor, FiniteSetTheorems, SequenceTheorems, TLAPS

-----------------------------------------------------------------------------
(* The inductive invariant.                                                 *)

Items == [score : Int, last : Time, id : BlockIds, hash : Hashes]
Entries == [id : BlockIds, hash : Hashes, last : Time]
PdpStates ==
  [epoch : 0 .. MaxEpoch, distance : Distances,
   lastSeen : [Hashes -> Nat \cup {None}], until : [BlockIds -> Nat],
   lastEpoch : [BlockIds -> Nat], reused : [BlockIds -> BOOLEAN],
   map : [Hashes -> BlockIds \cup {None}]]
RripStates == [BlockIds -> 0 .. RripMax \cup {None}]
Times == [BlockIds -> Time \cup {None}]
Tables == [BlockIds -> Metadata \cup {None}]

\* Every resident block has its item, and an item that looks valid is its block's.
ItemsAgree(ft, items) ==
  /\ \A b \in Resident(ft) : Item(b, ft[b]) \in items
  /\ \A e \in items :
       ft[e.id] # None /\ ft[e.id].score = e.score /\ ft[e.id].last = e.last =>
         e.hash = ft[e.id].hash

\* A resident block: cached for its content, accessed since it got that content,
\* and known to the tables that scores and refreshes look up.
Kept ==
  \A b \in Resident(freeTable) :
    /\ freeTable[b].hash = content[b]
    /\ reusedAt[b] < freeTable[b].last /\ freeTable[b].last <= now
    /\ firstAccess[b] # None
    /\ lastAccess[freeTable[b].hint.id] # None

\* The score of a block is the one of its policy.
ScoreFits(ft, current, rrip, first, b) ==
  LET pol == GetPolicy(ft[b].hint, current)
  IN  /\ pol = "lru" => ft[b].score = ft[b].last
      /\ pol = "fifo" => ft[b].score = first[b]
      /\ pol = "rrip" => rrip[b] # None /\ ft[b].score = -rrip[b]

Scored ==
  \A b \in Resident(freeTable) : ScoreFits(freeTable, policy, rripValues, firstAccess, b)

\* An entry of the list of outdated blocks is about what its block still holds, or
\* older than the latest eviction of its block.
Dated ==
  \A i \in 1 .. Len(toDelete) :
    /\ toDelete[i].last <= now
    /\ \/ content[toDelete[i].id] = toDelete[i].hash
       \/ toDelete[i].last <= reusedAt[toDelete[i].id]

\* No content is cached in two blocks.
Unique ==
  \A b, c \in BlockIds : content[b] = content[c] /\ content[b] # None => b = c

\* The loop of evict() has a block to find.
Loop == evicting => \E b \in Resident(freeTable) : PolicyOf(b) # "pdp"

IndInv ==
  /\ TypeOK
  /\ ItemsAgree(freeTable, sortedDict)
  /\ Kept
  /\ Scored
  /\ Dated
  /\ Unique
  /\ Loop
  /\ ~failed
  /\ lost = {}

\* With the scheduler, requests do not name a policy.
HintsLeaveChoice ==
  workload.scheduler => workload.kinds \subseteq {"plain", "next_timestamp"}

\* With the scheduler, its current policy governs all resident blocks; only rrip
\* leaves rrip values, on blocks that hold something; under pdp the list of
\* outdated blocks is empty, the loop does not run and the reverse map is exact.
GovInv ==
  /\ HintsLeaveChoice
  /\ finalized => workload.scheduler
  /\ ~finalized => policy = "ml"
  /\ workload.scheduler =>
       /\ \A b \in Resident(freeTable) : PolicyOf(b) = policy
       /\ \A b \in BlockIds : rripValues[b] # None => policy = "rrip" /\ content[b] # None
  /\ finalized /\ policy = "pdp" => toDelete = <<>> /\ ~evicting
  /\ PdpMapExact

-----------------------------------------------------------------------------
(* Policies, scores and items.                                              *)

\* What None is not, and the types of the constants.
LEMMA Constants ==
  /\ MaxTime \in Nat \ {0} /\ Time \subseteq Nat /\ 1 .. MaxTime \subseteq Time
  /\ None \notin Nat /\ None \notin Hashes /\ None \notin Policies /\ None \notin Metadata
  /\ Distances \subseteq Nat \ {0} /\ MaxEpoch \in Nat /\ BlockIds \subseteq Nat
  /\ FinalChoices \subseteq Policies
BY EvictorAssumption DEF Time

\* Times are numbers.
LEMMA TimeType ==
  /\ MaxTime \in Nat \ {0}
  /\ \A t \in Time : t \in Nat /\ t \in Int /\ t # None
  /\ \A t \in 1 .. MaxTime : t \in Time
BY Constants DEF Time

\* The requests of a workload are of the right types.
LEMMA Requests ==
  ASSUME TypeOK
  PROVE  /\ RequestHints \subseteq Hint
         /\ \A hint \in RequestHints : hint.bound = None /\ hint.kind \in workload.kinds
         /\ Predictions \subseteq [BlockIds -> Int]
         /\ workload.hashes \subseteq Hashes
         /\ workload.scheduler \in BOOLEAN
         /\ workload.maxTime <= MaxTime
<1>1. /\ workload.kinds \subseteq AllKinds /\ workload.scores \subseteq Int
      /\ workload.hashes \subseteq Hashes /\ workload.scheduler \in BOOLEAN
      /\ workload.maxTime <= MaxTime
  <2>1. workload \in [scheduler : BOOLEAN, kinds : SUBSET AllKinds,
                     hashes : SUBSET Hashes, scores : SUBSET Scores,
                     maxTime : 1 .. MaxTime, maxOutdated : 0 .. MaxOutdated]
    BY EvictorAssumption DEF TypeOK
  <2>2. workload.maxTime \in 1 .. MaxTime /\ workload.scores \subseteq Scores
    BY <2>1
  <2>3. workload.maxTime <= MaxTime
    BY <2>2, TimeType
  <2>4. workload.scores \subseteq Int
    BY <2>2, EvictorAssumption
  <2> QED BY <2>1, <2>3, <2>4
<1> QED BY <1>1 DEF RequestHints, Hint, Predictions

\* Every block has a policy.
LEMMA PolicyType ==
  ASSUME NEW hint \in Hint, NEW current \in Policies
  PROVE  GetPolicy(hint, current) \in Policies
BY Constants DEF GetPolicy, Hint, AllKinds, Policies

\* The tiers of pdp are numbers.
LEMMA TierType == Tier \in Nat
<1>1. PICK least \in Distances, largest \in Distances : Distances \subseteq least .. largest
  BY EvictorAssumption
<1>2. \E d \in Distances : \A e \in Distances : d >= e
  BY <1>1, Constants
<1>3. Max(Distances) \in Distances
  BY <1>2 DEF Max
<1>4. Max(Distances) \in Nat
  BY <1>3, Constants
<1> QED BY <1>4, Constants DEF Tier

\* The protecting distance that the evictor starts with.
LEMMA MinType == Min(Distances) \in Distances
<1>1. PICK least \in Distances, largest \in Distances : Distances \subseteq least .. largest
  BY EvictorAssumption
<1>2. \E d \in Distances : \A e \in Distances : d =< e
  BY <1>1, Constants
<1> QED BY <1>2 DEF Min

\* What calc_score computes.
LEMMA ScoreValue ==
  ASSUME NEW b \in BlockIds, NEW last \in Time, NEW pol \in Policies, NEW rrip \in RripStates,
         NEW first \in Times, NEW p \in PdpStates, NEW x \in Int, first[b] # None
  PROVE  /\ CalcScore(b, last, pol, rrip, first, p, x) \in Int
         /\ pol = "lru" => CalcScore(b, last, pol, rrip, first, p, x) = last
         /\ pol = "fifo" => CalcScore(b, last, pol, rrip, first, p, x) = first[b]
         /\ pol = "rrip" /\ rrip[b] # None =>
              CalcScore(b, last, pol, rrip, first, p, x) = -rrip[b]
<1>1. last \in Int /\ first[b] \in Int
  <2>1. first[b] \in Time
    BY DEF Times
  <2> QED BY <2>1, TimeType
<1>2. PdpScore(p, b) \in Int
  <2>1. p.until[b] \in Int /\ p.epoch \in Int /\ p.lastEpoch[b] \in Int /\ Tier \in Int
    BY TierType, Constants DEF PdpStates
  <2> QED BY <2>1 DEF PdpScore
<1>3. rrip[b] = None \/ rrip[b] \in Int
  BY DEF RripStates
<1>4. -(IF rrip[b] = None THEN RripInsert ELSE rrip[b]) \in Int
  BY <1>3 DEF RripInsert, RripMax
<1>5. CASE pol = "rrip"
  BY <1>4, <1>5 DEF CalcScore
<1>6. CASE pol \in {"lru", "fifo", "pdp", "ml", "belady"}
  BY <1>1, <1>2, <1>6 DEF CalcScore
<1> QED BY <1>5, <1>6 DEF Policies

\* A rebuilt table has the same blocks, with the scores of their policies.
LEMMA RescoredValue ==
  ASSUME NEW ft \in Tables, NEW current \in Policies, NEW rrip \in RripStates,
         NEW first \in Times, NEW p \in PdpStates, NEW f \in [BlockIds -> Int],
         \A b \in Resident(ft) : first[b] # None,
         \A b \in Resident(ft) : GetPolicy(ft[b].hint, current) = "rrip" => rrip[b] # None
  PROVE  LET new == Rescored(ft, current, rrip, first, p, f)
         IN  /\ new \in Tables
             /\ Resident(new) = Resident(ft)
             /\ \A b \in Resident(ft) : /\ new[b].hash = ft[b].hash /\ new[b].last = ft[b].last
                                        /\ new[b].hint = ft[b].hint
                                        /\ ScoreFits(new, current, rrip, first, b)
<1> DEFINE new == Rescored(ft, current, rrip, first, p, f)
           S(b) == CalcScore(b, ft[b].last, GetPolicy(ft[b].hint, current), rrip, first, p, f[b])
<1>1. ASSUME NEW b \in Resident(ft)
      PROVE  /\ b \in BlockIds /\ ft[b] \in Metadata
             /\ S(b) \in Int
             /\ GetPolicy(ft[b].hint, current) = "lru" => S(b) = ft[b].last
             /\ GetPolicy(ft[b].hint, current) = "fifo" => S(b) = first[b]
             /\ GetPolicy(ft[b].hint, current) = "rrip" => S(b) = -rrip[b]
  <2>1. b \in BlockIds /\ ft[b] \in Metadata
    BY DEF Resident, Tables
  <2>2. /\ ft[b].last \in Time /\ ft[b].hint \in Hint /\ f[b] \in Int
        /\ GetPolicy(ft[b].hint, current) \in Policies
    BY <2>1, PolicyType DEF Metadata
  <2> QED BY <2>1, <2>2, ScoreValue
<1>2. \A b \in BlockIds : new[b] = IF ft[b] = None THEN None ELSE [ft[b] EXCEPT !.score = S(b)]
  BY DEF Rescored
<1> HIDE DEF S
<1>3. ASSUME NEW b \in Resident(ft)
      PROVE  /\ new[b] \in Metadata /\ new[b].hash = ft[b].hash /\ new[b].last = ft[b].last
             /\ new[b].hint = ft[b].hint /\ new[b].score = S(b)
  <2>1. new[b] = [ft[b] EXCEPT !.score = S(b)]
    BY <1>2 DEF Resident
  <2> QED BY <1>1, <2>1 DEF Metadata
<1>4. Resident(new) = Resident(ft)
  <2>1. ASSUME NEW b \in BlockIds PROVE new[b] # None <=> ft[b] # None
    <3>1. CASE ft[b] = None
      BY <1>2, <3>1
    <3>2. CASE ft[b] # None
      <4>1. b \in Resident(ft)
        BY <3>2 DEF Resident
      <4> QED BY <1>3, <3>2, <4>1, Constants
    <3> QED BY <3>1, <3>2
  <2> HIDE DEF new
  <2> QED BY <2>1 DEF Resident
<1>5. new \in Tables
  <2>1. \A b \in BlockIds : new[b] \in Metadata \cup {None}
    BY <1>2, <1>3 DEF Resident
  <2> QED BY <2>1 DEF Tables, Rescored
<1>6. \A b \in Resident(ft) : ScoreFits(new, current, rrip, first, b)
  BY <1>1, <1>3 DEF ScoreFits
<1> QED BY <1>3, <1>4, <1>5, <1>6

\* The items of a table are its blocks'.
LEMMA RebuiltAgrees ==
  ASSUME NEW ft \in Tables
  PROVE  ItemsOf(ft) \subseteq Items /\ ItemsAgree(ft, ItemsOf(ft))
<1>1. ASSUME NEW b \in Resident(ft)
      PROVE  Item(b, ft[b]) \in Items /\ Item(b, ft[b]).id = b /\ Item(b, ft[b]).hash = ft[b].hash
  BY DEF Resident, Tables, Metadata, Items, Item
<1> QED BY <1>1 DEF ItemsOf, ItemsAgree

\* A look at the item of a resident block finds it.
LEMMA FindsItem ==
  ASSUME IndInv, NEW b \in Resident(freeTable)
  PROVE  /\ b \in BlockIds /\ freeTable[b] \in Metadata /\ freeTable[b] # None
         /\ HasItem(b)
         /\ Item(b, freeTable[b]) \in sortedDict /\ Valid(Item(b, freeTable[b]))
<1>1. b \in BlockIds /\ freeTable[b] \in Metadata /\ freeTable[b] # None
  BY DEF IndInv, TypeOK, Resident
<1>2. Item(b, freeTable[b]) \in sortedDict
  BY DEF IndInv, ItemsAgree
<1> QED BY <1>1, <1>2 DEF HasItem, Valid, Item

\* The order of items is by score, then by time.
LEMMA KeyOrder ==
  ASSUME NEW e \in Items, NEW x \in Items, Before(ItemKey(e), ItemKey(x))
  PROVE  /\ e.score <= x.score
         /\ e.score = x.score => e.last <= x.last
<1>1. PICK i \in DOMAIN ItemKey(e) : /\ ItemKey(e)[i] < ItemKey(x)[i]
                                     /\ \A j \in 1 .. i - 1 : ItemKey(e)[j] = ItemKey(x)[j]
  BY DEF Before
<1>2. /\ DOMAIN ItemKey(e) = 1 .. 3
      /\ ItemKey(e)[1] = e.score /\ ItemKey(e)[2] = e.last
      /\ ItemKey(x)[1] = x.score /\ ItemKey(x)[2] = x.last
  BY DEF ItemKey
<1>3. e.score \in Int /\ x.score \in Int /\ e.last \in Int /\ x.last \in Int
  <2>1. e.last \in Time /\ x.last \in Time /\ e.score \in Int /\ x.score \in Int
    BY DEF Items
  <2> QED BY <2>1, TimeType
<1>4. CASE i = 1
  BY <1>1, <1>2, <1>3, <1>4
<1>5. CASE i = 2
  <2>1. e.score = x.score
    BY <1>1, <1>2, <1>5
  <2> QED BY <1>1, <1>2, <1>3, <1>5, <2>1
<1>6. CASE i = 3
  <2>1. e.score = x.score /\ e.last = x.last
    BY <1>1, <1>2, <1>6
  <2> QED BY <1>3, <2>1
<1> QED BY <1>1, <1>2, <1>4, <1>5, <1>6

\* While the workload stays, the parts of the invariant that speak of policies can
\* be read with the policies of the state before.
LEMMA ScoredNext ==
  ASSUME workload' = workload,
         \A b \in Resident(freeTable') :
           ScoreFits(freeTable', policy', rripValues', firstAccess', b)
  PROVE  Scored'
BY DEF Scored, ScoreFits, GetPolicy, Resident

\* Likewise for the loop of evict().
LEMMA LoopNext ==
  ASSUME workload' = workload,
         evicting' => \E b \in Resident(freeTable') : GetPolicy(freeTable'[b].hint, policy') # "pdp"
  PROVE  Loop'
BY DEF Loop, PolicyOf, GetPolicy, Resident

\* Initially nothing is resident.
LEMMA InitInd == Init => IndInv
<1> SUFFICES ASSUME Init PROVE IndInv
  OBVIOUS
<1>1. Resident(freeTable) = {}
  BY DEF Init, Resident
<1>2. TypeOK
  <2>1. pdp \in PdpStates
    BY Constants, MinType DEF Init, PdpStates
  <2>2. 1 \in 1 .. MaxTime
    BY Constants
  <2>3. toDelete \in Seq([id : BlockIds, hash : Hashes, last : Time])
    BY DEF Init
  <2> QED BY <2>1, <2>2, <2>3 DEF Init, TypeOK, PdpStates, Policies
<1>3. ItemsAgree(freeTable, sortedDict)
  BY <1>1 DEF Init, ItemsAgree
<1>4. Kept /\ Scored /\ Dated /\ Unique /\ Loop
  BY <1>1 DEF Init, Kept, Scored, Dated, Unique, Loop
<1> QED BY <1>2, <1>3, <1>4 DEF IndInv, Init

-----------------------------------------------------------------------------
(* Steps that leave the table of resident blocks alone.                     *)

\* What the invariant says of the table and of the items stays.
LEMMA SameTable ==
  ASSUME IndInv, TypeOK', UNCHANGED <<workload, freeTable, sortedDict, lastAccess, firstAccess,
                                      rripValues, policy, failed, lost, content, reusedAt>>,
         now <= now',
         Dated',
         evicting' => \E b \in Resident(freeTable) : PolicyOf(b) # "pdp"
  PROVE  IndInv'
<1>1. ItemsAgree(freeTable', sortedDict')
  BY DEF IndInv
<1>2. Kept'
  <2> SUFFICES ASSUME NEW b \in Resident(freeTable)
               PROVE  freeTable[b].last <= now'
    BY DEF IndInv, Kept, Resident
  <2>1. freeTable[b].last \in Nat /\ now \in Nat /\ now' \in Nat /\ freeTable[b].last <= now
    <3>1. freeTable[b].last \in Time /\ freeTable[b].last <= now
      BY DEF IndInv, Kept, Resident, TypeOK, Metadata
    <3>2. now \in Nat /\ now' \in Nat
      BY DEF IndInv, TypeOK
    <3> QED BY <3>1, <3>2, Constants
  <2> QED BY <2>1
<1>3. Scored'
  BY ScoredNext DEF IndInv, Scored
<1>4. Loop'
  BY LoopNext DEF PolicyOf
<1>5. Unique'
  BY DEF IndInv, Unique
<1> QED BY <1>1, <1>2, <1>3, <1>4, <1>5 DEF IndInv

\* The list of outdated blocks stays, or loses its last entry.
LEMMA DatedNext ==
  ASSUME IndInv, UNCHANGED <<content, reusedAt>>, now \in Nat, now' \in Nat, now <= now',
         toDelete' \in Seq(Entries),
         \A i \in 1 .. Len(toDelete') : \E j \in 1 .. Len(toDelete) : toDelete'[i] = toDelete[j]
  PROVE  Dated'
<1> SUFFICES ASSUME NEW i \in 1 .. Len(toDelete')
             PROVE  /\ toDelete'[i].last <= now'
                    /\ \/ content[toDelete'[i].id] = toDelete'[i].hash
                       \/ toDelete'[i].last <= reusedAt[toDelete'[i].id]
  BY DEF Dated
<1>1. PICK j \in 1 .. Len(toDelete) : toDelete'[i] = toDelete[j]
  OBVIOUS
<1>2. toDelete'[i].last \in Nat
  <2>1. toDelete'[i] \in Entries
    OBVIOUS
  <2> QED BY <2>1, Constants DEF Entries
<1>3. /\ toDelete[j].last <= now
      /\ \/ content[toDelete[j].id] = toDelete[j].hash
         \/ toDelete[j].last <= reusedAt[toDelete[j].id]
  BY DEF IndInv, Dated
<1> QED BY <1>1, <1>2, <1>3

\* Protecting a block leaves the reverse map alone.
LEMMA PdpProtectType ==
  ASSUME NEW p \in PdpStates, NEW b \in BlockIds, NEW reused \in BOOLEAN
  PROVE  /\ PdpProtect(p, b, reused) \in PdpStates
         /\ PdpProtect(p, b, reused).map = p.map
<1>1. p.epoch + p.distance \in Nat /\ p.epoch \in Nat /\ (p.reused[b] \/ reused) \in BOOLEAN
  <2>1. p.epoch \in Nat /\ p.distance \in Distances /\ p.reused[b] \in BOOLEAN
    BY DEF PdpStates
  <2>2. p.distance \in Nat
    BY <2>1, Constants
  <2> QED BY <2>1, <2>2
<1> QED BY <1>1 DEF PdpProtect, PdpStates

\* An access that pdp observes.
LEMMA PdpObserveStep ==
  ASSUME IndInv, NEW h \in workload.hashes, NEW hit \in BOOLEAN, NEW d \in Distances,
         PdpObserve(h, hit, d), workload' = workload
  PROVE  IndInv' /\ pdp'.map = pdp.map
<1> DEFINE seen == [pdp EXCEPT !.epoch = @ + 1, !.lastSeen[h] = pdp.epoch + 1]
           b == pdp.map[h]
           again == hit \/ pdp.lastSeen[h] # None
           kept == IF b = None \/ freeTable[b] = None THEN seen ELSE PdpProtect(seen, b, again)
<1>1. /\ pdp.epoch < MaxEpoch /\ pdp' = [kept EXCEPT !.distance = d]
      /\ ~evicting /\ ~failed
      /\ UNCHANGED <<freeTable, sortedDict, lastAccess, firstAccess, rripValues,
                     toDelete, policy, finalized, evicting, lost, failed, now,
                     content, reusedAt>>
  BY DEF PdpObserve, Idle
<1>2. pdp \in PdpStates /\ h \in Hashes
  BY Requests DEF IndInv, TypeOK, PdpStates
<1>3. pdp.epoch + 1 \in 0 .. MaxEpoch /\ pdp.epoch + 1 \in Nat
  BY <1>1, <1>2, Constants DEF PdpStates
<1>4. seen \in PdpStates /\ seen.map = pdp.map
  BY <1>2, <1>3 DEF PdpStates
<1> HIDE DEF seen
<1>5. kept \in PdpStates /\ kept.map = pdp.map
  <2>1. b \in BlockIds \cup {None}
    BY <1>2 DEF PdpStates
  <2>2. again \in BOOLEAN
    OBVIOUS
  <2> HIDE DEF again
  <2> QED BY <1>4, <2>1, <2>2, PdpProtectType
<1> HIDE DEF kept
<1>6. pdp' \in PdpStates /\ pdp'.map = pdp.map
  BY <1>1, <1>5 DEF PdpStates
<1>7. TypeOK'
  BY <1>1, <1>6 DEF IndInv, TypeOK, PdpStates
<1>8. Dated'
  BY <1>1 DEF IndInv, Dated
<1>9. now <= now'
  BY <1>1 DEF IndInv, TypeOK
<1> QED BY <1>1, <1>6, <1>7, <1>8, <1>9, SameTable

\* The next scheduling pass.
LEMMA TickStep ==
  ASSUME IndInv, Tick, workload' = workload
  PROVE  IndInv'
<1>1. /\ now < workload.maxTime /\ now' = now + 1 /\ ~evicting
      /\ UNCHANGED <<evictorVars, evicting, lost, failed, content, reusedAt>>
  BY DEF Tick, Idle
<1>2. now \in Nat /\ now' \in 1 .. MaxTime /\ now <= now' /\ now' \in Nat
  <2>1. now \in Nat /\ now >= 1 /\ workload.maxTime <= MaxTime /\ workload.maxTime \in Int
    <3>1. workload.maxTime \in 1 .. MaxTime
      BY EvictorAssumption DEF IndInv, TypeOK
    <3> QED BY <3>1, Requests DEF IndInv, TypeOK
  <2> QED BY <1>1, <2>1, TimeType
<1>3. TypeOK'
  BY <1>1, <1>2 DEF IndInv, TypeOK, evictorVars
<1>4. Dated'
  BY <1>1, <1>2, DatedNext DEF IndInv, TypeOK, Entries, evictorVars
<1> QED BY <1>1, <1>2, <1>3, <1>4, SameTable DEF evictorVars

\* evict() enters its loop with a block that pdp does not govern.
LEMMA EvictBeginStep ==
  ASSUME IndInv, EvictBegin, workload' = workload
  PROVE  IndInv'
<1>1. /\ evicting' = TRUE /\ \E b \in Resident(freeTable) : PolicyOf(b) # "pdp"
      /\ UNCHANGED <<evictorVars, lost, failed, now, content, reusedAt>>
  BY DEF EvictBegin
<1>2. TypeOK'
  BY <1>1 DEF IndInv, TypeOK, evictorVars
<1>3. Dated'
  BY <1>1 DEF IndInv, Dated, evictorVars
<1>4. now <= now'
  BY <1>1 DEF IndInv, TypeOK
<1> QED BY <1>1, <1>2, <1>3, <1>4, SameTable DEF evictorVars

-----------------------------------------------------------------------------
(* Steps by which a block leaves the table.                                 *)

\* The bookkeeping of a block that leaves: the reverse map forgets it, nothing else.
LEMMA PdpForgetType ==
  ASSUME NEW p \in PdpStates, NEW b \in BlockIds, NEW h \in Hashes
  PROVE  /\ PdpForget(p, b, h) \in PdpStates
         /\ \A g \in Hashes : PdpForget(p, b, h).map[g] =
              IF g = h /\ p.map[g] = b THEN None ELSE p.map[g]
<1>1. (IF p.map[h] = b THEN None ELSE p.map[h]) \in BlockIds \cup {None}
  BY DEF PdpStates
<1> QED BY <1>1 DEF PdpForget, PdpStates

\* A block leaves the table and its item goes; the other blocks keep theirs.
LEMMA ItemsWithout ==
  ASSUME NEW ft \in Tables, NEW b \in Resident(ft), NEW items \in SUBSET Items,
         NEW left \in SUBSET items, ItemsAgree(ft, items),
         \A c \in Resident(ft) : c # b => Item(c, ft[c]) \in left
  PROVE  /\ [ft EXCEPT ![b] = None] \in Tables
         /\ Resident([ft EXCEPT ![b] = None]) = Resident(ft) \ {b}
         /\ ItemsAgree([ft EXCEPT ![b] = None], left)
<1> DEFINE new == [ft EXCEPT ![b] = None]
<1>1. new \in Tables /\ \A c \in BlockIds : new[c] = IF c = b THEN None ELSE ft[c]
  BY DEF Tables, Resident
<1> HIDE DEF new
<1>2. Resident(new) = Resident(ft) \ {b}
  BY <1>1 DEF Resident
<1>3. \A c \in Resident(new) : Item(c, new[c]) \in left
  BY <1>1, <1>2 DEF Resident
<1>4. ASSUME NEW e \in left,
             new[e.id] # None, new[e.id].score = e.score, new[e.id].last = e.last
      PROVE  e.hash = new[e.id].hash
  <2>1. e.id \in BlockIds
    BY DEF Items
  <2> QED BY <1>1, <1>4, <2>1 DEF ItemsAgree
<1> QED BY <1>1, <1>2, <1>3, <1>4 DEF ItemsAgree, new

\* The item of a block has a key of its own, so removing it by its key leaves the
\* items of the other blocks.
LEMMA OtherItems ==
  ASSUME IndInv, NEW b \in Resident(freeTable)
  PROVE  /\ WithoutItem(b) \subseteq sortedDict
         /\ \A c \in Resident(freeTable) : c # b => Item(c, freeTable[c]) \in WithoutItem(b)
<1>1. WithoutItem(b) \subseteq sortedDict
  BY DEF WithoutItem
<1>2. ASSUME NEW c \in Resident(freeTable), c # b
      PROVE  ItemKey(Item(c, freeTable[c])) # ItemKey(Item(b, freeTable[b]))
  <2>1. ItemKey(Item(c, freeTable[c]))[3] = c /\ ItemKey(Item(b, freeTable[b]))[3] = b
    BY DEF ItemKey, Item
  <2> QED BY <1>2, <2>1
<1> QED BY <1>1, <1>2 DEF WithoutItem, IndInv, ItemsAgree

\* The end of evict() and of remove(): what the invariant needs to know of the step.
LEMMA LeaveStep ==
  ASSUME IndInv, NEW b \in Resident(freeTable),
         freeTable' = [freeTable EXCEPT ![b] = None],
         sortedDict' \subseteq sortedDict,
         \A c \in Resident(freeTable) : c # b => Item(c, freeTable[c]) \in sortedDict',
         rripValues' \in RripStates,
         \A c \in BlockIds : c # b => rripValues'[c] = rripValues[c],
         firstAccess' \in Times,
         \A c \in BlockIds : c # b => firstAccess'[c] = firstAccess[c],
         pdp' \in PdpStates,
         toDelete' \in Seq(Entries), Dated',
         content' \in [BlockIds -> Hashes \cup {None}], Unique',
         \A c \in BlockIds : c # b => content'[c] = content[c],
         reusedAt' \in [BlockIds -> Nat],
         \A c \in BlockIds : c # b => reusedAt'[c] = reusedAt[c],
         evicting' = FALSE, lost' = lost,
         UNCHANGED <<workload, lastAccess, policy, finalized, failed, now>>
  PROVE  IndInv'
<1> USE DEF IndInv
<1>1. freeTable \in Tables /\ sortedDict \in SUBSET Items
  BY DEF TypeOK, Tables, Items
<1>2. /\ freeTable' \in Tables /\ Resident(freeTable') = Resident(freeTable) \ {b}
      /\ ItemsAgree(freeTable', sortedDict')
  BY <1>1, ItemsWithout
<1>3. ASSUME NEW c \in Resident(freeTable')
      PROVE  c \in Resident(freeTable) /\ c \in BlockIds /\ c # b /\ freeTable'[c] = freeTable[c]
  <2>1. c \in Resident(freeTable) /\ c \in BlockIds /\ c # b
    BY <1>2 DEF Resident
  <2> QED BY <1>1, <2>1 DEF Tables
<1>4. TypeOK'
  BY <1>1, <1>2 DEF TypeOK, Tables, Items, RripStates, Times, PdpStates, Entries
<1>5. Kept'
  <2> SUFFICES ASSUME NEW c \in Resident(freeTable')
               PROVE  /\ freeTable'[c].hash = content'[c]
                      /\ reusedAt'[c] < freeTable'[c].last /\ freeTable'[c].last <= now'
                      /\ firstAccess'[c] # None
                      /\ lastAccess'[freeTable'[c].hint.id] # None
    BY DEF Kept, Resident
  <2>1. /\ freeTable[c].hash = content[c]
        /\ reusedAt[c] < freeTable[c].last /\ freeTable[c].last <= now
        /\ firstAccess[c] # None
        /\ lastAccess[freeTable[c].hint.id] # None
    BY <1>3 DEF Kept
  <2> QED BY <1>3, <2>1
<1>6. Scored'
  <2>1. ASSUME NEW c \in Resident(freeTable')
        PROVE  ScoreFits(freeTable', policy', rripValues', firstAccess', c)
    <3>1. ScoreFits(freeTable, policy, rripValues, firstAccess, c)
      BY <1>3 DEF Scored
    <3> QED BY <1>3, <3>1 DEF ScoreFits
  <2> QED BY <2>1, ScoredNext
<1>7. Loop'
  BY LoopNext
<1> QED BY <1>2, <1>4, <1>5, <1>6, <1>7

\* remove(): the block is in use again, with the same content.
LEMMA RemoveHitStep ==
  ASSUME IndInv, NEW b \in BlockIds, RemoveHit(b), workload' = workload
  PROVE  /\ IndInv' /\ b \in Resident(freeTable)
         /\ freeTable' = [freeTable EXCEPT ![b] = None]
         /\ rripValues' = IF PolicyOf(b) = "rrip" THEN HitValue(rripValues, b) ELSE rripValues
         /\ pdp' = IF PolicyOf(b) = "pdp" THEN PdpForget(pdp, b, freeTable[b].hash) ELSE pdp
         /\ UNCHANGED <<toDelete, policy, finalized, evicting, content>>
<1>1. b \in Resident(freeTable) /\ ~evicting
  BY DEF RemoveHit, Resident, Idle
<1>2. /\ HasItem(b) /\ freeTable[b] \in Metadata /\ freeTable[b].hash \in Hashes
  BY <1>1, FindsItem DEF Metadata
<1>3. /\ rripValues' = IF PolicyOf(b) = "rrip" THEN HitValue(rripValues, b) ELSE rripValues
      /\ pdp' = IF PolicyOf(b) = "pdp" THEN PdpForget(pdp, b, freeTable[b].hash) ELSE pdp
      /\ sortedDict' = WithoutItem(b)
      /\ freeTable' = [freeTable EXCEPT ![b] = None]
      /\ UNCHANGED <<lastAccess, firstAccess, toDelete, policy, finalized,
                     evicting, lost, failed, content, reusedAt, now>>
  BY <1>2 DEF RemoveHit
<1>4. rripValues' \in RripStates /\ \A c \in BlockIds : c # b => rripValues'[c] = rripValues[c]
  BY <1>3 DEF HitValue, RripHit, RripMax, RripStates, IndInv, TypeOK
<1>5. pdp' \in PdpStates
  <2>1. pdp \in PdpStates
    BY DEF IndInv, TypeOK, PdpStates
  <2> QED BY <1>2, <1>3, <2>1, PdpForgetType
<1>6. Dated' /\ Unique'
  BY <1>3 DEF IndInv, Dated, Unique
<1>7. IndInv'
  <2>1. /\ firstAccess' \in Times /\ toDelete' \in Seq(Entries)
        /\ content' \in [BlockIds -> Hashes \cup {None}] /\ reusedAt' \in [BlockIds -> Nat]
    BY <1>3 DEF IndInv, TypeOK, Times, Entries
  <2>2. evicting' = FALSE
    BY <1>1, <1>3 DEF IndInv, TypeOK
  <2> QED BY <1>1, <1>3, <1>4, <1>5, <1>6, <2>1, <2>2, OtherItems, LeaveStep
<1> QED BY <1>1, <1>3, <1>7

\* The end of evict(): what is left of the list of outdated blocks stays dated, as
\* the victim is reused now.
LEMMA EvictsStep ==
  ASSUME IndInv, NEW b \in Resident(freeTable), NEW h, h = freeTable[b].hash, Evicts(b, h),
         workload' = workload,
         sortedDict' \subseteq sortedDict,
         \A c \in Resident(freeTable) : c # b => Item(c, freeTable[c]) \in sortedDict',
         rripValues' \in RripStates,
         \A c \in BlockIds : c # b => rripValues'[c] = rripValues[c],
         pdp' \in PdpStates,
         toDelete' \in Seq(Entries),
         \A i \in 1 .. Len(toDelete') : \E j \in 1 .. Len(toDelete) : toDelete'[i] = toDelete[j]
  PROVE  IndInv'
<1> USE DEF IndInv
<1>1. /\ freeTable' = [freeTable EXCEPT ![b] = None]
      /\ firstAccess' = [firstAccess EXCEPT ![b] = None]
      /\ content' = [content EXCEPT ![b] = None]
      /\ reusedAt' = [reusedAt EXCEPT ![b] = now]
      /\ evicting' = FALSE /\ lost' = lost
      /\ UNCHANGED <<lastAccess, policy, finalized, failed, now>>
  BY DEF Evicts
<1>2. b \in BlockIds /\ now \in Nat
  BY DEF Resident, TypeOK
<1>3. /\ firstAccess' \in Times /\ content' \in [BlockIds -> Hashes \cup {None}]
      /\ reusedAt' \in [BlockIds -> Nat]
      /\ \A c \in BlockIds : /\ firstAccess'[c] = IF c = b THEN None ELSE firstAccess[c]
                             /\ content'[c] = IF c = b THEN None ELSE content[c]
                             /\ reusedAt'[c] = IF c = b THEN now ELSE reusedAt[c]
  BY <1>1, <1>2 DEF TypeOK, Times
<1>4. Unique'
  BY <1>3 DEF Unique
<1>5. Dated'
  <2> SUFFICES ASSUME NEW i \in 1 .. Len(toDelete')
               PROVE  /\ toDelete'[i].last <= now
                      /\ \/ content'[toDelete'[i].id] = toDelete'[i].hash
                         \/ toDelete'[i].last <= reusedAt'[toDelete'[i].id]
    BY <1>1 DEF Dated
  <2>1. PICK j \in 1 .. Len(toDelete) : toDelete'[i] = toDelete[j]
    OBVIOUS
  <2>2. toDelete'[i].id \in BlockIds
    <3>1. toDelete'[i] \in Entries
      OBVIOUS
    <3> QED BY <3>1 DEF Entries
  <2>3. /\ toDelete[j].last <= now
        /\ \/ content[toDelete[j].id] = toDelete[j].hash
           \/ toDelete[j].last <= reusedAt[toDelete[j].id]
    BY DEF Dated
  <2> QED BY <1>3, <2>1, <2>2, <2>3
<1> QED BY <1>1, <1>3, <1>4, <1>5, LeaveStep, ZenonT(60)

\* pdp takes the least block by its key, which has its item.
LEMMA EvictByPdpStep ==
  ASSUME IndInv, EvictByPdp, workload' = workload
  PROVE  /\ IndInv'
         /\ \E b \in Resident(freeTable) :
              /\ freeTable' = [freeTable EXCEPT ![b] = None]
              /\ content' = [content EXCEPT ![b] = None]
              /\ \A c \in Resident(freeTable) \ {b} :
                   Before(PdpVictimKey(pdp, b), PdpVictimKey(pdp, c))
              /\ \E sample \in Resident(freeTable) : PolicyOf(sample) = "pdp"
              /\ pdp' = PdpForget(pdp, b, freeTable[b].hash)
              /\ UNCHANGED <<rripValues, toDelete, policy, finalized>>
              /\ evicting' = FALSE
<1>1. PICK b \in Resident(freeTable) :
        /\ \A c \in Resident(freeTable) \ {b} :
             Before(PdpVictimKey(pdp, b), PdpVictimKey(pdp, c))
        /\ IF HasItem(b)
           THEN /\ sortedDict' = WithoutItem(b)
                /\ pdp' = PdpForget(pdp, b, freeTable[b].hash)
                /\ Evicts(b, freeTable[b].hash)
                /\ UNCHANGED <<rripValues, toDelete>>
           ELSE Raise /\ UNCHANGED now
  BY DEF EvictByPdp
<1>2. HasItem(b) /\ b \in BlockIds /\ freeTable[b] \in Metadata /\ freeTable[b].hash \in Hashes
  BY FindsItem DEF Metadata
<1>3. pdp \in PdpStates /\ toDelete \in Seq(Entries) /\ rripValues \in RripStates
  BY DEF IndInv, TypeOK, PdpStates, Entries, RripStates
<1>4. IndInv'
  BY <1>1, <1>2, <1>3, PdpForgetType, OtherItems, EvictsStep
<1> QED BY <1>1, <1>2, <1>4 DEF Evicts, EvictByPdp

\* The value of a victim is dropped, or stays.
LEMMA ForgetRripType ==
  ASSUME IndInv, NEW b \in BlockIds
  PROVE  /\ ForgetRrip(b) \in RripStates
         /\ \A c \in BlockIds : c # b => ForgetRrip(b)[c] = rripValues[c]
BY DEF ForgetRrip, RripStates, IndInv, TypeOK

\* An entry of the list of outdated blocks that is still listed is about what its
\* block holds: otherwise the block was accessed after its latest eviction.
LEMMA EvictOutdatedStep ==
  ASSUME IndInv, EvictOutdated, workload' = workload
  PROVE  /\ IndInv' /\ toDelete # <<>> /\ evicting
         /\ UNCHANGED <<pdp, policy, finalized>>
         /\ \/ UNCHANGED <<freeTable, rripValues, content>>
            \/ \E b \in Resident(freeTable) :
                 /\ freeTable' = [freeTable EXCEPT ![b] = None]
                 /\ content' = [content EXCEPT ![b] = None]
                 /\ rripValues' = ForgetRrip(b)
<1> DEFINE n == Len(toDelete)
           d == toDelete[n]
<1>1. evicting /\ toDelete # <<>> /\ toDelete' = Front(toDelete) /\ UNCHANGED <<sortedDict, pdp>>
  BY DEF EvictOutdated
<1>2. toDelete \in Seq(Entries) /\ n \in Nat \ {0} /\ d \in Entries
  <2>1. toDelete \in Seq(Entries)
    BY DEF IndInv, TypeOK, Entries
  <2>2. n \in Nat \ {0}
    BY <1>1, <2>1, EmptySeq
  <2> QED BY <2>1, <2>2
<1>3. /\ toDelete' \in Seq(Entries)
      /\ \A i \in 1 .. Len(toDelete') : \E j \in 1 .. Len(toDelete) : toDelete'[i] = toDelete[j]
  <2>1. toDelete' = SubSeq(toDelete, 1, n - 1)
    BY <1>1 DEF Front
  <2>2. /\ toDelete' \in Seq(Entries) /\ Len(toDelete') = n - 1
        /\ \A i \in 1 .. n - 1 : toDelete'[i] = toDelete[i]
    <3>1. \A i \in 1 .. n - 1 : toDelete[i] \in Entries
      BY <1>2
    <3>2. /\ SubSeq(toDelete, 1, n - 1) \in Seq(Entries)
          /\ Len(SubSeq(toDelete, 1, n - 1)) = IF 1 <= n - 1 THEN n - 1 - 1 + 1 ELSE 0
          /\ \A i \in 1 .. n - 1 - 1 + 1 : SubSeq(toDelete, 1, n - 1)[i] = toDelete[1 + i - 1]
      BY <1>2, <3>1, SubSeqProperties
    <3> HIDE DEF n
    <3>3. n - 1 - 1 + 1 = n - 1 /\ \A i \in 1 .. n - 1 : 1 + i - 1 = i
      BY <1>2
    <3>4. (IF 1 <= n - 1 THEN n - 1 - 1 + 1 ELSE 0) = n - 1
      BY <1>2
    <3>5. Len(toDelete') = n - 1
      BY <2>1, <3>2, <3>4
    <3>6. \A i \in 1 .. n - 1 : toDelete'[i] = toDelete[i]
      BY <2>1, <3>2, <3>3
    <3> QED BY <2>1, <3>2, <3>5, <3>6
  <2>3. \A i \in 1 .. n - 1 : i \in 1 .. n
    BY <1>2
  <2> QED BY <2>2, <2>3
<1>4. d.id \in BlockIds /\ d.hash \in Hashes /\ d.last \in Time
  BY <1>2 DEF Entries
<1>5. CASE StillListed(d)
  <2>1. d.id \in Resident(freeTable) /\ freeTable[d.id].last = d.last
    BY <1>4, <1>5 DEF StillListed, Resident
  <2>2. rripValues' = ForgetRrip(d.id) /\ Evicts(d.id, d.hash)
    BY <1>5 DEF EvictOutdated
  <2>3. d.hash = freeTable[d.id].hash
    <3>1. content[d.id] = d.hash \/ d.last <= reusedAt[d.id]
      BY <1>2 DEF IndInv, Dated
    <3>2. reusedAt[d.id] < d.last /\ freeTable[d.id].hash = content[d.id]
      BY <2>1 DEF IndInv, Kept
    <3>3. reusedAt[d.id] \in Nat /\ d.last \in Nat
      BY <1>4, TimeType DEF IndInv, TypeOK
    <3> QED BY <3>1, <3>2, <3>3
  <2>4. pdp' \in PdpStates
    BY <1>1 DEF IndInv, TypeOK, PdpStates
  <2>5. \A c \in Resident(freeTable) : Item(c, freeTable[c]) \in sortedDict'
    BY <1>1, FindsItem
  <2> HIDE DEF d, n
  <2>6. IndInv'
    BY <1>1, <1>3, <1>4, <2>1, <2>2, <2>3, <2>4, <2>5, ForgetRripType, EvictsStep
  <2> QED BY <1>1, <2>1, <2>2, <2>6 DEF Evicts
<1>6. CASE ~StillListed(d)
  <2>1. UNCHANGED <<freeTable, lastAccess, firstAccess, rripValues, policy,
                    finalized, evicting, lost, failed, now, content, reusedAt>>
    BY <1>6 DEF EvictOutdated
  <2>2. now \in Nat
    BY DEF IndInv, TypeOK
  <2>3. Dated'
    BY <1>3, <2>1, <2>2, DatedNext
  <2>4. TypeOK'
    BY <1>1, <1>3, <2>1 DEF IndInv, TypeOK, Entries
  <2> QED BY <1>1, <2>1, <2>2, <2>3, <2>4, SameTable DEF IndInv, Loop
<1> QED BY <1>1, <1>5, <1>6

\* Aging stays within the range of rrip values.
LEMMA AgedType ==
  ASSUME IndInv
  PROVE  /\ Aged \in RripStates
         /\ \A b \in Resident(freeTable) : PolicyOf(b) = "rrip" => Aged[b] # None
         /\ \A b \in BlockIds :
              b \notin Resident(freeTable) \/ PolicyOf(b) # "rrip" => Aged[b] = rripValues[b]
<1>1. rripValues \in RripStates
  BY DEF IndInv, TypeOK, RripStates
<1>2. ASSUME NEW v \in 0 .. RripMax PROVE Min({RripMax, 1 + v}) \in 0 .. RripMax
  <2>1. \E x \in {RripMax, 1 + v} : \A y \in {RripMax, 1 + v} : x =< y
    BY DEF RripMax
  <2>2. /\ Min({RripMax, 1 + v}) \in {RripMax, 1 + v}
        /\ \A y \in {RripMax, 1 + v} : Min({RripMax, 1 + v}) =< y
    BY <2>1 DEF Min
  <2> QED BY <2>2 DEF RripMax
<1>3. ASSUME NEW b \in BlockIds
      PROVE  (IF rripValues[b] = None THEN RripInsert ELSE rripValues[b]) \in 0 .. RripMax
  BY <1>1 DEF RripStates, RripMax, RripInsert
<1>4. ASSUME NEW b \in BlockIds
      PROVE  /\ Aged[b] \in 0 .. RripMax \cup {None}
             /\ b \in Resident(freeTable) /\ PolicyOf(b) = "rrip" => Aged[b] \in 0 .. RripMax
             /\ b \notin Resident(freeTable) \/ PolicyOf(b) # "rrip" => Aged[b] = rripValues[b]
  BY <1>1, <1>2, <1>3 DEF Aged, Resident, RripStates
<1>5. \A x \in 0 .. RripMax : x # None
  BY Constants DEF RripMax
<1>6. Aged \in RripStates
  BY <1>4 DEF Aged, RripStates
<1> QED BY <1>4, <1>5, <1>6 DEF Resident

\* The scores are computed again for the same blocks.
LEMMA RebuildStep ==
  ASSUME IndInv, NEW rrip \in RripStates, NEW f \in [BlockIds -> Int],
         freeTable' = Rescored(freeTable, policy, rrip, firstAccess, pdp, f),
         sortedDict' = ItemsOf(freeTable'), rripValues' = rrip,
         \A b \in Resident(freeTable) : PolicyOf(b) = "rrip" => rrip[b] # None,
         UNCHANGED <<workload, lastAccess, firstAccess, toDelete, pdp, policy, finalized,
                     evicting, lost, failed, now, content, reusedAt>>
  PROVE  /\ IndInv' /\ Resident(freeTable') = Resident(freeTable)
         /\ \A b \in Resident(freeTable) : /\ freeTable'[b].hint = freeTable[b].hint
                                           /\ freeTable'[b].hash = freeTable[b].hash
<1> USE DEF IndInv
<1>1. /\ freeTable \in Tables /\ policy \in Policies /\ firstAccess \in Times /\ pdp \in PdpStates
      /\ \A b \in Resident(freeTable) : firstAccess[b] # None
  BY DEF TypeOK, Tables, Times, PdpStates, Kept
<1>2. /\ freeTable' \in Tables /\ Resident(freeTable') = Resident(freeTable)
      /\ \A b \in Resident(freeTable) :
           /\ freeTable'[b].hash = freeTable[b].hash /\ freeTable'[b].last = freeTable[b].last
           /\ freeTable'[b].hint = freeTable[b].hint
           /\ ScoreFits(freeTable', policy, rrip, firstAccess, b)
  BY <1>1, RescoredValue DEF PolicyOf
<1>3. ItemsAgree(freeTable', sortedDict') /\ sortedDict' \subseteq Items
  BY <1>2, RebuiltAgrees
<1>4. TypeOK'
  BY <1>2, <1>3 DEF TypeOK, Tables, Items, RripStates
<1>5. Kept'
  <2> SUFFICES ASSUME NEW c \in Resident(freeTable')
               PROVE  /\ freeTable'[c].hash = content[c]
                      /\ reusedAt[c] < freeTable'[c].last /\ freeTable'[c].last <= now
                      /\ firstAccess[c] # None
                      /\ lastAccess[freeTable'[c].hint.id] # None
    BY DEF Kept, Resident
  <2> QED BY <1>2 DEF Kept
<1>6. Scored'
  BY <1>2, ScoredNext
<1>7. Loop'
  BY <1>2, LoopNext DEF Loop, PolicyOf
<1>8. Dated' /\ Unique'
  BY DEF Dated, Unique
<1> QED BY <1>2, <1>3, <1>4, <1>5, <1>6, <1>7, <1>8

\* What the least valid item is: the item of a resident block, before all others.
LEMMA LeastItem ==
  ASSUME IndInv, NEW e \in sortedDict, Valid(e),
         \A x \in sortedDict \ {e} : Valid(x) => Before(ItemKey(e), ItemKey(x))
  PROVE  /\ e.id \in Resident(freeTable) /\ e.hash = freeTable[e.id].hash
         /\ \A c \in Resident(freeTable) : c # e.id =>
              /\ Before(ItemKey(e), ItemKey(Item(c, freeTable[c])))
              /\ freeTable[e.id].score <= freeTable[c].score
              /\ freeTable[e.id].score = freeTable[c].score =>
                   freeTable[e.id].last <= freeTable[c].last
<1>1. e \in Items /\ e.id \in BlockIds
  BY DEF IndInv, TypeOK, Items
<1>2. /\ e.id \in Resident(freeTable) /\ freeTable[e.id].score = e.score
      /\ freeTable[e.id].last = e.last
  BY <1>1 DEF Valid, Resident
<1>3. e.hash = freeTable[e.id].hash
  BY DEF Valid, IndInv, ItemsAgree
<1>4. ASSUME NEW c \in Resident(freeTable), c # e.id
      PROVE  /\ Before(ItemKey(e), ItemKey(Item(c, freeTable[c])))
             /\ freeTable[e.id].score <= freeTable[c].score
             /\ freeTable[e.id].score = freeTable[c].score =>
                  freeTable[e.id].last <= freeTable[c].last
  <2> DEFINE x == Item(c, freeTable[c])
  <2>1. x \in sortedDict /\ Valid(x) /\ x \in Items
    BY FindsItem DEF IndInv, TypeOK, Items
  <2>2. x.id = c /\ x.score = freeTable[c].score /\ x.last = freeTable[c].last
    BY DEF Item
  <2> HIDE DEF x
  <2>3. Before(ItemKey(e), ItemKey(x))
    BY <1>4, <2>1, <2>2
  <2> QED BY <1>1, <1>2, <2>1, <2>2, <2>3, KeyOrder DEF x
<1> QED BY <1>2, <1>3, <1>4

\* One round of the loop on the scores: it never finds the items exhausted.  Either
\* all rrip blocks age, or the victim is no later in the order of scores than any
\* other block, and due if it is an rrip block.
LEMMA EvictLeastStep ==
  ASSUME IndInv, NEW f \in Predictions, EvictLeast(f), workload' = workload
  PROVE  /\ IndInv' /\ evicting /\ toDelete = <<>>
         /\ UNCHANGED <<toDelete, pdp, policy, finalized>>
         /\ \/ /\ Resident(freeTable') = Resident(freeTable)
               /\ \A b \in Resident(freeTable) : /\ freeTable'[b].hint = freeTable[b].hint
                                                 /\ freeTable'[b].hash = freeTable[b].hash
               /\ rripValues' = Aged
               /\ UNCHANGED content
            \/ \E b \in Resident(freeTable) :
                 /\ freeTable' = [freeTable EXCEPT ![b] = None]
                 /\ content' = [content EXCEPT ![b] = None]
                 /\ rripValues' = ForgetRrip(b)
                 /\ PolicyOf(b) = "rrip" => rripValues[b] = RripMax
                 /\ \A c \in Resident(freeTable) : c # b =>
                      /\ freeTable[b].score <= freeTable[c].score
                      /\ freeTable[b].score = freeTable[c].score =>
                           freeTable[b].last <= freeTable[c].last
<1>1. evicting /\ toDelete = <<>> /\ UNCHANGED <<toDelete, pdp>>
  BY DEF EvictLeast
<1>2. ~ \A e \in sortedDict : ~Valid(e)
  <2>1. PICK b \in Resident(freeTable) : TRUE
    BY <1>1 DEF IndInv, Loop
  <2> QED BY <2>1, FindsItem
<1>3. PICK e \in {x \in sortedDict : Valid(x)} :
        /\ \A x \in sortedDict \ {e} : Valid(x) => Before(ItemKey(e), ItemKey(x))
        /\ IF PolicyOf(e.id) = "rrip" /\ rripValues[e.id] # RripMax
           THEN /\ rripValues' = Aged
                /\ freeTable' = Rescored(freeTable, policy, Aged, firstAccess, pdp, f)
                /\ sortedDict' = ItemsOf(freeTable')
                /\ UNCHANGED <<lastAccess, firstAccess, policy, finalized, evicting,
                               lost, failed, now, content, reusedAt>>
           ELSE /\ sortedDict' = {x \in sortedDict : Before(ItemKey(e), ItemKey(x))}
                /\ rripValues' = ForgetRrip(e.id)
                /\ Evicts(e.id, e.hash)
  <2> HIDE DEF IndInv
  <2> QED BY <1>2 DEF EvictLeast
<1>4. CASE PolicyOf(e.id) = "rrip" /\ rripValues[e.id] # RripMax
  <2>1. /\ rripValues' = Aged
        /\ freeTable' = Rescored(freeTable, policy, Aged, firstAccess, pdp, f)
        /\ sortedDict' = ItemsOf(freeTable')
        /\ UNCHANGED <<lastAccess, firstAccess, policy, finalized, evicting,
                       lost, failed, now, content, reusedAt>>
    BY <1>3, <1>4
  <2>2. f \in [BlockIds -> Int]
    BY Requests DEF IndInv
  <2> QED BY <1>1, <2>1, <2>2, AgedType, RebuildStep
<1>5. CASE ~(PolicyOf(e.id) = "rrip" /\ rripValues[e.id] # RripMax)
  <2>1. /\ sortedDict' = {x \in sortedDict : Before(ItemKey(e), ItemKey(x))}
        /\ rripValues' = ForgetRrip(e.id)
        /\ Evicts(e.id, e.hash)
    BY <1>3, <1>5
  <2>2. /\ e.id \in Resident(freeTable) /\ e.hash = freeTable[e.id].hash
        /\ \A c \in Resident(freeTable) : c # e.id =>
              /\ Before(ItemKey(e), ItemKey(Item(c, freeTable[c])))
              /\ freeTable[e.id].score <= freeTable[c].score
              /\ freeTable[e.id].score = freeTable[c].score =>
                   freeTable[e.id].last <= freeTable[c].last
    BY <1>3, LeastItem
  <2>3. \A c \in Resident(freeTable) : c # e.id => Item(c, freeTable[c]) \in sortedDict'
    BY <2>1, <2>2, FindsItem
  <2>4. /\ e.id \in BlockIds /\ pdp' \in PdpStates /\ toDelete' \in Seq(Entries)
        /\ sortedDict' \subseteq sortedDict
    BY <1>1, <2>1, <2>2 DEF IndInv, TypeOK, PdpStates, Entries, Resident
  <2>5. rripValues' \in RripStates /\ \A c \in BlockIds : c # e.id => rripValues'[c] = rripValues[c]
    BY <2>1, <2>4, ForgetRripType
  <2>6. IndInv'
    BY <1>1, <2>1, <2>2, <2>3, <2>4, <2>5, EvictsStep
  <2>7. /\ freeTable' = [freeTable EXCEPT ![e.id] = None]
        /\ content' = [content EXCEPT ![e.id] = None]
        /\ UNCHANGED <<policy, finalized>>
    BY <2>1 DEF Evicts
  <2>8. PolicyOf(e.id) = "rrip" => rripValues[e.id] = RripMax
    BY <1>5
  <2> QED BY <1>1, <2>1, <2>2, <2>6, <2>7, <2>8
<1> QED BY <1>4, <1>5

-----------------------------------------------------------------------------
(* Steps by which a block comes back, is accessed or is governed anew.      *)

\* An item replaces the one with its key, so also when items of this block have
\* gone stale, the only valid one is the new one.
LEMMA PutAgrees ==
  ASSUME NEW ft \in Tables, NEW b \in BlockIds, NEW m \in Metadata, NEW items \in SUBSET Items,
         \A c \in Resident(ft) : c # b => Item(c, ft[c]) \in items,
         \A e \in items :
           ft[e.id] # None /\ ft[e.id].score = e.score /\ ft[e.id].last = e.last =>
             e.hash = ft[e.id].hash
  PROVE  /\ PutItem(items, Item(b, m)) \subseteq Items
         /\ ItemsAgree([ft EXCEPT ![b] = m], PutItem(items, Item(b, m)))
<1> DEFINE new == [ft EXCEPT ![b] = m]
           x == Item(b, m)
           put == PutItem(items, x)
<1>1. \A c \in BlockIds : new[c] = IF c = b THEN m ELSE ft[c]
  BY DEF Tables
<1>2. /\ x \in Items /\ x.id = b /\ x.score = m.score /\ x.last = m.last /\ x.hash = m.hash
      /\ ItemKey(x)[3] = b
  BY DEF Item, Items, Metadata, ItemKey
<1> HIDE DEF new, x
<1>3. put = {y \in items : ItemKey(y) # ItemKey(x)} \cup {x}
  BY DEF PutItem
<1> HIDE DEF put
<1>4. put \subseteq Items
  BY <1>2, <1>3
<1>5. ASSUME NEW c \in Resident(new) PROVE Item(c, new[c]) \in put
  <2>1. CASE c = b
    BY <1>1, <1>3, <2>1 DEF x
  <2>2. CASE c # b
    <3>1. c \in BlockIds /\ new[c] = ft[c] /\ c \in Resident(ft)
      BY <1>1, <2>2 DEF Resident
    <3>2. ItemKey(Item(c, ft[c]))[3] = c
      BY DEF ItemKey, Item
    <3>3. ItemKey(Item(c, ft[c])) # ItemKey(x)
      BY <1>2, <2>2, <3>2
    <3> QED BY <1>3, <2>2, <3>1, <3>3
  <2> QED BY <2>1, <2>2
<1>6. ASSUME NEW e \in put, new[e.id] # None, new[e.id].score = e.score, new[e.id].last = e.last
      PROVE  e.hash = new[e.id].hash
  <2>1. e \in Items /\ e.id \in BlockIds
    BY <1>4 DEF Items
  <2>2. CASE e = x
    BY <1>1, <1>2, <2>2
  <2>3. CASE e # x
    <3>1. e \in items /\ ItemKey(e) # ItemKey(x)
      BY <1>3, <2>3
    <3>2. CASE e.id = b
      <4>1. e.score = x.score /\ e.last = x.last /\ e.id = x.id
        BY <1>1, <1>2, <1>6, <3>2
      <4>2. ItemKey(e) = ItemKey(x)
        BY <4>1 DEF ItemKey
      <4> QED BY <3>1, <4>2
    <3>3. CASE e.id # b
      BY <1>1, <1>6, <2>1, <3>1, <3>3
    <3> QED BY <3>2, <3>3
  <2> QED BY <2>2, <2>3
<1>7. ItemsAgree(new, put)
  BY <1>5, <1>6 DEF ItemsAgree
<1> QED BY <1>4, <1>7 DEF put, new, x

\* A list of outdated blocks has as many entries as there are outdated blocks, of
\* resident blocks.
LEMMA ListType ==
  ASSUME NEW ft \in Tables, NEW last, NEW list \in OutdatedLists(ft, last)
  PROVE  \E k \in Nat : /\ list \in [1 .. k -> Resident(ft)]
                        /\ Outdated(ft, last) = {} => k = 0
<1> DEFINE S == Outdated(ft, last)
           k == Cardinality(S)
<1>1. S \subseteq Resident(ft) /\ S \subseteq BlockIds
  BY DEF Outdated, Resident
<1>2. list \in SetToSeqs(S)
  BY DEF OutdatedLists
<1> HIDE DEF S
<1>3. k \in Nat
  <2>1. IsFiniteSet(S)
    BY <1>1, EvictorAssumption, FS_Subset
  <2> QED BY <2>1, FS_CardinalityType
<1>4. S = {} => k = 0
  BY FS_EmptySet
<1>5. list \in [1 .. k -> S]
  BY <1>2 DEF SetToSeqs
<1>6. list \in [1 .. k -> Resident(ft)]
  BY <1>1, <1>5
<1> QED BY <1>3, <1>4, <1>6 DEF S

\* A hint that the scheduler binds keeps its conversation.
LEMMA BoundType ==
  ASSUME TypeOK, NEW hint \in RequestHints
  PROVE  /\ hint \in Hint /\ BindSchedulerPolicy(hint) \in Hint
         /\ BindSchedulerPolicy(hint).id = hint.id
         /\ GetPolicy(BindSchedulerPolicy(hint), policy) \in Policies
<1>1. hint \in Hint /\ policy \in Policies
  BY Requests DEF TypeOK
<1>2. BindSchedulerPolicy(hint) \in Hint /\ BindSchedulerPolicy(hint).id = hint.id
  BY <1>1 DEF BindSchedulerPolicy, Hint
<1> QED BY <1>1, <1>2, PolicyType

\* The entries that a refresh appends are about resident blocks of table ft.
LEMMA Listed ==
  ASSUME NEW ft \in Tables, NEW last, NEW list \in OutdatedLists(ft, last),
         NEW old \in Seq(Entries)
  PROVE  LET new == old \o [i \in DOMAIN list |->
                      [id |-> list[i], hash |-> ft[list[i]].hash, last |-> ft[list[i]].last]]
         IN  /\ new \in Seq(Entries)
             /\ \A i \in 1 .. Len(new) :
                  \/ \E j \in 1 .. Len(old) : new[i] = old[j]
                  \/ \E c \in Resident(ft) :
                       new[i] = [id |-> c, hash |-> ft[c].hash, last |-> ft[c].last]
             /\ Outdated(ft, last) = {} => new = old
<1> DEFINE new == old \o [i \in DOMAIN list |->
                    [id |-> list[i], hash |-> ft[list[i]].hash, last |-> ft[list[i]].last]]
           E(c) == [id |-> c, hash |-> ft[c].hash, last |-> ft[c].last]
           added == [i \in DOMAIN list |-> E(list[i])]
<1>1. PICK k \in Nat : list \in [1 .. k -> Resident(ft)] /\ (Outdated(ft, last) = {} => k = 0)
  BY ListType
<1>2. \A c \in Resident(ft) : E(c) \in Entries
  BY DEF Resident, Tables, Metadata, Entries
<1> HIDE DEF E
<1>3. /\ DOMAIN list = 1 .. k
      /\ added \in [1 .. k -> Entries]
      /\ \A i \in 1 .. k : added[i] = E(list[i]) /\ list[i] \in Resident(ft)
  BY <1>1, <1>2
<1>4. added \in Seq(Entries) /\ Len(added) = k
  BY <1>3
<1>5. new = old \o added
  BY DEF E
<1> HIDE DEF added, new
<1>6. /\ new \in Seq(Entries) /\ Len(new) = Len(old) + k
      /\ \A i \in 1 .. Len(old) + k : new[i] = IF i <= Len(old) THEN old[i] ELSE added[i - Len(old)]
  <2>1. /\ old \o added \in Seq(Entries)
        /\ Len(old \o added) = Len(old) + Len(added)
        /\ \A i \in 1 .. Len(old) + Len(added) : (old \o added)[i] =
             IF i <= Len(old) THEN old[i] ELSE added[i - Len(old)]
    BY <1>4, ConcatProperties
  <2> QED BY <1>4, <1>5, <2>1
<1>7. ASSUME NEW i \in 1 .. Len(new)
      PROVE  \/ \E j \in 1 .. Len(old) : new[i] = old[j]
             \/ \E c \in Resident(ft) : new[i] = E(c)
  <2>1. Len(old) \in Nat
    OBVIOUS
  <2>2. CASE i <= Len(old)
    <3>1. i \in 1 .. Len(old)
      BY <1>6, <2>1, <2>2
    <3> QED BY <1>6, <2>2, <3>1
  <2>3. CASE ~(i <= Len(old))
    <3>1. i - Len(old) \in 1 .. k
      BY <1>6, <2>1, <2>3
    <3>2. new[i] = added[i - Len(old)]
      BY <1>6, <2>3
    <3> QED BY <1>3, <3>1, <3>2
  <2> QED BY <2>2, <2>3
<1>8. Outdated(ft, last) = {} => new = old
  <2> SUFFICES ASSUME Outdated(ft, last) = {} PROVE new = old
    OBVIOUS
  <2>1. added = << >>
    BY <1>1, <1>4, EmptySeq
  <2> QED BY <1>5, <2>1, ConcatEmptySeq
<1>9. /\ new \in Seq(Entries)
      /\ \A i \in 1 .. Len(new) :
           \/ \E j \in 1 .. Len(old) : new[i] = old[j]
           \/ \E c \in Resident(ft) :
                new[i] = [id |-> c, hash |-> ft[c].hash, last |-> ft[c].last]
      /\ Outdated(ft, last) = {} => new = old
  BY <1>6, <1>7, <1>8 DEF E
<1> QED BY <1>9 DEF new

\* What add() writes besides the tables of blocks and items.
LEMMA AddTypes ==
  ASSUME IndInv, NEW b \in BlockIds, NEW h \in Hashes, NEW ts \in Time, NEW pol \in Policies
  PROVE  LET rrip  == IF pol = "rrip" /\ rripValues[b] = None
                      THEN [rripValues EXCEPT ![b] = RripInsert] ELSE rripValues
             p     == IF pol # "pdp" THEN pdp
                      ELSE [pdp EXCEPT !.until[b] = pdp.epoch + pdp.distance,
                                       !.lastEpoch[b] = IF pdp.lastSeen[h] = None
                                                        THEN pdp.epoch ELSE pdp.lastSeen[h],
                                       !.reused[b] = pdp.lastSeen[h] # None,
                                       !.map[h] = b]
             first == IF firstAccess[b] = None
                      THEN [firstAccess EXCEPT ![b] = ts] ELSE firstAccess
         IN  /\ rrip \in RripStates /\ (pol = "rrip" => rrip[b] # None)
             /\ \A c \in BlockIds : c # b => rrip[c] = rripValues[c]
             /\ p \in PdpStates
             /\ p.map = IF pol = "pdp" THEN [pdp.map EXCEPT ![h] = b] ELSE pdp.map
             /\ first \in Times /\ first[b] # None
             /\ \A c \in BlockIds : c # b => first[c] = firstAccess[c]
<1> DEFINE rrip  == IF pol = "rrip" /\ rripValues[b] = None
                    THEN [rripValues EXCEPT ![b] = RripInsert] ELSE rripValues
           epoch == IF pdp.lastSeen[h] = None THEN pdp.epoch ELSE pdp.lastSeen[h]
           again == pdp.lastSeen[h] # None
           p     == IF pol # "pdp" THEN pdp
                    ELSE [pdp EXCEPT !.until[b] = pdp.epoch + pdp.distance,
                                     !.lastEpoch[b] = epoch,
                                     !.reused[b] = again,
                                     !.map[h] = b]
           first == IF firstAccess[b] = None
                    THEN [firstAccess EXCEPT ![b] = ts] ELSE firstAccess
<1>1. rripValues \in RripStates /\ firstAccess \in Times /\ pdp \in PdpStates
  BY DEF IndInv, TypeOK, RripStates, Times, PdpStates
<1>2. RripInsert \in 0 .. RripMax /\ RripInsert # None /\ ts # None
  BY Constants, TimeType DEF RripInsert, RripMax
<1>3. /\ rrip \in RripStates /\ (pol = "rrip" => rrip[b] # None)
      /\ \A c \in BlockIds : c # b => rrip[c] = rripValues[c]
  BY <1>1, <1>2 DEF RripStates
<1>4. /\ first \in Times /\ first[b] # None
      /\ \A c \in BlockIds : c # b => first[c] = firstAccess[c]
  BY <1>1, <1>2 DEF Times
<1>5. pdp.epoch + pdp.distance \in Nat /\ epoch \in Nat /\ again \in BOOLEAN
  <2>1. pdp.epoch \in Nat /\ pdp.distance \in Distances /\ pdp.lastSeen[h] \in Nat \cup {None}
    BY <1>1 DEF PdpStates
  <2>2. pdp.distance \in Nat
    BY <2>1, Constants
  <2> QED BY <2>1, <2>2
<1>6. p \in PdpStates /\ p.map = IF pol = "pdp" THEN [pdp.map EXCEPT ![h] = b] ELSE pdp.map
  <2> HIDE DEF epoch, again
  <2> QED BY <1>1, <1>5 DEF PdpStates
<1> HIDE DEF rrip, first, p
<1>7. /\ rrip \in RripStates /\ (pol = "rrip" => rrip[b] # None)
      /\ \A c \in BlockIds : c # b => rrip[c] = rripValues[c]
      /\ p \in PdpStates
      /\ p.map = IF pol = "pdp" THEN [pdp.map EXCEPT ![h] = b] ELSE pdp.map
      /\ first \in Times /\ first[b] # None
      /\ \A c \in BlockIds : c # b => first[c] = firstAccess[c]
  BY <1>3, <1>4, <1>6
<1> QED BY <1>7 DEF rrip, first, p

\* add(): a block whose last user is gone.
LEMMA AddStep ==
  ASSUME IndInv, NEW b \in BlockIds, NEW h \in workload.hashes, NEW ts \in 1 .. now,
         NEW hint \in RequestHints, NEW refresh \in BOOLEAN, NEW f \in Predictions,
         Add(b, h, ts, hint, refresh, f), workload' = workload
  PROVE  LET bound == BindSchedulerPolicy(hint)
             pol   == GetPolicy(bound, policy)
         IN  /\ IndInv' /\ h \in Hashes
             /\ b \notin Resident(freeTable) /\ Resident(freeTable') = Resident(freeTable) \cup {b}
             /\ freeTable'[b].hash = h /\ freeTable'[b].hint = bound
             /\ \A c \in Resident(freeTable) : /\ freeTable'[c].hash = freeTable[c].hash
                                               /\ freeTable'[c].hint = freeTable[c].hint
             /\ content[b] \in {None, h} /\ content' = [content EXCEPT ![b] = h]
             /\ rripValues' = IF pol = "rrip" /\ rripValues[b] = None
                              THEN [rripValues EXCEPT ![b] = RripInsert] ELSE rripValues
             /\ pdp'.map = IF pol = "pdp" THEN [pdp.map EXCEPT ![h] = b] ELSE pdp.map
             /\ (\A c \in Resident(freeTable') :
                   GetPolicy(freeTable'[c].hint, policy) = "pdp") => toDelete' = toDelete
             /\ ~evicting /\ UNCHANGED <<policy, finalized, evicting>>
<1> DEFINE bound == BindSchedulerPolicy(hint)
           pol   == GetPolicy(bound, policy)
           rrip  == IF pol = "rrip" /\ rripValues[b] = None
                    THEN [rripValues EXCEPT ![b] = RripInsert] ELSE rripValues
           p     == IF pol # "pdp" THEN pdp
                    ELSE [pdp EXCEPT !.until[b] = pdp.epoch + pdp.distance,
                                     !.lastEpoch[b] = IF pdp.lastSeen[h] = None
                                                      THEN pdp.epoch ELSE pdp.lastSeen[h],
                                     !.reused[b] = pdp.lastSeen[h] # None,
                                     !.map[h] = b]
           first == IF firstAccess[b] = None
                    THEN [firstAccess EXCEPT ![b] = ts] ELSE firstAccess
           score == CalcScore(b, ts, pol, rrip, first, p, f[b])
           meta  == [hash |-> h, last |-> ts, hint |-> bound, score |-> score]
           ft    == [freeTable EXCEPT ![b] = meta]
           last  == [lastAccess EXCEPT ![hint.id] = ts]
<1>1. /\ ~evicting /\ ~failed /\ freeTable[b] = None /\ content[b] \in {None, h}
      /\ \A c \in BlockIds \ {b} : content[c] # h
      /\ ts > reusedAt[b]
      /\ content' = [content EXCEPT ![b] = h]
      /\ rripValues' = rrip /\ pdp' = p /\ firstAccess' = first /\ lastAccess' = last
      /\ UNCHANGED <<policy, finalized, evicting, lost, failed, now, reusedAt>>
  BY DEF Add, Idle
<1>2. refresh => \E list \in OutdatedLists(ft, last) :
        /\ freeTable' = Rescored(ft, policy, rrip, first, p, f)
        /\ sortedDict' = ItemsOf(freeTable')
        /\ toDelete' = toDelete \o [i \in DOMAIN list |->
             [id |-> list[i], hash |-> ft[list[i]].hash, last |-> ft[list[i]].last]]
  BY DEF Add
<1>3. ~refresh => /\ freeTable' = ft
                  /\ sortedDict' = PutItem(sortedDict, Item(b, meta))
                  /\ toDelete' = toDelete
  BY DEF Add
<1>4. /\ h \in Hashes /\ bound \in Hint /\ bound.id = hint.id /\ hint.id \in Conversations
      /\ pol \in Policies /\ policy \in Policies /\ f \in [BlockIds -> Int]
      /\ freeTable \in Tables /\ sortedDict \in SUBSET Items /\ toDelete \in Seq(Entries)
  BY Requests, BoundType DEF IndInv, TypeOK, Tables, Items, Entries, Hint
<1>5. ts \in Time /\ ts \in Nat /\ ts <= now /\ now \in Nat /\ ts # None
  <2>1. now \in 1 .. MaxTime
    BY DEF IndInv, TypeOK
  <2>2. ts \in 1 .. MaxTime /\ ts <= now /\ now \in Nat
    BY <2>1, TimeType
  <2> QED BY <2>2, TimeType
<1> HIDE DEF bound, pol
<1>6. /\ rrip \in RripStates /\ (pol = "rrip" => rrip[b] # None)
      /\ \A c \in BlockIds : c # b => rrip[c] = rripValues[c]
      /\ p \in PdpStates
      /\ p.map = IF pol = "pdp" THEN [pdp.map EXCEPT ![h] = b] ELSE pdp.map
      /\ first \in Times /\ first[b] # None
      /\ \A c \in BlockIds : c # b => first[c] = firstAccess[c]
  BY <1>4, <1>5, AddTypes
<1>7. rrip = IF pol = "rrip" /\ rripValues[b] = None
             THEN [rripValues EXCEPT ![b] = RripInsert] ELSE rripValues
  OBVIOUS
<1> HIDE DEF rrip, p, first
<1>8. /\ score \in Int
      /\ pol = "lru" => score = ts
      /\ pol = "fifo" => score = first[b]
      /\ pol = "rrip" => score = -rrip[b]
  BY <1>4, <1>5, <1>6, ScoreValue, SMTT(60)
<1> HIDE DEF score
<1>9. meta \in Metadata
  BY <1>4, <1>5, <1>8 DEF Metadata
<1>10. meta.hash = h /\ meta.last = ts /\ meta.hint = bound /\ meta.score = score
  OBVIOUS
<1> HIDE DEF meta
<1>11. /\ ft \in Tables /\ ft[b] = meta /\ \A c \in BlockIds : c # b => ft[c] = freeTable[c]
  BY <1>4, <1>9 DEF Tables
<1>12. Resident(ft) = Resident(freeTable) \cup {b} /\ b \notin Resident(freeTable)
  BY <1>1, <1>9, <1>11, Constants DEF Resident
<1>13. /\ last \in [Conversations -> Time \cup {None}]
       /\ last[hint.id] = ts
       /\ \A i \in Conversations : i # hint.id => last[i] = lastAccess[i]
  BY <1>4, <1>5 DEF IndInv, TypeOK
<1> HIDE DEF ft, last
<1>14. \A c \in Resident(freeTable) : c # b /\ c \in BlockIds /\ ft[c] = freeTable[c]
  BY <1>11, <1>12 DEF Resident
<1>15. \A c \in Resident(ft) : c \in BlockIds /\ ScoreFits(ft, policy, rrip, first, c)
  <2>1. ScoreFits(ft, policy, rrip, first, b)
    BY <1>6, <1>8, <1>10, <1>11 DEF ScoreFits, pol
  <2>2. ASSUME NEW c \in Resident(freeTable) PROVE ScoreFits(ft, policy, rrip, first, c)
    <3>1. ScoreFits(freeTable, policy, rripValues, firstAccess, c)
      BY DEF IndInv, Scored
    <3> QED BY <1>6, <1>14, <3>1 DEF ScoreFits
  <2> QED BY <1>12, <1>14, <2>1, <2>2
<1>16. /\ freeTable' \in Tables /\ Resident(freeTable') = Resident(ft)
       /\ \A c \in Resident(ft) : /\ freeTable'[c].hash = ft[c].hash
                                  /\ freeTable'[c].last = ft[c].last
                                  /\ freeTable'[c].hint = ft[c].hint
                                  /\ ScoreFits(freeTable', policy, rrip, first, c)
       /\ sortedDict' \in SUBSET Items /\ ItemsAgree(freeTable', sortedDict')
       /\ toDelete' \in Seq(Entries)
       /\ \A i \in 1 .. Len(toDelete') :
            \/ \E j \in 1 .. Len(toDelete) : toDelete'[i] = toDelete[j]
            \/ \E c \in Resident(ft) :
                 toDelete'[i] = [id |-> c, hash |-> ft[c].hash, last |-> ft[c].last]
       /\ Outdated(ft, last) = {} => toDelete' = toDelete
  <2>1. CASE refresh
    <3>1. PICK list \in OutdatedLists(ft, last) :
            /\ freeTable' = Rescored(ft, policy, rrip, first, p, f)
            /\ sortedDict' = ItemsOf(freeTable')
            /\ toDelete' = toDelete \o [i \in DOMAIN list |->
                 [id |-> list[i], hash |-> ft[list[i]].hash, last |-> ft[list[i]].last]]
      BY <1>2, <2>1
    <3>2. \A c \in Resident(ft) : first[c] # None
      BY <1>6, <1>12, <1>14 DEF IndInv, Kept
    <3>3. \A c \in Resident(ft) : GetPolicy(ft[c].hint, policy) = "rrip" => rrip[c] # None
      BY <1>15 DEF ScoreFits
    <3>4. /\ freeTable' \in Tables /\ Resident(freeTable') = Resident(ft)
          /\ \A c \in Resident(ft) : /\ freeTable'[c].hash = ft[c].hash
                                     /\ freeTable'[c].last = ft[c].last
                                     /\ freeTable'[c].hint = ft[c].hint
                                     /\ ScoreFits(freeTable', policy, rrip, first, c)
      <4> DEFINE new == Rescored(ft, policy, rrip, first, p, f)
      <4>1. /\ new \in Tables /\ Resident(new) = Resident(ft)
            /\ \A c \in Resident(ft) : /\ new[c].hash = ft[c].hash
                                       /\ new[c].last = ft[c].last
                                       /\ new[c].hint = ft[c].hint
                                       /\ ScoreFits(new, policy, rrip, first, c)
        BY <1>4, <1>6, <1>11, <3>2, <3>3, RescoredValue
      <4> HIDE DEF new
      <4> QED BY <3>1, <4>1 DEF new
    <3>5. sortedDict' \in SUBSET Items /\ ItemsAgree(freeTable', sortedDict')
      BY <3>1, <3>4, RebuiltAgrees
    <3>6. /\ toDelete' \in Seq(Entries)
          /\ \A i \in 1 .. Len(toDelete') :
               \/ \E j \in 1 .. Len(toDelete) : toDelete'[i] = toDelete[j]
               \/ \E c \in Resident(ft) :
                    toDelete'[i] = [id |-> c, hash |-> ft[c].hash, last |-> ft[c].last]
          /\ Outdated(ft, last) = {} => toDelete' = toDelete
      <4>1. ft \in Tables /\ toDelete \in Seq(Entries)
        BY <1>4, <1>11
      <4> DEFINE new == toDelete \o [i \in DOMAIN list |->
                   [id |-> list[i], hash |-> ft[list[i]].hash, last |-> ft[list[i]].last]]
      <4>2. /\ new \in Seq(Entries)
            /\ \A i \in 1 .. Len(new) :
                 \/ \E j \in 1 .. Len(toDelete) : new[i] = toDelete[j]
                 \/ \E c \in Resident(ft) :
                      new[i] = [id |-> c, hash |-> ft[c].hash, last |-> ft[c].last]
            /\ Outdated(ft, last) = {} => new = toDelete
        BY <4>1, Listed
      <4>3. toDelete' = new
        BY <3>1
      <4> HIDE DEF new
      <4> QED BY <4>2, <4>3
    <3> QED BY <3>4, <3>5, <3>6
  <2>2. CASE ~refresh
    <3>1. /\ freeTable' = ft /\ sortedDict' = PutItem(sortedDict, Item(b, meta))
          /\ toDelete' = toDelete
      BY <1>3, <2>2
    <3>2. /\ PutItem(sortedDict, Item(b, meta)) \subseteq Items
          /\ ItemsAgree([freeTable EXCEPT ![b] = meta], PutItem(sortedDict, Item(b, meta)))
      <4>1. \A c \in Resident(freeTable) : c # b => Item(c, freeTable[c]) \in sortedDict
        BY DEF IndInv, ItemsAgree
      <4>2. \A e \in sortedDict :
              freeTable[e.id] # None /\ freeTable[e.id].score = e.score
                /\ freeTable[e.id].last = e.last => e.hash = freeTable[e.id].hash
        BY DEF IndInv, ItemsAgree
      <4>3. freeTable \in Tables /\ sortedDict \in SUBSET Items
        BY <1>4
      <4> QED BY <1>9, <4>1, <4>2, <4>3, PutAgrees
    <3>3. sortedDict' \in SUBSET Items /\ ItemsAgree(freeTable', sortedDict')
      BY <3>1, <3>2 DEF ft
    <3> QED BY <1>4, <1>11, <1>15, <3>1, <3>3
  <2> QED BY <2>1, <2>2
<1>17. TypeOK'
  <2>1. content' \in [BlockIds -> Hashes \cup {None}]
    BY <1>1, <1>4 DEF IndInv, TypeOK
  <2> QED BY <1>1, <1>6, <1>13, <1>16, <2>1
          DEF IndInv, TypeOK, Tables, Items, RripStates, Times, PdpStates, Entries
<1>18. \A c \in BlockIds : content'[c] = IF c = b THEN h ELSE content[c]
  BY <1>1 DEF IndInv, TypeOK
<1>19. ASSUME NEW c \in Resident(ft)
       PROVE  /\ ft[c].hash = content'[c] /\ reusedAt[c] < ft[c].last /\ ft[c].last <= now
              /\ first[c] # None /\ last[ft[c].hint.id] # None
  <2>1. CASE c = b
    <3>1. reusedAt[b] \in Nat
      BY DEF IndInv, TypeOK
    <3>2. reusedAt[b] < ts
      BY <1>1, <1>5, <3>1
    <3> QED BY <1>4, <1>5, <1>6, <1>10, <1>11, <1>13, <1>18, <2>1, <3>2
  <2>2. CASE c # b
    <3>1. c \in Resident(freeTable) /\ c \in BlockIds /\ ft[c] = freeTable[c]
      BY <1>12, <1>14, <2>2
    <3>2. /\ freeTable[c].hash = content[c]
          /\ reusedAt[c] < freeTable[c].last /\ freeTable[c].last <= now
          /\ firstAccess[c] # None /\ lastAccess[freeTable[c].hint.id] # None
      BY <3>1 DEF IndInv, Kept
    <3>3. freeTable[c].hint.id \in Conversations
      BY <1>4, <3>1 DEF Tables, Resident, Metadata, Hint
    <3> QED BY <1>5, <1>6, <1>13, <1>18, <2>2, <3>1, <3>2, <3>3
  <2> QED BY <2>1, <2>2
<1>20. Kept'
  <2> SUFFICES ASSUME NEW c \in Resident(freeTable')
               PROVE  /\ freeTable'[c].hash = content'[c]
                      /\ reusedAt[c] < freeTable'[c].last /\ freeTable'[c].last <= now
                      /\ first[c] # None
                      /\ last[freeTable'[c].hint.id] # None
    BY <1>1 DEF Kept, Resident
  <2> QED BY <1>16, <1>19
<1>21. Scored'
  BY <1>1, <1>16, ScoredNext
<1>22. Loop'
  BY <1>1, LoopNext
<1>23. Unique'
  <2> SUFFICES ASSUME NEW c \in BlockIds, NEW d \in BlockIds,
                      content'[c] = content'[d], content'[c] # None
               PROVE  c = d
    BY DEF Unique
  <2> QED BY <1>1, <1>18 DEF IndInv, Unique
<1>24. Dated'
  <2> SUFFICES ASSUME NEW i \in 1 .. Len(toDelete')
               PROVE  /\ toDelete'[i].last <= now
                      /\ \/ content'[toDelete'[i].id] = toDelete'[i].hash
                         \/ toDelete'[i].last <= reusedAt[toDelete'[i].id]
    BY <1>1 DEF Dated
  <2>1. CASE \E j \in 1 .. Len(toDelete) : toDelete'[i] = toDelete[j]
    <3>1. PICK j \in 1 .. Len(toDelete) : toDelete'[i] = toDelete[j]
      BY <2>1
    <3>2. toDelete[j] \in Entries
      BY <1>4
    <3>3. toDelete[j].id \in BlockIds /\ toDelete[j].hash # None
      BY <3>2, Constants DEF Entries
    <3>4. /\ toDelete[j].last <= now
          /\ \/ content[toDelete[j].id] = toDelete[j].hash
             \/ toDelete[j].last <= reusedAt[toDelete[j].id]
      BY DEF IndInv, Dated
    <3> QED BY <1>1, <1>18, <3>1, <3>3, <3>4
  <2>2. CASE \E c \in Resident(ft) :
               toDelete'[i] = [id |-> c, hash |-> ft[c].hash, last |-> ft[c].last]
    BY <1>19, <2>2
  <2> QED BY <1>16, <2>1, <2>2
<1>25. IndInv'
  BY <1>1, <1>16, <1>17, <1>20, <1>21, <1>22, <1>23, <1>24 DEF IndInv
<1>26. (\A c \in Resident(freeTable') :
          GetPolicy(freeTable'[c].hint, policy) = "pdp") => toDelete' = toDelete
  BY <1>16 DEF Outdated
<1>27. /\ Resident(freeTable') = Resident(freeTable) \cup {b}
       /\ freeTable'[b].hash = h /\ freeTable'[b].hint = bound
       /\ \A c \in Resident(freeTable) : /\ freeTable'[c].hash = freeTable[c].hash
                                         /\ freeTable'[c].hint = freeTable[c].hint
  BY <1>10, <1>11, <1>12, <1>14, <1>16
<1>28. rripValues' = IF pol = "rrip" /\ rripValues[b] = None
                     THEN [rripValues EXCEPT ![b] = RripInsert] ELSE rripValues
  BY <1>1, <1>7
<1>29. pdp'.map = IF pol = "pdp" THEN [pdp.map EXCEPT ![h] = b] ELSE pdp.map
  BY <1>1, <1>6
<1> QED BY <1>1, <1>4, <1>12, <1>25, <1>26, <1>27, <1>28, <1>29 DEF bound, pol

\* update(): the access of a resident block gives it a new item for its old one.
LEMMA UpdateStep ==
  ASSUME IndInv, NEW b \in BlockIds, NEW ts \in 1 .. now, NEW hint \in RequestHints,
         NEW f \in Predictions, Update(b, ts, hint, f), workload' = workload
  PROVE  LET bound == BindSchedulerPolicy(hint)
             pol   == GetPolicy(bound, policy)
         IN  /\ IndInv'
             /\ b \in Resident(freeTable) /\ Resident(freeTable') = Resident(freeTable)
             /\ freeTable'[b].hint = bound
             /\ \A c \in Resident(freeTable) :
                  /\ freeTable'[c].hash = freeTable[c].hash
                  /\ c # b => freeTable'[c].hint = freeTable[c].hint
             /\ rripValues' = IF pol = "rrip" THEN [rripValues EXCEPT ![b] = RripHit]
                              ELSE rripValues
             /\ pdp'.map = pdp.map
             /\ ~evicting /\ UNCHANGED <<toDelete, policy, finalized, evicting, content>>
<1> DEFINE bound == BindSchedulerPolicy(hint)
           pol   == GetPolicy(bound, policy)
           rrip  == IF pol = "rrip" THEN [rripValues EXCEPT ![b] = RripHit] ELSE rripValues
           p     == IF pol = "pdp" THEN PdpProtect(pdp, b, TRUE) ELSE pdp
           score == CalcScore(b, ts, pol, rrip, firstAccess, p, f[b])
           meta  == [freeTable[b] EXCEPT !.last = ts, !.hint = bound, !.score = score]
           last  == [lastAccess EXCEPT ![hint.id] = ts]
<1>1. ~evicting /\ ~failed /\ b \in Resident(freeTable) /\ ts > reusedAt[b] /\ now' = now
  BY DEF Update, Idle, Resident
<1>2. HasItem(b) /\ freeTable[b] \in Metadata
  BY <1>1, FindsItem
<1>3. /\ rripValues' = rrip /\ pdp' = p
      /\ freeTable' = [freeTable EXCEPT ![b] = meta]
      /\ sortedDict' = PutItem(WithoutItem(b), Item(b, meta))
      /\ lastAccess' = last
      /\ UNCHANGED <<firstAccess, toDelete, policy, finalized, evicting,
                     lost, failed, content, reusedAt>>
  BY <1>2 DEF Update
<1>4. /\ bound \in Hint /\ bound.id = hint.id /\ hint.id \in Conversations
      /\ pol \in Policies /\ policy \in Policies /\ f[b] \in Int
      /\ freeTable \in Tables /\ sortedDict \in SUBSET Items
      /\ firstAccess \in Times /\ firstAccess[b] # None
  <2>1. f \in [BlockIds -> Int]
    BY Requests DEF IndInv
  <2> QED BY <1>1, <2>1, BoundType DEF IndInv, TypeOK, Tables, Items, Times, Hint, Kept
<1>5. ts \in Time /\ ts \in Nat /\ ts <= now /\ now \in Nat /\ ts # None
  <2>1. now \in 1 .. MaxTime
    BY DEF IndInv, TypeOK
  <2>2. ts \in 1 .. MaxTime /\ ts <= now /\ now \in Nat
    BY <2>1, TimeType
  <2> QED BY <2>2, TimeType
<1> HIDE DEF bound, pol
<1>6. /\ rrip \in RripStates /\ (pol = "rrip" => rrip[b] # None)
      /\ \A c \in BlockIds : c # b => rrip[c] = rripValues[c]
      /\ rrip = IF pol = "rrip" THEN [rripValues EXCEPT ![b] = RripHit] ELSE rripValues
  <2>1. RripHit \in 0 .. RripMax /\ RripHit # None
    BY Constants DEF RripHit, RripMax
  <2> QED BY <2>1 DEF IndInv, TypeOK, RripStates
<1>7. p \in PdpStates /\ p.map = pdp.map
  <2>1. pdp \in PdpStates
    BY DEF IndInv, TypeOK, PdpStates
  <2> QED BY <2>1, PdpProtectType
<1> HIDE DEF rrip, p
<1>8. /\ score \in Int
      /\ pol = "lru" => score = ts
      /\ pol = "fifo" => score = firstAccess[b]
      /\ pol = "rrip" => score = -rrip[b]
  <2>1. /\ ts \in Time /\ pol \in Policies /\ rrip \in RripStates /\ firstAccess \in Times
        /\ p \in PdpStates /\ f[b] \in Int /\ firstAccess[b] # None
    BY <1>4, <1>5, <1>6, <1>7
  <2>2. pol = "rrip" => rrip[b] # None
    BY <1>6
  <2> QED BY <2>1, <2>2, ScoreValue
<1> HIDE DEF score
<1>9. /\ meta \in Metadata /\ meta.hash = freeTable[b].hash /\ meta.last = ts
      /\ meta.hint = bound /\ meta.score = score
  BY <1>2, <1>4, <1>5, <1>8 DEF Metadata
<1> HIDE DEF meta
<1>10. /\ freeTable' \in Tables /\ freeTable'[b] = meta
       /\ \A c \in BlockIds : c # b => freeTable'[c] = freeTable[c]
  BY <1>3, <1>4, <1>9 DEF Tables
<1>11. Resident(freeTable') = Resident(freeTable)
  BY <1>1, <1>9, <1>10, Constants DEF Resident
<1>12. /\ last \in [Conversations -> Time \cup {None}]
       /\ last[hint.id] = ts
       /\ \A i \in Conversations : i # hint.id => last[i] = lastAccess[i]
  BY <1>4, <1>5 DEF IndInv, TypeOK
<1> HIDE DEF last
<1>13. sortedDict' \subseteq Items /\ ItemsAgree(freeTable', sortedDict')
  <2> DEFINE items == WithoutItem(b)
  <2>1. /\ items \subseteq sortedDict
        /\ \A c \in Resident(freeTable) : c # b => Item(c, freeTable[c]) \in items
    BY <1>1, OtherItems
  <2>2. \A e \in items :
          freeTable[e.id] # None /\ freeTable[e.id].score = e.score
            /\ freeTable[e.id].last = e.last => e.hash = freeTable[e.id].hash
    BY <2>1 DEF IndInv, ItemsAgree
  <2>3. items \in SUBSET Items
    BY <1>4, <2>1
  <2> HIDE DEF items
  <2>4. /\ PutItem(items, Item(b, meta)) \subseteq Items
        /\ ItemsAgree([freeTable EXCEPT ![b] = meta], PutItem(items, Item(b, meta)))
    BY <1>4, <1>9, <2>1, <2>2, <2>3, PutAgrees
  <2> QED BY <1>3, <2>4 DEF items
<1>14. TypeOK'
  BY <1>1, <1>3, <1>6, <1>7, <1>10, <1>12, <1>13
     DEF IndInv, TypeOK, Tables, Items, RripStates, PdpStates
<1>15. Kept'
  <2> SUFFICES ASSUME NEW c \in Resident(freeTable)
               PROVE  /\ freeTable'[c].hash = content[c]
                      /\ reusedAt[c] < freeTable'[c].last /\ freeTable'[c].last <= now
                      /\ firstAccess[c] # None
                      /\ last[freeTable'[c].hint.id] # None
    BY <1>1, <1>3, <1>11 DEF Kept, Resident
  <2>1. /\ freeTable[c].hash = content[c]
        /\ reusedAt[c] < freeTable[c].last /\ freeTable[c].last <= now
        /\ firstAccess[c] # None /\ lastAccess[freeTable[c].hint.id] # None
    BY DEF IndInv, Kept
  <2>2. CASE c = b
    <3>1. reusedAt[b] \in Nat
      BY DEF IndInv, TypeOK
    <3>2. reusedAt[b] < ts
      BY <1>1, <1>5, <3>1
    <3> QED BY <1>4, <1>5, <1>9, <1>10, <1>12, <2>1, <2>2, <3>2
  <2>3. CASE c # b
    <3>1. c \in BlockIds /\ freeTable'[c] = freeTable[c]
      BY <1>10, <2>3 DEF Resident
    <3>2. freeTable[c].hint.id \in Conversations
      BY <1>4 DEF Tables, Resident, Metadata, Hint
    <3> QED BY <1>5, <1>12, <2>1, <3>1, <3>2
  <2> QED BY <2>2, <2>3
<1>16. Scored'
  <2>1. ScoreFits(freeTable', policy, rrip, firstAccess, b)
    BY <1>6, <1>8, <1>9, <1>10 DEF ScoreFits, pol
  <2>2. ASSUME NEW c \in Resident(freeTable), c # b
        PROVE  ScoreFits(freeTable', policy, rrip, firstAccess, c)
    <3>1. ScoreFits(freeTable, policy, rripValues, firstAccess, c)
      BY DEF IndInv, Scored
    <3>2. c \in BlockIds
      BY DEF Resident
    <3> QED BY <1>6, <1>10, <2>2, <3>1, <3>2 DEF ScoreFits
  <2> QED BY <1>3, <1>11, <2>1, <2>2, ScoredNext
<1>17. Loop'
  BY <1>1, <1>3, LoopNext
<1>18. Dated' /\ Unique'
  BY <1>1, <1>3 DEF IndInv, Dated, Unique
<1>19. IndInv'
  BY <1>3, <1>13, <1>14, <1>15, <1>16, <1>17, <1>18 DEF IndInv
<1>20. \A c \in Resident(freeTable) : /\ freeTable'[c].hash = freeTable[c].hash
                                      /\ c # b => freeTable'[c].hint = freeTable[c].hint
  BY <1>9, <1>10 DEF Resident
<1> QED BY <1>1, <1>3, <1>6, <1>7, <1>9, <1>10, <1>11, <1>19, <1>20 DEF bound, pol

\* The scheduler settles on a policy, and every resident block moves to it.
LEMMA FinalizeStep ==
  ASSUME IndInv, NEW choice \in FinalChoices, NEW distance \in Distances, NEW f \in Predictions,
         Finalize(choice, distance, f), workload' = workload
  PROVE  /\ IndInv' /\ workload.scheduler /\ finalized' /\ policy' = choice
         /\ Resident(freeTable') = Resident(freeTable)
         /\ \A b \in Resident(freeTable) :
              /\ freeTable'[b].hash = freeTable[b].hash
              /\ freeTable'[b].hint = Rebound(freeTable[b].hint, choice)
         /\ \A b \in BlockIds : rripValues'[b] # None =>
              choice = "rrip" /\ b \in Resident(freeTable)
         /\ choice = "pdp" => \A h \in Hashes :
              pdp'.map[h] = IF \E b \in Resident(freeTable) : freeTable[b].hash = h
                            THEN CHOOSE b \in Resident(freeTable) : freeTable[b].hash = h
                            ELSE None
         /\ toDelete' = <<>> /\ evicting' = FALSE /\ content' = content
<1> DEFINE all   == Resident(freeTable)
           hints == [b \in BlockIds |->
                       IF freeTable[b] = None THEN None
                       ELSE [freeTable[b] EXCEPT !.hint = Rebound(@, choice)]]
           rrip  == [b \in BlockIds |-> IF choice = "rrip" /\ b \in all THEN RripInsert ELSE None]
           until == [b \in BlockIds |-> IF b \in all THEN pdp.epoch + distance ELSE pdp.until[b]]
           epoch == [b \in BlockIds |-> IF b \in all THEN pdp.epoch ELSE pdp.lastEpoch[b]]
           again == [b \in BlockIds |-> b \in all \/ pdp.reused[b]]
           map   == [h \in Hashes |-> IF \E b \in all : freeTable[b].hash = h
                                      THEN CHOOSE b \in all : freeTable[b].hash = h ELSE None]
           p     == IF choice # "pdp" THEN pdp
                    ELSE [pdp EXCEPT !.distance = distance, !.until = until,
                                     !.lastEpoch = epoch, !.reused = again, !.map = map]
<1>1. /\ ~evicting /\ ~failed /\ workload.scheduler
      /\ finalized' = TRUE /\ policy' = choice /\ rripValues' = rrip
      /\ toDelete' = <<>>
      /\ UNCHANGED <<lastAccess, firstAccess, evicting, lost, failed, now, content, reusedAt>>
  BY DEF Finalize, Idle
<1>2. pdp' = p
  BY DEF Finalize
<1>3. /\ freeTable' = Rescored(hints, choice, rrip, firstAccess, p, f)
      /\ sortedDict' = ItemsOf(freeTable')
  BY <1>2 DEF Finalize
<1>4. /\ choice \in Policies /\ f \in [BlockIds -> Int] /\ freeTable \in Tables
      /\ firstAccess \in Times /\ pdp \in PdpStates
  BY Requests, Constants DEF IndInv, TypeOK, Tables, Times, PdpStates
<1>5. all \subseteq BlockIds
  BY DEF Resident
<1>6. /\ rrip \in RripStates
      /\ \A b \in BlockIds : rrip[b] # None <=> choice = "rrip" /\ b \in all
  <2>1. RripInsert \in 0 .. RripMax /\ RripInsert # None
    BY Constants DEF RripInsert, RripMax
  <2> QED BY <2>1 DEF RripStates
<1>7. p \in PdpStates /\ (choice = "pdp" => p.map = map)
  <2>1. until \in [BlockIds -> Nat] /\ epoch \in [BlockIds -> Nat]
    <3>1. pdp.epoch \in Nat /\ pdp.epoch + distance \in Nat
      BY <1>4, Constants DEF PdpStates
    <3> QED BY <1>4, <3>1 DEF PdpStates
  <2>2. again \in [BlockIds -> BOOLEAN]
    <3>1. \A b \in BlockIds : (b \in all \/ pdp.reused[b]) \in BOOLEAN
      OBVIOUS
    <3> QED BY <3>1
  <2>3. map \in [Hashes -> BlockIds \cup {None}]
    BY <1>5
  <2> HIDE DEF until, epoch, again, map
  <2> QED BY <1>4, <2>1, <2>2, <2>3 DEF PdpStates
<1> HIDE DEF p
<1>8. \A b \in all : /\ hints[b] \in Metadata /\ hints[b].hash = freeTable[b].hash
                     /\ hints[b].last = freeTable[b].last
                     /\ hints[b].hint = Rebound(freeTable[b].hint, choice)
                     /\ hints[b].hint.id = freeTable[b].hint.id
  <2> SUFFICES ASSUME NEW b \in all
               PROVE  /\ hints[b] \in Metadata /\ hints[b].hash = freeTable[b].hash
                      /\ hints[b].last = freeTable[b].last
                      /\ hints[b].hint = Rebound(freeTable[b].hint, choice)
                      /\ hints[b].hint.id = freeTable[b].hint.id
    OBVIOUS
  <2>1. freeTable[b] \in Metadata /\ freeTable[b] # None /\ b \in BlockIds
    BY <1>4 DEF Resident, Tables
  <2>2. hints[b] = [freeTable[b] EXCEPT !.hint = Rebound(freeTable[b].hint, choice)]
    BY <2>1
  <2>3. freeTable[b].hint \in Hint
    BY <2>1 DEF Metadata
  <2>4. /\ Rebound(freeTable[b].hint, choice) \in Hint
        /\ Rebound(freeTable[b].hint, choice).id = freeTable[b].hint.id
    BY <1>4, <2>3 DEF Rebound, Hint, AllKinds
  <2> HIDE DEF hints
  <2> QED BY <2>1, <2>2, <2>4 DEF Metadata
<1>9. \A b \in BlockIds : hints[b] # None <=> b \in all
  BY <1>8, Constants DEF Resident
<1>10. hints \in Tables
  <2>1. \A b \in BlockIds : hints[b] \in Metadata \cup {None}
    BY <1>8, <1>9
  <2> QED BY <2>1 DEF Tables
<1> HIDE DEF hints
<1>11. Resident(hints) = all
  BY <1>5, <1>9 DEF Resident
<1> HIDE DEF all, rrip
<1>12. \A b \in all : firstAccess[b] # None
  BY DEF IndInv, Kept, all
<1>13. \A b \in all : GetPolicy(hints[b].hint, choice) = "rrip" => rrip[b] # None
  <2> SUFFICES ASSUME NEW b \in all PROVE GetPolicy(hints[b].hint, choice) = choice
    BY <1>5, <1>6 DEF all
  <2>1. freeTable[b].hint \in Hint
    BY <1>4 DEF all, Resident, Tables, Metadata
  <2>2. hints[b].hint.kind \in {"plain", "next_timestamp"} /\ hints[b].hint.bound = choice
    BY <1>8, <2>1 DEF Rebound, Hint
  <2>3. choice # None
    BY <1>4, Constants
  <2> QED BY <2>2, <2>3 DEF GetPolicy
<1>14. /\ freeTable' \in Tables /\ Resident(freeTable') = all
       /\ \A b \in all : /\ freeTable'[b].hash = freeTable[b].hash
                         /\ freeTable'[b].last = freeTable[b].last
                         /\ freeTable'[b].hint = Rebound(freeTable[b].hint, choice)
                         /\ freeTable'[b].hint.id = freeTable[b].hint.id
                         /\ ScoreFits(freeTable', choice, rrip, firstAccess, b)
  <2> DEFINE new == Rescored(hints, choice, rrip, firstAccess, p, f)
  <2>1. /\ new \in Tables /\ Resident(new) = Resident(hints)
        /\ \A b \in Resident(hints) : /\ new[b].hash = hints[b].hash /\ new[b].last = hints[b].last
                                      /\ new[b].hint = hints[b].hint
                                      /\ ScoreFits(new, choice, rrip, firstAccess, b)
    BY <1>4, <1>6, <1>7, <1>10, <1>11, <1>12, <1>13, RescoredValue
  <2>2. freeTable' = new
    BY <1>3
  <2> HIDE DEF new
  <2> QED BY <1>8, <1>11, <2>1, <2>2
<1>15. sortedDict' \subseteq Items /\ ItemsAgree(freeTable', sortedDict')
  BY <1>3, <1>14, RebuiltAgrees
<1>16. TypeOK'
  <2>1. toDelete' \in Seq([id : BlockIds, hash : Hashes, last : Time])
    BY <1>1
  <2> QED BY <1>1, <1>2, <1>4, <1>6, <1>7, <1>14, <1>15, <2>1
          DEF IndInv, TypeOK, Tables, Items, RripStates, PdpStates
<1>17. Kept'
  <2> SUFFICES ASSUME NEW c \in all
               PROVE  /\ freeTable'[c].hash = content[c]
                      /\ reusedAt[c] < freeTable'[c].last /\ freeTable'[c].last <= now
                      /\ firstAccess[c] # None
                      /\ lastAccess[freeTable'[c].hint.id] # None
    BY <1>1, <1>14 DEF Kept, Resident
  <2> QED BY <1>14 DEF IndInv, Kept, all
<1>18. Scored'
  BY <1>1, <1>14, ScoredNext
<1>19. Loop'
  BY <1>1, LoopNext
<1>20. Dated' /\ Unique'
  BY <1>1 DEF IndInv, Dated, Unique
<1>21. IndInv'
  BY <1>1, <1>15, <1>16, <1>17, <1>18, <1>19, <1>20 DEF IndInv
<1>22. choice = "pdp" => \A h \in Hashes :
         pdp'.map[h] = IF \E b \in all : freeTable[b].hash = h
                       THEN CHOOSE b \in all : freeTable[b].hash = h ELSE None
  BY <1>2, <1>7
<1>23. evicting' = FALSE
  BY <1>1 DEF IndInv, TypeOK
<1> QED BY <1>1, <1>6, <1>14, <1>21, <1>22, <1>23 DEF all

-----------------------------------------------------------------------------
(* The invariant, and what evict() takes.                                   *)

\* Every step keeps the invariant.
LEMMA NextInd == IndInv /\ [Next]_vars => IndInv'
<1> SUFFICES ASSUME IndInv, [Next]_vars PROVE IndInv'
  OBVIOUS
<1>1. CASE UNCHANGED vars
  <2>1. TypeOK'
    BY <1>1 DEF IndInv, TypeOK, vars, evictorVars
  <2>2. Dated' /\ now <= now'
    BY <1>1 DEF IndInv, Dated, TypeOK, vars, evictorVars
  <2> QED BY <1>1, <2>1, <2>2, SameTable DEF IndInv, Loop, vars, evictorVars
<1>2. CASE Next
  <2> workload' = workload
    BY <1>2 DEF Next
  <2>1. CASE \E b \in BlockIds, h \in workload.hashes, ts \in 1 .. now, hint \in RequestHints,
                refresh \in BOOLEAN, f \in Predictions : Add(b, h, ts, hint, refresh, f)
    BY <2>1, AddStep
  <2>2. CASE \E b \in BlockIds, ts \in 1 .. now, hint \in RequestHints, f \in Predictions :
                Update(b, ts, hint, f)
    BY <2>2, UpdateStep
  <2>3. CASE \E b \in BlockIds : RemoveHit(b)
    BY <2>3, RemoveHitStep
  <2>4. CASE EvictByPdp
    BY <2>4, EvictByPdpStep
  <2>5. CASE EvictBegin
    BY <2>5, EvictBeginStep
  <2>6. CASE EvictOutdated
    BY <2>6, EvictOutdatedStep
  <2>7. CASE \E f \in Predictions : EvictLeast(f)
    BY <2>7, EvictLeastStep
  <2>8. CASE \E c \in FinalChoices, d \in Distances, f \in Predictions : Finalize(c, d, f)
    BY <2>8, FinalizeStep
  <2>9. CASE \E h \in workload.hashes, hit \in BOOLEAN, d \in Distances : PdpObserve(h, hit, d)
    BY <2>9, PdpObserveStep
  <2>10. CASE Tick
    BY <2>10, TickStep
  <2> QED BY <1>2, <2>1, <2>2, <2>3, <2>4, <2>5, <2>6, <2>7, <2>8, <2>9, <2>10
          DEF Next, EvictorNext
<1> QED BY <1>1, <1>2

\* IndInv is an invariant, whatever the fairness.
THEOREM Invariant == SafeSpec => []IndInv
<1>1. Init => IndInv
  BY InitInd
<1>2. IndInv /\ [Next]_vars => IndInv'
  BY NextInd
<1> QED BY <1>1, <1>2, PTL DEF SafeSpec

\* Every variable keeps its type: in particular the rrip values stay in their range
\* and the protecting distance is one that the sampler can learn.
THEOREM TypeCorrect == Spec => []TypeOK
<1>1. IndInv => TypeOK
  BY DEF IndInv
<1> QED BY <1>1, Invariant, PTL DEF Spec

\* free_table and sorted_dict agree, so remove(), update() and evict() never miss
\* an item and raise, and evict() finds a victim whenever a block is resident.
THEOREM TablesStayInStep == Spec => []TablesAgree
<1>1. IndInv => TablesAgree
  <2> SUFFICES ASSUME IndInv PROVE TablesAgree
    OBVIOUS
  <2>1. \A b \in Resident(freeTable) : HasItem(b)
    BY FindsItem
  <2>2. \A b \in Resident(freeTable) : /\ freeTable[b].hash = content[b]
                                       /\ firstAccess[b] # None
                                       /\ lastAccess[freeTable[b].hint.id] # None
    BY DEF IndInv, Kept
  <2>3. \A e \in sortedDict : Valid(e) => e.hash = freeTable[e.id].hash
    BY DEF IndInv, ItemsAgree, Valid
  <2> QED BY <2>1, <2>2, <2>3 DEF TablesAgree, IndInv
<1> QED BY <1>1, Invariant, PTL DEF Spec

\* evict() reports the content of the block it takes: an entry of the list of
\* outdated blocks that has been overtaken by a reuse of its block is never used.
THEOREM ReportsOwn == Spec => []ReportsOwnHash
<1>1. IndInv => ReportsOwnHash
  BY DEF IndInv, ReportsOwnHash
<1> QED BY <1>1, Invariant, PTL DEF Spec

\* The order of pdp: a protected block goes only when no block is expired, and a
\* reused one only when no other block is not reused.
LEMMA PdpOrder ==
  ASSUME IndInv, NEW b \in BlockIds, NEW c \in BlockIds,
         Before(PdpVictimKey(pdp, b), PdpVictimKey(pdp, c)), pdp.until[b] > pdp.epoch
  PROVE  pdp.until[c] > pdp.epoch /\ (pdp.reused[b] => pdp.reused[c])
<1> DEFINE x == PdpVictimKey(pdp, b)
           y == PdpVictimKey(pdp, c)
<1>1. /\ pdp.until[b] \in Int /\ pdp.until[c] \in Int /\ pdp.epoch \in Int
      /\ pdp.reused[b] \in BOOLEAN /\ pdp.reused[c] \in BOOLEAN
  BY DEF IndInv, TypeOK
<1>2. /\ DOMAIN x = 1 .. 5 /\ x[1] = 1
      /\ x[2] = IF pdp.reused[b] THEN 1 ELSE 0
  <2>1. ~(pdp.until[b] - pdp.epoch <= 0)
    BY <1>1
  <2> QED BY <2>1 DEF PdpVictimKey
<1>3. CASE pdp.until[c] - pdp.epoch <= 0
  <2>1. y[1] = 0
    BY <1>3 DEF PdpVictimKey
  <2> HIDE DEF x, y
  <2>2. PICK i \in DOMAIN x : x[i] < y[i] /\ \A j \in 1 .. i - 1 : x[j] = y[j]
    BY DEF Before, x, y
  <2>3. i = 1
    BY <1>2, <2>1, <2>2
  <2> QED BY <1>2, <2>1, <2>2, <2>3
<1>4. CASE ~(pdp.until[c] - pdp.epoch <= 0)
  <2>1. y[1] = 1 /\ y[2] = IF pdp.reused[c] THEN 1 ELSE 0
    BY <1>4 DEF PdpVictimKey
  <2> HIDE DEF x, y
  <2>2. PICK i \in DOMAIN x : x[i] < y[i] /\ \A j \in 1 .. i - 1 : x[j] = y[j]
    BY DEF Before, x, y
  <2>3. i \in 2 .. 5
    BY <1>2, <2>1, <2>2
  <2>4. i = 2 \/ x[2] = y[2]
    BY <2>2, <2>3
  <2>5. pdp.reused[b] => pdp.reused[c]
    BY <1>1, <1>2, <2>1, <2>2, <2>4
  <2> QED BY <1>1, <1>4, <2>5
<1> QED BY <1>3, <1>4

\* A block that is evicted on its score is the one that the policy of all resident
\* blocks names.
LEMMA VictimStep ==
  ASSUME IndInv, [Next]_vars, NEW b \in BlockIds, Evicted(b), toDelete = <<>>,
         \A c \in Resident(freeTable) \ {b} : PolicyOf(c) = PolicyOf(b),
         NEW c \in Resident(freeTable) \ {b}
  PROVE  CASE PolicyOf(b) = "lru"  -> freeTable[b].last <= freeTable[c].last
           [] PolicyOf(b) = "fifo" -> firstAccess[b] <= firstAccess[c]
           [] PolicyOf(b) = "rrip" -> /\ rripValues[b] = RripMax
                                      /\ rripValues[c] = RripMax =>
                                           freeTable[b].last <= freeTable[c].last
           [] PolicyOf(b) = "pdp"  -> pdp.until[b] > pdp.epoch =>
                                        /\ pdp.until[c] > pdp.epoch
                                        /\ pdp.reused[b] => pdp.reused[c]
           [] OTHER -> freeTable[b].score <= freeTable[c].score
<1>1. ASSUME content' = content PROVE FALSE
  BY <1>1 DEF Evicted
<1>2. Next /\ workload' = workload
  BY <1>1 DEF Next, vars
<1>3. content \in [BlockIds -> Hashes \cup {None}] /\ None \notin Hashes /\ c \in BlockIds
  BY Constants DEF IndInv, TypeOK, Resident
<1>4. CASE EvictByPdp
  <2>1. PICK v \in Resident(freeTable) :
          /\ content' = [content EXCEPT ![v] = None]
          /\ \A d \in Resident(freeTable) \ {v} :
               Before(PdpVictimKey(pdp, v), PdpVictimKey(pdp, d))
          /\ \E sample \in Resident(freeTable) : PolicyOf(sample) = "pdp"
    BY <1>2, <1>4, EvictByPdpStep
  <2>2. v = b
    BY <1>3, <2>1 DEF Evicted
  <2>3. PolicyOf(b) = "pdp"
    BY <2>1
  <2>4. pdp.until[b] > pdp.epoch =>
          /\ pdp.until[c] > pdp.epoch
          /\ pdp.reused[b] => pdp.reused[c]
    BY <1>3, <2>1, <2>2, PdpOrder
  <2> QED BY <2>3, <2>4
<1>5. CASE \E f \in Predictions : EvictLeast(f)
  <2>1. /\ evicting
        /\ \/ content' = content
           \/ \E v \in Resident(freeTable) :
                /\ content' = [content EXCEPT ![v] = None]
                /\ PolicyOf(v) = "rrip" => rripValues[v] = RripMax
                /\ \A d \in Resident(freeTable) : d # v =>
                     /\ freeTable[v].score <= freeTable[d].score
                     /\ freeTable[v].score = freeTable[d].score =>
                          freeTable[v].last <= freeTable[d].last
    BY <1>2, <1>5, EvictLeastStep
  <2>2. PICK v \in Resident(freeTable) :
          /\ content' = [content EXCEPT ![v] = None]
          /\ PolicyOf(v) = "rrip" => rripValues[v] = RripMax
          /\ \A d \in Resident(freeTable) : d # v =>
               /\ freeTable[v].score <= freeTable[d].score
               /\ freeTable[v].score = freeTable[d].score =>
                    freeTable[v].last <= freeTable[d].last
    BY <1>1, <2>1
  <2>3. v = b
    BY <1>3, <2>2 DEF Evicted
  <2>4. /\ PolicyOf(b) = "rrip" => rripValues[b] = RripMax
        /\ freeTable[b].score <= freeTable[c].score
        /\ freeTable[b].score = freeTable[c].score => freeTable[b].last <= freeTable[c].last
    BY <2>2, <2>3
  <2>5. PolicyOf(b) # "pdp"
    BY <2>1, <2>2, <2>3 DEF IndInv, Loop
  <2>6. /\ ScoreFits(freeTable, policy, rripValues, firstAccess, b)
        /\ ScoreFits(freeTable, policy, rripValues, firstAccess, c)
        /\ PolicyOf(c) = PolicyOf(b)
    BY <2>2, <2>3 DEF IndInv, Scored
  <2>7. /\ PolicyOf(b) = "lru" => freeTable[b].last <= freeTable[c].last
        /\ PolicyOf(b) = "fifo" => firstAccess[b] <= firstAccess[c]
    BY <2>4, <2>6 DEF ScoreFits, PolicyOf
  <2>8. PolicyOf(b) = "rrip" =>
          /\ rripValues[b] = RripMax
          /\ rripValues[c] = RripMax => freeTable[b].last <= freeTable[c].last
    BY <2>4, <2>6 DEF ScoreFits, PolicyOf
  <2> QED BY <2>4, <2>5, <2>7, <2>8
<1>6. CASE \E d \in BlockIds, h \in workload.hashes, ts \in 1 .. now, hint \in RequestHints,
              refresh \in BOOLEAN, f \in Predictions : Add(d, h, ts, hint, refresh, f)
  <2>1. PICK d \in BlockIds, h \in workload.hashes, ts \in 1 .. now, hint \in RequestHints,
              refresh \in BOOLEAN, f \in Predictions : Add(d, h, ts, hint, refresh, f)
    BY <1>6
  <2>2. h \in Hashes /\ content' = [content EXCEPT ![d] = h]
    BY <2>1, Requests DEF Add, IndInv
  <2> QED BY <1>3, <2>2 DEF Evicted
<1>7. CASE \E d \in BlockIds, ts \in 1 .. now, hint \in RequestHints, f \in Predictions :
              Update(d, ts, hint, f)
  BY <1>1, <1>2, <1>7, UpdateStep
<1>8. CASE \E d \in BlockIds : RemoveHit(d)
  BY <1>1, <1>2, <1>8, RemoveHitStep
<1>9. CASE EvictBegin \/ Tick
  BY <1>1, <1>9 DEF EvictBegin, Tick
<1>10. CASE EvictOutdated
  BY <1>10 DEF EvictOutdated
<1>11. CASE \E d \in FinalChoices, dist \in Distances, f \in Predictions : Finalize(d, dist, f)
  BY <1>1, <1>11 DEF Finalize
<1>12. CASE \E h \in workload.hashes, hit \in BOOLEAN, d \in Distances : PdpObserve(h, hit, d)
  BY <1>1, <1>12 DEF PdpObserve
<1> QED BY <1>2, <1>4, <1>5, <1>6, <1>7, <1>8, <1>9, <1>10, <1>11, <1>12 DEF Next, EvictorNext

\* When one policy governs all resident blocks and the list of outdated blocks is
\* empty, evict() takes the block which that policy names.
THEOREM VictimIsNamed == Spec => VictimByPolicy
<1> DEFINE Named ==
      \A b \in BlockIds : Evicted(b) /\ toDelete = <<>> =>
        LET others == Resident(freeTable) \ {b}
        IN  (\A c \in others : PolicyOf(c) = PolicyOf(b)) =>
              \A c \in others :
                CASE PolicyOf(b) = "lru"  -> freeTable[b].last <= freeTable[c].last
                  [] PolicyOf(b) = "fifo" -> firstAccess[b] <= firstAccess[c]
                  [] PolicyOf(b) = "rrip" -> /\ rripValues[b] = RripMax
                                             /\ rripValues[c] = RripMax =>
                                                  freeTable[b].last <= freeTable[c].last
                  [] PolicyOf(b) = "pdp"  -> pdp.until[b] > pdp.epoch =>
                                               /\ pdp.until[c] > pdp.epoch
                                               /\ pdp.reused[b] => pdp.reused[c]
                  [] OTHER -> freeTable[b].score <= freeTable[c].score
<1>1. IndInv /\ [Next]_vars => Named
  BY VictimStep
<1> QED BY <1>1, Invariant, PTL DEF Spec, SafeSpec, VictimByPolicy

-----------------------------------------------------------------------------
(* With the scheduler: one policy for all.                                  *)

\* What the invariant says of the next state, with the policies read in this one.
LEMMA GovNext ==
  ASSUME HintsLeaveChoice, workload' = workload,
         finalized' => workload.scheduler,
         ~finalized' => policy' = "ml",
         workload.scheduler =>
           \A b \in Resident(freeTable') : GetPolicy(freeTable'[b].hint, policy') = policy',
         workload.scheduler =>
           \A b \in BlockIds : rripValues'[b] # None => policy' = "rrip" /\ content'[b] # None,
         finalized' /\ policy' = "pdp" => toDelete' = <<>> /\ ~evicting',
         PdpMapExact'
  PROVE  GovInv'
<1>1. HintsLeaveChoice'
  BY DEF HintsLeaveChoice
<1>2. workload'.scheduler => \A b \in Resident(freeTable') : PolicyOf(b)' = policy'
  BY DEF PolicyOf, GetPolicy, Resident
<1> QED BY <1>1, <1>2 DEF GovInv, Resident

\* The scheduler governs what a request leaves open.
LEMMA Governs ==
  ASSUME IndInv, HintsLeaveChoice, workload.scheduler, NEW hint \in RequestHints
  PROVE  GetPolicy(BindSchedulerPolicy(hint), policy) = policy
<1>1. hint \in Hint /\ hint.bound = None /\ hint.kind \in {"plain", "next_timestamp"}
  BY Requests DEF IndInv, HintsLeaveChoice
<1>2. BindSchedulerPolicy(hint) = [hint EXCEPT !.bound = policy]
  BY <1>1 DEF BindSchedulerPolicy
<1>3. /\ BindSchedulerPolicy(hint).kind \in {"plain", "next_timestamp"}
      /\ BindSchedulerPolicy(hint).bound = policy
  BY <1>1, <1>2 DEF Hint
<1>4. policy # None
  BY Constants DEF IndInv, TypeOK
<1> QED BY <1>3, <1>4 DEF GetPolicy

\* A resident block holds something.
LEMMA Holds ==
  ASSUME IndInv, NEW b \in Resident(freeTable)
  PROVE  b \in BlockIds /\ content[b] # None /\ freeTable[b].hash = content[b]
<1>1. b \in BlockIds /\ freeTable[b] \in Metadata
  BY FindsItem
<1> QED BY <1>1, Constants DEF IndInv, Kept, Metadata

\* When a block leaves, the reverse map loses it and stays exact.
LEMMA MapWithout ==
  ASSUME IndInv, PdpMapExact, NEW b \in Resident(freeTable),
         freeTable' = [freeTable EXCEPT ![b] = None],
         pdp' = PdpForget(pdp, b, freeTable[b].hash), UNCHANGED <<policy, finalized>>
  PROVE  PdpMapExact'
<1> SUFFICES ASSUME finalized, policy = "pdp", NEW g \in Hashes, NEW c \in BlockIds
             PROVE  pdp'.map[g] = c <=> freeTable'[c] # None /\ freeTable'[c].hash = g
  BY DEF PdpMapExact
<1>1. /\ b \in BlockIds /\ freeTable[b] \in Metadata /\ freeTable[b] # None
      /\ freeTable[b].hash \in Hashes
  BY FindsItem DEF Metadata
<1>2. pdp'.map[g] = IF g = freeTable[b].hash /\ pdp.map[g] = b THEN None ELSE pdp.map[g]
  <2>1. pdp \in PdpStates
    BY DEF IndInv, TypeOK, PdpStates
  <2> QED BY <1>1, <2>1, PdpForgetType
<1>3. freeTable'[c] = IF c = b THEN None ELSE freeTable[c]
  BY <1>1 DEF IndInv, TypeOK
<1>4. pdp.map[g] = c <=> freeTable[c] # None /\ freeTable[c].hash = g
  BY DEF PdpMapExact
<1>5. pdp.map[g] = b <=> freeTable[b].hash = g
  BY <1>1 DEF PdpMapExact
<1>6. c # None
  BY Constants
<1> QED BY <1>1, <1>2, <1>3, <1>4, <1>5, <1>6

\* When a block comes back, the reverse map names it.
LEMMA MapWith ==
  ASSUME IndInv, IndInv', PdpMapExact, NEW b \in BlockIds, NEW h \in Hashes,
         b \notin Resident(freeTable), Resident(freeTable') = Resident(freeTable) \cup {b},
         freeTable'[b].hash = h,
         \A c \in Resident(freeTable) : freeTable'[c].hash = freeTable[c].hash,
         pdp'.map = [pdp.map EXCEPT ![h] = b], UNCHANGED <<policy, finalized>>
  PROVE  PdpMapExact'
<1> SUFFICES ASSUME finalized, policy = "pdp", NEW g \in Hashes, NEW c \in BlockIds
             PROVE  pdp'.map[g] = c <=> freeTable'[c] # None /\ freeTable'[c].hash = g
  BY DEF PdpMapExact
<1>1. \A d \in BlockIds : /\ freeTable[d] # None <=> d \in Resident(freeTable)
                          /\ freeTable'[d] # None <=> d \in Resident(freeTable) \/ d = b
  BY DEF Resident
<1>2. pdp'.map[g] = IF g = h THEN b ELSE pdp.map[g]
  BY DEF IndInv, TypeOK
<1>3. pdp.map[g] = c <=> c \in Resident(freeTable) /\ freeTable[c].hash = g
  BY <1>1 DEF PdpMapExact
<1>4. c \in Resident(freeTable') /\ freeTable'[c].hash = h => c = b
  <2>1. content'[b] = h /\ h # None
    BY Constants DEF IndInv, Kept, Resident
  <2>2. c \in Resident(freeTable') => freeTable'[c].hash = content'[c]
    BY DEF IndInv, Kept, Resident
  <2> QED BY <2>1, <2>2 DEF IndInv, Unique
<1>5. CASE g = h
  BY <1>1, <1>2, <1>4, <1>5
<1>6. CASE g # h
  BY <1>1, <1>2, <1>3, <1>6
<1> QED BY <1>5, <1>6

\* The same blocks under the same contents: an exact map stays exact.
LEMMA MapSame ==
  ASSUME PdpMapExact, Resident(freeTable') = Resident(freeTable),
         \A c \in Resident(freeTable) : freeTable'[c].hash = freeTable[c].hash,
         pdp'.map = pdp.map, UNCHANGED <<policy, finalized>>
  PROVE  PdpMapExact'
<1>1. \A d \in BlockIds : /\ freeTable[d] # None <=> d \in Resident(freeTable)
                          /\ freeTable'[d] # None <=> d \in Resident(freeTable)
  BY DEF Resident
<1> QED BY <1>1 DEF PdpMapExact

\* A victim of the loop takes its rrip value along.
LEMMA GovVictim ==
  ASSUME IndInv, GovInv, workload' = workload, evicting, NEW b \in Resident(freeTable),
         freeTable' = [freeTable EXCEPT ![b] = None],
         content' = [content EXCEPT ![b] = None],
         rripValues' = ForgetRrip(b), UNCHANGED <<policy, finalized>>
  PROVE  GovInv'
<1>1. b \in BlockIds /\ freeTable \in Tables /\ content \in [BlockIds -> Hashes \cup {None}]
  BY Holds DEF IndInv, TypeOK, Tables
<1>2. ~(finalized /\ policy = "pdp")
  BY DEF GovInv
<1>3. \A c \in Resident(freeTable') : c \in Resident(freeTable) /\ freeTable'[c] = freeTable[c]
  BY <1>1 DEF Resident, Tables
<1>4. workload.scheduler =>
        \A c \in Resident(freeTable') : GetPolicy(freeTable'[c].hint, policy') = policy'
  BY <1>3 DEF GovInv, PolicyOf
<1>5. ASSUME workload.scheduler, NEW c \in BlockIds, rripValues'[c] # None
      PROVE  policy' = "rrip" /\ content'[c] # None
  <2>1. PolicyOf(b) = policy /\ (rripValues[c] # None => policy = "rrip" /\ content[c] # None)
    BY <1>5 DEF GovInv
  <2>2. rripValues'[c] = IF policy = "rrip" /\ c = b THEN None ELSE rripValues[c]
    BY <1>1, <2>1 DEF ForgetRrip, IndInv, TypeOK
  <2>3. content'[c] = IF c = b THEN None ELSE content[c]
    BY <1>1
  <2> QED BY <1>5, <2>1, <2>2, <2>3
<1>6. PdpMapExact'
  BY <1>2 DEF PdpMapExact
<1> QED BY <1>2, <1>4, <1>5, <1>6, GovNext DEF GovInv

\* What does not touch policies, contents and the reverse map.
LEMMA GovSame ==
  ASSUME IndInv, GovInv, workload' = workload,
         Resident(freeTable') = Resident(freeTable),
         \A b \in Resident(freeTable) : /\ freeTable'[b].hint = freeTable[b].hint
                                        /\ freeTable'[b].hash = freeTable[b].hash,
         \A b \in BlockIds : rripValues'[b] # None =>
           rripValues[b] # None \/ (b \in Resident(freeTable) /\ PolicyOf(b) = "rrip"),
         pdp'.map = pdp.map, UNCHANGED <<content, policy, finalized>>,
         finalized /\ policy = "pdp" => toDelete' = <<>> /\ ~evicting'
  PROVE  GovInv'
<1>1. workload.scheduler =>
        \A c \in Resident(freeTable') : GetPolicy(freeTable'[c].hint, policy') = policy'
  BY DEF GovInv, PolicyOf
<1>2. ASSUME workload.scheduler, NEW c \in BlockIds, rripValues'[c] # None
      PROVE  policy' = "rrip" /\ content'[c] # None
  <2>1. CASE rripValues[c] # None
    BY <1>2, <2>1 DEF GovInv
  <2>2. CASE c \in Resident(freeTable) /\ PolicyOf(c) = "rrip"
    <3>1. PolicyOf(c) = policy
      BY <1>2, <2>2 DEF GovInv
    <3> QED BY <2>2, <3>1, Holds
  <2> QED BY <1>2, <2>1, <2>2
<1>3. PdpMapExact'
  BY MapSame DEF GovInv
<1> QED BY <1>1, <1>2, <1>3, GovNext DEF GovInv

\* add() under the scheduler.
LEMMA GovAdd ==
  ASSUME IndInv, GovInv, NEW b \in BlockIds, NEW h \in workload.hashes, NEW ts \in 1 .. now,
         NEW hint \in RequestHints, NEW refresh \in BOOLEAN, NEW f \in Predictions,
         Add(b, h, ts, hint, refresh, f), workload' = workload
  PROVE  GovInv'
<1> DEFINE bound == BindSchedulerPolicy(hint)
           pol   == GetPolicy(bound, policy)
<1>1. /\ IndInv' /\ h \in Hashes
      /\ b \notin Resident(freeTable) /\ Resident(freeTable') = Resident(freeTable) \cup {b}
      /\ freeTable'[b].hash = h /\ freeTable'[b].hint = bound
      /\ \A c \in Resident(freeTable) : /\ freeTable'[c].hash = freeTable[c].hash
                                        /\ freeTable'[c].hint = freeTable[c].hint
      /\ content[b] \in {None, h} /\ content' = [content EXCEPT ![b] = h]
      /\ rripValues' = IF pol = "rrip" /\ rripValues[b] = None
                       THEN [rripValues EXCEPT ![b] = RripInsert] ELSE rripValues
      /\ pdp'.map = IF pol = "pdp" THEN [pdp.map EXCEPT ![h] = b] ELSE pdp.map
      /\ (\A c \in Resident(freeTable') :
            GetPolicy(freeTable'[c].hint, policy) = "pdp") => toDelete' = toDelete
      /\ ~evicting /\ UNCHANGED <<policy, finalized, evicting>>
  BY AddStep
<1>2. workload.scheduler => pol = policy
  BY Governs DEF GovInv
<1>3. workload.scheduler =>
        \A c \in Resident(freeTable') : GetPolicy(freeTable'[c].hint, policy') = policy'
  BY <1>1, <1>2 DEF GovInv, PolicyOf
<1> HIDE DEF bound, pol
<1>4. ASSUME workload.scheduler, NEW c \in BlockIds, rripValues'[c] # None
      PROVE  policy' = "rrip" /\ content'[c] # None
  <2>1. content'[c] = IF c = b THEN h ELSE content[c]
    BY <1>1 DEF IndInv, TypeOK
  <2>2. rripValues'[c] = rripValues[c] \/ (c = b /\ pol = "rrip")
    BY <1>1 DEF IndInv, TypeOK
  <2>3. rripValues[c] # None => policy = "rrip" /\ content[c] # None
    BY <1>4 DEF GovInv
  <2>4. h # None
    BY <1>1, Constants
  <2> QED BY <1>1, <1>2, <1>4, <2>1, <2>2, <2>3, <2>4
<1>5. finalized /\ policy = "pdp" => toDelete' = <<>> /\ ~evicting'
  BY <1>1, <1>3 DEF GovInv
<1>6. PdpMapExact'
  <2>1. CASE finalized /\ policy = "pdp"
    <3>1. pdp'.map = [pdp.map EXCEPT ![h] = b]
      BY <1>1, <1>2, <2>1 DEF GovInv
    <3> QED BY <1>1, <3>1, MapWith DEF GovInv
  <2>2. CASE ~(finalized /\ policy = "pdp")
    BY <1>1, <2>2 DEF PdpMapExact
  <2> QED BY <2>1, <2>2
<1> QED BY <1>1, <1>3, <1>4, <1>5, <1>6, GovNext DEF GovInv

\* update() under the scheduler.
LEMMA GovUpdate ==
  ASSUME IndInv, GovInv, NEW b \in BlockIds, NEW ts \in 1 .. now, NEW hint \in RequestHints,
         NEW f \in Predictions, Update(b, ts, hint, f), workload' = workload
  PROVE  GovInv'
<1> DEFINE bound == BindSchedulerPolicy(hint)
           pol   == GetPolicy(bound, policy)
<1>1. /\ b \in Resident(freeTable) /\ Resident(freeTable') = Resident(freeTable)
      /\ freeTable'[b].hint = bound
      /\ \A c \in Resident(freeTable) : /\ freeTable'[c].hash = freeTable[c].hash
                                        /\ c # b => freeTable'[c].hint = freeTable[c].hint
      /\ rripValues' = IF pol = "rrip" THEN [rripValues EXCEPT ![b] = RripHit] ELSE rripValues
      /\ pdp'.map = pdp.map
      /\ ~evicting /\ UNCHANGED <<toDelete, policy, finalized, evicting, content>>
  BY UpdateStep
<1>2. workload.scheduler => pol = policy
  BY Governs DEF GovInv
<1>3. workload.scheduler =>
        \A c \in Resident(freeTable') : GetPolicy(freeTable'[c].hint, policy') = policy'
  BY <1>1, <1>2 DEF GovInv, PolicyOf
<1> HIDE DEF bound, pol
<1>4. ASSUME workload.scheduler, NEW c \in BlockIds, rripValues'[c] # None
      PROVE  policy' = "rrip" /\ content'[c] # None
  <2>1. rripValues'[c] = rripValues[c] \/ (c = b /\ pol = "rrip")
    BY <1>1 DEF IndInv, TypeOK
  <2>2. rripValues[c] # None => policy = "rrip" /\ content[c] # None
    BY <1>4 DEF GovInv
  <2>3. content[b] # None
    BY <1>1, Holds
  <2> QED BY <1>1, <1>2, <1>4, <2>1, <2>2, <2>3
<1>5. PdpMapExact'
  BY <1>1, MapSame DEF GovInv
<1>6. finalized' /\ policy' = "pdp" => toDelete' = <<>> /\ ~evicting'
  BY <1>1 DEF GovInv
<1> QED BY <1>1, <1>3, <1>4, <1>5, <1>6, GovNext DEF GovInv

\* remove() under the scheduler.
LEMMA GovRemove ==
  ASSUME IndInv, GovInv, NEW b \in BlockIds, RemoveHit(b), workload' = workload
  PROVE  GovInv'
<1>1. /\ b \in Resident(freeTable) /\ freeTable' = [freeTable EXCEPT ![b] = None]
      /\ rripValues' = IF PolicyOf(b) = "rrip" THEN HitValue(rripValues, b) ELSE rripValues
      /\ pdp' = IF PolicyOf(b) = "pdp" THEN PdpForget(pdp, b, freeTable[b].hash) ELSE pdp
      /\ UNCHANGED <<toDelete, policy, finalized, evicting, content>>
  BY RemoveHitStep
<1>2. \A c \in Resident(freeTable') : c \in Resident(freeTable) /\ freeTable'[c] = freeTable[c]
  BY <1>1 DEF Resident, IndInv, TypeOK
<1>3. workload.scheduler =>
        \A c \in Resident(freeTable') : GetPolicy(freeTable'[c].hint, policy') = policy'
  BY <1>1, <1>2 DEF GovInv, PolicyOf
<1>4. ASSUME workload.scheduler, NEW c \in BlockIds, rripValues'[c] # None
      PROVE  policy' = "rrip" /\ content'[c] # None
  <2>1. rripValues'[c] = rripValues[c] \/ (c = b /\ PolicyOf(b) = "rrip")
    BY <1>1 DEF IndInv, TypeOK, HitValue
  <2>2. /\ rripValues[c] # None => policy = "rrip" /\ content[c] # None
        /\ PolicyOf(b) = policy
    BY <1>1, <1>4 DEF GovInv
  <2>3. content[b] # None
    BY <1>1, Holds
  <2> QED BY <1>1, <1>4, <2>1, <2>2, <2>3
<1>5. PdpMapExact'
  <2>1. CASE finalized /\ policy = "pdp"
    <3>1. pdp' = PdpForget(pdp, b, freeTable[b].hash)
      BY <1>1, <2>1 DEF GovInv
    <3> QED BY <1>1, <3>1, MapWithout DEF GovInv
  <2>2. CASE ~(finalized /\ policy = "pdp")
    BY <1>1, <2>2 DEF PdpMapExact
  <2> QED BY <2>1, <2>2
<1>6. finalized' /\ policy' = "pdp" => toDelete' = <<>> /\ ~evicting'
  BY <1>1 DEF GovInv
<1> QED BY <1>1, <1>3, <1>4, <1>5, <1>6, GovNext DEF GovInv

\* evict() under pdp: no block has an rrip value to take along.
LEMMA GovEvictByPdp ==
  ASSUME IndInv, GovInv, EvictByPdp, workload' = workload
  PROVE  GovInv'
<1>1. PICK b \in Resident(freeTable) :
        /\ freeTable' = [freeTable EXCEPT ![b] = None]
        /\ content' = [content EXCEPT ![b] = None]
        /\ \E sample \in Resident(freeTable) : PolicyOf(sample) = "pdp"
        /\ pdp' = PdpForget(pdp, b, freeTable[b].hash)
        /\ UNCHANGED <<rripValues, toDelete, policy, finalized>>
        /\ evicting' = FALSE
  BY EvictByPdpStep
<1>2. \A c \in Resident(freeTable') : c \in Resident(freeTable) /\ freeTable'[c] = freeTable[c]
  BY <1>1 DEF Resident, IndInv, TypeOK
<1>3. workload.scheduler =>
        \A c \in Resident(freeTable') : GetPolicy(freeTable'[c].hint, policy') = policy'
  BY <1>1, <1>2 DEF GovInv, PolicyOf
<1>4. ASSUME workload.scheduler, NEW c \in BlockIds, rripValues'[c] # None
      PROVE  policy' = "rrip" /\ content'[c] # None
  <2>1. policy = "pdp"
    BY <1>1, <1>4 DEF GovInv
  <2> QED BY <1>1, <1>4, <2>1 DEF GovInv
<1>5. PdpMapExact'
  BY <1>1, MapWithout DEF GovInv
<1>6. finalized' /\ policy' = "pdp" => toDelete' = <<>> /\ ~evicting'
  BY <1>1 DEF GovInv
<1> QED BY <1>1, <1>3, <1>4, <1>5, <1>6, GovNext DEF GovInv

\* The choice of the scheduler: all resident blocks move to it, and to the map.
LEMMA GovFinalize ==
  ASSUME IndInv, GovInv, NEW choice \in FinalChoices, NEW distance \in Distances,
         NEW f \in Predictions, Finalize(choice, distance, f), workload' = workload
  PROVE  GovInv'
<1>1. /\ IndInv' /\ workload.scheduler /\ finalized' /\ policy' = choice
      /\ Resident(freeTable') = Resident(freeTable)
      /\ \A b \in Resident(freeTable) :
           /\ freeTable'[b].hash = freeTable[b].hash
           /\ freeTable'[b].hint = Rebound(freeTable[b].hint, choice)
      /\ \A b \in BlockIds : rripValues'[b] # None =>
           choice = "rrip" /\ b \in Resident(freeTable)
      /\ choice = "pdp" => \A h \in Hashes :
           pdp'.map[h] = IF \E b \in Resident(freeTable) : freeTable[b].hash = h
                         THEN CHOOSE b \in Resident(freeTable) : freeTable[b].hash = h
                         ELSE None
      /\ toDelete' = <<>> /\ evicting' = FALSE /\ content' = content
  BY FinalizeStep
<1>2. ASSUME NEW c \in Resident(freeTable)
      PROVE  GetPolicy(freeTable'[c].hint, choice) = choice
  <2>1. freeTable[c].hint \in Hint
    BY FindsItem DEF Metadata
  <2>2. /\ freeTable'[c].hint.kind \in {"plain", "next_timestamp"}
        /\ freeTable'[c].hint.bound = choice
    <3>1. freeTable'[c].hint = Rebound(freeTable[c].hint, choice)
      BY <1>1
    <3> QED BY <2>1, <3>1 DEF Rebound, Hint
  <2>3. choice # None
    BY Constants
  <2> QED BY <2>2, <2>3 DEF GetPolicy
<1>3. \A c \in BlockIds : rripValues'[c] # None => policy' = "rrip" /\ content'[c] # None
  BY <1>1, Holds
<1>4. PdpMapExact'
  <2> SUFFICES ASSUME choice = "pdp", NEW h \in Hashes, NEW c \in BlockIds
               PROVE  pdp'.map[h] = c <=> freeTable'[c] # None /\ freeTable'[c].hash = h
    BY <1>1 DEF PdpMapExact
  <2>1. freeTable'[c] # None <=> c \in Resident(freeTable)
    BY <1>1 DEF Resident
  <2>2. c \in Resident(freeTable) => freeTable'[c].hash = freeTable[c].hash
    BY <1>1
  <2>3. pdp'.map[h] = IF \E b \in Resident(freeTable) : freeTable[b].hash = h
                      THEN CHOOSE b \in Resident(freeTable) : freeTable[b].hash = h
                      ELSE None
    BY <1>1
  <2>4. \A b, d \in Resident(freeTable) : freeTable[b].hash = freeTable[d].hash => b = d
    BY Holds DEF IndInv, Unique
  <2>5. c # None
    BY Constants
  <2>6. CASE \E b \in Resident(freeTable) : freeTable[b].hash = h
    <3>1. PICK v \in Resident(freeTable) : pdp'.map[h] = v /\ freeTable[v].hash = h
      BY <2>3, <2>6
    <3> QED BY <2>1, <2>2, <2>4, <3>1
  <2>7. CASE ~ \E b \in Resident(freeTable) : freeTable[b].hash = h
    BY <2>1, <2>2, <2>3, <2>5, <2>7
  <2> QED BY <2>6, <2>7
<1> QED BY <1>1, <1>2, <1>3, <1>4, GovNext DEF GovInv

\* evict() enters its loop only if the policy of the scheduler is not pdp.
LEMMA GovEvictBegin ==
  ASSUME IndInv, GovInv, EvictBegin, workload' = workload
  PROVE  GovInv'
<1>1. /\ \E b \in Resident(freeTable) : PolicyOf(b) # "pdp"
      /\ UNCHANGED <<evictorVars, content>>
  BY DEF EvictBegin
<1>2. ~(finalized /\ policy = "pdp")
  BY <1>1 DEF GovInv
<1> QED BY <1>1, <1>2, GovSame DEF evictorVars

\* Every step keeps one policy for all.
LEMMA NextGov == IndInv /\ GovInv /\ [Next]_vars => GovInv'
<1> SUFFICES ASSUME IndInv, GovInv, [Next]_vars PROVE GovInv'
  OBVIOUS
<1>1. CASE UNCHANGED vars
  BY <1>1, GovSame DEF GovInv, vars, evictorVars
<1>2. CASE Next
  <2> workload' = workload
    BY <1>2 DEF Next
  <2>1. CASE \E b \in BlockIds, h \in workload.hashes, ts \in 1 .. now, hint \in RequestHints,
                refresh \in BOOLEAN, f \in Predictions : Add(b, h, ts, hint, refresh, f)
    BY <2>1, GovAdd
  <2>2. CASE \E b \in BlockIds, ts \in 1 .. now, hint \in RequestHints, f \in Predictions :
                Update(b, ts, hint, f)
    BY <2>2, GovUpdate
  <2>3. CASE \E b \in BlockIds : RemoveHit(b)
    BY <2>3, GovRemove
  <2>4. CASE EvictByPdp
    BY <2>4, GovEvictByPdp
  <2>5. CASE EvictBegin
    BY <2>5, GovEvictBegin
  <2>6. CASE EvictOutdated
    <3>1. /\ evicting /\ UNCHANGED <<pdp, policy, finalized>>
          /\ \/ UNCHANGED <<freeTable, rripValues, content>>
             \/ \E b \in Resident(freeTable) :
                  /\ freeTable' = [freeTable EXCEPT ![b] = None]
                  /\ content' = [content EXCEPT ![b] = None]
                  /\ rripValues' = ForgetRrip(b)
      BY <2>6, EvictOutdatedStep
    <3>2. CASE UNCHANGED <<freeTable, rripValues, content>>
      <4>1. ~(finalized /\ policy = "pdp")
        BY <3>1 DEF GovInv
      <4> QED BY <3>1, <3>2, <4>1, GovSame
    <3> QED BY <3>1, <3>2, GovVictim
  <2>7. CASE \E f \in Predictions : EvictLeast(f)
    <3>1. /\ evicting /\ UNCHANGED <<toDelete, pdp, policy, finalized>>
          /\ \/ /\ Resident(freeTable') = Resident(freeTable)
                /\ \A b \in Resident(freeTable) : /\ freeTable'[b].hint = freeTable[b].hint
                                                  /\ freeTable'[b].hash = freeTable[b].hash
                /\ rripValues' = Aged
                /\ UNCHANGED content
             \/ \E b \in Resident(freeTable) :
                  /\ freeTable' = [freeTable EXCEPT ![b] = None]
                  /\ content' = [content EXCEPT ![b] = None]
                  /\ rripValues' = ForgetRrip(b)
      BY <2>7, EvictLeastStep
    <3>2. CASE /\ Resident(freeTable') = Resident(freeTable)
               /\ \A b \in Resident(freeTable) : /\ freeTable'[b].hint = freeTable[b].hint
                                                 /\ freeTable'[b].hash = freeTable[b].hash
               /\ rripValues' = Aged
               /\ UNCHANGED content
      <4>1. ~(finalized /\ policy = "pdp")
        BY <3>1 DEF GovInv
      <4>2. \A b \in BlockIds : rripValues'[b] # None =>
              rripValues[b] # None \/ (b \in Resident(freeTable) /\ PolicyOf(b) = "rrip")
        BY <3>2, AgedType
      <4> QED BY <3>1, <3>2, <4>1, <4>2, GovSame
    <3> QED BY <3>1, <3>2, GovVictim
  <2>8. CASE \E c \in FinalChoices, d \in Distances, f \in Predictions : Finalize(c, d, f)
    BY <2>8, GovFinalize
  <2>9. CASE \E h \in workload.hashes, hit \in BOOLEAN, d \in Distances : PdpObserve(h, hit, d)
    <3>1. /\ pdp'.map = pdp.map
          /\ UNCHANGED <<freeTable, rripValues, toDelete, content, policy, finalized, evicting>>
      BY <2>9, PdpObserveStep DEF PdpObserve
    <3> QED BY <3>1, GovSame DEF GovInv
  <2>10. CASE Tick
    BY <2>10, GovSame DEF Tick, evictorVars, GovInv
  <2> QED BY <1>2, <2>1, <2>2, <2>3, <2>4, <2>5, <2>6, <2>7, <2>8, <2>9, <2>10
          DEF Next, EvictorNext
<1> QED BY <1>1, <1>2

\* Initially nothing is resident and nothing is decided.
LEMMA InitGov == Init /\ HintsLeaveChoice => GovInv
<1> SUFFICES ASSUME Init, HintsLeaveChoice PROVE GovInv
  OBVIOUS
<1>1. Resident(freeTable) = {} /\ finalized = FALSE /\ policy = "ml"
  BY DEF Init, Resident
<1>2. \A b \in BlockIds : rripValues[b] = None
  BY DEF Init
<1> QED BY <1>1, <1>2 DEF GovInv, PdpMapExact

\* While requests leave the choice of the policy to the scheduler, GovInv is an
\* invariant.
THEOREM Governed == SafeSpec /\ HintsLeaveChoice => []GovInv
<1>1. Init /\ HintsLeaveChoice => GovInv
  BY InitGov
<1>2. IndInv /\ GovInv /\ [Next]_vars => GovInv'
  BY NextGov
<1> QED BY <1>1, <1>2, Invariant, PTL DEF SafeSpec

\* Once the scheduler has decided, its choice governs every resident block, also
\* those that come back after the decision.
THEOREM AllStayRebound == Spec /\ HintsLeaveChoice => []AllRebound
<1>1. GovInv => AllRebound
  BY DEF GovInv, AllRebound
<1> QED BY <1>1, Governed, PTL DEF Spec

\* pdp's reverse map names the resident blocks under their own hashes, no others.
THEOREM PdpMapStaysExact == Spec /\ HintsLeaveChoice => []PdpMapExact
<1>1. GovInv => PdpMapExact
  BY DEF GovInv
<1> QED BY <1>1, Governed, PTL DEF Spec

\* add() of new content under rrip: no value of an earlier content is left.
LEMMA FreshAdd ==
  ASSUME IndInv, GovInv, NEW d \in BlockIds, NEW h \in workload.hashes, NEW ts \in 1 .. now,
         NEW hint \in RequestHints, NEW refresh \in BOOLEAN, NEW f \in Predictions,
         Add(d, h, ts, hint, refresh, f), workload' = workload, workload.scheduler,
         NEW b \in BlockIds, content[b] = None, content'[b] # None,
         GetPolicy(freeTable'[b].hint, policy') = "rrip"
  PROVE  rripValues'[b] = RripInsert
<1> DEFINE bound == BindSchedulerPolicy(hint)
           pol   == GetPolicy(bound, policy)
<1>1. /\ IndInv' /\ h \in Hashes
      /\ d \notin Resident(freeTable) /\ Resident(freeTable') = Resident(freeTable) \cup {d}
      /\ freeTable'[d].hash = h /\ freeTable'[d].hint = bound
      /\ \A c \in Resident(freeTable) : /\ freeTable'[c].hash = freeTable[c].hash
                                        /\ freeTable'[c].hint = freeTable[c].hint
      /\ content[d] \in {None, h} /\ content' = [content EXCEPT ![d] = h]
      /\ rripValues' = IF pol = "rrip" /\ rripValues[d] = None
                       THEN [rripValues EXCEPT ![d] = RripInsert] ELSE rripValues
      /\ pdp'.map = IF pol = "pdp" THEN [pdp.map EXCEPT ![h] = d] ELSE pdp.map
      /\ (\A c \in Resident(freeTable') :
            GetPolicy(freeTable'[c].hint, policy) = "pdp") => toDelete' = toDelete
      /\ ~evicting /\ UNCHANGED <<policy, finalized, evicting>>
  BY AddStep
<1> HIDE DEF bound
<1>2. d = b
  BY <1>1 DEF IndInv, TypeOK
<1>3. rripValues[b] = None
  BY DEF GovInv
<1> QED BY <1>1, <1>2, <1>3 DEF IndInv, TypeOK

\* New content starts at the insertion value of rrip.
THEOREM FreshContentStartsLong == Spec /\ HintsLeaveChoice => FreshStartsLong
<1> DEFINE Fresh ==
      \A b \in BlockIds :
        workload.scheduler /\ content[b] = None /\ content'[b] # None
          /\ GetPolicy(freeTable'[b].hint, policy') = "rrip" =>
        rripValues'[b] = RripInsert
<1>1. IndInv /\ GovInv /\ [Next]_vars => Fresh
  <2> SUFFICES ASSUME IndInv, GovInv, [Next]_vars, NEW b \in BlockIds,
                      workload.scheduler, content[b] = None, content'[b] # None,
                      GetPolicy(freeTable'[b].hint, policy') = "rrip"
               PROVE  rripValues'[b] = RripInsert
    OBVIOUS
  <2>1. Next /\ workload' = workload
    BY DEF Next, vars
  <2>2. rripValues \in RripStates /\ content \in [BlockIds -> Hashes \cup {None}]
    BY DEF IndInv, TypeOK, RripStates
  <2>3. CASE \E d \in BlockIds, h \in workload.hashes, ts \in 1 .. now, hint \in RequestHints,
                refresh \in BOOLEAN, f \in Predictions : Add(d, h, ts, hint, refresh, f)
    BY <2>1, <2>3, FreshAdd
  <2>4. CASE EvictByPdp
    BY <2>1, <2>2, <2>4, EvictByPdpStep
  <2>5. CASE EvictOutdated
    BY <2>1, <2>2, <2>5, EvictOutdatedStep
  <2>6. CASE \E f \in Predictions : EvictLeast(f)
    BY <2>1, <2>2, <2>6, EvictLeastStep
  <2>7. CASE \E d \in BlockIds, ts \in 1 .. now, hint \in RequestHints, f \in Predictions :
                Update(d, ts, hint, f)
    BY <2>1, <2>7, UpdateStep
  <2>8. CASE \E d \in BlockIds : RemoveHit(d)
    BY <2>1, <2>8, RemoveHitStep
  <2>9. CASE EvictBegin \/ Tick
    BY <2>9 DEF EvictBegin, Tick
  <2>10. CASE \E d \in FinalChoices, dist \in Distances, f \in Predictions : Finalize(d, dist, f)
    BY <2>10 DEF Finalize
  <2>11. CASE \E h \in workload.hashes, hit \in BOOLEAN, d \in Distances : PdpObserve(h, hit, d)
    BY <2>11 DEF PdpObserve
  <2> QED BY <2>1, <2>3, <2>4, <2>5, <2>6, <2>7, <2>8, <2>9, <2>10, <2>11 DEF Next, EvictorNext
<1> QED BY <1>1, Invariant, Governed, PTL DEF Spec, SafeSpec, FreshStartsLong
=============================================================================
