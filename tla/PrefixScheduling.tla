--------------------------- MODULE PrefixScheduling ---------------------------
(***************************************************************************)
(* How the v0 scheduler decides what part of a prompt need not be          *)
(* computed: Scheduler._schedule_prefills and _schedule_running            *)
(* (core/scheduler.py), the block space manager (core/block_manager.py),   *)
(* BlockTable.allocate, and ComputedBlocksTracker with                     *)
(* find_cached_blocks_prefix (core/block/prefix_caching_block.py).         *)
(*                                                                         *)
(* A prompt is a sequence of full blocks, named by their hashes; blocks    *)
(* that hold generated tokens are only counted (`extra').  The physical    *)
(* allocator is PrefixCachingAllocator, of which only this is needed: a    *)
(* hash has at most one block, which is in use or resident in the evictor, *)
(* and the evictor may give up any resident block.                         *)
(*                                                                         *)
(* Sequence groups have one sequence and prompts are whole blocks.         *)
(* Preemption is by recomputation, and a request that is recomputed starts *)
(* again from its prompt.  A request that comes back after it finished or  *)
(* was aborted stands for a new one, under a new sequence id.              *)
(***************************************************************************)
EXTENDS Integers, Sequences, SequencesExt, FiniteSets, Functions

CONSTANTS
  Requests,      \* sequence ids
  Prompt,        \* the block hashes of each request's prompt
  NumBlocks,     \* num_total_gpu_blocks
  Watermark,     \* watermark_blocks
  MaxNumSeqs,    \* max_num_seqs
  BlockSize,     \* block_size
  Modes,         \* scheduler configurations: chunked_prefill_enabled and
                 \* max_num_batched_tokens
  MaxExtra,      \* bound on the blocks of generated tokens
  None

Hashes == UNION {ToSet(Prompt[s]) : s \in Requests}

ASSUME SchedulingAssumption ==
  /\ IsFiniteSet(Requests)
  /\ Prompt \in [Requests -> Seq(Hashes) \ {<<>>}]
  /\ {NumBlocks, Watermark, MaxNumSeqs, MaxExtra} \subseteq Nat
  /\ BlockSize \in Nat \ {0, 1}
  /\ Modes \subseteq [chunked : BOOLEAN, tokens : Nat]
  /\ \A m \in Modes : MaxNumSeqs <= m.tokens
  /\ \A s \in Requests : Len(Prompt[s]) + Watermark <= NumBlocks
  /\ None \notin Nat \cup Requests

VARIABLES
  mode,        \* the configuration, fixed at the start
  waiting, running, preempted,   \* the scheduler's queues
  queue,       \* what _schedule_running has not looked at yet
  phase,       \* where the scheduling pass stands
  current,     \* the request whose block table is being allocated
  budget,      \* remaining_token_budget
  batch,       \* scheduled prefills: how far each prompt is computed afterwards
  table,       \* block_tables: hashes of the prompt blocks allocated so far
  extra,       \* blocks of generated tokens
  memo,        \* _seq_id_to_num_tokens_computed, in blocks
  done,        \* num_computed_tokens of each request, in blocks
  resident,    \* hashes in the evictor
  computed,    \* hashes whose block is in use and marked computed
  touched,     \* _touched_blocks
  current_ok,  \* every block counted for `current' was cached at its admission
  failed       \* NoFreeBlocksError or an assertion

queues == <<waiting, running, preempted, queue>>
cache == <<resident, computed, touched>>
perSeq == <<table, extra, memo, done>>
vars == <<mode, queues, phase, current, budget, batch, cache, perSeq, current_ok, failed>>

TypeOK ==
  /\ mode \in Modes
  /\ {waiting, running, preempted, queue} \subseteq Seq(Requests)
  /\ phase \in {"idle", "running", "prefill", "allocate", "execute"}
  /\ current \in Requests \cup {None}
  /\ budget \in 0 .. mode.tokens
  /\ DOMAIN batch \subseteq Requests /\ batch \in [DOMAIN batch -> Nat]
  /\ table \in [Requests -> Seq(Hashes)] /\ \A s \in Requests : IsPrefix(table[s], Prompt[s])
  /\ extra \in [Requests -> 0 .. MaxExtra]
  /\ memo \in [Requests -> Nat \cup {None}]
  /\ done \in [Requests -> Nat]
  /\ resident \cup computed \cup touched \subseteq Hashes
  /\ current_ok \subseteq Requests

Init ==
  /\ mode \in Modes
  /\ waiting = <<>> /\ running = <<>> /\ preempted = <<>> /\ queue = <<>>
  /\ phase = "idle"
  /\ current = None
  /\ budget = mode.tokens
  /\ batch = <<>>
  /\ table = [s \in Requests |-> <<>>]
  /\ extra = [s \in Requests |-> 0]
  /\ memo = [s \in Requests |-> None]
  /\ done = [s \in Requests |-> 0]
  /\ resident = {} /\ computed = {} /\ touched = {}
  /\ current_ok = {}
  /\ failed = FALSE

-----------------------------------------------------------------------------
(* The cache as the scheduler sees it.                                      *)

Active == UNION {ToSet(table[s]) : s \in Requests}
Grown == {g \in Requests \X (1 .. MaxExtra) : g[2] <= extra[g[1]]}
NumUsed == Cardinality(Active) + Cardinality(Grown)

\* get_num_free_blocks: resident blocks count as free.
NumFreeBlocks == NumBlocks - NumUsed

\* Mutated form: a block counts before it is marked computed.
IsCachedOrTouched(h) == h \in resident \/ h \in Active

\* _block_is_cached
IsCached(h) == h \in resident \/ h \in computed

\* find_cached_blocks_prefix: bisection for the first block that is not cached; the
\* bounds lo and hi after each round.
Bisect(hashes) ==
  LET n == Len(hashes)
      bounds[k \in 0 .. n] ==
        IF k = 0 THEN [lo |-> 0, hi |-> n]
        ELSE LET last == bounds[k - 1]
                 mid  == (last.lo + last.hi) \div 2
             IN  IF last.lo >= last.hi THEN last
                 ELSE IF IsCached(hashes[mid + 1]) THEN [last EXCEPT !.lo = mid + 1]
                 ELSE [last EXCEPT !.hi = mid]
  IN  bounds

FindCachedBlocksPrefix(hashes) == Bisect(hashes)[Len(hashes)].lo

\* get_num_cached_tokens of a request in prefill: looked up once, then kept.
NumCachedBlocks(s) == IF memo[s] = None THEN FindCachedBlocksPrefix(Prompt[s]) ELSE memo[s]

\* The members of T in a queue, in its order.
Keep(q, T) ==
  LET kept[n \in 0 .. Len(q)] ==
        IF n = 0 THEN <<>>
        ELSE IF q[n] \in T THEN Append(kept[n - 1], q[n]) ELSE kept[n - 1]
  IN  kept[Len(q)]

Maximum(i, j) == IF i >= j THEN i ELSE j
Minimum(i, j) == IF i <= j THEN i ELSE j
IsPrefill(s) == done[s] < Len(Prompt[s])

\* Uncached blocks left to compute, given the count of cached blocks.
NumUncached(s, cached) == Len(Prompt[s]) - Maximum(done[s], cached)

\* Tokens to compute: one for a decode, and one for a prompt that is all cached.
NumNewTokens(s, cached) ==
  IF IsPrefill(s) /\ NumUncached(s, cached) > 0 THEN BlockSize * NumUncached(s, cached) ELSE 1

\* _chunk_new_tokens_to_schedule: no more than the whole blocks the budget has left.
Chunk(s, cached) ==
  IF mode.chunked
  THEN Minimum(NumNewTokens(s, cached), BlockSize * (budget \div BlockSize))
  ELSE NumNewTokens(s, cached)

\* How much of the prompt is computed once the chunk is.
ComputedAfter(s, cached) == Maximum(done[s], cached) + Chunk(s, cached) \div BlockSize

\* Mutated form: other users of a block are overlooked.
FreedWhenShared(s) == ToSet(table[s])

\* block_manager.free: the blocks only s uses become resident; nothing is tracked
\* for s any more.
FreedBy(s) ==
  ToSet(table[s]) \ UNION {ToSet(table[r]) : r \in Requests \ {s}}

FreeSeq(s) ==
  /\ failed' = (failed \/ (table[s] # <<>> /\ memo[s] = None))
  /\ resident' = resident \cup FreedBy(s)
  /\ computed' = computed \ FreedBy(s)
  /\ table' = [table EXCEPT ![s] = <<>>]
  /\ extra' = [extra EXCEPT ![s] = 0]
  /\ memo' = [memo EXCEPT ![s] = None]
  /\ done' = [done EXCEPT ![s] = 0]

-----------------------------------------------------------------------------
(* Requests come and go between two passes.                                 *)

Idle == phase = "idle" /\ ~failed

\* Mutated form: a new request is put in front of those that wait.
ArriveInFront(s) ==
  /\ Idle
  /\ s \notin ToSet(waiting) \cup ToSet(running)
  /\ waiting' = <<s>> \o waiting
  /\ UNCHANGED <<running, preempted, queue, phase, current, budget, batch, cache,
                 perSeq, current_ok, failed>>

\* add_seq_group
Arrive(s) ==
  /\ Idle
  /\ s \notin ToSet(waiting) \cup ToSet(running)
  /\ waiting' = Append(waiting, s)
  /\ UNCHANGED <<running, preempted, queue, phase, current, budget, batch, cache,
                 perSeq, current_ok, failed>>

\* free_finished_seq_groups
Finish(s) ==
  /\ Idle
  /\ s \in ToSet(running)
  /\ ~IsPrefill(s)
  /\ running' = Keep(running, Requests \ {s})
  /\ FreeSeq(s)
  /\ UNCHANGED <<waiting, preempted, queue, phase, current, budget, batch,
                 touched, current_ok>>

\* abort_seq_group
Abort(s) ==
  /\ Idle
  /\ s \in ToSet(waiting) \cup ToSet(running)
  /\ waiting' = Keep(waiting, Requests \ {s})
  /\ running' = Keep(running, Requests \ {s})
  /\ FreeSeq(s)
  /\ UNCHANGED <<preempted, queue, phase, current, budget, batch, touched,
                 current_ok>>

-----------------------------------------------------------------------------
(* A scheduling pass: _schedule_default, or _schedule_chunked_prefill.      *)

StartPass ==
  /\ Idle
  /\ waiting # <<>> \/ running # <<>>
  /\ phase' = IF mode.chunked THEN "running" ELSE "prefill"
  /\ budget' = mode.tokens
  /\ queue' = running
  /\ running' = <<>>
  /\ UNCHANGED <<waiting, preempted, current, batch, cache, perSeq, current_ok, failed>>

\* Without chunking, decodes are scheduled only if no prefill was.
EndPrefills ==
  phase' = IF ~mode.chunked /\ DOMAIN batch = {} THEN "running" ELSE "execute"

NumSeqs == Len(running) + Len(queue)

\* Mutated form: cached blocks are not counted, though they are counted as free.
CanAllocateUncached(s) ==
  NumFreeBlocks - (Len(Prompt[s]) - FindCachedBlocksPrefix(Prompt[s])) >= Watermark

\* can_allocate, for a prompt that can be allocated at all.
CanAllocate(s) == NumFreeBlocks - Len(Prompt[s]) >= Watermark

\* Mutated form: the token budget is not consulted.
CanScheduleAnySize(s, cached) == NumSeqs < MaxNumSeqs

\* budget.can_schedule, and the two breaks before it.
CanSchedule(s, cached) ==
  /\ budget > 0
  /\ Chunk(s, cached) > 0
  /\ Chunk(s, cached) <= budget
  /\ NumSeqs < MaxNumSeqs

\* _schedule_prefills on the head of the waiting queue: count its cached blocks,
\* then see whether it can be allocated and scheduled; the loop ends if not.
Consider(s) ==
  LET cached == NumCachedBlocks(s)
  IN  /\ phase = "prefill"
      /\ waiting # <<>> /\ s = Head(waiting)
      /\ memo' = [memo EXCEPT ![s] = cached]
      /\ IF CanAllocate(s) /\ CanSchedule(s, cached)
         THEN /\ waiting' = Tail(waiting)
              /\ phase' = "allocate"
              /\ current' = s
              /\ current_ok' = IF \A i \in 1 .. cached : IsCached(Prompt[s][i])
                               THEN current_ok \cup {s} ELSE current_ok
              /\ budget' = budget - Chunk(s, cached)
              /\ batch' = [r \in DOMAIN batch \cup {s} |->
                             IF r = s THEN ComputedAfter(s, cached) ELSE batch[r]]
         ELSE /\ EndPrefills
              /\ UNCHANGED <<waiting, current, current_ok, budget, batch>>
      /\ UNCHANGED <<running, preempted, queue, cache, table, extra, done, failed>>

NoneWaiting ==
  /\ phase = "prefill"
  /\ waiting = <<>>
  /\ EndPrefills
  /\ UNCHANGED <<queues, current, budget, batch, cache, perSeq, current_ok, failed>>

\* A block is taken from the free ones or, when there is none, from the evictor.
TakeBlock ==
  /\ failed' = (failed \/ NumUsed >= NumBlocks)
  /\ IF NumUsed + Cardinality(resident) >= NumBlocks /\ resident # {}
     THEN \E victim \in resident : resident' = resident \ {victim}
     ELSE UNCHANGED resident

\* BlockTable.allocate, one block of the prompt at a time: a cached block is
\* shared, otherwise a new one is taken.
AllocateBlock ==
  LET s == current
      h == Prompt[s][Len(table[s]) + 1]
  IN  /\ phase = "allocate"
      /\ ~failed
      /\ table' = [table EXCEPT ![s] = Append(@, h)]
      /\ \/ /\ h \in Active
            /\ UNCHANGED <<cache, failed>>
         \/ /\ h \in resident \ Active
            /\ resident' = resident \ {h}
            /\ computed' = computed \cup {h}
            /\ UNCHANGED <<touched, failed>>
         \/ /\ h \notin resident \cup Active
            /\ TakeBlock
            /\ touched' = touched \cup {h}
            /\ UNCHANGED computed
      /\ IF Len(table[s]) + 1 = Len(Prompt[s])
         THEN phase' = "prefill" /\ current' = None /\ running' = Append(running, s)
         ELSE UNCHANGED <<phase, current, running>>
      /\ UNCHANGED <<waiting, preempted, queue, budget, batch, extra, memo, done, current_ok>>

-----------------------------------------------------------------------------
(* _schedule_running on the head of the running queue.                      *)

\* The head of the queue gets some tokens of the budget.
HasBudget == queue # <<>> /\ Chunk(Head(queue), memo[Head(queue)]) > 0

\* _preempt_by_recompute: the victim is the last of the queue, perhaps itself.
RunPreempt ==
  LET victim == Last(queue)
  IN  /\ phase = "running"
      /\ HasBudget
      /\ ~IsPrefill(Head(queue))
      /\ NumFreeBlocks < 1
      /\ queue' = Front(queue)
      /\ preempted' = Append(preempted, victim)
      /\ FreeSeq(victim)
      /\ UNCHANGED <<waiting, running, phase, current, budget, batch, touched,
                     current_ok>>

\* A decode is scheduled; its new token may need a block.
RunDecode(grow) ==
  LET s == Head(queue)
  IN  /\ phase = "running"
      /\ HasBudget
      /\ ~IsPrefill(s)
      /\ NumFreeBlocks >= 1
      /\ queue' = Tail(queue)
      /\ running' = Append(running, s)
      /\ budget' = budget - 1
      /\ IF grow
         THEN /\ extra[s] < MaxExtra
              /\ extra' = [extra EXCEPT ![s] = @ + 1]
              /\ TakeBlock
         ELSE UNCHANGED <<extra, resident, failed>>
      /\ UNCHANGED <<waiting, preempted, phase, current, batch, computed, touched,
                     table, memo, done, current_ok>>

\* The next chunk of a prompt is scheduled.
RunPrefill ==
  LET s == Head(queue)
  IN  /\ phase = "running"
      /\ HasBudget
      /\ IsPrefill(s)
      /\ queue' = Tail(queue)
      /\ running' = Append(running, s)
      /\ budget' = budget - Chunk(s, memo[s])
      /\ batch' = [r \in DOMAIN batch \cup {s} |->
                     IF r = s THEN ComputedAfter(s, memo[s]) ELSE batch[r]]
      /\ UNCHANGED <<waiting, preempted, phase, current, cache, perSeq, current_ok, failed>>

\* The queue or the budget is exhausted.
RunEnd ==
  /\ phase = "running"
  /\ ~HasBudget
  /\ phase' = IF mode.chunked THEN "prefill" ELSE "execute"
  /\ UNCHANGED <<queues, current, budget, batch, cache, perSeq, current_ok, failed>>

-----------------------------------------------------------------------------
(* The end of schedule() and the execution of the batch.                    *)

\* The blocks the worker does not compute, by get_common_computed_block_ids.
Skipped(s) == {Prompt[s][i] : i \in done[s] + 1 .. memo[s]}

\* The order in which the next pass finds the running requests: what was not
\* looked at, decodes, prefills that finish, other prefills, new prefills.
RunningOrder ==
  LET old  == {s \in DOMAIN batch : done[s] > 0}
      ends == {s \in DOMAIN batch : batch[s] = Len(Prompt[s])}
  IN  queue \o Keep(running, Requests \ DOMAIN batch)
            \o Keep(running, old \cap ends)
            \o Keep(running, old \ ends)
            \o Keep(running, DOMAIN batch \ old)

\* mark_blocks_as_computed marks every touched block; then the model runs.
Execute ==
  /\ phase = "execute"
  /\ computed' = computed \cup touched
  /\ touched' = {}
  /\ done' = [s \in Requests |-> IF s \in DOMAIN batch THEN batch[s] ELSE done[s]]
  /\ running' = RunningOrder
  /\ queue' = <<>>
  /\ waiting' = Reverse(preempted) \o waiting
  /\ preempted' = <<>>
  /\ batch' = <<>>
  /\ budget' = mode.tokens
  /\ current_ok' = {}
  /\ phase' = "idle"
  /\ UNCHANGED <<current, resident, table, extra, memo, failed>>

PassStep ==
  \/ StartPass
  \/ \E s \in Requests : Consider(s)
  \/ NoneWaiting
  \/ AllocateBlock
  \/ RunPreempt
  \/ \E grow \in BOOLEAN : RunDecode(grow)
  \/ RunPrefill
  \/ RunEnd
  \/ Execute

Next ==
  /\ UNCHANGED mode
  /\ \/ \E s \in Requests : Arrive(s) \/ Finish(s) \/ Abort(s)
     \/ PassStep

SafeSpec == Init /\ [][Next]_vars

\* The engine keeps calling schedule(), and a request that is decoded again and
\* again reaches its stopping criterion.
Spec ==
  /\ SafeSpec
  /\ WF_vars(PassStep /\ UNCHANGED mode)
  /\ \A s \in Requests : SF_vars(Finish(s) /\ UNCHANGED mode)

-----------------------------------------------------------------------------
(* Properties.                                                              *)

\* can_allocate and can_append_slots are sufficient: once a request has been
\* admitted, or a decode has been let through, no block is missing on the way,
\* although hits take blocks out of the evictor that were counted as free; and
\* the tracker knows every sequence that is freed.
NoAllocationFailure == ~failed

\* Blocks are never overcommitted, and a block in use is not in the evictor.
WithinDevice ==
  /\ NumUsed + Cardinality(resident) <= NumBlocks
  /\ resident \cap Active = {}
  /\ computed \subseteq Active
  /\ touched \subseteq Active

\* If all counted blocks are cached when a request is admitted, they stay so
\* until the batch runs: neither its own allocation nor that of the requests
\* admitted after it replaces a block it skips.
PinnedUntilRun ==
  phase = "execute" =>
    \A s \in DOMAIN batch \cap current_ok : Skipped(s) \cap touched = {}

\* A request that waits is eventually admitted.
EveryRequestRuns ==
  \A s \in Requests : s \in ToSet(waiting) ~> s \notin ToSet(waiting)

\* core/scheduler.py: cached tokens in the evictor are counted "because it will
\* be guaranteed to be allocated later if the sequence can be allocated".
CountedTokensAreCached ==
  phase = "execute" => \A s \in DOMAIN batch : Skipped(s) \cap touched = {}

\* find_cached_blocks_prefix: "return the prefix of the block hashes that are
\* all cached".
PrefixAllCached ==
  \A s \in Requests : \A i \in 1 .. FindCachedBlocksPrefix(Prompt[s]) : IsCached(Prompt[s][i])
=============================================================================
