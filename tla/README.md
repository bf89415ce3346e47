# TLA+ models of the engine around an adaptive prefix cache

This directory models the parts of a vLLM fork that keep state: its prefix
cache with learned and adaptive eviction, the v0 and the v1 scheduler, and the
protocols between the processes of a server. Paths are relative to
`src/vllm/vllm/`. The fork's own work is in `core/evictor.py` and
`core/block/prefix_caching_block.py`; both run inside the v0 scheduler.

## Inventory

| Part | State | Operations | Correct when |
|---|---|---|---|
| `PrefixCachingBlockAllocator` (`core/block/`) | reference counts, hash map, evictor, free list, block trackers, touched set, block objects | allocate, append with copy-on-write, promote, fork, free, swap, mark computed, reset | no block leaks or is shared by accident; content is never confused; assertions hold |
| `LRUMLEvictor` (`core/evictor.py`) | `free_table`, `sorted_dict`, access times, `rrip_values`, `to_delete_blocks`, `pdp_*` | add, update, remove, evict, refresh, switch of policy | the copies agree; `evict` returns the victim the policy names under its own hash |
| `EvictionPolicyScheduler`, `ShadowPolicyCache` (same file) | statistics of the real cache, one shadow per policy, the decision | observe, finalize, reset | one decision, after the warm-up, from comparable figures |
| v0 `Scheduler`, block manager, block table, `ComputedBlocksTracker` (`core/`) | queues, block tables, budget, memo of cached tokens | add, abort, finish; the default and the chunked pass; preempt; execute | admitted requests get their blocks; skipped blocks hold what they should; nobody starves |
| `MessageQueue`, `ShmRingBuffer` (`distributed/device_communicators/shm_broadcast.py`) | a ring of chunks with flags in shared memory, sockets, indexes | enqueue, dequeue, with timeouts | every reader gets every message once, in order, and whole |
| v1 `MultiprocExecutor`, `WorkerProc`, calls of `EngineCoreProc` (`v1/executor/`, `v1/engine/core.py`) | a call queue, an answer queue per worker | collective_rpc, busy loops, timeouts, failures, shutdown | workers are in step; an answer belongs to its call; calls end |
| `MQLLMEngine`, `MQLLMEngineClient` (`engine/multiprocessing/`) | three sockets, output queues, error state of both sides | generate, add_lora, abort, output and heartbeat loops, engine loop, exit | streams are complete and in order, end whatever happens, and abandoned work stops |
| v1 `Scheduler`, `KVCacheManager`, `BlockPool`, `EncoderCacheManager`, steps of `EngineCore` (`v1/core/`) | queues, blocks and hashes of requests, linked free queue, hash map, encoder cache, batches in flight | schedule, update_from_output, add, abort, reset, both engine steps | blocks add up; executed tokens see their own context; requests finish |
| `PDPEvictor`, `LRUEvictor`, `LastAccessBlocksTracker` with the predictor thread, `CpuGpuBlockAllocator`, `NaiveBlockAllocator` | metadata per block, heap, hints, two allocators | add, update, remove, evict; predict; swap | not modelled |

### How they interact

In the v0 server the API process holds `MQLLMEngineClient`, and the engine process
runs `MQLLMEngine` around one scheduler. The scheduler asks the tracker how much
of a prompt is cached (which feeds every access to the evictor's policy
scheduler), asks the block manager whether it fits, and allocates. The allocator
calls `evictor.remove` on a hit of a resident block, `evictor.evict` when no
hashless block is left and `evictor.add` when the last user of a cached block
leaves. `mark_blocks_as_computed` ends every pass.

In v1, `EngineCore` alternates `schedule`, `execute_model` and
`update_from_output`; with pipeline parallelism several batches are in flight.
`execute_model` and the utility calls are `collective_rpc`s over one
`MessageQueue` to all workers and one back from each.

What is hard differs. Inside a scheduler there is one thread, and the danger is
order: state recorded at one call and used at a later one (sorted entries, the
memo of cached tokens, computed flags, blocks cached before they are computed,
requests preempted while their batch is executing), and policies that change
under resident blocks. Between processes it is interleaving (flags in shared
memory without locks), failure (an exception at one worker of several, an engine
that dies with outputs unsent) and timeouts with late answers.

## Modules

`PrefixCachingAllocator`, `EvictionPolicyScheduler`, `LRUMLEvictor`,
`PrefixScheduling`, `MessageQueue`, `MultiprocExecutor`, `MQEngine` and
`V1Scheduler` are specifications; `ProtectingDistance`, `Broadcast` and
`BlockPool` are the operators they are built on; `BroadcastQueue` is an abstract
specification. `MC*` modules hold the instances for TLC, and `*_proofs` modules
the theorems about the specification they are named after.

**PrefixCachingAllocator.** The allocator's fields are one record; every
private helper of the class is an operator from record to record, so that a
public method is the composition the code writes. Block objects point to
physical blocks; `kv` is the content of the device memory behind a block. A
content hash stands for what it hashes. The evictor is abstract: it may give up
any resident block. The one assumption about the caller is `Releasable`: a
block touched in a pass is not given up by its last user before
`mark_blocks_as_computed`. The scheduler guarantees that because it preempts
only sequences it has not scheduled in the pass, and finishes and aborts
requests between passes. When neither a free nor a resident block is left,
allocation is not enabled; that this does not happen to an admitted request is
the subject of PrefixScheduling.

**ProtectingDistance.** The PDP arithmetic as operators, with exact fractions.

**EvictionPolicyScheduler.** `observe` with its stride, the shadow caches of
lru, rrip, fifo and pdp with the victim order each one uses, and the decision.
Time counts from the construction of the scheduler. Where a comparison of
floating point rates is a tie, both outcomes are possible. `sampled` is a
history variable for the reference definition `IdealLRU`.

**LRUMLEvictor.** All methods as actions; the loop of `evict` is modelled round
by round (`EvictBegin`, `EvictOutdated`, `EvictLeast`). Predicted scores and
learned distances are arbitrary members of a small set at each computation. The
environment is the allocator: a content has at most one block, a block that was
hit comes back with the same content, and the time stamp of a block that is
added again is later than its eviction. A workload, chosen at the start, says
whether the policy scheduler decides or the requests bring policies of their own.

**PrefixScheduling.** Prompts are sequences of whole blocks. A pass is a
sequence of actions (`StartPass`, then `Consider` and `AllocateBlock` per
admitted request, `RunPreempt`, `RunDecode`, `RunPrefill`, `RunEnd`, then
`Execute`), in the order of `_schedule_default` or `_schedule_chunked_prefill`;
which of the two is the mode, chosen at the start. The token budget is in
tokens; with chunking every chunk, a decoded token too, must fit in the whole
blocks the budget has left, as `_chunk_new_tokens_to_schedule` computes it.
Sequence groups have one sequence, preemption is by recomputation, and a
recomputed request starts from its prompt. `Bisect` gives the bounds of the
bisection of `find_cached_blocks_prefix` after each round; `Grown` is the
generated blocks that a request holds, `Keep` the filter of a queue.

**Broadcast, BroadcastQueue, MessageQueue.** `Broadcast` is a reliable broadcast
queue as a value, `BroadcastQueue` the specification with two actions.
`MessageQueue` is the code: `enqueue` waits for a chunk, clears its written flag,
writes, clears the read flags one by one and sets the written flag; `dequeue`
looks, copies, marks. Each access to shared memory is a step, and timeouts
may end either side's wait. A message too large for a chunk is announced in the
ring and follows on a socket; remote readers only have a socket. `Implements`
is the refinement: `queue` changes where a message is published and where
`dequeue` returns it. The capacity is `MaxChunks + 1`, one more than the ring
has: a reader marks the chunk of a large message as read before it receives the
message, so the writer may reuse the chunk. Memory is sequentially consistent, as
on x86; on a machine with weaker ordering the code has no fences, which the
model does not show. The sockets have no high-water mark: a real XPUB socket with
the default one may drop messages for a remote reader that is far behind, so
`Implements` and `EveryoneReceives` hold for remote readers that stay within it.

**MultiprocExecutor.** Composes the engine's side of `collective_rpc` and the
workers' loops over the queues of `Broadcast`, which MessageQueue implements.
Answers carry no call number; in the model they do (`n`), but the engine does
not read it. `skips` counts, per worker, the calls that raised before that
worker was heard. A call is entered (`Call`, at "send"), broadcast as soon as there
is room (`Send`) and gathered. `enqueue` is not given the timeout of the call, so
only the workers end the wait at "send". `Overrun` says that more calls than two rings
hold have raised before some worker was heard; see the observations below.

**MQEngine.** Both processes at the grain of their awaits: the client registers
a stream, sends, and yields from its queue; the output loop distributes outputs
and errors, the heartbeat loop notices an unhealthy or dead engine; the engine
reads its input, steps, fails, or is killed with some of its outputs unsent. A
guided request awaits its logits processor between the check of the error state
and its registration; `add_lora` registers without a check.

**BlockPool.** `FreeKVCacheBlockQueue` with its two link fields and its count,
the hash map of blocks, reference counts, `touch`, `get_new_blocks`,
`cache_full_blocks`, eviction, `free_blocks`; each loop is a recursive function of
its round (`Take`, `Hit`, `Drop`, `File`). `ok` turns false when an assertion of
the code would fail; the engine then does nothing any more.

**V1Scheduler.** `schedule` one round of its loops at a time, with running
requests, preemption, waiting requests, prefix hits, encoder inputs and drafts
of a speculative decoder; `update_from_output`; `step` and
`step_with_batch_queue`. A batch carries the tokens and block tables the
workers would use, and a slot of `kv` holds the tokens it was computed from, so
`ContextIntact` compares what an executed token attends to with its own request.
The assertions of the scheduler and of the cache manager are kept in `ok` of the
pool too; `AssertionsHold` says that none has failed.

Names follow the code (`_incr_refcount_cached_block` is
`IncrRefcountCachedBlock`); `PROJECT.json` maps each definition to its lines.
Definitions introduced by "Mutated form" are deliberately wrong variants of the
definition after them. No specification uses them; each shows that some
property notices that mistake.

## Runs

| Run | What it checks | Bounds |
|---|---|---|
| `allocator` | conservation, consistency, content, computed flags, assertions | 3 blocks, 4 objects, 2 hashes, 2 partial contents: enough for a block shared by three objects, a copy-on-write that has to evict, and a promotion that meets a resident or an active duplicate |
| `policy_scheduler` | like is compared with like, the lru shadow is an LRU cache, the decision follows the figures | 3 hashes over capacity 2, so every shadow evicts; stride 2; gaps of 1 and 6 around a warm-up of 11, so that the decision falls on the first sample or after several; one reset at any point |
| `evictors` | tables agree, blocks are rebound to the chosen policy, victims by policy and under their own hash, `evict` returns | 2 blocks; three workloads: the switch from ml to lru, rrip, fifo or pdp at any point; lru, rrip and fifo hints at once; lru hints with 3 hashes and 3 time stamps, where a block is listed as outdated twice, evicted, refilled and met again |
| `prefix_scheduling` | admission, pinning, starvation, whole prompts and chunks | 3 requests, two of which share their first block, 4 blocks, up to 2 blocks of generated tokens each, 2 running sequences; the chunked budget is two blocks, so prompts are split beside decodes |
| `prefix_scheduling_stale` | may the counted blocks be gone? | 2 requests, 2 blocks; violated |
| `prefix_scheduling_bisect` | is the counted prefix cached? | 2 requests, 2 blocks; violated |
| `message_queue` | the refinement, no reader inside a chunk that is written, delivery | 2 local and 1 remote reader, 2 chunks, 4 messages of either size: the ring wraps twice |
| `executor` | lockstep, order of answers, calls end | 3 workers, capacity 1, 4 calls of three kinds: three calls may raise before a worker is heard, which overruns it (2 * `Capacity` + 1), and the fourth waits for room |
| `executor_rpc` | are the answers those of this call? | 2 workers, failing utility calls; violated |
| `mq_engine` | order and completeness of streams, aborts, every stream ends | a plain request beside a guided one or an adapter, 2 outputs each; any failure at any point |
| `v1_scheduler` | assertions, block accounting, context, eviction order, every request finishes | block size 2, `max_model_len` 6, four configurations: 3 blocks for 3 requests (preemption); 2 batches in flight; drafts of one token; three images in two requests with encoder room for one at a time |
| `v1_pipeline` | is the number of unscheduled requests right? | 2 batches in flight with 3 blocks; violated |

`MaxTime`, `MaxEpoch`, `MaxOutdated`, `MaxExtra`, `MaxResets`, `MaxSent`,
`MaxCalls`, `MaxTokens` and `MaxModelLen` bound counters; each appears in a guard
or, for the last two, is a limit the code has. Blocks, objects and hashes of the
allocator are symmetric; runs with a liveness property use no symmetry.

Deadlock is checked for the allocator and the message queue. Evictor and policy
scheduler are passive, and the schedulers, the executor and the server may be
idle when every request or call allowed by the bounds has been made.

### Fairness

- `EvictReturns`: weak fairness of the rounds of `evict`, a loop on one thread.
- `EveryRequestRuns`: weak fairness of the pass, as the engine keeps stepping, and
  strong fairness of `Finish`: generation is bounded by `max_model_len`, and a
  request may be preempted and readmitted in between.
- `EveryoneReceives`: the writer and each reader go on; both sides poll.
- `CallsEnd`: neither the engine nor a worker stops inside a call. Nothing is assumed
  about entering calls, about which calls fail or about room in a queue.
- `StreamsEnd`: the client's event loop runs every task that can go on, the
  engine's loop goes on until its process ends, and its scheduler serves every
  unfinished request again and again (strong fairness of `Step` per request, which
  is what `EveryRequestRuns` is about). Nothing is assumed about failures and the
  death of the process.
- `EveryRequestFinishes`: `[]<>~CanStep \/ []<><<Step>>_vars`, which is weak
  fairness of `Step` with ENABLED written out because TLC is slow to compute it
  here; and every grammar is compiled. Sampling may avoid EOS for ever; a
  request then ends at its length limit.

## What the violations show

- `prefix_scheduling_stale`: the count of cached tokens is taken when a request
  is first considered. It waits; a decode grows into the evictor and takes a
  counted block; the request is admitted with the old count and skips a block
  that was just allocated.
- `prefix_scheduling_bisect`: eviction may take the first block of a prompt
  and leave the second; the bisection then counts both as cached. LRUMLEvictor
  breaks ties by block id, so parents often go first.
- `executor_rpc`: a failed utility call is reported to its client and the engine
  goes on, but answers of the workers after the failing one stay in their queues
  and are taken for the answers to the next call. `AnswersInOrder` says exactly
  how far they are off.
- `v1_pipeline`: a request preempted while its batch is in flight stays in
  `scheduled_req_ids`. As the only request left it is never scheduled again.

Observations without a run of their own:

- A lead of exactly the threshold keeps ml; the readme says "greater".
- The first chunk of a prompt marks all its blocks computed; an abort then leaves
  blocks in the cache that were never written.
- Under lru, `evict` serves the list of outdated blocks from its recent end before
  any score, so the victim need not be the least recently used block;
  `VictimByPolicy` is stated for an empty list.
- `reset_prefix_cache` replaces the evictor: a policy that was fixed is forgotten
  and a new warm-up starts.
- A guided request or an `add_lora` that registers after the output loop has
  returned is never answered; `StreamsEnd` is stated for plain requests. An
  errored engine still accepts a request before it exits.
- v1, beyond what `v1_scheduler` checks: TLC also refutes `AssertionsHold` for three
  more modes of `MCV1Scheduler` (`Modes <-` each of them).
  - `LongDrafts`: a request of 5 tokens out of 6 gets a draft of two, which would need
    a fourth block. `allocate_slots` limits the new blocks to the width of the block
    table, nothing is left, and `assert num_new_blocks > 0` fails. Nobody cuts a draft
    at `max_model_len`.
  - `CutDrafts`: the number of full blocks is computed as if the whole draft were
    scheduled. When the budget cuts it, the number that is stored as
    `num_cached_block` goes down, and the next call files a block again:
    `assert blk.block_hash is None` fails.
  - `ThreeBatches`: a request is preempted while its first batch is in flight,
    and a third batch admits it again. The result of the first batch is then applied
    to it and takes it out of `scheduled_req_ids`, so that its last token is scheduled
    twice: `assert request.num_computed_tokens <= request.num_tokens` fails when the
    results arrive. With two batches in flight the first result is always there
    before the request can be admitted again.
- v1 with scarce blocks and scarce encoder room together: two requests can hold
  what the other needs. `can_allocate` of the encoder cache does not count inputs
  taken earlier in the same call.
- A call may wait in `enqueue` for ever. Each call that raises before a worker is heard
  leaves one answer more in that worker's ring; when the ring is full the worker waits
  to answer, and when the ring of the calls is full too, which takes 21 raised calls
  with the default `max_chunks` of 10, `collective_rpc` finds no room, as nobody
  reads answers meanwhile. It passes no timeout to `enqueue`
  (`multiproc_executor.py:111`), so this holds for `check_health` with its 10
  seconds too, although `executor_base.py:77` says of `timeout` "Maximum time in
  seconds to wait for execution. Raises a :exc:`TimeoutError` on timeout." `CallsEnd`
  therefore excepts `Overrun`; without the exception TLC refutes it, also for
  `check_health` alone, with 2 workers, capacity 1 and 4 calls. `OverrunIsFinal` and
  `WaitEnds` are the exact statement.
- A v1 step that schedules no token drops `finished_req_ids`.

## Proofs

Every safety property that a passing run checks is proved for all values of the
constants that satisfy the assumptions below. Each theorem rests on an inductive
invariant (`IndInv`, in V1Scheduler_proofs also `Sound`) with its initial, step and
stuttering lemmas.

| Module | Theorems | Assumed of the constants |
|---|---|---|
| `PrefixCachingAllocator_proofs` | `TypeOK`, `BlocksConserved`, `CacheConsistent`, `ContentPreserved`, `ComputedIsCached`, `NoAssertionFails` | finite blocks and objects, `None` a distinct value |
| `EvictionPolicyScheduler_proofs` | `TypeOK`, `SameSample`, `ShadowIsLRU`, `DecisionJustified` | at least one shadow policy; positive stride, distances, interval and gaps |
| `LRUMLEvictor_proofs` | `TypeOK`, `TablesAgree`, `ReportsOwnHash`, `VictimByPolicy`; with `HintsLeaveChoice`: `AllRebound`, `PdpMapExact`, `FreshStartsLong` and that one policy governs all resident blocks | finitely many blocks; positive, bounded distances; `None` a distinct value |
| `PrefixScheduling_proofs` | `TypeOK`, `NoAllocationFailure`, `WithinDevice`, `PinnedUntilRun` | finitely many requests, each prompt fits on the device with the watermark; blocks of at least two tokens; a token budget of at least `max_num_seqs` (the configuration checks that) |
| `MessageQueue_proofs` | `TypeOK`, `WriterAlone`, `Implements` | at least one local reader and one chunk |
| `MultiprocExecutor_proofs` | `TypeOK`, `Lockstep`, `AnswersInOrder`; that an overrun blocks every later call for ever, and that nothing else holds up a call that waits for room | at least one worker, positive capacity |
| `MQEngine_proofs` | `TypeOK`, `InOrder`, `AbandonedLeaves` | at least one output |
| `V1Scheduler_proofs` | with `Tame`: `AssertionsHold`, `TypeOK`, `BlocksAccounted`, `ContextIntact`, `FreedGoLast`; in every configuration, until an assertion fails: `BlocksAccounted` and the eviction order | finitely many requests, prompts that are not empty and shorter than `max_model_len`, a device on which one request of full length fits (the start of the engine checks that) |

**Allocator.** That an assertion holds needs the counts, the counts need to know
that a cached block has only users of its content, and that needs the mapping to
be exact. `IndInv` is the conjunction of `Typed`, `Counted` (a reference count is
the number of users), `Placed` (free, resident or active), `Shared` (users of one
block agree, full blocks are the mapped ones), `Stored` (memory holds what
objects and mapping say), `Marked` (computed and touched blocks are active and
mapped) and the absence of a failed assertion. It is stated over an allocator
record, so that there is one lemma per helper method and the lemmas compose as the
methods do. `Free` of a touched block's last user would break `Marked`;
`Releasable` is used exactly there.

**Policy scheduler.** `Compared` says that every shadow is well formed and has
counted what the real cache has counted. A shadow stays within the device only if
each eviction finds a victim, so the proof shows that the four victim orders are
total on distinct hashes, and that a finite set has a first element in a total
preorder (`FirstInPreorder`, which also gives `Min`, `Max` and the best score of
the PDP recomputation). `Ordered` is what makes the lru shadow an LRU cache: its
time stamps are in the order of the newest sampled accesses. Then the entry with the
oldest stamp of a full table is the one member of the ideal cache that the next
access pushes out (`DropsOldest`). The decision compares cross-multiplied
fractions; with equal totals the common factor cancels.

**LRUMLEvictor.** `ItemsAgree` says that every resident block has its item in the
sorted table and that an item which looks valid has its block's hash; `Kept` that a
resident block was accessed since it got its content; `Scored` that its score is the
one of its policy; `Dated` that an entry of the list of outdated blocks is about
what its block still holds, or older than its latest eviction, which is why `evict`
never reports the hash of an earlier content; `Unique` that a content has one
block; `Loop` that `evict` has something to find. `GovInv` adds that the scheduler's
policy governs all blocks. It needs the hypothesis `HintsLeaveChoice` (where the
scheduler decides, requests name no policy of their own): a block whose request
names one is not rebound.

**PrefixScheduling.** Admission looks at the free blocks once and then allocates
block by block, so `NoAllocationFailure` needs `Reserved` (what is left of the
current prompt still fits), which needs that every request is in one queue
(`InOnePlace`) and that exactly the scheduled ones hold their prompts (`Tables`).
`PinnedUntilRun` needs `Pinned`: what was cached when a request was admitted is in
use, or resident and about to be shared; `InPass` says when blocks may be touched.
`Budgeted` is there for the default pass: decodes always find tokens, because there
are no more of them than `max_num_seqs`. Queues are handled as the sets of their
members (`Lists`).

**MessageQueue.** The invariant is about positions: which message a chunk holds, how
far each reader is behind the writer (`Distance`), and what an unread chunk
contains (`Contents`, `Filled`, `Knows`). With it every step is a step of the
broadcast queue or a stutter; `Implements` is proved as a refinement.

**MultiprocExecutor.** Answers carry no call number, so the argument counts calls
taken and answered by each worker, answers heard by the engine and answers it still
expects (`WorkersCount`, `EngineCounts`, `InHand`). The same counts, with the bound
on the queues (`Bounded`), give the wait for room exactly: after an overrun there is
no room and none comes (`OverrunBlocks`, `OverrunIsFinal`), and before one a call
that finds no room has a worker that can step (`WaitEnds`). That the worker then does
step is fairness, which `CallsEnd` adds in the run.

**MQEngine.** The invariant is stated for one request at a time (`GoodRequest`,
`LeavingRequest`): the outputs that the stream has not seen are in its queue or in
the socket, once and in order, up to where the engine is; the engine begins a
request once, when nothing of it has been seen; and if the stream is gone, an abort
follows every trace of the request on the engine's side.

**V1Scheduler.** The proof has two parts. The first, `Inv`, is about the pool and
holds in every configuration while no assertion has failed. `Chain` relates the
pointers, the ends and the count of the free queue to a sequence of exactly the
blocks without users; every operation of the pool is a step from one such
sequence to another, and `Later` says what steps may do to the order. `Filed` says
that the hash map lists the blocks that carry a hash, `Accounted` that each block
is counted once for every holder, `Queued` that each live request is in one queue,
and `Sane` bounds what a request holds by what it was given: without the last,
`allocate_slots` could file a block the request does not have.

The second, `TameInv`, is about requests and the batches in flight, for at most
two batches and drafts of at most one token (`Tame`). The modes `LongDrafts`,
`CutDrafts` and `ThreeBatches` of `MCV1Scheduler` show that it fails beyond either
limit.
`Flights` says that a running request is in one batch only, and that a request that
was preempted in flight is in the oldest batch, whose result arrives before the
request can be admitted again; this is where more than two batches break it.
`Steady` says that the entry of a running request is what its result will be
applied to (`Agrees`), and that a request without one has tokens left to compute and
no block filed beyond the computed ones (`Settled`), which is where longer drafts
break it; `Marked` that its filed
blocks carry the hashes of its own tokens, and `Exclusive` that nobody else holds a
block it is still going to write. Blocks enter the cache before they are computed,
so nothing can be said of the memory as it is; the invariant is about the memory
once everything scheduled has been executed (`Final`): there a running request
finds its computed tokens (`Present`), and a block of the cache the tokens of its
hash (`Cached`). `Past` says of each batch that it finds its context in the memory
left by the batches before it, which is `ContextIntact` for the oldest. A stale
entry may still write into blocks that were given to another request; it writes
before the new owner does, because batches are executed in order.

Recursive functions (`Bisect`, `Keep`, the sums of ProtectingDistance, the loops of
BlockPool and of the encoder's cache) are handled by showing that a function with
their equation exists, by induction over a set of indices.

Only model-checked: the liveness properties (`EvictReturns`, `EveryRequestRuns`,
`EveryoneReceives`, `CallsEnd`, `StreamsEnd`, `EveryRequestFinishes`), because
fairness is outside the prover.

## Not modelled

Most of the repository's lines are model definitions, kernels, attention backends,
quantization, configuration, request parsing and entry points: numerical or
tabular code without a protocol, on which a state machine would say nothing. Hence
the mapped lines are a small share of the whole. The predictor is a neural network;
only its arbitrary output appears. `PDPEvictor` repeats the pdp branch of LRUMLEvictor, and
`LRUEvictor` is replaced by it in this fork.

Within the modelled parts: access metadata of blocks and hit-rate metrics; in the
v0 scheduler swapping, priorities, partial-prefill limits, multi-step scheduling,
lookahead slots, sliding windows and encoder-decoder models; start-up handshakes of
the queue, the executor and the server; workers that die without an answer; in v1
LoRA limits, cascade attention and the workers' copies of the request state.

What can go wrong in code that no model reaches: a block object freed into the
wrong device's pool, or one of the two caches reset and not the other
(`CpuGpuBlockAllocator`); `to_delete_blocks`, which only `evict` shortens, growing
without bound; `LRUEvictor.update` leaving its heap entry behind; `PDPEvictor`
stepping over the multiple at which it recomputes; the memo of a sequence that is
aborted while it waits, which nobody deletes; a worker killed between two calls,
which `execute_model` waits for without a timeout; an engine that hangs while its
process lives, which the heartbeat loop does not report; a request id that is
reused while outputs of its aborted predecessor are in the socket.

## Plan

1. An abstract prefix cache (a partial map from prefixes to computed content)
   that the allocator and the block pool both implement; `Cached` and `Stored` are
   the refinement mappings.
2. `LastAccessBlocksTracker` with the predictor thread; `CpuGpuBlockAllocator`
   and the swapping half of the v0 scheduler, which would replace `Releasable`.
