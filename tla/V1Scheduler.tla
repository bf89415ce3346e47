------------------------------ MODULE V1Scheduler ------------------------------
(***************************************************************************)
(* The v1 engine core: Scheduler (v1/core/scheduler.py), KVCacheManager    *)
(* (v1/core/kv_cache_manager.py), EncoderCacheManager                      *)
(* (v1/core/encoder_cache_manager.py) and the steps of EngineCore          *)
(* (v1/engine/core.py), with and without the batch queue of pipeline       *)
(* parallelism.                                                            *)
(*                                                                         *)
(* schedule() is modelled one round of its loops at a time; `pass' holds   *)
(* its local variables.  Requests are added and aborted between steps,     *)
(* grammars become ready at any time.  The model may sample any token and  *)
(* accept any part of a draft.  `kv' is the device memory: a slot holds    *)
(* the tokens up to and including its own that it was computed from.       *)
(***************************************************************************)
EXTENDS BlockPool, FiniteSets

CONSTANTS
  Modes,        \* what a start of the engine may be configured to, see Init
  Requests,
  Prompt,       \* prompt_token_ids of each request
  MaxTokens,    \* max_tokens of each request
  Guided,       \* the requests with guided decoding
  NoHits,       \* the requests that ask for prompt_logprobs
  Images,       \* mm_positions of each request: [offset, length]
  Tokens, EOS,
  BlockSize,
  MaxModelLen,
  Preallocate   \* num_preallocate_blocks

ASSUME SchedulerAssumption ==
  /\ \A c \in {BlockSize, MaxModelLen} : c \in Nat \ {0}
  /\ Preallocate \in Nat
  /\ IsFiniteSet(Requests)
  /\ Guided \subseteq Requests /\ NoHits \subseteq Requests
  /\ Prompt \in [Requests -> Seq(Tokens)]
  /\ \A r \in Requests : Len(Prompt[r]) \in 1 .. MaxModelLen - 1
  /\ MaxTokens \in [Requests -> Nat \ {0}]
  /\ Images \in [Requests -> Seq([offset : Nat, length : Nat \ {0}])]

cdiv(a, b) == (a + b - 1) \div b
max_num_blocks_per_req == cdiv(MaxModelLen, BlockSize)

\* check_enough_kv_cache_memory: one request of full length fits.
ASSUME MemoryAssumption ==
  /\ Modes \subseteq [queue : Nat \ {0}, blocks : Nat, budget : Nat \ {0}, spec : Nat,
                      seqs : Nat \ {0}, requests : SUBSET Requests, tokens : SUBSET Tokens]
  /\ \A m \in Modes : m.blocks >= max_num_blocks_per_req

VARIABLES
  mode,               \* queue, blocks, budget, spec, seqs: batch_queue_size,
                      \* num_gpu_blocks, max_num_batched_tokens, the most draft tokens,
                      \* max_num_seqs; and the requests that may come and the tokens
                      \* that the model may sample
  pool,               \* block_pool
  encoder,            \* encoder_cache_manager: cached inputs, num_free_slots
  request,            \* each Request, with its blocks, hashes and num_cached_block
  waiting, running,
  scheduled_req_ids, finished_req_ids,
  pass,               \* the local variables of schedule() and where it is
  batches,            \* scheduler outputs that are being executed, oldest first
  compiled,           \* the requests whose grammar is ready
  kv

queues == <<waiting, running, scheduled_req_ids, finished_req_ids>>
vars == <<mode, pool, encoder, request, queues, pass, batches, compiled, kv>>

None == -1
Live == {"waiting", "waiting_for_fsm", "running", "preempted"}
NewPass == [at |-> "idle", index |-> 1, budget |-> 0, encoder |-> 0, preempted |-> FALSE,
            skipped |-> <<>>, output |-> [r \in {} |-> <<>>]]

Length(r, i) == Images[r][i].length

\* compute_encoder_budget: the encoder's budget for a step and its cache are as
\* large as the token budget, or as the longest input.
encoder_cache_size ==
  Max({mode.budget} \cup UNION {{Length(r, i) : i \in DOMAIN Images[r]} : r \in Requests})

TypeOK ==
  /\ mode \in Modes
  /\ \A r \in Requests :
       /\ request[r].status \in Live \cup {"new", "finished"}
       /\ request[r].tokens \in Seq(Tokens \cup {EOS}) /\ Len(request[r].tokens) <= MaxModelLen
       /\ request[r].computed \in 0 .. Len(request[r].tokens)
       /\ request[r].ncached \in {None} \cup 0 .. Len(request[r].blocks)
       /\ Len(request[r].blocks) <= max_num_blocks_per_req
  /\ ToSet(waiting) = {r \in Requests : request[r].status \in Live \ {"running"}} \ ToSet(pass.skipped)
  /\ ToSet(running) = {r \in Requests : request[r].status = "running"}
  /\ Len(running) <= mode.seqs
  /\ scheduled_req_ids \subseteq Requests
  /\ pass.budget \in 0 .. mode.budget
  /\ \A r \in Requests : encoder.cached[r] \subseteq DOMAIN Images[r]
  /\ encoder.slots \in Int
  /\ Len(batches) <= mode.queue

Init ==
  /\ mode \in Modes
  /\ pool = NewPool(mode.blocks)
  /\ encoder = [cached |-> [r \in Requests |-> {}], slots |-> encoder_cache_size]
  /\ request = [r \in Requests |->
       [status |-> "new", tokens |-> Prompt[r], computed |-> 0, spec |-> <<>>,
        blocks |-> <<>>, hashes |-> <<>>, ncached |-> None]]
  /\ waiting = <<>> /\ running = <<>>
  /\ scheduled_req_ids = {} /\ finished_req_ids = {}
  /\ pass = NewPass
  /\ batches = <<>>
  /\ compiled = {}
  /\ kv = [b \in 1 .. mode.blocks |-> [i \in 1 .. BlockSize |-> <<>>]]

-----------------------------------------------------------------------------
(* KVCacheManager                                                           *)

\* hash_request_tokens: one hash for every full block of the request.
hash_request_tokens(r) ==
  [i \in 1 .. Len(request[r].tokens) \div BlockSize |-> SubSeq(request[r].tokens, 1, i * BlockSize)]

Hashes(r) == IF request[r].hashes = <<>> THEN hash_request_tokens(r) ELSE request[r].hashes

\* get_computed_blocks: the cached blocks of the longest cached prefix.
get_computed_blocks(r) ==
  LET hit == [i \in 1 .. Len(Hashes(r)) |-> get_cached_block(pool, Hashes(r)[i])]
      n == CHOOSE k \in 0 .. Len(hit) :
             /\ \A i \in 1 .. k : hit[i] # NoBlock
             /\ k < Len(hit) => hit[k + 1] = NoBlock
  IN  IF r \in NoHits THEN <<>> ELSE SubSeq(hit, 1, n)

\* The number of blocks that allocate_slots lacks for n more tokens.
Missing(req, n, hits) ==
  cdiv(req.computed + Len(hits) * BlockSize + n, BlockSize) - Len(req.blocks) - Len(hits)

\* Whether allocate_slots succeeds: hits that are in the free queue are not free.
CanAllocate(req, n, hits) ==
  Missing(req, n, hits) <= pool.num - Cardinality({i \in DOMAIN hits : pool.ref[hits[i]] = 0})

\* Mutated form: the width of the block table is forgotten.
NumNewBlocksUncapped(missing, available, held) == Min({missing + Preallocate, available})

\* How many blocks are taken from the pool: some for later, if there are any, but
\* no more than a block table holds.
NumNewBlocks(missing, available, held) ==
  Min({missing + Preallocate, available, max_num_blocks_per_req - held})

\* allocate_slots: the request and the pool after it.
allocate_slots(req, n, hits) ==
  LET touched == touch(pool, hits)
      held == req.blocks \o hits
      new == NumNewBlocks(Missing(req, n, hits), touched.num, Len(held))
      got == IF Missing(req, n, hits) <= 0 THEN [pool |-> touched, blocks |-> <<>>]
             ELSE IF new <= 0 THEN [pool |-> [touched EXCEPT !.ok = FALSE], blocks |-> <<>>]
             ELSE get_new_blocks(touched, new)
      blocks == held \o got.blocks
      full == (req.computed + Len(hits) * BlockSize + n - Len(req.spec)) \div BlockSize
      ncached == IF req.ncached = None THEN Len(hits) ELSE req.ncached
      filed == cache_full_blocks(got.pool, blocks, req.hashes, req.tokens, ncached, full, BlockSize)
  IN  [pool |-> filed.pool,
       request |-> [req EXCEPT !.blocks = blocks, !.hashes = filed.hashes, !.ncached = full]]

\* free: the tail blocks first.
free(p, r) == free_blocks(p, Reverse(request[r].blocks))

\* Mutated form: num_cached_block survives the blocks it counts.
FreedKeepsCount(req) == [req EXCEPT !.blocks = <<>>]

Freed(req) == [req EXCEPT !.blocks = <<>>, !.ncached = None]

Preempted(req) == [Freed(req) EXCEPT !.status = "preempted", !.computed = 0]

-----------------------------------------------------------------------------
(* EncoderCacheManager                                                      *)

\* The encoder slots that some inputs of a request take.
Slots(r, inputs) ==
  LET sum[i \in 0 .. Len(Images[r])] ==
        IF i = 0 THEN 0 ELSE sum[i - 1] + (IF i \in inputs THEN Length(r, i) ELSE 0)
  IN  sum[Len(Images[r])]

allocate(r, inputs) ==
  [encoder EXCEPT !.cached[r] = @ \cup inputs, !.slots = @ - Slots(r, inputs)]

free_encoder_inputs(enc, r, inputs) ==
  [enc EXCEPT !.cached[r] = @ \ inputs, !.slots = @ + Slots(r, inputs)]

\* free_encoder_input for some inputs of each of the requests of a sequence.
FreeEncoderInputs(rs, inputs) ==
  LET after[i \in 0 .. Len(rs)] ==
        IF i = 0 THEN encoder ELSE free_encoder_inputs(after[i - 1], rs[i], inputs[rs[i]])
  IN  after[Len(rs)]

\* One more input is considered for n tokens from `computed' on.
Consider(acc, r, i, computed, n) ==
  LET start == Images[r][i].offset
  IN  IF acc.done \/ start >= computed + n THEN [acc EXCEPT !.done = TRUE]
      ELSE IF start + Length(r, i) <= computed \/ i \in encoder.cached[r] THEN acc
      ELSE IF Length(r, i) > encoder.slots \/ Length(r, i) > acc.budget
           THEN [acc EXCEPT !.done = TRUE,
                            !.n = IF computed < start THEN start - computed ELSE 0]
      ELSE [acc EXCEPT !.budget = @ - Length(r, i), !.inputs = @ \cup {i}]

\* The encoder inputs that n tokens from `computed' on need, as far as budget and
\* cache go, and the number of tokens that can be computed with them.
_try_schedule_encoder_inputs(r, computed, n) ==
  LET after[i \in 0 .. Len(Images[r])] ==
        IF i = 0 THEN [inputs |-> {}, n |-> n, budget |-> pass.encoder, done |-> FALSE]
        ELSE Consider(after[i - 1], r, i, computed, n)
  IN  after[Len(Images[r])]

-----------------------------------------------------------------------------
(* Scheduler.schedule                                                       *)

has_requests == waiting # <<>> \/ running # <<>> \/ finished_req_ids # {}

get_num_unscheduled_requests ==
  Len(waiting) + Len(running) - Cardinality(scheduled_req_ids)

\* EngineCore.step schedules whenever there is something to do,
\* step_with_batch_queue when something is not scheduled and a batch fits.
MaySchedule ==
  /\ has_requests
  /\ mode.queue > 1 => /\ get_num_unscheduled_requests > 0
                       /\ Len(batches) < mode.queue

BeginSchedule ==
  /\ pass.at = "idle"
  /\ MaySchedule
  /\ pass' = [NewPass EXCEPT !.at = "running", !.budget = mode.budget,
                          !.encoder = encoder_cache_size]
  /\ UNCHANGED <<mode, pool, encoder, request, queues, batches, compiled, kv>>

\* What the workers are told of a request: its tokens, where to start, where to write.
Output(req, start, n, spec) ==
  [start |-> start, n |-> n, spec |-> spec, blocks |-> req.blocks, tokens |-> req.tokens \o spec]

\* One more request in the output of a step.
With(output, r, out) == [s \in DOMAIN output \cup {r} |-> IF s = r THEN out ELSE output[s]]

InRunningLoop == pass.at = "running" /\ pass.index <= Len(running) /\ pass.budget > 0

SkipScheduled ==
  /\ InRunningLoop
  /\ running[pass.index] \in scheduled_req_ids
  /\ pass' = [pass EXCEPT !.index = @ + 1]
  /\ UNCHANGED <<mode, pool, encoder, request, queues, batches, compiled, kv>>

\* num_new_tokens of a running request, before and after its encoder inputs
\* are looked at.
Wanted(req) == Min({Len(req.tokens) + Len(req.spec) - req.computed, pass.budget})
TryRunning(r) == _try_schedule_encoder_inputs(r, request[r].computed, Wanted(request[r]))

\* The encoder has no room: later requests may still be scheduled.
SkipNoEncoder ==
  /\ InRunningLoop
  /\ running[pass.index] \notin scheduled_req_ids
  /\ TryRunning(running[pass.index]).n = 0 /\ Wanted(request[running[pass.index]]) > 0
  /\ pass' = [pass EXCEPT !.index = @ + 1]
  /\ UNCHANGED <<mode, pool, encoder, request, queues, batches, compiled, kv>>

\* A running request gets its slots; its draft is trimmed to what is scheduled.
ScheduleRunning ==
  LET r == running[pass.index]
      try == TryRunning(r)
      n == try.n
      done == allocate_slots(request[r], n, <<>>)
      fits == n + request[r].computed - Len(request[r].tokens)
      spec == IF fits > 0 THEN SubSeq(request[r].spec, 1, fits) ELSE <<>>
      req == [done.request EXCEPT !.spec = IF fits > 0 THEN spec ELSE @]
  IN  /\ InRunningLoop
      /\ r \notin scheduled_req_ids
      /\ n = 0 => Wanted(request[r]) = 0
      /\ CanAllocate(request[r], n, <<>>)
      /\ pool' = IF Wanted(request[r]) > 0 THEN done.pool ELSE [pool EXCEPT !.ok = FALSE]
      /\ encoder' = allocate(r, try.inputs)
      /\ request' = [request EXCEPT ![r] = req]
      /\ scheduled_req_ids' = scheduled_req_ids \cup {r}
      /\ pass' = [pass EXCEPT !.index = @ + 1, !.budget = @ - n, !.encoder = try.budget,
                    !.output = With(@, r, Output(req, req.computed, n, spec))]
      /\ UNCHANGED <<mode, waiting, running, finished_req_ids, batches, compiled, kv>>

\* No slots: the last running request is preempted, and the loop tries again
\* or, when that was the request itself, ends.
Preempt ==
  LET r == running[pass.index]
      victim == Last(running)
  IN  /\ InRunningLoop
      /\ r \notin scheduled_req_ids
      /\ TryRunning(r).n # 0
      /\ ~CanAllocate(request[r], TryRunning(r).n, <<>>)
      /\ running' = Front(running)
      /\ waiting' = <<victim>> \o waiting
      /\ pool' = free(pool, victim)
      /\ request' = [request EXCEPT ![victim] = Preempted(@)]
      /\ pass' = [pass EXCEPT !.preempted = TRUE]
      /\ UNCHANGED <<mode, encoder, scheduled_req_ids, finished_req_ids, batches, compiled, kv>>

EndRunning ==
  /\ pass.at = "running"
  /\ ~InRunningLoop
  /\ pass' = [pass EXCEPT !.at = IF pass.preempted THEN "end" ELSE "waiting"]
  /\ UNCHANGED <<mode, pool, encoder, request, queues, batches, compiled, kv>>

InWaitingLoop ==
  /\ pass.at = "waiting"
  /\ waiting # <<>> /\ pass.budget > 0
  /\ Len(running) # mode.seqs

NotReady(r) == request[r].status = "waiting_for_fsm" /\ r \notin compiled

\* Its grammar is not ready: the request is set aside for this pass.
SkipNotReady ==
  /\ InWaitingLoop
  /\ NotReady(Head(waiting))
  /\ waiting' = Tail(waiting)
  /\ pass' = [pass EXCEPT !.skipped = Append(@, Head(waiting))]
  /\ UNCHANGED <<mode, pool, encoder, request, running, scheduled_req_ids, finished_req_ids,
                 batches, compiled, kv>>

\* The blocks that the head of the waiting queue takes from the cache: not the
\* last one when nothing would be left to compute.
Hits(r) ==
  LET hits == get_computed_blocks(r)
  IN  IF Len(request[r].tokens) = Len(hits) * BlockSize THEN Front(hits) ELSE hits

\* A waiting or preempted request is admitted if the encoder has room for its next
\* token and its slots can be allocated, otherwise the loop ends.
ScheduleWaiting ==
  LET r == Head(waiting)
      hits == Hits(r)
      start == Len(hits) * BlockSize
      try == _try_schedule_encoder_inputs(r, start, Min({Len(request[r].tokens) - start, pass.budget}))
      n == try.n
      hashed == [request[r] EXCEPT !.hashes = Hashes(r),
                   !.status = IF @ = "waiting_for_fsm" THEN "waiting" ELSE @]
      done == allocate_slots(hashed, n, hits)
      req == [done.request EXCEPT !.status = "running", !.computed = start]
  IN  /\ InWaitingLoop
      /\ ~NotReady(r)
      /\ IF n # 0 /\ CanAllocate(hashed, n, hits)
         THEN /\ pool' = done.pool
              /\ encoder' = allocate(r, try.inputs)
              /\ request' = [request EXCEPT ![r] = req]
              /\ waiting' = Tail(waiting)
              /\ running' = Append(running, r)
              /\ scheduled_req_ids' = scheduled_req_ids \cup {r}
              /\ pass' = [pass EXCEPT !.budget = @ - n, !.encoder = try.budget,
                            !.output = With(@, r, Output(req, start, n, <<>>))]
         ELSE /\ request' = [request EXCEPT ![r] = hashed]
              /\ pass' = [pass EXCEPT !.at = "end"]
              /\ UNCHANGED <<pool, encoder, waiting, running, scheduled_req_ids>>
      /\ UNCHANGED <<mode, finished_req_ids, batches, compiled, kv>>

\* Mutated form: the skipped requests are forgotten.
PutBackNone == waiting

PutBack == pass.skipped \o waiting

\* The end of schedule(): skipped requests return to the head of the queue, the
\* workers will be told what finished.  A batch without tokens is not executed.
EndSchedule ==
  /\ pass.at = "end" \/ (pass.at = "waiting" /\ ~InWaitingLoop)
  /\ waiting' = PutBack
  /\ finished_req_ids' = {}
  /\ IF DOMAIN pass.output # {}
     THEN /\ batches' = Append(batches, pass.output)
          /\ pass' = [NewPass EXCEPT !.at = IF mode.queue > 1 THEN "idle" ELSE "execute"]
     ELSE /\ pass' = [NewPass EXCEPT !.at = IF batches # <<>> THEN "execute" ELSE "idle"]
          /\ UNCHANGED batches
  /\ UNCHANGED <<mode, pool, encoder, request, running, scheduled_req_ids, compiled, kv>>

-----------------------------------------------------------------------------
(* The model runner and Scheduler.update_from_output                        *)

\* The slot of the p-th token of a request with these blocks.
Slot(blocks, p) == <<blocks[(p - 1) \div BlockSize + 1], ((p - 1) % BlockSize) + 1>>

\* The positions of a request whose tokens a batch writes into this slot.
Writes(out, slot) == {p \in out.start + 1 .. out.start + out.n : Slot(out.blocks, p) = slot}
Writers(batch, slot) == {r \in DOMAIN batch : Writes(batch[r], slot) # {}}

\* What it finds there afterwards.
Written(out, slot) == SubSeq(out.tokens, 1, CHOOSE p \in Writes(out, slot) : TRUE)

\* The device memory once a batch has been executed.
Executed(memory, batch) ==
  [b \in DOMAIN memory |-> [i \in 1 .. BlockSize |->
     LET writers == Writers(batch, <<b, i>>)
     IN  IF writers = {} THEN memory[b][i]
         ELSE Written(batch[CHOOSE r \in writers : TRUE], <<b, i>>)]]

\* What a request may generate in a batch: nothing that counts before its prompt
\* is computed, then the accepted part of its draft and one more token; and the
\* draft for the next step.
Generations(out) ==
  IF out.start + out.n < Len(out.tokens)
  THEN {[tokens |-> <<>>, spec |-> <<>>, accepted |-> 0]}
  ELSE {[tokens |-> SubSeq(out.spec, 1, s.accepted) \o <<s.token>>, spec |-> s.spec,
         accepted |-> s.accepted] :
          s \in [accepted : 0 .. Len(out.spec), token : mode.tokens \cup {EOS},
                 spec : UNION {[1 .. i -> mode.tokens] : i \in 0 .. mode.spec}]}

\* _check_stop
_check_stop(r, tokens) ==
  \/ Len(tokens) >= MaxModelLen
  \/ Len(tokens) - Len(Prompt[r]) >= MaxTokens[r]
  \/ Last(tokens) = EOS

\* The tokens are appended until one of them stops the request.
Extended(r, generated) ==
  LET upto(k) == request[r].tokens \o SubSeq(generated, 1, k)
      stops == {k \in 1 .. Len(generated) : _check_stop(r, upto(k))}
  IN  upto(IF stops = {} THEN Len(generated) ELSE Min(stops))

\* _free_request, for the requests of a sequence.  The code deletes a finished
\* request; its record keeps only the tokens.
FreeRequests(p, rs) ==
  LET after[i \in 0 .. Len(rs)] == IF i = 0 THEN p ELSE free(after[i - 1], rs[i])
  IN  after[Len(rs)]
Finished(req) ==
  [Freed(req) EXCEPT !.status = "finished", !.hashes = <<>>, !.spec = <<>>, !.computed = 0]

\* A request after its results g of a batch have been applied.
Applied(r, out, g) ==
  LET computed == request[r].computed + out.n - (Len(out.spec) - g.accepted)
  IN  [request[r] EXCEPT !.computed = computed, !.spec = g.spec,
         !.tokens = IF computed >= Len(request[r].tokens) THEN Extended(r, g.tokens) ELSE @]

Stopped(r, req) == Len(req.tokens) > Len(request[r].tokens) /\ _check_stop(r, req.tokens)

\* The encoder inputs of a request that are in the device memory, or not needed any more.
Passed(r, req) ==
  {i \in encoder.cached[r] : \/ Stopped(r, req)
                             \/ Images[r][i].offset + Length(r, i) <= req.computed}

\* The oldest batch is executed and its results are applied to the requests
\* that still run.
Update ==
  LET batch == Head(batches)
      live == Keep(running, DOMAIN batch)
  IN  /\ \/ pass.at = "execute"
         \/ pass.at = "idle" /\ mode.queue > 1 /\ has_requests /\ ~MaySchedule
      /\ batches # <<>>
      /\ \E generated \in [ToSet(live) -> UNION {Generations(batch[r]) : r \in ToSet(live)}] :
           LET after == [r \in ToSet(live) |-> Applied(r, batch[r], generated[r])]
               stops == Keep(live, {r \in ToSet(live) : Stopped(r, after[r])})
           IN  /\ \A r \in ToSet(live) : generated[r] \in Generations(batch[r])
               /\ request' = [r \in Requests |->
                    IF r \notin ToSet(live) THEN request[r]
                    ELSE IF Stopped(r, after[r]) THEN Finished(after[r]) ELSE after[r]]
               /\ pool' = [FreeRequests(pool, stops) EXCEPT
                    !.ok = @ /\ ToSet(live) \subseteq scheduled_req_ids
                             /\ \A r \in ToSet(live) : batch[r].spec = <<>> =>
                                  after[r].computed <= Len(request[r].tokens)]
               /\ encoder' = FreeEncoderInputs(live,
                    [r \in ToSet(live) |-> Passed(r, after[r])])
               /\ running' = Keep(running, ToSet(running) \ ToSet(stops))
               /\ finished_req_ids' = finished_req_ids \cup ToSet(stops)
      /\ scheduled_req_ids' = scheduled_req_ids \ ToSet(live)
      /\ kv' = Executed(kv, batch)
      /\ batches' = Tail(batches)
      /\ pass' = NewPass
      /\ UNCHANGED <<mode, waiting, compiled>>

-----------------------------------------------------------------------------
(* Between steps: the requests of the clients                               *)

add_request(r) ==
  /\ pass.at = "idle"
  /\ request[r].status = "new"
  /\ request' = [request EXCEPT ![r].status = IF r \in Guided THEN "waiting_for_fsm" ELSE "waiting"]
  /\ waiting' = Append(waiting, r)
  /\ UNCHANGED <<mode, pool, encoder, running, scheduled_req_ids, finished_req_ids, pass,
                 batches, compiled, kv>>

\* finish_requests, by abort_requests
abort_request(r) ==
  /\ pass.at = "idle"
  /\ request[r].status \in Live
  /\ running' = Keep(running, Requests \ {r})
  /\ waiting' = Keep(waiting, Requests \ {r})
  /\ scheduled_req_ids' = IF request[r].status = "running"
                          THEN scheduled_req_ids \ {r} ELSE scheduled_req_ids
  /\ pool' = free(pool, r)
  /\ encoder' = free_encoder_inputs(encoder, r, encoder.cached[r])
  /\ request' = [request EXCEPT ![r] = Finished(@)]
  /\ finished_req_ids' = finished_req_ids \cup {r}
  /\ UNCHANGED <<mode, pass, batches, compiled, kv>>

ResetPrefixCache ==
  /\ pass.at = "idle"
  /\ pool.num = mode.blocks
  /\ pool' = reset_prefix_cache(pool)
  /\ UNCHANGED <<mode, encoder, request, queues, pass, batches, compiled, kv>>

\* The executor thread of the structured output manager has compiled a grammar.
GrammarReady(r) ==
  /\ r \notin compiled
  /\ request[r].status = "waiting_for_fsm"
  /\ compiled' = compiled \cup {r}
  /\ UNCHANGED <<mode, pool, encoder, request, queues, pass, batches, kv>>

-----------------------------------------------------------------------------

Step ==
  /\ pool.ok
  /\ \/ BeginSchedule
     \/ SkipScheduled \/ SkipNoEncoder \/ ScheduleRunning \/ Preempt \/ EndRunning
     \/ SkipNotReady \/ ScheduleWaiting \/ EndSchedule
     \/ Update

Client ==
  /\ pool.ok
  /\ \/ \E r \in mode.requests : add_request(r) \/ abort_request(r)
     \/ ResetPrefixCache

Next == Step \/ Client \/ \E r \in Guided : GrammarReady(r)

\* ENABLED Step, written out.
CanStep ==
  /\ pool.ok
  /\ \/ pass.at # "idle"
     \/ MaySchedule
     \/ mode.queue > 1 /\ has_requests /\ batches # <<>>

\* Weak fairness of Step, as the busy loop goes on while it has something to do
\* and the executor answers; and every grammar is compiled.
Fairness ==
  /\ []<>~CanStep \/ []<><<Step>>_vars
  /\ \A r \in Guided : WF_vars(GrammarReady(r))

Spec == Init /\ [][Next]_vars /\ Fairness

-----------------------------------------------------------------------------

\* No assertion of the scheduler, the KV cache manager or the block pool fails, nor does
\* set.remove: the request to be scheduled lacks tokens, its blocks fit into its table, a
\* block is filed once and with its hash, and a result finds its request as it was
\* scheduled.  (Each relies on what other steps did, batches ago.)
AssertionsHold == pool.ok

\* The free queue, its links and its count, the reference counts and the block
\* tables tell the same story: a block is in the free queue, once, exactly when
\* no request holds it; every holder is counted once; the cache lists the blocks
\* that carry a hash.  (touch, free and get_new_blocks each change one part.)
BlocksAccounted ==
  LET list == FreeList(pool)
      holders(b) == {r \in Requests : b \in ToSet(request[r].blocks)}
  IN  /\ Len(list) = pool.num
      /\ ToSet(list) = {b \in DOMAIN pool.ref : holders(b) = {}}
      /\ Cardinality(ToSet(list)) = pool.num
      /\ \A i \in 1 .. Len(list) - 1 : pool.prev[list[i + 1]] = list[i]
      /\ pool.num > 0 => pool.tail = Last(list) /\ pool.prev[pool.head] = NoBlock
      /\ \A b \in DOMAIN pool.ref :
           /\ pool.ref[b] = Cardinality(holders(b))
           /\ \A h \in DOMAIN pool.cached : (b \in ToSet(pool.cached[h])) <=> (pool.hash[b] = h)

\* When a batch is executed, every token that a scheduled request attends to is
\* in the request's own blocks and was computed from the request's own tokens:
\* although blocks enter the cache before they are computed, are shared, and
\* are taken back from requests that are preempted or aborted.
ContextIntact ==
  batches # <<>> =>
    LET batch == Head(batches)
        memory == Executed(kv, batch)
    IN  \A r \in DOMAIN batch : \A p \in 1 .. batch[r].start + batch[r].n :
          LET slot == Slot(batch[r].blocks, p)
          IN  memory[slot[1]][slot[2]] = SubSeq(batch[r].tokens, 1, p)

\* Blocks leave the free queue at its head or because they are hit, and enter at
\* its tail: a block that stays free is preceded only by blocks that have been free,
\* and before it, already.  (The queue is the eviction order of the cache.)
FreedGoLast ==
  [][LET before == FreeList(pool)
         after == FreeList(pool')
     IN  \A i, j \in DOMAIN after : i < j =>
           \A l \in DOMAIN before : before[l] = after[j] =>
             \E k \in 1 .. l - 1 : before[k] = after[i]]_pool

\* get_num_unscheduled_requests is the number of requests that are not being
\* processed by the executor.
CountsUnscheduled ==
  pass.at = "idle" =>
    get_num_unscheduled_requests =
      Cardinality({r \in Requests : /\ request[r].status \in Live
                                    /\ \A i \in DOMAIN batches : r \notin DOMAIN batches[i]})

\* A request that was added finishes or is aborted: preemption, a grammar that
\* is late and the limits on blocks, tokens and the encoder only delay it.
EveryRequestFinishes ==
  \A r \in Requests : (request[r].status \in Live) ~> (request[r].status = "finished")
=============================================================================
