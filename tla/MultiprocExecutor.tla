--------------------------- MODULE MultiprocExecutor ---------------------------
(***************************************************************************)
(* The engine process and its workers (v1/executor/multiproc_executor.py,  *)
(* with the callers in v1/engine/core.py): collective_rpc broadcasts a     *)
(* call, every worker executes it and answers on a queue of its own, and   *)
(* the answers are gathered in the order of ranks.  An answer does not say *)
(* which call it answers: only its place in the queue tells.               *)
(*                                                                         *)
(* The queues are the broadcast queues that MessageQueue implements.  A    *)
(* call is its number and its kind: execute_model (by EngineCore.step),    *)
(* a utility such as add_lora (by _handle_client_request) and the timed    *)
(* check_health.                                                           *)
(***************************************************************************)
EXTENDS Broadcast, Integers

CONSTANTS
  NumWorkers,   \* world_size; ranks are 1 .. NumWorkers
  Capacity,     \* capacity of each queue
  Kinds,        \* the kinds of calls that are made
  Failing,      \* the kinds of calls that a worker may fail to execute
  MaxCalls      \* bound on the number of calls

AllKinds == {"execute_model", "utility", "check_health"}

ASSUME ExecutorAssumption ==
  /\ NumWorkers \in Nat \ {0}
  /\ Capacity \in Nat \ {0}
  /\ MaxCalls \in Nat
  /\ Kinds \subseteq AllKinds
  /\ Failing \subseteq AllKinds

Workers == 1 .. NumWorkers
Engine == "engine"
Calls == [n : 1 .. MaxCalls, kind : Kinds]
Answers == [n : 1 .. MaxCalls, ok : BOOLEAN]
NoCall == [n |-> 0, kind |-> "execute_model"]

VARIABLES
  rpc,       \* rpc_broadcast_mq
  response,  \* worker_response_mq of each worker
  worker,    \* each worker_busy_loop: whether it executes a call, and which
  engine,    \* collective_rpc: its call, the next worker to hear, `responses'
  skips      \* history: how many calls raised before each worker was heard

vars == <<rpc, response, worker, engine, skips>>

TypeOK ==
  /\ rpc \in [sent : Seq(Calls), got : [Workers -> Seq(Calls)]]
  /\ response \in [Workers -> [sent : Seq(Answers), got : [{Engine} -> Seq(Answers)]]]
  /\ worker \in [Workers -> [at : {"wait", "run", "down"}, call : Calls \cup {NoCall}]]
  /\ engine \in [at : {"idle", "send", "gather", "failed", "down"}, call : Calls \cup {NoCall},
                 next : 1 .. NumWorkers, responses : Seq(Answers)]
  /\ skips \in [Workers -> 0 .. MaxCalls]

Init ==
  /\ rpc = EmptyQueue(Workers)
  /\ response = [w \in Workers |-> EmptyQueue({Engine})]
  /\ worker = [w \in Workers |-> [at |-> "wait", call |-> NoCall]]
  /\ engine = [at |-> "idle", call |-> NoCall, next |-> 1, responses |-> <<>>]
  /\ skips = [w \in Workers |-> 0]

-----------------------------------------------------------------------------
(* collective_rpc                                                           *)

\* collective_rpc is entered.
Call(kind) ==
  /\ engine.at = "idle"
  /\ Len(rpc.sent) < MaxCalls
  /\ engine' = [at |-> "send", call |-> [n |-> Len(rpc.sent) + 1, kind |-> kind],
                next |-> 1, responses |-> <<>>]
  /\ UNCHANGED <<rpc, response, worker, skips>>

\* The call is broadcast when every worker has read the oldest chunk.  enqueue is
\* not given the timeout of the call: the wait is not limited.
Send ==
  /\ engine.at = "send"
  /\ Room(rpc, Workers, Capacity)
  /\ rpc' = Sent(rpc, engine.call)
  /\ engine' = [engine EXCEPT !.at = "gather"]
  /\ UNCHANGED <<response, worker, skips>>

\* An exception leaves collective_rpc before the workers from rank w on are
\* heard: a utility's is reported to the client and the engine goes on;
\* execute_model's ends the busy loop.
Raise(w) ==
  /\ engine' = [engine EXCEPT
       !.at = IF engine.call.kind = "execute_model" THEN "failed" ELSE "idle"]
  /\ skips' = [x \in Workers |-> IF x >= w THEN skips[x] + 1 ELSE skips[x]]

\* Mutated form: the first answer is enough, as execute_model only uses output[0].
FirstIsLast(w) == TRUE

\* Mutated form: one worker too many is waited for.
OnePastLast(w) == w = NumWorkers + 1

\* All workers have answered.
LastAnswer(w) == w = NumWorkers

\* The answer of the next worker is dequeued; a failure is raised at once.
Gather ==
  LET w == engine.next
      a == NextFor(response[w], Engine)
      all == Append(engine.responses, a)
  IN  /\ engine.at = "gather"
      /\ Lag(response[w], Engine) > 0
      /\ response' = [response EXCEPT ![w] = Received(@, Engine)]
      /\ \/ /\ ~a.ok
            /\ Raise(w + 1)
         \/ /\ a.ok /\ LastAnswer(w)
            /\ engine' = [engine EXCEPT !.at = "idle", !.responses = all]
            /\ UNCHANGED skips
         \/ /\ a.ok /\ ~LastAnswer(w)
            /\ engine' = [engine EXCEPT !.next = w + 1, !.responses = all]
            /\ UNCHANGED skips
      /\ UNCHANGED <<rpc, worker>>

\* A call with a timeout gives up on a worker that does not answer in time.
GatherTimeout ==
  /\ engine.at = "gather"
  /\ engine.call.kind = "check_health"
  /\ Lag(response[engine.next], Engine) = 0
  /\ Raise(engine.next)
  /\ UNCHANGED <<rpc, response, worker>>

\* run_engine_core after an exception: shutdown() terminates the workers.
Shutdown ==
  /\ engine.at = "failed"
  /\ engine' = [engine EXCEPT !.at = "down"]
  /\ worker' = [w \in Workers |-> [worker[w] EXCEPT !.at = "down"]]
  /\ UNCHANGED <<rpc, response, skips>>

-----------------------------------------------------------------------------
(* worker_busy_loop                                                         *)

Take(w) ==
  /\ worker[w].at = "wait"
  /\ Lag(rpc, w) > 0
  /\ rpc' = Received(rpc, w)
  /\ worker' = [worker EXCEPT ![w] = [at |-> "run", call |-> NextFor(rpc, w)]]
  /\ UNCHANGED <<response, engine, skips>>

\* Mutated form: a failure is logged and not answered.
AnswerOnlySuccess(w, ok) ==
  /\ worker[w].at = "run"
  /\ ok \/ worker[w].call.kind \in Failing
  /\ Room(response[w], {Engine}, Capacity)
  /\ response' = [response EXCEPT ![w] =
       IF ok THEN Sent(@, [n |-> worker[w].call.n, ok |-> ok]) ELSE @]
  /\ worker' = [worker EXCEPT ![w].at = "wait"]
  /\ UNCHANGED <<rpc, engine, skips>>

\* Mutated form: after the answer to a failure the loop falls through.
AnswerFallsThrough(w, ok) ==
  /\ worker[w].at = "run"
  /\ ok \/ worker[w].call.kind \in Failing
  /\ Room(response[w], {Engine}, Capacity)
  /\ response' = [response EXCEPT ![w] =
       IF ok THEN Sent(@, [n |-> worker[w].call.n, ok |-> ok])
       ELSE Sent(Sent(@, [n |-> worker[w].call.n, ok |-> ok]),
                 [n |-> worker[w].call.n, ok |-> TRUE])]
  /\ worker' = [worker EXCEPT ![w].at = "wait"]
  /\ UNCHANGED <<rpc, engine, skips>>

\* The call returns or raises; either is answered.
Answer(w, ok) ==
  /\ worker[w].at = "run"
  /\ ok \/ worker[w].call.kind \in Failing
  /\ Room(response[w], {Engine}, Capacity)
  /\ response' = [response EXCEPT ![w] = Sent(@, [n |-> worker[w].call.n, ok |-> ok])]
  /\ worker' = [worker EXCEPT ![w].at = "wait"]
  /\ UNCHANGED <<rpc, engine, skips>>

EngineStep == Send \/ Gather \/ GatherTimeout \/ Shutdown
WorkerStep(w) == Take(w) \/ \E ok \in BOOLEAN : Answer(w, ok)

Next ==
  \/ \E kind \in Kinds : Call(kind)
  \/ EngineStep
  \/ \E w \in Workers : WorkerStep(w)

SafeSpec == Init /\ [][Next]_vars

\* Neither the engine nor a worker stops in the middle of a call.
Spec == SafeSpec /\ WF_vars(EngineStep) /\ \A w \in Workers : WF_vars(WorkerStep(w))

-----------------------------------------------------------------------------
(* Properties.                                                              *)

\* Workers execute in lockstep: what a worker runs is the call the engine is
\* waiting for, so it enters no forward pass, and no collective operation of it,
\* before the others have left the last one.  Only a call that raised before this
\* worker was heard can put it behind.
Lockstep ==
  \A w \in Workers :
    worker[w].at = "run" /\ skips[w] = 0 =>
      engine.at = "gather" /\ worker[w].call = engine.call

\* What the engine takes for the answer to a call is the answer to an earlier one
\* by exactly the number of calls that raised before this worker was heard: no
\* answer is lost, duplicated or overtaken.
AnswersInOrder ==
  \A w \in DOMAIN engine.responses :
    engine.responses[w].n + skips[w] = engine.call.n

\* executor_base.py on collective_rpc: "A list containing the results from each
\* worker": the answers to this call, not to another.
AnswersMatch ==
  \A w \in DOMAIN engine.responses : engine.responses[w].n = engine.call.n

\* So many calls have raised before some worker was heard that its answers fill its
\* ring while it waits with one more, and the calls it has not taken fill the other.
Overrun == \E w \in Workers : skips[w] > 2 * Capacity

\* Every call returns or raises: it is sent, except that after an overrun it waits for
\* room for ever, and a call that was sent ends.  After a failure in the model no worker
\* is left running.
CallsEnd ==
  /\ engine.at = "send" ~> engine.at # "send" \/ Overrun
  /\ engine.at = "gather" ~> engine.at # "gather"
  /\ engine.at = "failed" ~> \A w \in Workers : worker[w].at = "down"
=============================================================================
