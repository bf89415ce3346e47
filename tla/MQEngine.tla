------------------------------- MODULE MQEngine -------------------------------
(***************************************************************************)
(* The v0 server is two processes: MQLLMEngineClient in the API server     *)
(* (engine/multiprocessing/client.py) and MQLLMEngine around the LLMEngine *)
(* (engine/multiprocessing/engine.py).  Requests, outputs and heartbeats   *)
(* travel on three sockets.  The engine may reject a request, fail in a    *)
(* step, fail its health check or be killed; the client has to end every   *)
(* stream in each of these cases.                                          *)
(*                                                                         *)
(* A request yields MaxTokens outputs, numbered from 1; the last one is    *)
(* `finished'.  In a stream's queue 0 stands for an exception.  Request    *)
(* ids are not reused.                                                     *)
(***************************************************************************)
EXTENDS Integers, Sequences, SequencesExt, FiniteSets

CONSTANTS
  Requests,    \* request ids
  Workloads,   \* what the requests are: see kind
  MaxTokens,   \* outputs of a request
  None

ASSUME MQEngineAssumption ==
  /\ MaxTokens \in Nat \ {0}
  /\ Workloads \subseteq [Requests -> {"plain", "guided", "adapter"}]
  /\ None \notin Requests

Exception == 0
Absent == -1

VARIABLES
  kind,        \* of each request: generate(), generate() with guided decoding,
               \* or add_lora(); fixed
  stream,      \* client: where each call of generate() or add_lora() stands
  outQueue,    \* client: output_queues
  seen,        \* client: how many outputs each stream has yielded
  errored,     \* client: _errored_with is set
  outputLoop,  \* client: run_output_handler_loop is running
  heartLoop,   \* client: run_heartbeat_loop is running
  input,       \* input_socket
  output,      \* output_socket
  unhealthy,   \* an error is on heartbeat_socket; other heartbeats change nothing
  engine,      \* MQLLMEngine: where it stands, and whether _errored_with is set
  progress     \* LLMEngine: outputs of each unfinished request

client == <<stream, outQueue, seen, errored, outputLoop, heartLoop>>
vars == <<kind, client, input, output, unhealthy, engine, progress>>

Plain == {r \in Requests : kind[r] = "plain"}
Guided == {r \in Requests : kind[r] = "guided"}
Adapters == {r \in Requests : kind[r] = "adapter"}
Generates == Plain \cup Guided

Registered == {r \in Requests : stream[r] \in {"send", "open"}}
Ended == {"finished", "raised", "cancelled"}

InputMessages == [type : {"add", "abort", "adapter"}, id : Requests]
Outputs(outs) == [outs |-> outs, error |-> FALSE, id |-> None, dead |-> FALSE]
RPCError(id, dead) == [outs |-> {}, error |-> TRUE, id |-> id, dead |-> dead]

TypeOK ==
  /\ kind \in Workloads
  /\ stream \in [Requests -> {"new", "guided", "send", "open"} \cup Ended]
  /\ outQueue \in [Requests -> Seq(0 .. MaxTokens)]
  /\ seen \in [Requests -> 0 .. MaxTokens]
  /\ {errored, outputLoop, heartLoop, unhealthy} \subseteq BOOLEAN
  /\ input \in Seq(InputMessages)
  /\ output \in Seq([outs : SUBSET (Requests \X (1 .. MaxTokens)), error : BOOLEAN,
                     id : Requests \cup {None}, dead : BOOLEAN])
  /\ engine \in [at : {"input", "step", "exit", "dead"}, errored : BOOLEAN]
  /\ progress \in [Requests -> Absent .. MaxTokens - 1]

Init ==
  /\ kind \in Workloads
  /\ stream = [r \in Requests |-> "new"]
  /\ outQueue = [r \in Requests |-> <<>>]
  /\ seen = [r \in Requests |-> 0]
  /\ errored = FALSE /\ outputLoop = TRUE /\ heartLoop = TRUE
  /\ input = <<>> /\ output = <<>> /\ unhealthy = FALSE
  /\ engine = [at |-> "input", errored |-> FALSE]
  /\ progress = [r \in Requests |-> Absent]

-----------------------------------------------------------------------------
(* The client: generate(), add_lora(), and the consumer of a stream.        *)

engineSide == <<unhealthy, engine, progress>>

\* _process_request up to its first await, or to the registration of the output
\* queue.  add_lora registers without a check.
Start(r) ==
  /\ stream[r] = "new"
  /\ stream' = [stream EXCEPT ![r] =
       CASE r \in Adapters -> "send"
         [] r \in Generates /\ errored -> "raised"
         [] r \in Plain /\ ~errored -> "send"
         [] r \in Guided /\ ~errored -> "guided"]
  /\ UNCHANGED <<outQueue, seen, errored, outputLoop, heartLoop, input, output, engineSide>>

\* The logits processor has been built; the error state is not looked at again.
GuidedReady(r) ==
  /\ stream[r] = "guided"
  /\ stream' = [stream EXCEPT ![r] = "send"]
  /\ UNCHANGED <<outQueue, seen, errored, outputLoop, heartLoop, input, output, engineSide>>

\* input_socket.send_multipart; what is sent to a dead process is lost.
SentInput(type, r) ==
  IF engine.at = "dead" THEN input ELSE Append(input, [type |-> type, id |-> r])

Send(r) ==
  /\ stream[r] = "send"
  /\ stream' = [stream EXCEPT ![r] = "open"]
  /\ input' = SentInput(IF r \in Adapters THEN "adapter" ELSE "add", r)
  /\ UNCHANGED <<outQueue, seen, errored, outputLoop, heartLoop, output, engineSide>>

\* Mutated form: nobody tells the engine.
LeaveWithoutAbort(r, how) ==
  /\ stream' = [stream EXCEPT ![r] = how]
  /\ outQueue' = [outQueue EXCEPT ![r] = <<>>]
  /\ UNCHANGED input

\* The two finally clauses: an unfinished request is aborted unless the client
\* is errored, and its queue is dropped.
Leave(r, how) ==
  /\ stream' = [stream EXCEPT ![r] = how]
  /\ outQueue' = [outQueue EXCEPT ![r] = <<>>]
  /\ input' = IF r \in Generates /\ how # "finished" /\ ~errored
              THEN SentInput("abort", r) ELSE input

\* The consumer awaits and yields the next output of the stream.
Yield(r) ==
  LET k == Head(outQueue[r])
  IN  /\ stream[r] = "open"
      /\ outQueue[r] # <<>>
      /\ IF k = Exception
         THEN Leave(r, "raised") /\ UNCHANGED seen
         ELSE /\ seen' = [seen EXCEPT ![r] = k]
              /\ IF k = MaxTokens \/ r \in Adapters
                 THEN Leave(r, "finished")
                 ELSE /\ outQueue' = [outQueue EXCEPT ![r] = Tail(@)]
                      /\ UNCHANGED <<stream, input>>
      /\ UNCHANGED <<errored, outputLoop, heartLoop, output, engineSide>>

\* The consumer goes away while it waits for an output.
Cancel(r) ==
  /\ r \in Generates
  /\ stream[r] = "open"
  /\ Leave(r, "cancelled")
  /\ UNCHANGED <<seen, errored, outputLoop, heartLoop, output, engineSide>>

-----------------------------------------------------------------------------
(* The client's two loops.                                                  *)

\* Item k[r] is put into the queue of each stream r that is registered.
PutAll(k) ==
  outQueue' = [r \in Requests |-> IF r \in Registered \cap DOMAIN k
                                  THEN Append(outQueue[r], k[r]) ELSE outQueue[r]]

\* Whom an error is for: one request, or all.
Targets(m) == IF m.id = None THEN Requests ELSE {m.id}

\* run_output_handler_loop with the i-th message of the socket.
HandleOutputAt(i) ==
  LET m == output[i]
  IN  /\ outputLoop
      /\ i \in DOMAIN output
      /\ output' = RemoveAt(output, i)
      /\ IF m.error
         THEN PutAll([r \in Targets(m) |-> Exception])
         ELSE PutAll([r \in {o[1] : o \in m.outs} |-> (CHOOSE o \in m.outs : o[1] = r)[2]])
      /\ errored' = (errored \/ (m.error /\ m.dead))
      /\ UNCHANGED <<stream, seen, outputLoop, heartLoop, input, engineSide>>

\* Mutated form: setup() starts a second loop, and the two overtake each other.
HandleOutputByTwo == HandleOutputAt(1) \/ HandleOutputAt(2)

HandleOutput == HandleOutputAt(1)

\* Mutated form: the loop goes away without a word.
OutputTimeoutSilent ==
  /\ outputLoop
  /\ output = <<>>
  /\ errored
  /\ outputLoop' = FALSE
  /\ UNCHANGED <<stream, outQueue, seen, errored, heartLoop, input, output, engineSide>>

\* Its poll times out in the error state: all running requests are alerted, and
\* the loop ends.
OutputTimeout ==
  /\ outputLoop
  /\ output = <<>>
  /\ errored
  /\ PutAll([r \in Requests |-> Exception])
  /\ outputLoop' = FALSE
  /\ UNCHANGED <<stream, seen, errored, heartLoop, input, output, engineSide>>

\* run_heartbeat_loop: the process is gone, or a heartbeat is an error;
\* either ends the loop.
Heartbeat ==
  /\ heartLoop
  /\ engine.at = "dead" \/ unhealthy
  /\ errored' = TRUE
  /\ heartLoop' = FALSE
  /\ UNCHANGED <<stream, outQueue, seen, outputLoop, input, output, engineSide>>

-----------------------------------------------------------------------------
(* The engine: run_engine_loop.                                             *)

Unfinished == {r \in Requests : progress[r] # Absent}

\* An exception leaves the loop.
Fail == engine' = [at |-> "exit", errored |-> TRUE]

\* handle_new_input with a message; add_request or add_lora may refuse it.  An
\* engine that is errored says so and still adds the request.
HandleInput(accept) ==
  LET m    == Head(input)
      dead == IF engine.errored /\ m.type = "add" THEN <<RPCError(m.id, TRUE)>> ELSE <<>>
  IN  /\ engine.at = "input"
      /\ input # <<>>
      /\ input' = Tail(input)
      /\ CASE m.type = "add" /\ accept ->
                /\ progress' = [progress EXCEPT ![m.id] = 0]
                /\ output' = output \o dead
           [] m.type = "add" /\ ~accept ->
                /\ output' = output \o dead \o <<RPCError(m.id, engine.errored)>>
                /\ UNCHANGED progress
           [] m.type = "adapter" ->
                /\ output' = Append(output, IF accept THEN Outputs({<<m.id, 1>>})
                                            ELSE RPCError(m.id, FALSE))
                /\ UNCHANGED progress
           [] m.type = "abort" ->
                /\ accept
                /\ progress' = [progress EXCEPT ![m.id] = Absent]
                /\ UNCHANGED output
      /\ UNCHANGED <<client, unhealthy, engine>>

\* handle_new_input fails: in a callback during a step the error is also sent as
\* an output.
HandleInputFails(inCallback) ==
  /\ engine.at = "input"
  /\ input # <<>>
  /\ input' = Tail(input)
  /\ unhealthy' = TRUE
  /\ output' = IF inCallback THEN Append(output, RPCError(None, TRUE)) ELSE output
  /\ Fail
  /\ UNCHANGED <<client, progress>>

\* No input is left.
InputDone ==
  /\ engine.at = "input"
  /\ input = <<>>
  /\ Unfinished # {}
  /\ engine' = [engine EXCEPT !.at = "step"]
  /\ UNCHANGED <<client, input, output, unhealthy, progress>>

\* _health_check, while there is nothing to do.  An errored engine first says so;
\* what it says next is about the new check.
HealthCheck(ok) ==
  /\ engine.at = "input"
  /\ input = <<>>
  /\ Unfinished = {}
  /\ unhealthy' = (unhealthy \/ engine.errored \/ ~ok)
  /\ engine' = [engine EXCEPT !.errored = @ \/ ~ok]
  /\ UNCHANGED <<client, input, output, progress>>

\* Mutated form: a finished request is not removed.
StepKeepsFinished(S) ==
  /\ engine.at = "step"
  /\ S # {}
  /\ S \subseteq Unfinished
  /\ output' = Append(output, Outputs({<<r, progress[r] + 1>> : r \in S}))
  /\ progress' = [r \in Requests |-> IF r \in S THEN progress[r] + 1 ELSE progress[r]]
  /\ engine' = [engine EXCEPT !.at = "input"]
  /\ UNCHANGED <<client, input, unhealthy>>

\* engine_step: some requests get their next output; finished ones leave.
Step(S) ==
  /\ engine.at = "step"
  /\ S # {}
  /\ S \subseteq Unfinished
  /\ output' = Append(output, Outputs({<<r, progress[r] + 1>> : r \in S}))
  /\ progress' = [r \in Requests |-> IF r \notin S THEN progress[r]
                                     ELSE IF progress[r] + 1 = MaxTokens THEN Absent
                                     ELSE progress[r] + 1]
  /\ engine' = [engine EXCEPT !.at = "input"]
  /\ UNCHANGED <<client, input, unhealthy>>

\* InputProcessingError: one request is aborted and told.
InputError(r) ==
  /\ engine.at = "step"
  /\ r \in Unfinished
  /\ progress' = [progress EXCEPT ![r] = Absent]
  /\ output' = Append(output, RPCError(r, FALSE))
  /\ engine' = [engine EXCEPT !.at = "input"]
  /\ UNCHANGED <<client, input, unhealthy>>

\* Any other exception is sent for all requests, and ends the loop.
StepFails ==
  /\ engine.at = "step"
  /\ output' = Append(output, RPCError(None, TRUE))
  /\ Fail
  /\ UNCHANGED <<client, input, unhealthy, progress>>

\* The process ends: cleanup() with linger=0, or it is killed.  Outputs that are
\* not on their way yet are dropped.
Exit(kept) ==
  /\ engine.at # "dead"
  /\ kept \in 0 .. Len(output)
  /\ output' = SubSeq(output, 1, kept)
  /\ engine' = [engine EXCEPT !.at = "dead"]
  /\ input' = <<>>
  /\ progress' = [r \in Requests |-> Absent]
  /\ UNCHANGED <<client, unhealthy>>

-----------------------------------------------------------------------------
EngineStep ==
  \/ \E accept \in BOOLEAN : HandleInput(accept)
  \/ InputDone
  \/ engine.at = "exit" /\ Exit(Len(output))

SystemNext ==
  \/ \E r \in Requests : Start(r) \/ GuidedReady(r) \/ Send(r) \/ Yield(r) \/ Cancel(r)
  \/ HandleOutput \/ OutputTimeout \/ Heartbeat
  \/ \E accept \in BOOLEAN : HandleInput(accept)
  \/ \E inCallback \in BOOLEAN : HandleInputFails(inCallback)
  \/ InputDone
  \/ \E ok \in BOOLEAN : HealthCheck(ok)
  \/ \E S \in SUBSET Requests : Step(S)
  \/ \E r \in Requests : InputError(r)
  \/ StepFails
  \/ \E kept \in 0 .. Len(output) : Exit(kept)

Next == SystemNext /\ UNCHANGED kind

SafeSpec == Init /\ [][Next]_vars

\* The event loop of the client runs every task that can go on; a stream is
\* consumed.  The engine's loop goes on until the process ends, and its scheduler
\* serves every unfinished request again and again (see PrefixScheduling).
Spec ==
  /\ SafeSpec
  /\ \A r \in Requests : WF_vars(Send(r) /\ UNCHANGED kind) /\ WF_vars(Yield(r) /\ UNCHANGED kind)
  /\ WF_vars(HandleOutput /\ UNCHANGED kind)
  /\ WF_vars(OutputTimeout /\ UNCHANGED kind)
  /\ WF_vars(Heartbeat /\ UNCHANGED kind)
  /\ WF_vars(EngineStep /\ UNCHANGED kind)
  /\ \A r \in Requests :
       SF_vars((\E S \in SUBSET Requests : r \in S /\ Step(S)) /\ UNCHANGED kind)

-----------------------------------------------------------------------------
(* Properties.                                                              *)

\* The i-th message of the socket carries output k of request r.
Carries(i, r, k) == <<r, k>> \in output[i].outs

\* What is on the way to a stream, in its queue and behind that on the socket, are
\* the outputs after the last one it has seen, up to `last', each once and in order.
OnTheWay(r, last) ==
  LET q == outQueue[r]
  IN  /\ \A k \in 1 .. MaxTokens :
           (seen[r] < k /\ k <= last) <=>
             \/ \E i \in DOMAIN q : q[i] = k
             \/ \E i \in DOMAIN output : Carries(i, r, k)
      /\ \A i, j \in DOMAIN q : i < j /\ q[j] # Exception => q[i] < q[j]
      /\ \A i \in DOMAIN q, j \in DOMAIN output, k \in 1 .. MaxTokens :
           Carries(j, r, k) => q[i] < k
      /\ \A i, j \in DOMAIN output, k, m \in 1 .. MaxTokens :
           Carries(i, r, k) /\ Carries(j, r, m) /\ i <= j => k <= m /\ (k = m => i = j)
      /\ progress[r] # Absent => last = progress[r]

\* A stream yields every output once and in order: the next one it is waiting for
\* follows the last one it has seen, also beside errors, aborts and exits; what the
\* engine has produced is on the way; and it is finished only when it has seen the
\* last.
InOrder ==
  \A r \in Generates :
    /\ stream[r] \in {"send", "open"} => \E last \in seen[r] .. MaxTokens : OnTheWay(r, last)
    /\ stream[r] = "finished" => seen[r] = MaxTokens

\* Every call of generate() without guided decoding ends, whatever happens to the
\* engine.  (A guided request looks at the error state before it awaits its logits
\* processor, and add_lora never does: when they register after the output loop
\* has returned, nobody alerts them.)
StreamsEnd ==
  \A r \in Requests : kind[r] = "plain" /\ stream[r] = "open" ~> stream[r] \in Ended

\* Nothing works for a stream that is gone: while the client is not errored and
\* the engine runs, a request that was cancelled or failed is in the engine, or on
\* its way there, only if its abort is on the way behind it.
AbandonedLeaves ==
  \A r \in Generates :
    stream[r] \in {"cancelled", "raised"} /\ ~errored /\ engine.at # "exit" =>
      LET aborts == {i \in DOMAIN input : input[i] = [type |-> "abort", id |-> r]}
      IN  /\ progress[r] # Absent => aborts # {}
          /\ \A i \in DOMAIN input :
               input[i] = [type |-> "add", id |-> r] => \E j \in aborts : i < j
=============================================================================
