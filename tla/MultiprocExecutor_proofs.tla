----------------------- MODULE MultiprocExecutor_proofs -----------------------
(***************************************************************************)
(* The answers that collective_rpc gathers are those it takes them for, up *)
(* to the calls that raised, for any number of workers and calls.          *)
(*                                                                         *)
(* An answer carries no reference to its call, so the argument counts:     *)
(* what each worker has taken and answered, what the engine has heard of   *)
(* it, and what the engine still has to hear for the call in hand.         *)
(***************************************************************************)
EXTENDS MultiprocExecutor, SequenceTheorems, TLAPS

-----------------------------------------------------------------------------
(* The inductive invariant.                                                 *)

\* How many calls were made; how many each worker has taken and has answered; how
\* many of its answers the engine has heard; whether one is still to be heard for
\* the call in hand.
Made == Len(rpc.sent)
Taken == [w \in Workers |-> Len(rpc.got[w])]
Answered == [w \in Workers |-> Len(response[w].sent)]
Heard == [w \in Workers |-> Len(response[w].got[Engine])]
Owed == [w \in Workers |-> IF engine.at = "gather" /\ engine.next <= w THEN 1 ELSE 0]

\* Calls, and the answers of each worker, are numbered in the order in which they
\* are sent.
Numbered ==
  /\ \A i \in 1 .. Made : rpc.sent[i].n = i
  /\ \A w \in Workers : \A i \in 1 .. Answered[w] : response[w].sent[i].n = i

\* A worker takes calls that were made and answers each before it takes the next.
WorkersCount ==
  \A w \in Workers :
    /\ Taken[w] <= Made
    /\ Answered[w] <= Taken[w] /\ Taken[w] <= Answered[w] + 1
    /\ worker[w].at = "wait" => Answered[w] = Taken[w]
    /\ worker[w].at = "run" =>
         /\ Answered[w] + 1 = Taken[w]
         /\ worker[w].call = rpc.sent[Taken[w]]

\* The engine hears one answer for each call, unless the call raised before.
EngineCounts ==
  \A w \in Workers :
    /\ Heard[w] <= Answered[w]
    /\ Heard[w] + skips[w] + Owed[w] = Made

\* The call in hand is the last one made, or the next while there is no room for
\* it, and the answers to it are gathered in the order of ranks.
InHand ==
  /\ Len(engine.responses) <= NumWorkers
  /\ engine.at = "send" =>
       /\ engine.call \in Calls
       /\ engine.call.n = Made + 1
       /\ engine.next = 1
       /\ engine.responses = <<>>
  /\ engine.at = "gather" =>
       /\ Made > 0
       /\ engine.call = rpc.sent[Made]
       /\ Len(engine.responses) + 1 = engine.next

IndInv ==
  /\ TypeOK
  /\ Numbered
  /\ WorkersCount
  /\ EngineCounts
  /\ InHand
  /\ AnswersInOrder

-----------------------------------------------------------------------------
(* Queues.                                                                  *)

\* Sending appends one message and leaves the readers alone.
LEMMA SentValue ==
  ASSUME NEW S, NEW R, NEW q \in [sent : Seq(S), got : [R -> Seq(S)]], NEW m \in S
  PROVE  /\ Sent(q, m) \in [sent : Seq(S), got : [R -> Seq(S)]]
         /\ Sent(q, m).got = q.got
         /\ Len(Sent(q, m).sent) = Len(q.sent) + 1
         /\ \A i \in 1 .. Len(q.sent) : Sent(q, m).sent[i] = q.sent[i]
         /\ Sent(q, m).sent[Len(q.sent) + 1] = m
<1>1. q.sent \in Seq(S) /\ Append(q.sent, m) \in Seq(S)
  BY AppendProperties
<1>2. /\ Sent(q, m) \in [sent : Seq(S), got : [R -> Seq(S)]]
      /\ Sent(q, m).sent = Append(q.sent, m) /\ Sent(q, m).got = q.got
  BY <1>1 DEF Sent
<1> QED BY <1>1, <1>2, AppendProperties

\* Receiving appends the next message to what one reader has received.
LEMMA ReceivedValue ==
  ASSUME NEW S, NEW R, NEW q \in [sent : Seq(S), got : [R -> Seq(S)]],
         NEW r \in R, Lag(q, r) > 0
  PROVE  /\ Received(q, r) \in [sent : Seq(S), got : [R -> Seq(S)]]
         /\ Received(q, r).sent = q.sent
         /\ Len(Received(q, r).got[r]) = Len(q.got[r]) + 1
         /\ \A x \in R : x # r => Received(q, r).got[x] = q.got[x]
         /\ Len(q.got[r]) < Len(q.sent)
         /\ NextFor(q, r) \in S
<1>1. Len(q.sent) \in Nat /\ Len(q.got[r]) \in Nat /\ q.got[r] \in Seq(S) /\ q.sent \in Seq(S)
  OBVIOUS
<1>2. Len(q.got[r]) < Len(q.sent)
  BY <1>1 DEF Lag
<1>3. NextFor(q, r) \in S
  BY <1>1, <1>2 DEF NextFor
<1>4. /\ Append(q.got[r], NextFor(q, r)) \in Seq(S)
      /\ Len(Append(q.got[r], NextFor(q, r))) = Len(q.got[r]) + 1
  BY <1>1, <1>3, AppendProperties
<1>5. /\ Received(q, r) \in [sent : Seq(S), got : [R -> Seq(S)]]
      /\ Received(q, r).sent = q.sent
      /\ Received(q, r).got = [q.got EXCEPT ![r] = Append(q.got[r], NextFor(q, r))]
  BY <1>4 DEF Received
<1> QED BY <1>2, <1>3, <1>4, <1>5

\* The types of what the invariant counts.
LEMMA Values ==
  ASSUME TypeOK
  PROVE  /\ Made \in Nat
         /\ Taken \in [Workers -> Nat] /\ Answered \in [Workers -> Nat]
         /\ Heard \in [Workers -> Nat] /\ Owed \in [Workers -> {0, 1}]
         /\ skips \in [Workers -> Nat] /\ Len(engine.responses) \in Nat
         /\ engine.next \in Workers
<1>1. \A w \in Workers : /\ Len(rpc.got[w]) \in Nat /\ Len(response[w].sent) \in Nat
                         /\ Len(response[w].got[Engine]) \in Nat
  BY DEF TypeOK
<1>2. Made \in Nat /\ Len(engine.responses) \in Nat
  BY DEF TypeOK, Made
<1>3. engine.next \in Workers
  BY DEF TypeOK, Workers
<1>4. skips \in [Workers -> Nat]
  <2>1. skips \in [Workers -> 0 .. MaxCalls] /\ 0 .. MaxCalls \subseteq Nat
    BY ExecutorAssumption DEF TypeOK
  <2> QED BY <2>1
<1> QED BY <1>1, <1>2, <1>3, <1>4 DEF Taken, Answered, Heard, Owed

-----------------------------------------------------------------------------
(* Initially.                                                               *)

\* Nothing is called, answered or heard.
LEMMA InitInd == Init => IndInv
<1> SUFFICES ASSUME Init PROVE IndInv
  OBVIOUS
<1>1. TypeOK
  <2>1. EmptyQueue(Workers) \in [sent : Seq(Calls), got : [Workers -> Seq(Calls)]]
    BY DEF EmptyQueue
  <2>2. EmptyQueue({Engine}) \in [sent : Seq(Answers), got : [{Engine} -> Seq(Answers)]]
    BY DEF EmptyQueue
  <2> QED BY <2>1, <2>2, ExecutorAssumption DEF Init, TypeOK
<1>2. /\ Made = 0 /\ engine.at = "idle" /\ Len(engine.responses) = 0 /\ engine.responses = <<>>
      /\ \A w \in Workers : /\ Taken[w] = 0 /\ Answered[w] = 0 /\ Heard[w] = 0 /\ Owed[w] = 0
                            /\ skips[w] = 0 /\ worker[w].at = "wait"
  BY DEF Init, EmptyQueue, Made, Taken, Answered, Heard, Owed
<1>3. Numbered /\ WorkersCount /\ EngineCounts /\ InHand
  BY <1>2, ExecutorAssumption DEF Numbered, WorkersCount, EngineCounts, InHand
<1>4. AnswersInOrder
  BY <1>2 DEF AnswersInOrder
<1> QED BY <1>1, <1>3, <1>4 DEF IndInv

-----------------------------------------------------------------------------
(* The engine.                                                              *)

\* A call takes the next number; nothing is sent yet.
LEMMA CallStep ==
  ASSUME IndInv, NEW kind \in Kinds, Call(kind)
  PROVE  IndInv'
<1> USE DEF IndInv
<1> DEFINE call == [n |-> Len(rpc.sent) + 1, kind |-> kind]
<1>1. /\ engine.at = "idle" /\ Made < MaxCalls
      /\ engine' = [at |-> "send", call |-> call, next |-> 1, responses |-> <<>>]
      /\ UNCHANGED <<rpc, response, worker, skips>>
  BY DEF Call, Made
<1>2. /\ Made \in Nat /\ Heard \in [Workers -> Nat] /\ Owed \in [Workers -> {0, 1}]
  BY Values
<1>3. call \in Calls /\ call.n = Made + 1
  BY <1>1, <1>2, ExecutorAssumption DEF Calls, Made
<1> HIDE DEF call
<1>4. /\ Made' = Made /\ Taken' = Taken /\ Answered' = Answered /\ Heard' = Heard
      /\ Owed' = Owed
  BY <1>1 DEF Made, Taken, Answered, Heard, Owed
<1>5. TypeOK'
  <2>1. engine' \in [at : {"idle", "send", "gather", "failed", "down"},
                     call : Calls \cup {NoCall}, next : 1 .. NumWorkers,
                     responses : Seq(Answers)]
    BY <1>1, <1>3, ExecutorAssumption
  <2> QED BY <1>1, <2>1 DEF TypeOK
<1>6. Numbered' /\ WorkersCount' /\ EngineCounts'
  BY <1>1, <1>4 DEF Numbered, WorkersCount, EngineCounts
<1>7. InHand' /\ AnswersInOrder'
  BY <1>1, <1>3, <1>4, ExecutorAssumption DEF InHand, AnswersInOrder
<1> QED BY <1>5, <1>6, <1>7

\* The call becomes the last one made, and one more answer is to be heard of each
\* worker.
LEMMA SendStep ==
  ASSUME IndInv, Send
  PROVE  IndInv'
<1> USE DEF IndInv
<1> DEFINE call == engine.call
<1>1. /\ engine.at = "send"
      /\ rpc' = Sent(rpc, call)
      /\ engine' = [engine EXCEPT !.at = "gather"]
      /\ UNCHANGED <<response, worker, skips>>
  BY DEF Send
<1>2. /\ Made \in Nat /\ Taken \in [Workers -> Nat] /\ Answered \in [Workers -> Nat]
      /\ Heard \in [Workers -> Nat] /\ Owed \in [Workers -> {0, 1}] /\ skips \in [Workers -> Nat]
  BY Values
<1>3. call \in Calls /\ call.n = Made + 1 /\ engine.next = 1 /\ engine.responses = <<>>
  BY <1>1 DEF InHand
<1>4. /\ engine'.at = "gather" /\ engine'.call = call /\ engine'.next = 1
      /\ engine'.responses = <<>>
  BY <1>1, <1>3 DEF TypeOK
<1> HIDE DEF call
<1>5. /\ rpc' \in [sent : Seq(Calls), got : [Workers -> Seq(Calls)]]
      /\ rpc'.got = rpc.got
      /\ Len(rpc'.sent) = Made + 1
      /\ \A i \in 1 .. Made : rpc'.sent[i] = rpc.sent[i]
      /\ rpc'.sent[Made + 1] = call
  <2>1. rpc \in [sent : Seq(Calls), got : [Workers -> Seq(Calls)]]
    BY DEF TypeOK
  <2> QED BY <1>1, <1>3, <2>1, SentValue DEF Made
<1>6. /\ Made' = Made + 1 /\ Taken' = Taken /\ Answered' = Answered /\ Heard' = Heard
      /\ \A w \in Workers : Owed[w] = 0 /\ Owed'[w] = 1
  <2>1. \A w \in Workers : 1 <= w
    BY DEF Workers
  <2> QED BY <1>1, <1>4, <1>5, <2>1 DEF Made, Taken, Answered, Heard, Owed
<1>7. TypeOK'
  <2>1. engine' \in [at : {"idle", "send", "gather", "failed", "down"},
                     call : Calls \cup {NoCall}, next : 1 .. NumWorkers,
                     responses : Seq(Answers)]
    BY <1>1 DEF TypeOK
  <2> QED BY <1>1, <1>5, <2>1 DEF TypeOK
<1>8. Numbered'
  <2>1. \A i \in 1 .. Made + 1 : rpc'.sent[i].n = i
    <3>1. \A i \in 1 .. Made + 1 : i \in 1 .. Made \/ i = Made + 1
      BY <1>2
    <3> QED BY <1>3, <1>5, <3>1 DEF Numbered
  <2> QED BY <1>1, <1>6, <2>1 DEF Numbered
<1>9. WorkersCount'
  <2> SUFFICES ASSUME NEW w \in Workers
               PROVE  /\ Taken[w] <= Made + 1
                      /\ worker[w].at = "run" => worker[w].call = rpc'.sent[Taken[w]]
    BY <1>1, <1>6 DEF WorkersCount
  <2>1. /\ Taken[w] \in Nat /\ Answered[w] \in Nat /\ Taken[w] <= Made
        /\ worker[w].at = "run" => /\ Answered[w] + 1 = Taken[w]
                                   /\ worker[w].call = rpc.sent[Taken[w]]
    BY <1>2 DEF WorkersCount
  <2>2. worker[w].at = "run" => Taken[w] \in 1 .. Made
    BY <1>2, <2>1
  <2> QED BY <1>2, <1>5, <2>1, <2>2
<1>10. EngineCounts'
  <2> SUFFICES ASSUME NEW w \in Workers
               PROVE  Heard[w] <= Answered[w] /\ Heard[w] + skips[w] + 1 = Made + 1
    BY <1>1, <1>6 DEF EngineCounts
  <2>1. Heard[w] \in Nat /\ skips[w] \in Nat
    BY <1>2
  <2> QED BY <1>2, <1>6, <2>1 DEF EngineCounts
<1>11. InHand'
  BY <1>2, <1>4, <1>5, <1>6, ExecutorAssumption DEF InHand
<1>12. AnswersInOrder'
  BY <1>4 DEF AnswersInOrder
<1> QED BY <1>7, <1>8, <1>9, <1>10, <1>11, <1>12

\* What Gather and GatherTimeout leave alone.
LEMMA EngineLeaves ==
  ASSUME IndInv, UNCHANGED <<rpc, worker>>,
         \A w \in Workers : response'[w].sent = response[w].sent
  PROVE  /\ Made' = Made /\ Taken' = Taken /\ Answered' = Answered
         /\ Numbered' /\ WorkersCount'
<1>1. Made' = Made /\ Taken' = Taken /\ Answered' = Answered
  BY DEF Made, Taken, Answered
<1> QED BY <1>1 DEF IndInv, Numbered, WorkersCount

\* The worker that the engine waits for is heard, or the call is counted for it.
LEMMA RaiseCounts ==
  ASSUME NEW x \in Int, NEW n \in Int, NEW w \in Int, w = n \/ w = n + 1,
         NEW h \in Nat, NEW s \in Nat, NEW h2, NEW s2, NEW o,
         h2 = IF x < w /\ x = n THEN h + 1 ELSE h,
         s2 = IF x >= w THEN s + 1 ELSE s,
         o = IF n <= x THEN 1 ELSE 0
  PROVE  h2 + s2 = h + s + o /\ s2 \in Nat /\ h2 \in Nat
<1>1. CASE x < n
  BY <1>1
<1>2. CASE x = n
  BY <1>2
<1>3. CASE x > n
  BY <1>3
<1> QED BY <1>1, <1>2, <1>3

\* A call that raises before the workers from rank w on are heard is counted for
\* each of them.  The answers gathered before are those of lower ranks.
LEMMA RaiseStep ==
  ASSUME IndInv, engine.at = "gather", NEW w \in Int, Raise(w),
         w = engine.next \/ w = engine.next + 1,
         UNCHANGED <<rpc, worker>>,
         response' \in [Workers -> [sent : Seq(Answers), got : [{Engine} -> Seq(Answers)]]],
         \A x \in Workers : response'[x].sent = response[x].sent,
         \A x \in Workers : Heard'[x] <= Answered[x],
         \A x \in Workers :
           Heard'[x] = IF x < w /\ x = engine.next THEN Heard[x] + 1 ELSE Heard[x]
  PROVE  IndInv'
<1> USE DEF IndInv
<1>1. /\ Made \in Nat /\ Heard \in [Workers -> Nat] /\ Owed \in [Workers -> {0, 1}]
      /\ skips \in [Workers -> Nat] /\ Len(engine.responses) \in Nat
      /\ engine.next \in Workers /\ engine.next \in Int
      /\ \A x \in Workers : x \in Int
  BY Values DEF Workers
<1>2. /\ engine'.at \in {"failed", "idle"} /\ engine'.at \notin {"send", "gather"}
      /\ engine' \in [at : {"idle", "send", "gather", "failed", "down"}, call : Calls \cup {NoCall},
                      next : 1 .. NumWorkers, responses : Seq(Answers)]
      /\ engine'.responses = engine.responses /\ engine'.call = engine.call
  BY DEF Raise, TypeOK
<1>3. \A x \in Workers : skips'[x] = IF x >= w THEN skips[x] + 1 ELSE skips[x]
  BY DEF Raise
<1>4. Made' = Made /\ Answered' = Answered /\ Numbered' /\ WorkersCount'
  BY EngineLeaves
<1>5. ASSUME NEW x \in Workers
      PROVE  /\ Owed'[x] = 0
             /\ Heard'[x] + skips'[x] + Owed'[x] = Made
             /\ skips'[x] \in 0 .. MaxCalls
  <2>1. Owed'[x] = 0
    BY <1>2 DEF Owed
  <2>2. Owed[x] = IF engine.next <= x THEN 1 ELSE 0
    BY DEF Owed
  <2>3. Heard[x] \in Nat /\ skips[x] \in Nat /\ x \in Int
    BY <1>1
  <2>4. Heard[x] + skips[x] + Owed[x] = Made
    BY DEF EngineCounts
  <2>5. /\ Heard'[x] + skips'[x] = Heard[x] + skips[x] + Owed[x]
        /\ skips'[x] \in Nat /\ Heard'[x] \in Nat
    <3>1. Heard'[x] = IF x < w /\ x = engine.next THEN Heard[x] + 1 ELSE Heard[x]
      OBVIOUS
    <3>2. skips'[x] = IF x >= w THEN skips[x] + 1 ELSE skips[x]
      BY <1>3
    <3>3. engine.next \in Int /\ (w = engine.next \/ w = engine.next + 1)
      BY <1>1
    <3> QED BY <2>2, <2>3, <3>1, <3>2, <3>3, RaiseCounts, SMTT(60)
  <2>7. Made <= MaxCalls
    <3>1. rpc.sent[Made] \in Calls /\ rpc.sent[Made].n = Made
      <4>1. Made > 0 /\ rpc.sent \in Seq(Calls)
        BY DEF InHand, TypeOK
      <4>2. Made \in 1 .. Len(rpc.sent)
        BY <1>1, <4>1 DEF Made
      <4>3. \A i \in 1 .. Len(rpc.sent) : rpc.sent[i].n = i
        BY DEF Numbered, Made
      <4> HIDE DEF IndInv
      <4>4. rpc.sent[Made] \in Calls
        BY <4>1, <4>2
      <4>5. rpc.sent[Made].n = Made
        BY <4>2, <4>3
      <4> QED BY <4>4, <4>5
    <3> QED BY <1>1, <3>1, ExecutorAssumption DEF Calls
  <2> HIDE DEF IndInv
  <2>8. Made \in Nat /\ MaxCalls \in Nat
    BY <1>1, ExecutorAssumption
  <2> QED BY <2>1, <2>4, <2>5, <2>7, <2>8
<1>6. TypeOK'
  <2>1. skips' \in [Workers -> 0 .. MaxCalls]
    BY <1>5 DEF Raise
  <2> QED BY <1>2, <2>1 DEF TypeOK
<1>7. EngineCounts'
  BY <1>4, <1>5 DEF EngineCounts
<1>8. InHand'
  BY <1>2 DEF InHand
<1>9. AnswersInOrder'
  <2> SUFFICES ASSUME NEW x \in DOMAIN engine.responses
               PROVE  engine.responses[x].n + skips'[x] = engine.call.n
    BY <1>2 DEF AnswersInOrder
  <2>1. x \in 1 .. Len(engine.responses) /\ Len(engine.responses) + 1 = engine.next
    BY DEF TypeOK, InHand
  <2>2. x \in Workers /\ x < w
    <3>1. engine.next <= NumWorkers
      BY <1>1 DEF Workers
    <3>2. x \in Int /\ 1 <= x /\ x < engine.next /\ NumWorkers \in Int
      BY <1>1, <2>1, ExecutorAssumption
    <3>3. x \in Workers
      BY <1>1, <3>1, <3>2 DEF Workers
    <3>4. x < w
      <4>1. engine.next \in Int
        BY <1>1
      <4> QED BY <3>2, <4>1
    <3> QED BY <3>3, <3>4
  <2>3. skips'[x] = skips[x]
    <3>1. x \in Int
      BY <1>1, <2>2
    <3> QED BY <1>3, <2>2, <3>1
  <2> QED BY <2>3 DEF AnswersInOrder
<1> QED BY <1>4, <1>6, <1>7, <1>8, <1>9

\* The answer that is dequeued next of the worker the engine waits for is the
\* answer to the call in hand, or to an earlier one if calls raised.
LEMMA GatherStep ==
  ASSUME IndInv, Gather
  PROVE  IndInv'
<1> USE DEF IndInv
<1> DEFINE w == engine.next
           a == NextFor(response[w], Engine)
           q == Received(response[w], Engine)
           Q == [sent : Seq(Answers), got : [{Engine} -> Seq(Answers)]]
<1>1. /\ engine.at = "gather" /\ UNCHANGED <<rpc, worker>>
      /\ Lag(response[w], Engine) > 0
      /\ response' = [response EXCEPT ![w] = q]
  BY DEF Gather
<1>2. /\ Made \in Nat /\ Heard \in [Workers -> Nat] /\ Owed \in [Workers -> {0, 1}]
      /\ skips \in [Workers -> Nat] /\ Len(engine.responses) \in Nat
      /\ w \in Workers /\ w \in Int /\ Answered \in [Workers -> Nat]
      /\ \A x \in Workers : x \in Int
  BY Values DEF Workers
<1>3. response \in [Workers -> Q]
  BY DEF TypeOK
<1>4. /\ q \in Q /\ q.sent = response[w].sent
      /\ Len(q.got[Engine]) = Heard[w] + 1
      /\ Heard[w] < Answered[w]
      /\ a \in Answers /\ a = response[w].sent[Heard[w] + 1]
  <2>1. response[w] \in Q
    BY <1>2, <1>3
  <2>2. Heard[w] = Len(response[w].got[Engine]) /\ Answered[w] = Len(response[w].sent)
    BY <1>2 DEF Heard, Answered
  <2>3. a = response[w].sent[Heard[w] + 1]
    BY <2>2 DEF NextFor
  <2> QED BY <1>1, <2>1, <2>2, <2>3, ReceivedValue
<1>5. a.n = Heard[w] + 1
  <2>1. Heard[w] + 1 \in 1 .. Answered[w]
    BY <1>2, <1>4
  <2> QED BY <1>2, <1>4, <2>1 DEF Numbered
<1> HIDE DEF a, q
<1>6. /\ response' \in [Workers -> Q]
      /\ \A x \in Workers : response'[x].sent = response[x].sent
      /\ \A x \in Workers : Heard'[x] = IF x = w THEN Heard[x] + 1 ELSE Heard[x]
  BY <1>1, <1>2, <1>3, <1>4 DEF Heard
<1>7. \A x \in Workers : Heard'[x] <= Answered[x]
  <2> SUFFICES ASSUME NEW x \in Workers PROVE Heard'[x] <= Answered[x]
    OBVIOUS
  <2>1. Heard[x] <= Answered[x] /\ Heard[x] \in Nat /\ Answered[x] \in Nat
    BY <1>2 DEF EngineCounts
  <2>2. CASE x = w
    BY <1>4, <1>6, <2>1, <2>2
  <2>3. CASE x # w
    BY <1>6, <2>1, <2>3
  <2> QED BY <2>2, <2>3
<1>8. CASE ~a.ok
  <2>1. Raise(w + 1)
    BY <1>8 DEF Gather, a
  <2>2. \A x \in Workers : Heard'[x] = IF x < w + 1 /\ x = w THEN Heard[x] + 1 ELSE Heard[x]
    BY <1>2, <1>6, SMTT(60)
  <2>3. w + 1 \in Int
    BY <1>2
  <2> QED BY <1>1, <1>6, <1>7, <2>1, <2>2, <2>3, RaiseStep
<1>9. CASE a.ok
  <2> DEFINE all == Append(engine.responses, a)
  <2>1. /\ engine' = IF w = NumWorkers THEN [engine EXCEPT !.at = "idle", !.responses = all]
                     ELSE [engine EXCEPT !.next = w + 1, !.responses = all]
        /\ skips' = skips
    BY <1>9 DEF Gather, LastAnswer, a
  <2>2. engine.responses \in Seq(Answers) /\ Len(engine.responses) + 1 = w
    BY <1>1 DEF TypeOK, InHand
  <2>3. /\ all \in Seq(Answers) /\ Len(all) = w
        /\ \A i \in 1 .. w - 1 : all[i] = engine.responses[i]
        /\ all[w] = a
    BY <1>2, <1>4, <2>2, AppendProperties
  <2> HIDE DEF all
  <2>4. Made' = Made /\ Answered' = Answered /\ Numbered' /\ WorkersCount'
    BY <1>1, <1>6, EngineLeaves
  <2>5. /\ engine'.responses = all /\ engine'.call = engine.call
        /\ engine'.at = IF w = NumWorkers THEN "idle" ELSE "gather"
        /\ w # NumWorkers => engine'.next = w + 1
    BY <1>1, <2>1 DEF TypeOK
  <2>6. TypeOK'
    <3>1. w # NumWorkers => w + 1 \in 1 .. NumWorkers
      BY <1>2, ExecutorAssumption, SMTT(60) DEF Workers
    <3>2. engine' \in [at : {"idle", "send", "gather", "failed", "down"}, call : Calls \cup {NoCall},
                       next : 1 .. NumWorkers, responses : Seq(Answers)]
      BY <2>1, <2>3, <3>1 DEF TypeOK
    <3> QED BY <1>1, <1>6, <2>1, <3>2 DEF TypeOK
  <2>7. ASSUME NEW x \in Workers
        PROVE  Owed[x] = (IF w <= x THEN 1 ELSE 0) /\ Owed'[x] = IF w < x THEN 1 ELSE 0
    <3>1. x \in Int /\ x <= NumWorkers /\ NumWorkers \in Int
      BY ExecutorAssumption DEF Workers
    <3>2. Owed[x] = IF w <= x THEN 1 ELSE 0
      BY <1>1 DEF Owed
    <3>3. Owed'[x] = IF engine'.at = "gather" /\ engine'.next <= x THEN 1 ELSE 0
      BY DEF Owed
    <3> QED BY <1>2, <2>5, <3>1, <3>2, <3>3
  <2>8. EngineCounts'
    <3> SUFFICES ASSUME NEW x \in Workers
                 PROVE  Heard'[x] + skips[x] + Owed'[x] = Made
      BY <1>7, <2>1, <2>4 DEF EngineCounts
    <3>1. /\ Heard[x] \in Nat /\ skips[x] \in Nat /\ x \in Int
          /\ Heard[x] + skips[x] + Owed[x] = Made
      BY <1>2 DEF EngineCounts
    <3>2. CASE x = w
      <4>1. Owed[x] = 1 /\ Owed'[x] = 0 /\ Heard'[x] = Heard[x] + 1
        BY <1>2, <1>6, <2>7, <3>2
      <4> QED BY <3>1, <4>1
    <3>3. CASE x # w
      <4>1. Heard'[x] = Heard[x]
        BY <1>6, <3>3
      <4>2. w <= x <=> w < x
        BY <1>2, <3>1, <3>3
      <4>3. Owed'[x] = Owed[x]
        BY <2>7, <4>2
      <4> QED BY <3>1, <4>1, <4>3
    <3> QED BY <3>2, <3>3
  <2>9. InHand'
    <3>1. w <= NumWorkers
      BY <1>2 DEF Workers
    <3> QED BY <1>1, <2>3, <2>4, <2>5, <3>1 DEF InHand
  <2>10. AnswersInOrder'
    <3> SUFFICES ASSUME NEW x \in DOMAIN all
                 PROVE  all[x].n + skips[x] = engine.call.n
      BY <2>1, <2>5 DEF AnswersInOrder
    <3>1. x \in 1 .. w
      BY <2>3
    <3>2. CASE x = w
      <4>1. engine.call.n = Made
        BY <1>1, <1>2 DEF InHand, Numbered
      <4>2. Heard[w] + skips[w] + 1 = Made /\ Heard[w] \in Nat /\ skips[w] \in Nat
        BY <1>2, <2>7 DEF EngineCounts
      <4>3. all[x] = a
        BY <2>3, <3>2
      <4>4. a.n + skips[w] = Made
        BY <1>5, <4>2
      <4> QED BY <3>2, <4>1, <4>3, <4>4
    <3>3. CASE x # w
      <4>1. x \in 1 .. w - 1 /\ x \in DOMAIN engine.responses
        BY <1>2, <2>2, <3>1, <3>3
      <4> QED BY <2>3, <4>1 DEF AnswersInOrder
    <3> QED BY <3>2, <3>3
  <2> QED BY <2>4, <2>6, <2>8, <2>9, <2>10
<1> QED BY <1>8, <1>9

\* Nothing is heard, and the call is counted for the workers still to be heard.
LEMMA GatherTimeoutStep ==
  ASSUME IndInv, GatherTimeout
  PROVE  IndInv'
<1>1. /\ engine.at = "gather" /\ Raise(engine.next)
      /\ UNCHANGED <<rpc, response, worker>>
  BY DEF GatherTimeout
<1>2. engine.next \in Int /\ \A x \in Workers : x \in Int
  BY Values DEF Workers, IndInv
<1>3. Heard' = Heard /\ \A x \in Workers : Heard[x] <= Answered[x]
  BY <1>1 DEF Heard, IndInv, EngineCounts
<1>4. \A x \in Workers :
        Heard'[x] = IF x < engine.next /\ x = engine.next THEN Heard[x] + 1 ELSE Heard[x]
  BY <1>2, <1>3
<1>5. response' \in [Workers -> [sent : Seq(Answers), got : [{Engine} -> Seq(Answers)]]]
  BY <1>1 DEF IndInv, TypeOK
<1> QED BY <1>1, <1>2, <1>3, <1>4, <1>5, RaiseStep

\* The workers stop; what they have taken, answered and been heard of stays.
LEMMA ShutdownStep ==
  ASSUME IndInv, Shutdown
  PROVE  IndInv'
<1> USE DEF IndInv
<1>1. /\ engine.at = "failed" /\ UNCHANGED <<rpc, response, skips>>
      /\ engine'.at = "down" /\ engine'.responses = engine.responses
      /\ engine'.call = engine.call
      /\ \A w \in Workers : worker'[w].at = "down"
  BY DEF Shutdown, TypeOK
<1>2. TypeOK'
  <2>1. worker' \in [Workers -> [at : {"wait", "run", "down"}, call : Calls \cup {NoCall}]]
    BY DEF Shutdown, TypeOK
  <2>2. engine' \in [at : {"idle", "send", "gather", "failed", "down"}, call : Calls \cup {NoCall},
                     next : 1 .. NumWorkers, responses : Seq(Answers)]
    BY DEF Shutdown, TypeOK
  <2> QED BY <1>1, <2>1, <2>2 DEF TypeOK
<1>3. /\ Made' = Made /\ Taken' = Taken /\ Answered' = Answered /\ Heard' = Heard
      /\ Owed' = Owed
  BY <1>1 DEF Made, Taken, Answered, Heard, Owed
<1>4. Numbered' /\ WorkersCount' /\ EngineCounts'
  BY <1>1, <1>3 DEF Numbered, WorkersCount, EngineCounts
<1>5. InHand' /\ AnswersInOrder'
  BY <1>1, <1>3 DEF InHand, AnswersInOrder
<1> QED BY <1>2, <1>4, <1>5

-----------------------------------------------------------------------------
(* The workers.                                                             *)

\* A worker takes the call after the last one it took, and has answered that.
LEMMA TakeStep ==
  ASSUME IndInv, NEW w \in Workers, Take(w)
  PROVE  IndInv'
<1> USE DEF IndInv
<1> DEFINE call == NextFor(rpc, w)
<1>1. /\ worker[w].at = "wait" /\ Lag(rpc, w) > 0
      /\ rpc' = Received(rpc, w)
      /\ worker' = [worker EXCEPT ![w] = [at |-> "run", call |-> call]]
      /\ UNCHANGED <<response, engine, skips>>
  BY DEF Take
<1>2. Made \in Nat /\ Taken \in [Workers -> Nat] /\ Answered \in [Workers -> Nat]
  BY Values
<1>3. /\ rpc' \in [sent : Seq(Calls), got : [Workers -> Seq(Calls)]]
      /\ rpc'.sent = rpc.sent
      /\ Len(rpc'.got[w]) = Taken[w] + 1
      /\ \A x \in Workers : x # w => rpc'.got[x] = rpc.got[x]
      /\ Taken[w] < Made
      /\ call \in Calls /\ call = rpc.sent[Taken[w] + 1]
  <2>1. rpc \in [sent : Seq(Calls), got : [Workers -> Seq(Calls)]]
    BY DEF TypeOK
  <2>2. call = rpc.sent[Taken[w] + 1]
    BY DEF NextFor, Taken
  <2> QED BY <1>1, <2>1, <2>2, ReceivedValue DEF Made, Taken
<1> HIDE DEF call
<1>4. /\ Made' = Made /\ Answered' = Answered /\ Heard' = Heard /\ Owed' = Owed
      /\ \A x \in Workers : Taken'[x] = IF x = w THEN Taken[w] + 1 ELSE Taken[x]
  BY <1>1, <1>3 DEF Made, Taken, Answered, Heard, Owed
<1>5. TypeOK'
  BY <1>1, <1>3 DEF TypeOK
<1>6. Numbered' /\ EngineCounts'
  BY <1>1, <1>3, <1>4 DEF Numbered, EngineCounts
<1>7. WorkersCount'
  <2> SUFFICES ASSUME NEW x \in Workers
               PROVE  /\ Taken'[x] <= Made
                      /\ Answered[x] <= Taken'[x] /\ Taken'[x] <= Answered[x] + 1
                      /\ worker'[x].at = "wait" => Answered[x] = Taken'[x]
                      /\ worker'[x].at = "run" => /\ Answered[x] + 1 = Taken'[x]
                                                  /\ worker'[x].call = rpc.sent[Taken'[x]]
    BY <1>3, <1>4 DEF WorkersCount
  <2>1. CASE x # w
    BY <1>1, <1>4, <2>1 DEF WorkersCount, TypeOK
  <2>2. CASE x = w
    <3>1. worker'[x] = [at |-> "run", call |-> call]
      BY <1>1, <2>2 DEF TypeOK
    <3>2. Answered[w] = Taken[w] /\ Taken'[x] = Taken[w] + 1
      BY <1>1, <1>4, <2>2 DEF WorkersCount
    <3>3. Taken[w] + 1 <= Made
      BY <1>2, <1>3
    <3> QED BY <1>2, <1>3, <2>2, <3>1, <3>2, <3>3
  <2> QED BY <2>1, <2>2
<1>8. InHand' /\ AnswersInOrder'
  BY <1>1, <1>3, <1>4 DEF InHand, AnswersInOrder
<1> QED BY <1>5, <1>6, <1>7, <1>8

\* The answer takes the number of its call, which is the number of answers so far
\* and one.
LEMMA AnswerStep ==
  ASSUME IndInv, NEW w \in Workers, NEW ok \in BOOLEAN, Answer(w, ok)
  PROVE  IndInv'
<1> USE DEF IndInv
<1> DEFINE a == [n |-> worker[w].call.n, ok |-> ok]
           Q == [sent : Seq(Answers), got : [{Engine} -> Seq(Answers)]]
<1>1. /\ worker[w].at = "run"
      /\ response' = [response EXCEPT ![w] = Sent(response[w], a)]
      /\ worker' = [worker EXCEPT ![w].at = "wait"]
      /\ UNCHANGED <<rpc, engine, skips>>
  BY DEF Answer
<1>2. /\ Made \in Nat /\ Taken \in [Workers -> Nat] /\ Answered \in [Workers -> Nat]
      /\ Heard \in [Workers -> Nat]
  BY Values
<1>3. /\ Answered[w] + 1 = Taken[w] /\ Taken[w] \in 1 .. Made
      /\ worker[w].call = rpc.sent[Taken[w]]
  BY <1>1, <1>2 DEF WorkersCount
<1>4. a \in Answers /\ a.n = Answered[w] + 1
  <2>1. rpc.sent \in Seq(Calls)
    BY DEF TypeOK
  <2>2. rpc.sent[Taken[w]] \in Calls /\ rpc.sent[Taken[w]].n = Taken[w]
    BY <1>3, <2>1 DEF Numbered, Made
  <2> QED BY <1>3, <2>2 DEF Calls, Answers
<1>5. response \in [Workers -> Q]
  BY DEF TypeOK
<1> HIDE DEF a
<1>6. /\ Sent(response[w], a) \in Q
      /\ Sent(response[w], a).got = response[w].got
      /\ Len(Sent(response[w], a).sent) = Answered[w] + 1
      /\ \A i \in 1 .. Answered[w] : Sent(response[w], a).sent[i] = response[w].sent[i]
      /\ Sent(response[w], a).sent[Answered[w] + 1] = a
  <2>1. response[w] \in Q /\ Answered[w] = Len(response[w].sent)
    BY <1>5 DEF Answered
  <2> DEFINE R == {Engine}
             q == response[w]
             t == Sent(q, a)
  <2>2. q \in [sent : Seq(Answers), got : [R -> Seq(Answers)]]
    BY <2>1
  <2> HIDE DEF q, R
  <2>3. /\ t \in [sent : Seq(Answers), got : [R -> Seq(Answers)]]
        /\ t.got = q.got
        /\ Len(t.sent) = Len(q.sent) + 1
        /\ \A i \in 1 .. Len(q.sent) : t.sent[i] = q.sent[i]
        /\ t.sent[Len(q.sent) + 1] = a
    BY <1>4, <2>2, SentValue
  <2> HIDE DEF t
  <2>4. Len(q.sent) = Answered[w]
    BY <2>1 DEF q
  <2>5. t = Sent(response[w], a)
    BY DEF t, q
  <2> QED BY <2>3, <2>4, <2>5 DEF q, R
<1>7. /\ response' \in [Workers -> Q]
      /\ \A x \in Workers : x # w => response'[x] = response[x]
      /\ response'[w] = Sent(response[w], a)
  BY <1>1, <1>5, <1>6
<1>8. /\ Made' = Made /\ Taken' = Taken /\ Heard' = Heard /\ Owed' = Owed
      /\ \A x \in Workers : Answered'[x] = IF x = w THEN Answered[w] + 1 ELSE Answered[x]
  <2>1. \A x \in Workers : response'[x].got = response[x].got
    BY <1>6, <1>7
  <2> QED BY <1>1, <1>6, <1>7, <2>1 DEF Made, Taken, Answered, Heard, Owed
<1>9. TypeOK'
  <2>1. worker' \in [Workers -> [at : {"wait", "run", "down"}, call : Calls \cup {NoCall}]]
    BY <1>1 DEF TypeOK
  <2> QED BY <1>1, <1>7, <2>1 DEF TypeOK
<1>10. Numbered'
  <2> SUFFICES ASSUME NEW x \in Workers, NEW i \in 1 .. Answered'[x]
               PROVE  response'[x].sent[i].n = i
    BY <1>1, <1>8 DEF Numbered
  <2>1. CASE x # w
    BY <1>7, <1>8, <2>1 DEF Numbered
  <2>2. CASE x = w /\ i = Answered[w] + 1
    BY <1>4, <1>6, <1>7, <2>2
  <2>3. CASE x = w /\ i \in 1 .. Answered[w]
    BY <1>6, <1>7, <2>3 DEF Numbered
  <2> QED BY <1>2, <1>8, <2>1, <2>2, <2>3
<1>11. WorkersCount'
  <2> SUFFICES ASSUME NEW x \in Workers
               PROVE  /\ Taken[x] <= Made
                      /\ Answered'[x] <= Taken[x] /\ Taken[x] <= Answered'[x] + 1
                      /\ worker'[x].at = "wait" => Answered'[x] = Taken[x]
                      /\ worker'[x].at = "run" => /\ Answered'[x] + 1 = Taken[x]
                                                  /\ worker'[x].call = rpc.sent[Taken[x]]
    BY <1>1, <1>8 DEF WorkersCount
  <2>1. CASE x # w
    BY <1>1, <1>8, <2>1 DEF WorkersCount, TypeOK
  <2>2. CASE x = w
    <3>1. worker'[x].at = "wait"
      BY <1>1, <2>2 DEF TypeOK
    <3> QED BY <1>2, <1>3, <1>8, <2>2, <3>1 DEF WorkersCount
  <2> QED BY <2>1, <2>2
<1>12. EngineCounts'
  <2> SUFFICES ASSUME NEW x \in Workers
               PROVE  Heard[x] <= Answered'[x]
    BY <1>1, <1>8 DEF EngineCounts
  <2>1. Heard[x] <= Answered[x] /\ Heard[x] \in Nat /\ Answered[x] \in Nat
    BY <1>2 DEF EngineCounts
  <2> QED BY <1>8, <2>1
<1>13. InHand' /\ AnswersInOrder'
  BY <1>1, <1>8 DEF InHand, AnswersInOrder
<1> QED BY <1>9, <1>10, <1>11, <1>12, <1>13

-----------------------------------------------------------------------------
(* Every step, and the theorems.                                            *)

\* Every step keeps the invariant.
LEMMA NextInd ==
  ASSUME IndInv, [Next]_vars
  PROVE  IndInv'
<1>1. CASE UNCHANGED vars
  <2>1. UNCHANGED <<rpc, response, worker, engine, skips>>
    BY <1>1 DEF vars
  <2>2. Made' = Made /\ Taken' = Taken /\ Answered' = Answered /\ Heard' = Heard /\ Owed' = Owed
    BY <2>1 DEF Made, Taken, Answered, Heard, Owed
  <2>3. TypeOK' /\ Numbered' /\ WorkersCount' /\ EngineCounts'
    BY <2>1, <2>2 DEF IndInv, TypeOK, Numbered, WorkersCount, EngineCounts
  <2>4. InHand' /\ AnswersInOrder'
    BY <2>1, <2>2 DEF IndInv, InHand, AnswersInOrder
  <2> QED BY <2>3, <2>4 DEF IndInv
<1>2. ASSUME NEW kind \in Kinds, Call(kind)
      PROVE  IndInv'
  BY <1>2, CallStep
<1>3. CASE EngineStep
  BY <1>3, SendStep, GatherStep, GatherTimeoutStep, ShutdownStep DEF EngineStep
<1>4. ASSUME NEW w \in Workers, WorkerStep(w)
      PROVE  IndInv'
  BY <1>4, TakeStep, AnswerStep DEF WorkerStep
<1> QED BY <1>1, <1>2, <1>3, <1>4 DEF Next

\* The invariant holds throughout; fairness plays no part in it.
THEOREM Invariant == SafeSpec => []IndInv
BY InitInd, NextInd, PTL DEF SafeSpec

\* The queues, the workers and collective_rpc keep their types.
THEOREM TypeCorrect == Spec => []TypeOK
<1>1. IndInv => TypeOK
  BY DEF IndInv
<1> QED BY <1>1, Invariant, PTL DEF Spec

\* An answer that collective_rpc has gathered is the answer to the call in hand, or to
\* one as many calls earlier as calls raised before this worker was heard.
THEOREM GathersInOrder == Spec => []AnswersInOrder
<1>1. IndInv => AnswersInOrder
  BY DEF IndInv
<1> QED BY <1>1, Invariant, PTL DEF Spec

\* A worker that no raised call has put behind runs the call that the engine waits for.
THEOREM RunsInLockstep == Spec => []Lockstep
<1>1. IndInv => Lockstep
  <2> SUFFICES ASSUME IndInv, NEW w \in Workers, worker[w].at = "run", skips[w] = 0
               PROVE  engine.at = "gather" /\ worker[w].call = engine.call
    BY DEF Lockstep
  <2>1. /\ Made \in Nat /\ Taken[w] \in Nat /\ Answered[w] \in Nat /\ Heard[w] \in Nat
        /\ Owed[w] \in {0, 1}
    BY Values DEF IndInv
  <2>2. /\ Taken[w] <= Made /\ Answered[w] + 1 = Taken[w]
        /\ worker[w].call = rpc.sent[Taken[w]]
    BY DEF IndInv, WorkersCount
  <2>3. Heard[w] <= Answered[w] /\ Heard[w] + Owed[w] = Made
    <3>1. Heard[w] <= Answered[w] /\ Heard[w] + 0 + Owed[w] = Made
      BY DEF IndInv, EngineCounts
    <3> QED BY <2>1, <3>1
  <2>4. Owed[w] = 1 /\ Taken[w] = Made
    BY <2>1, <2>2, <2>3
  <2>5. engine.at = "gather"
    BY <2>4 DEF Owed
  <2> QED BY <2>2, <2>4, <2>5 DEF IndInv, InHand
<1> QED BY <1>1, Invariant, PTL DEF Spec
-----------------------------------------------------------------------------
(* The wait for room.                                                       *)

\* No queue holds more than Capacity messages, and no worker stops before the engine.
Bounded ==
  \A w \in Workers :
    /\ Lag(rpc, w) <= Capacity
    /\ Lag(response[w], Engine) <= Capacity
    /\ worker[w].at = "down" => engine.at = "down"

\* After an overrun there is no room for a call.
OverrunLeavesNoRoom == Overrun => ~Room(rpc, Workers, Capacity)

\* A worker that has a call to take, or room for its answer.
CanStep(w) ==
  \/ worker[w].at = "wait" /\ Lag(rpc, w) > 0
  \/ worker[w].at = "run" /\ Room(response[w], {Engine}, Capacity)

\* A call waits for room only while some worker can step, or for ever after an overrun.
WaitsForWorkers ==
  engine.at = "send" /\ ~Room(rpc, Workers, Capacity) =>
    Overrun \/ \E w \in Workers : CanStep(w)

\* The numbers of messages in the queues.
LEMMA Lags ==
  ASSUME TypeOK, NEW w \in Workers
  PROVE  /\ Lag(rpc, w) = Made - Taken[w]
         /\ Lag(response[w], Engine) = Answered[w] - Heard[w]
         /\ Made \in Nat /\ Taken[w] \in Nat /\ Answered[w] \in Nat /\ Heard[w] \in Nat
         /\ skips[w] \in Nat /\ Owed[w] \in {0, 1} /\ Capacity \in Nat \ {0}
BY Values, ExecutorAssumption DEF Lag, Made, Taken, Answered, Heard

\* A message waits for each reader until it receives it.
LEMMA SentLag ==
  ASSUME NEW S, NEW R, NEW q \in [sent : Seq(S), got : [R -> Seq(S)]], NEW m \in S,
         NEW r \in R
  PROVE  Lag(Sent(q, m), r) = Lag(q, r) + 1
<1>1. /\ Sent(q, m).got = q.got
      /\ Len(Sent(q, m).sent) = Len(q.sent) + 1
  BY SentValue
<1>2. Len(q.sent) \in Nat /\ Len(q.got[r]) \in Nat
  OBVIOUS
<1> QED BY <1>1, <1>2 DEF Lag

\* Receiving brings one reader nearer, and leaves the others where they are.
LEMMA ReceivedLag ==
  ASSUME NEW S, NEW R, NEW q \in [sent : Seq(S), got : [R -> Seq(S)]],
         NEW r \in R, Lag(q, r) > 0
  PROVE  /\ Lag(Received(q, r), r) = Lag(q, r) - 1
         /\ \A x \in R : x # r => Lag(Received(q, r), x) = Lag(q, x)
<1> DEFINE t == Received(q, r)
<1>1. /\ t.sent = q.sent
      /\ Len(t.got[r]) = Len(q.got[r]) + 1
      /\ \A x \in R : x # r => t.got[x] = q.got[x]
  BY ReceivedValue
<1>2. Len(q.sent) \in Nat /\ Len(q.got[r]) \in Nat
  OBVIOUS
<1> HIDE DEF t
<1>3. Lag(t, r) = Lag(q, r) - 1
  BY <1>1, <1>2 DEF Lag
<1>4. \A x \in R : x # r => Lag(t, x) = Lag(q, x)
  BY <1>1 DEF Lag
<1> QED BY <1>3, <1>4 DEF t

\* A queue grows only when there is room.
LEMMA BoundedNext ==
  ASSUME IndInv, Bounded, [Next]_vars
  PROVE  Bounded'
<1> DEFINE R == {Engine}
<1>1. /\ rpc \in [sent : Seq(Calls), got : [Workers -> Seq(Calls)]]
      /\ response \in [Workers -> [sent : Seq(Answers), got : [R -> Seq(Answers)]]]
      /\ \A w \in Workers : Lag(rpc, w) \in Int /\ Lag(response[w], Engine) \in Int
      /\ Engine \in R /\ Capacity \in Nat \ {0}
  <2>1. TypeOK
    BY DEF IndInv
  <2>2. \A w \in Workers : Lag(rpc, w) \in Int /\ Lag(response[w], Engine) \in Int
    <3> SUFFICES ASSUME NEW w \in Workers
                 PROVE  Lag(rpc, w) \in Int /\ Lag(response[w], Engine) \in Int
      OBVIOUS
    <3>1. /\ Lag(rpc, w) = Made - Taken[w]
          /\ Lag(response[w], Engine) = Answered[w] - Heard[w]
          /\ Made \in Nat /\ Taken[w] \in Nat /\ Answered[w] \in Nat /\ Heard[w] \in Nat
      BY <2>1, Lags
    <3> QED BY <3>1
  <2> QED BY <2>1, <2>2, ExecutorAssumption DEF TypeOK
<1> HIDE DEF R
<1>2. CASE UNCHANGED <<rpc, response, worker>> /\ engine.at # "down"
  BY <1>2 DEF Bounded
<1>3. CASE Send
  <2> SUFFICES ASSUME NEW w \in Workers
               PROVE  /\ Lag(rpc', w) <= Capacity
                      /\ worker[w].at # "down"
    BY <1>3 DEF Send, Bounded
  <2>1. engine.call \in Calls
    BY <1>3 DEF Send, IndInv, InHand
  <2>2. Lag(rpc', w) = Lag(rpc, w) + 1
    BY <1>1, <1>3, <2>1, SentLag DEF Send
  <2>3. Lag(rpc, w) < Capacity
    BY <1>3 DEF Send, Room
  <2>4. worker[w].at # "down"
    BY <1>3 DEF Send, Bounded
  <2> QED BY <1>1, <2>2, <2>3, <2>4
<1>4. CASE Gather
  <2> SUFFICES ASSUME NEW w \in Workers
               PROVE  /\ Lag(response'[w], Engine) <= Capacity
                      /\ worker[w].at # "down"
    BY <1>4 DEF Gather, Bounded
  <2>1. worker[w].at # "down"
    BY <1>4 DEF Gather, Bounded
  <2>2. CASE w = engine.next
    <3>1. response[w] \in [sent : Seq(Answers), got : [R -> Seq(Answers)]]
      BY <1>1
    <3>2. response'[w] = Received(response[w], Engine) /\ Lag(response[w], Engine) > 0
      BY <1>1, <1>4, <2>2 DEF Gather
    <3>3. Lag(response'[w], Engine) = Lag(response[w], Engine) - 1
      <4> DEFINE q == response[w]
      <4>1. q \in [sent : Seq(Answers), got : [R -> Seq(Answers)]] /\ Lag(q, Engine) > 0
        BY <3>1, <3>2
      <4> HIDE DEF q
      <4>2. Lag(Received(q, Engine), Engine) = Lag(q, Engine) - 1
        <5>1. Engine \in R
          BY <1>1
        <5> QED BY <4>1, <5>1, ReceivedLag
      <4> QED BY <3>2, <4>2 DEF q
    <3>4. Lag(response[w], Engine) <= Capacity
      BY DEF Bounded
    <3> QED BY <1>1, <2>1, <3>3, <3>4
  <2>3. CASE w # engine.next
    <3>1. response'[w] = response[w]
      BY <1>1, <1>4, <2>3 DEF Gather
    <3> QED BY <2>1, <3>1 DEF Bounded
  <2> QED BY <2>2, <2>3
<1>5. CASE Shutdown
  <2>1. UNCHANGED <<rpc, response>> /\ engine'.at = "down"
    BY <1>5 DEF Shutdown, IndInv, TypeOK
  <2> QED BY <2>1 DEF Bounded
<1>6. ASSUME NEW v \in Workers, Take(v)
      PROVE  Bounded'
  <2> SUFFICES ASSUME NEW w \in Workers
               PROVE  /\ Lag(rpc', w) <= Capacity
                      /\ worker'[w].at = "down" => engine.at = "down"
    BY <1>6 DEF Take, Bounded
  <2>1. Lag(rpc', w) = IF w = v THEN Lag(rpc, w) - 1 ELSE Lag(rpc, w)
    <3>1. rpc' = Received(rpc, v) /\ Lag(rpc, v) > 0
      BY <1>6 DEF Take
    <3>2. Lag(Received(rpc, v), w) = IF w = v THEN Lag(rpc, w) - 1 ELSE Lag(rpc, w)
      <4>1. rpc \in [sent : Seq(Calls), got : [Workers -> Seq(Calls)]]
        BY <1>1
      <4>2. /\ Lag(Received(rpc, v), v) = Lag(rpc, v) - 1
            /\ \A x \in Workers : x # v => Lag(Received(rpc, v), x) = Lag(rpc, x)
        BY <3>1, <4>1, ReceivedLag
      <4>3. CASE w = v
        BY <4>2, <4>3
      <4>4. CASE w # v
        BY <4>2, <4>4
      <4> QED BY <4>3, <4>4
    <3> QED BY <3>1, <3>2
  <2>2. worker'[w].at = "down" => worker[w].at = "down"
    BY <1>6 DEF Take, IndInv, TypeOK
  <2>3. Lag(rpc, w) <= Capacity /\ (worker[w].at = "down" => engine.at = "down")
    BY DEF Bounded
  <2> QED BY <1>1, <2>1, <2>2, <2>3
<1>7. ASSUME NEW v \in Workers, NEW ok \in BOOLEAN, Answer(v, ok)
      PROVE  Bounded'
  <2> DEFINE a == [n |-> worker[v].call.n, ok |-> ok]
  <2> SUFFICES ASSUME NEW w \in Workers
               PROVE  /\ Lag(response'[w], Engine) <= Capacity
                      /\ worker'[w].at = "down" => engine.at = "down"
    BY <1>7 DEF Answer, Bounded
  <2>1. worker'[w].at = "down" => worker[w].at = "down"
    BY <1>7 DEF Answer, IndInv, TypeOK
  <2>2. Lag(response[w], Engine) <= Capacity /\ (worker[w].at = "down" => engine.at = "down")
    BY DEF Bounded
  <2>3. CASE w = v
    <3>1. a \in Answers
      <4>1. worker[v].call = rpc.sent[Taken[v]] /\ Taken[v] <= Made /\ Taken[v] = Answered[v] + 1
        BY <1>7 DEF Answer, IndInv, WorkersCount
      <4>2. Made \in Nat /\ Answered[v] \in Nat
        BY Values DEF IndInv
      <4>3. rpc.sent[Taken[v]] \in Calls
        BY <1>1, <4>1, <4>2 DEF Made
      <4> QED BY <4>1, <4>3 DEF Calls, Answers
    <3>2. response'[w] = Sent(response[w], a)
      BY <1>1, <1>7, <2>3 DEF Answer
    <3> HIDE DEF a
    <3>3. response[w] \in [sent : Seq(Answers), got : [R -> Seq(Answers)]]
      BY <1>1
    <3>4. Lag(response'[w], Engine) = Lag(response[w], Engine) + 1
      <4> DEFINE q == response[w]
      <4>1. q \in [sent : Seq(Answers), got : [R -> Seq(Answers)]]
        BY <3>3
      <4> HIDE DEF q
      <4>2. Lag(Sent(q, a), Engine) = Lag(q, Engine) + 1
        <5>1. Engine \in R
          BY <1>1
        <5> QED BY <3>1, <4>1, <5>1, SentLag
      <4> QED BY <3>2, <4>2 DEF q
    <3>5. Lag(response[w], Engine) < Capacity
      BY <1>7, <2>3 DEF Answer, Room
    <3> QED BY <1>1, <2>1, <2>2, <3>4, <3>5
  <2>4. CASE w # v
    <3>1. response'[w] = response[w]
      BY <1>7, <2>4, <1>1 DEF Answer
    <3> QED BY <2>1, <2>2, <3>1
  <2> QED BY <2>3, <2>4
<1>8. CASE UNCHANGED vars
  BY <1>8 DEF vars, Bounded
<1>9. ASSUME NEW kind \in Kinds, Call(kind)
      PROVE  Bounded'
  BY <1>2, <1>9 DEF Call
<1>10. CASE GatherTimeout
  BY <1>2, <1>10 DEF GatherTimeout
<1> QED
  BY <1>3, <1>4, <1>5, <1>6, <1>7, <1>8, <1>9, <1>10 DEF Next, EngineStep, WorkerStep

\* collective_rpc and the workers wait for room before they send, so the rings hold what
\* is not read.
THEOREM QueuesBounded == SafeSpec => []Bounded
<1>1. Init => Bounded
  <2> SUFFICES ASSUME Init, NEW w \in Workers
               PROVE  /\ Lag(rpc, w) = 0 /\ Lag(response[w], Engine) = 0
                      /\ worker[w].at # "down"
    BY ExecutorAssumption DEF Bounded
  <2> QED BY DEF Init, EmptyQueue, Lag
<1> QED BY <1>1, BoundedNext, Invariant, PTL DEF SafeSpec

\* The calls that raised before a worker was heard are those in its ring, the one it
\* executes and those it has not taken.
LEMMA OverrunFills ==
  ASSUME IndInv, Bounded
  PROVE  OverrunLeavesNoRoom
<1> SUFFICES ASSUME NEW w \in Workers, skips[w] > 2 * Capacity
             PROVE  ~(Lag(rpc, w) < Capacity)
  BY DEF OverrunLeavesNoRoom, Overrun, Room
<1>1. /\ Lag(rpc, w) = Made - Taken[w]
      /\ Lag(response[w], Engine) = Answered[w] - Heard[w]
      /\ Made \in Nat /\ Taken[w] \in Nat /\ Answered[w] \in Nat /\ Heard[w] \in Nat
      /\ skips[w] \in Nat /\ Owed[w] \in {0, 1} /\ Capacity \in Nat \ {0}
  BY Lags DEF IndInv
<1>2. Heard[w] + skips[w] + Owed[w] = Made /\ Taken[w] <= Answered[w] + 1
  BY DEF IndInv, EngineCounts, WorkersCount
<1>3. Answered[w] - Heard[w] <= Capacity
  BY <1>1 DEF Bounded
<1> QED BY <1>1, <1>2, <1>3

\* If no worker can step, one of them waits for room for its answer with the calls
\* after it in the other ring: none of these was heard.
LEMMA WaitNeedsOverrun ==
  ASSUME IndInv, Bounded
  PROVE  WaitsForWorkers
<1> SUFFICES ASSUME engine.at = "send", NEW w \in Workers, ~(Lag(rpc, w) < Capacity),
                    ~CanStep(w)
             PROVE  skips[w] > 2 * Capacity
  BY DEF WaitsForWorkers, Overrun, Room
<1>1. /\ Lag(rpc, w) = Made - Taken[w]
      /\ Lag(response[w], Engine) = Answered[w] - Heard[w]
      /\ Made \in Nat /\ Taken[w] \in Nat /\ Answered[w] \in Nat /\ Heard[w] \in Nat
      /\ skips[w] \in Nat /\ Capacity \in Nat \ {0}
  BY Lags DEF IndInv
<1>2. worker[w].at = "run"
  <2>1. Lag(rpc, w) > 0
    BY <1>1
  <2>2. worker[w].at \in {"wait", "run", "down"}
    BY DEF IndInv, TypeOK
  <2> QED BY <2>1, <2>2 DEF Bounded, CanStep
<1>3. Taken[w] = Answered[w] + 1
  BY <1>2 DEF IndInv, WorkersCount
<1>4. ~(Lag(response[w], Engine) < Capacity)
  BY <1>2 DEF CanStep, Room
<1>5. Heard[w] + skips[w] = Made
  <2>1. Heard[w] + skips[w] + Owed[w] = Made /\ Owed[w] = 0
    BY DEF IndInv, EngineCounts, Owed
  <2> QED BY <1>1, <2>1
<1> QED BY <1>1, <1>3, <1>4, <1>5

\* When more than 2 * Capacity calls have raised before some worker is heard, its ring
\* and that of the calls are full, and collective_rpc finds no room.
THEOREM OverrunBlocks == Spec => []OverrunLeavesNoRoom
BY OverrunFills, Invariant, QueuesBounded, PTL DEF Spec

\* No call is broadcast after an overrun, and no call ends it: enqueue, which is given
\* no timeout, waits for ever.
THEOREM OverrunIsFinal == Spec => [][Overrun => Overrun' /\ UNCHANGED rpc.sent]_vars
<1>1. ASSUME IndInv, Bounded, [Next]_vars, Overrun, ~UNCHANGED vars
      PROVE  Overrun' /\ UNCHANGED rpc.sent
  <2>1. ~Send
    BY <1>1, OverrunFills DEF OverrunLeavesNoRoom, Send
  <2>2. \A w \in Workers : skips'[w] \in Int /\ skips'[w] >= skips[w]
    <3>1. skips \in [Workers -> Nat]
      BY <1>1, Values DEF IndInv
    <3>2. ASSUME NEW v, Raise(v)
          PROVE  \A w \in Workers : skips'[w] \in Int /\ skips'[w] >= skips[w]
      BY <3>1, <3>2 DEF Raise
    <3>3. UNCHANGED skips \/ \E v : Raise(v)
      BY <1>1 DEF Next, EngineStep, WorkerStep, Call, Send, Gather, GatherTimeout, Shutdown,
                  Take, Answer
    <3> QED BY <3>1, <3>2, <3>3
  <2>3. Overrun'
    <3>1. PICK w \in Workers : skips[w] > 2 * Capacity
      BY <1>1 DEF Overrun
    <3>2. skips[w] \in Nat /\ Capacity \in Nat
      BY <1>1, Values, ExecutorAssumption DEF IndInv
    <3> QED BY <2>2, <3>1, <3>2 DEF Overrun
  <2>4. UNCHANGED rpc.sent
    <3>1. UNCHANGED rpc \/ \E w \in Workers : Take(w)
      BY <1>1, <2>1 DEF Next, EngineStep, WorkerStep, Call, Gather, GatherTimeout, Shutdown,
                        Answer
    <3>2. ASSUME NEW w \in Workers, Take(w)
          PROVE  UNCHANGED rpc.sent
      BY <1>1, <3>2 DEF Take, Received, IndInv, TypeOK
    <3> QED BY <3>1, <3>2
  <2> QED BY <2>3, <2>4
<1> QED BY <1>1, Invariant, QueuesBounded, PTL DEF Spec, SafeSpec

\* A call that waits for room is held up by a worker that can step, unless calls
\* overran a worker.
THEOREM WaitEnds == Spec => []WaitsForWorkers
BY WaitNeedsOverrun, Invariant, QueuesBounded, PTL DEF Spec
=============================================================================
