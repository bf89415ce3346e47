--------------------------- MODULE MQEngine_proofs ---------------------------
(***************************************************************************)
(* Proofs about MQEngine, for every set of requests, every workload and    *)
(* every length of the outputs: the state is well typed, every stream      *)
(* yields its outputs once and in order, and a request whose stream is     *)
(* gone leaves the engine.                                                 *)
(*                                                                         *)
(* The invariant is stated for one request at a time, by operators that    *)
(* take the pieces of the state that concern it (Good, Leaving).  What an  *)
(* action does to one request is a change of one or two of those pieces;   *)
(* the lemmas about Good and Leaving say which changes they survive, and   *)
(* the step lemmas only put these together.                                *)
(***************************************************************************)
EXTENDS MQEngine, WellFoundedInduction, TLAPS

Messages ==
  [outs : SUBSET (Requests \X (1 .. MaxTokens)), error : BOOLEAN,
   id : Requests \cup {None}, dead : BOOLEAN]

\* Message m has an output of request r.
Names(m, r) == \E k \in 1 .. MaxTokens : <<r, k>> \in m.outs

\* OnTheWay with the queue, the socket and the counters as parameters.
Flow(r, q, out, s, p, last) ==
  /\ \A k \in 1 .. MaxTokens :
       (s < k /\ k <= last) <=>
         \/ \E i \in DOMAIN q : q[i] = k
         \/ \E i \in DOMAIN out : <<r, k>> \in out[i].outs
  /\ \A i, j \in DOMAIN q : i < j /\ q[j] # Exception => q[i] < q[j]
  /\ \A i \in DOMAIN q, j \in DOMAIN out, k \in 1 .. MaxTokens :
       <<r, k>> \in out[j].outs => q[i] < k
  /\ \A i, j \in DOMAIN out, k, m \in 1 .. MaxTokens :
       <<r, k>> \in out[i].outs /\ <<r, m>> \in out[j].outs /\ i <= j =>
         k <= m /\ (k = m => i = j)
  /\ p # Absent => last = p

\* Nothing has been produced for the request yet.
Fresh(r, q, out, s, p) ==
  /\ p = Absent /\ s = 0
  /\ \A i \in DOMAIN q : q[i] = Exception
  /\ \A i \in DOMAIN out : ~Names(out[i], r)

\* The engine hears of a request only when its stream is sent, and as long as the
\* stream is open it hears one message, with which the work begins.
Heard(r, st, q, inp, out, s, p) ==
  /\ st \in {"new", "guided", "send"} =>
       Fresh(r, q, out, s, p) /\ \A i \in DOMAIN inp : inp[i].id # r
  /\ st = "open" =>
       \A i \in DOMAIN inp : inp[i].id = r =>
         /\ inp[i].type = "add" /\ Fresh(r, q, out, s, p)
         /\ \A j \in DOMAIN inp : inp[j].id = r => i = j

Good(r, st, q, inp, out, s, p) ==
  /\ Heard(r, st, q, inp, out, s, p)
  /\ st \in {"send", "open"} => \E last \in s .. MaxTokens : Flow(r, q, out, s, p, last)
  /\ st = "finished" => s = MaxTokens

\* What AbandonedLeaves says of one request.
Leaving(r, inp, p) ==
  /\ p # Absent => \E j \in DOMAIN inp : inp[j] = [type |-> "abort", id |-> r]
  /\ \A i \in DOMAIN inp : inp[i] = [type |-> "add", id |-> r] =>
       \E j \in DOMAIN inp : inp[j] = [type |-> "abort", id |-> r] /\ i < j

GoodRequest(r) == Good(r, stream[r], outQueue[r], input, output, seen[r], progress[r])
LeavingRequest(r) ==
  stream[r] \in {"cancelled", "raised"} /\ ~errored /\ engine.at # "exit" =>
    Leaving(r, input, progress[r])

\* Adapters and generations use messages of their own, and an error carries no output.
Sorted ==
  /\ \A i \in DOMAIN input : input[i].type = "adapter" <=> input[i].id \in Adapters
  /\ \A i \in DOMAIN output : output[i].error => output[i].outs = {}

\* A dead engine has nothing to read and nothing to work on.
DeadIsIdle ==
  engine.at = "dead" => input = <<>> /\ \A r \in Requests : progress[r] = Absent

(* The inductive invariant.  InOrder alone does not survive the arrival of an
   `add': that the engine starts at the first output is right only because the
   stream has seen none, which Heard says for as long as the `add' is on its way. *)
IndInv ==
  /\ TypeOK
  /\ Sorted
  /\ DeadIsIdle
  /\ \A r \in Generates : GoodRequest(r)
  /\ \A r \in Generates : LeavingRequest(r)

-----------------------------------------------------------------------------
(* What is on the way to a stream.                                          *)

\* The flow survives an exception at the end of the queue.
LEMMA FlowException ==
  ASSUME NEW r \in Requests, NEW q \in Seq(0 .. MaxTokens), NEW out \in Seq(Messages),
         NEW s \in 0 .. MaxTokens, NEW p \in Absent .. MaxTokens - 1, NEW last \in s .. MaxTokens,
         Flow(r, q, out, s, p, last)
  PROVE  Flow(r, Append(q, Exception), out, s, p, last)
  <1> USE MQEngineAssumption DEF Exception, Absent
  <1> DEFINE q2 == Append(q, Exception)
  <1>1. /\ q2 \in Seq(0 .. MaxTokens) /\ Len(q2) = Len(q) + 1 /\ Len(q) \in Nat
        /\ DOMAIN q = 1 .. Len(q) /\ DOMAIN q2 = 1 .. Len(q) + 1
        /\ \A i \in DOMAIN q : q2[i] = q[i]
        /\ q2[Len(q) + 1] = Exception
    OBVIOUS
  <1>2. /\ \A i \in DOMAIN q : q[i] \in 0 .. MaxTokens /\ q2[i] = q[i] /\ i \in DOMAIN q2
        /\ \A i \in DOMAIN q2 : i \in Int /\ i <= Len(q) + 1
        /\ \A i \in DOMAIN q2 : i \in DOMAIN q \/ (i = Len(q) + 1 /\ q2[i] = Exception)
    BY <1>1
  <1> HIDE DEF q2
  <1>3. ASSUME NEW k \in 1 .. MaxTokens
        PROVE  (\E i \in DOMAIN q2 : q2[i] = k) <=> (\E i \in DOMAIN q : q[i] = k)
    BY <1>2
  <1>4. \A k \in 1 .. MaxTokens :
          (s < k /\ k <= last) <=> \/ \E i \in DOMAIN q2 : q2[i] = k
                                   \/ \E i \in DOMAIN out : <<r, k>> \in out[i].outs
    BY <1>3 DEF Flow
  <1>5. ASSUME NEW i \in DOMAIN q2, NEW j \in DOMAIN q2, i < j, q2[j] # Exception
        PROVE  q2[i] < q2[j]
    <2>1. j \in DOMAIN q /\ i \in DOMAIN q
      BY <1>1, <1>2, <1>5
    <2>2. q2[i] = q[i] /\ q2[j] = q[j]
      BY <1>2, <2>1
    <2> QED BY <1>5, <2>1, <2>2 DEF Flow
  <1>6. ASSUME NEW i \in DOMAIN q2, NEW j \in DOMAIN out, NEW k \in 1 .. MaxTokens,
               <<r, k>> \in out[j].outs
        PROVE  q2[i] < k
    <2>1. CASE i \in DOMAIN q
      BY <1>2, <1>6, <2>1 DEF Flow
    <2>2. CASE q2[i] = Exception
      BY <2>2
    <2> QED BY <1>2, <2>1, <2>2
  <1> QED BY <1>4, <1>5, <1>6 DEF Flow, q2

\* Taking a message off a socket.
LEMMA TakeFirst ==
  ASSUME NEW S, NEW s \in Seq(S), s # <<>>
  PROVE  RemoveAt(s, 1) = Tail(s)
  <1>1. SubSeq(s, 1, 0) = <<>> /\ SubSeq(s, 2, Len(s)) = Tail(s)
    OBVIOUS
  <1>2. SubSeq(s, 1, 1 - 1) = <<>> /\ SubSeq(s, 1 + 1, Len(s)) = Tail(s)
    BY <1>1
  <1>3. RemoveAt(s, 1) = SubSeq(s, 1, 1 - 1) \o SubSeq(s, 1 + 1, Len(s))
    BY DEF RemoveAt
  <1>4. <<>> \o Tail(s) = Tail(s)
    OBVIOUS
  <1> QED BY <1>2, <1>3, <1>4

\* The flow survives when a message goes that has nothing for it.
LEMMA FlowPop ==
  ASSUME NEW r \in Requests, NEW q \in Seq(0 .. MaxTokens), NEW out \in Seq(Messages),
         NEW s \in 0 .. MaxTokens, NEW p \in Absent .. MaxTokens - 1, NEW last \in s .. MaxTokens,
         Flow(r, q, out, s, p, last), out # <<>>, ~Names(out[1], r)
  PROVE  Flow(r, q, Tail(out), s, p, last)
  <1> USE MQEngineAssumption DEF Exception, Absent
  <1> DEFINE o2 == Tail(out)
  <1>1. /\ Len(out) \in Nat /\ Len(out) > 0
        /\ DOMAIN out = 1 .. Len(out) /\ DOMAIN o2 = 1 .. Len(out) - 1
        /\ \A i \in DOMAIN o2 : o2[i] = out[i + 1] /\ i + 1 \in DOMAIN out
        /\ \A i \in DOMAIN out : i # 1 => i - 1 \in DOMAIN o2 /\ o2[i - 1] = out[i]
    OBVIOUS
  <1> HIDE DEF o2
  <1>2. \A i \in DOMAIN out, k \in 1 .. MaxTokens : <<r, k>> \in out[i].outs => i # 1
    BY DEF Names
  <1>3. ASSUME NEW k \in 1 .. MaxTokens
        PROVE  (\E i \in DOMAIN o2 : <<r, k>> \in o2[i].outs)
                  <=> (\E i \in DOMAIN out : <<r, k>> \in out[i].outs)
    BY <1>1, <1>2
  <1>4. \A k \in 1 .. MaxTokens :
          (s < k /\ k <= last) <=> \/ \E i \in DOMAIN q : q[i] = k
                                   \/ \E i \in DOMAIN o2 : <<r, k>> \in o2[i].outs
    BY <1>3 DEF Flow
  <1>5. \A i \in DOMAIN q, j \in DOMAIN o2, k \in 1 .. MaxTokens :
          <<r, k>> \in o2[j].outs => q[i] < k
    BY <1>1 DEF Flow
  <1>6. ASSUME NEW i \in DOMAIN o2, NEW j \in DOMAIN o2, NEW k \in 1 .. MaxTokens,
               NEW m \in 1 .. MaxTokens,
               <<r, k>> \in o2[i].outs, <<r, m>> \in o2[j].outs, i <= j
        PROVE  k <= m /\ (k = m => i = j)
    <2>1. i + 1 \in DOMAIN out /\ j + 1 \in DOMAIN out /\ i + 1 <= j + 1 /\ i \in Int /\ j \in Int
      BY <1>1, <1>6
    <2>2. <<r, k>> \in out[i + 1].outs /\ <<r, m>> \in out[j + 1].outs
      BY <1>1, <1>6
    <2>3. k <= m /\ (k = m => i + 1 = j + 1)
      BY <2>1, <2>2 DEF Flow
    <2> QED BY <2>1, <2>3
  <1> QED BY <1>4, <1>5, <1>6 DEF Flow, o2

\* The flow survives when its next output moves from the socket into the queue.
LEMMA FlowPopPut ==
  ASSUME NEW r \in Requests, NEW q \in Seq(0 .. MaxTokens), NEW out \in Seq(Messages),
         NEW s \in 0 .. MaxTokens, NEW p \in Absent .. MaxTokens - 1, NEW last \in s .. MaxTokens,
         Flow(r, q, out, s, p, last), out # <<>>,
         NEW x \in 1 .. MaxTokens, <<r, x>> \in out[1].outs
  PROVE  Flow(r, Append(q, x), Tail(out), s, p, last)
  <1> USE MQEngineAssumption DEF Exception, Absent
  <1> DEFINE o2 == Tail(out)
             q2 == Append(q, x)
  <1>1. /\ Len(out) \in Nat /\ Len(out) > 0
        /\ DOMAIN out = 1 .. Len(out) /\ DOMAIN o2 = 1 .. Len(out) - 1
        /\ \A i \in DOMAIN o2 : o2[i] = out[i + 1] /\ i + 1 \in DOMAIN out
        /\ \A i \in DOMAIN out : i # 1 => i - 1 \in DOMAIN o2 /\ o2[i - 1] = out[i]
    OBVIOUS
  <1>2. /\ Len(q) \in Nat
        /\ DOMAIN q = 1 .. Len(q) /\ DOMAIN q2 = 1 .. Len(q) + 1
        /\ \A i \in DOMAIN q : q2[i] = q[i] /\ q[i] \in 0 .. MaxTokens
        /\ q2[Len(q) + 1] = x
    OBVIOUS
  <1>a. /\ \A i \in DOMAIN q : i \in DOMAIN q2 /\ q2[i] = q[i]
        /\ \A i \in DOMAIN q2 : i \in DOMAIN q \/ i = Len(q) + 1
        /\ Len(q) + 1 \in DOMAIN q2 /\ q2[Len(q) + 1] = x
    BY <1>2
  <1>b. /\ \A i \in DOMAIN out : i = 1 \/ \E j \in DOMAIN o2 : o2[j] = out[i]
        /\ \A j \in DOMAIN o2 : \E i \in DOMAIN out : o2[j] = out[i]
        /\ 1 \in DOMAIN out
    <2> HIDE DEF o2, q2
    <2>1. \A i \in DOMAIN out : i = 1 \/ \E j \in DOMAIN o2 : o2[j] = out[i]
      BY <1>1
    <2>2. \A j \in DOMAIN o2 : \E i \in DOMAIN out : o2[j] = out[i]
      BY <1>1
    <2>3. 1 \in DOMAIN out
      BY <1>1
    <2> QED BY <2>1, <2>2, <2>3
  <1> HIDE DEF o2, q2
  <1>3. \A k \in 1 .. MaxTokens : <<r, k>> \in out[1].outs => k = x
    <2> SUFFICES ASSUME NEW k \in 1 .. MaxTokens, <<r, k>> \in out[1].outs
                 PROVE  k = x
      OBVIOUS
    <2>1. 1 \in DOMAIN out
      BY <1>1
    <2>2. k <= x /\ x <= k
      BY <2>1 DEF Flow
    <2> QED BY <2>2
  <1>4. \A j \in DOMAIN o2, k \in 1 .. MaxTokens : <<r, k>> \in o2[j].outs => x < k
    <2> SUFFICES ASSUME NEW j \in DOMAIN o2, NEW k \in 1 .. MaxTokens, <<r, k>> \in o2[j].outs
                 PROVE  x < k
      OBVIOUS
    <2>1. 1 \in DOMAIN out /\ j + 1 \in DOMAIN out /\ 1 < j + 1 /\ <<r, k>> \in out[j + 1].outs
      BY <1>1
    <2>2. x <= k /\ (x = k => 1 = j + 1)
      BY <2>1 DEF Flow
    <2> QED BY <2>1, <2>2
  <1>5. ASSUME NEW k \in 1 .. MaxTokens
        PROVE  (s < k /\ k <= last) <=> \/ \E i \in DOMAIN q2 : q2[i] = k
                                        \/ \E i \in DOMAIN o2 : <<r, k>> \in o2[i].outs
    <2>1. (s < k /\ k <= last) <=> \/ \E i \in DOMAIN q : q[i] = k
                                   \/ \E i \in DOMAIN out : <<r, k>> \in out[i].outs
      BY DEF Flow
    <2>2. (\E i \in DOMAIN q2 : q2[i] = k) <=> (k = x \/ \E i \in DOMAIN q : q[i] = k)
      BY <1>a
    <2>3. (\E i \in DOMAIN out : <<r, k>> \in out[i].outs)
            <=> (k = x \/ \E i \in DOMAIN o2 : <<r, k>> \in o2[i].outs)
      BY <1>b, <1>3
    <2> QED BY <2>1, <2>2, <2>3
  <1>6. \A i, j \in DOMAIN q2 : i < j /\ q2[j] # Exception => q2[i] < q2[j]
    <2>1. \A i \in DOMAIN q : q[i] < x
      BY <1>1 DEF Flow
    <2> QED BY <1>2, <2>1, SMTT(60) DEF Flow
  <1>7. ASSUME NEW i \in DOMAIN q2, NEW j \in DOMAIN o2, NEW k \in 1 .. MaxTokens,
               <<r, k>> \in o2[j].outs
        PROVE  q2[i] < k
    <2>1. CASE i \in DOMAIN q
      <3>1. j + 1 \in DOMAIN out /\ <<r, k>> \in out[j + 1].outs
        BY <1>1, <1>7
      <3> QED BY <1>2, <2>1, <3>1 DEF Flow
    <2>2. CASE i = Len(q) + 1
      BY <1>2, <1>4, <1>7, <2>2
    <2> QED BY <1>2, <2>1, <2>2
  <1>8. ASSUME NEW i \in DOMAIN o2, NEW j \in DOMAIN o2, NEW k \in 1 .. MaxTokens,
               NEW m \in 1 .. MaxTokens,
               <<r, k>> \in o2[i].outs, <<r, m>> \in o2[j].outs, i <= j
        PROVE  k <= m /\ (k = m => i = j)
    <2>1. i + 1 \in DOMAIN out /\ j + 1 \in DOMAIN out /\ i + 1 <= j + 1 /\ i \in Int /\ j \in Int
      BY <1>1, <1>8
    <2>2. <<r, k>> \in out[i + 1].outs /\ <<r, m>> \in out[j + 1].outs
      BY <1>1, <1>8
    <2>3. k <= m /\ (k = m => i + 1 = j + 1)
      BY <2>1, <2>2 DEF Flow
    <2> QED BY <2>1, <2>3
  <1>9. p # Absent => last = p
    BY DEF Flow
  <1>10. Flow(r, q2, o2, s, p, last)
    BY <1>5, <1>6, <1>7, <1>8, <1>9 DEF Flow
  <1> QED BY <1>10 DEF o2, q2

\* The flow survives a message that has nothing for it.
LEMMA FlowPush ==
  ASSUME NEW r \in Requests, NEW q \in Seq(0 .. MaxTokens), NEW out \in Seq(Messages),
         NEW s \in 0 .. MaxTokens, NEW p \in Absent .. MaxTokens - 1, NEW last \in s .. MaxTokens,
         Flow(r, q, out, s, p, last), NEW m \in Messages, ~Names(m, r)
  PROVE  Flow(r, q, Append(out, m), s, p, last)
  <1> USE MQEngineAssumption DEF Exception, Absent
  <1> DEFINE o2 == Append(out, m)
  <1>1. /\ Len(out) \in Nat
        /\ DOMAIN out = 1 .. Len(out) /\ DOMAIN o2 = 1 .. Len(out) + 1
        /\ \A i \in DOMAIN out : o2[i] = out[i]
        /\ o2[Len(out) + 1] = m
    OBVIOUS
  <1>a. /\ \A i \in DOMAIN out : i \in DOMAIN o2 /\ o2[i] = out[i]
        /\ \A i \in DOMAIN o2 : i \in DOMAIN out \/ (i = Len(out) + 1 /\ o2[i] = m)
        /\ Len(out) + 1 \in DOMAIN o2 /\ o2[Len(out) + 1] = m
    BY <1>1
  <1> HIDE DEF o2
  <1>2. \A i \in DOMAIN o2, k \in 1 .. MaxTokens :
          <<r, k>> \in o2[i].outs => i \in DOMAIN out /\ <<r, k>> \in out[i].outs
    BY <1>a DEF Names
  <1>3. ASSUME NEW k \in 1 .. MaxTokens
        PROVE  (\E i \in DOMAIN o2 : <<r, k>> \in o2[i].outs)
                  <=> (\E i \in DOMAIN out : <<r, k>> \in out[i].outs)
    BY <1>a, <1>2
  <1>4. \A k \in 1 .. MaxTokens :
          (s < k /\ k <= last) <=> \/ \E i \in DOMAIN q : q[i] = k
                                   \/ \E i \in DOMAIN o2 : <<r, k>> \in o2[i].outs
    BY <1>3 DEF Flow
  <1>5. \A i \in DOMAIN q, j \in DOMAIN o2, k \in 1 .. MaxTokens :
          <<r, k>> \in o2[j].outs => q[i] < k
    BY <1>2 DEF Flow
  <1>6. \A i, j \in DOMAIN o2, k, n \in 1 .. MaxTokens :
          <<r, k>> \in o2[i].outs /\ <<r, n>> \in o2[j].outs /\ i <= j =>
            k <= n /\ (k = n => i = j)
    BY <1>2 DEF Flow
  <1> QED BY <1>4, <1>5, <1>6 DEF Flow, o2

\* The flow survives a message with the next output of the request.
LEMMA FlowStep ==
  ASSUME NEW r \in Requests, NEW q \in Seq(0 .. MaxTokens), NEW out \in Seq(Messages),
         NEW s \in 0 .. MaxTokens, NEW p \in 0 .. MaxTokens - 1, NEW last \in s .. MaxTokens,
         Flow(r, q, out, s, p, last), NEW m \in Messages,
         \A k \in 1 .. MaxTokens : <<r, k>> \in m.outs <=> k = p + 1,
         NEW p2 \in {Absent, p + 1}
  PROVE  p + 1 \in s .. MaxTokens /\ Flow(r, q, Append(out, m), s, p2, p + 1)
  <1> USE MQEngineAssumption DEF Exception, Absent
  <1> DEFINE o2 == Append(out, m)
  <1>1. /\ Len(out) \in Nat
        /\ DOMAIN out = 1 .. Len(out) /\ DOMAIN o2 = 1 .. Len(out) + 1
        /\ \A i \in DOMAIN out : o2[i] = out[i]
        /\ o2[Len(out) + 1] = m
    OBVIOUS
  <1>a. /\ \A i \in DOMAIN out : i \in DOMAIN o2 /\ o2[i] = out[i]
        /\ \A i \in DOMAIN o2 : i \in DOMAIN out \/ (i = Len(out) + 1 /\ o2[i] = m)
        /\ Len(out) + 1 \in DOMAIN o2 /\ o2[Len(out) + 1] = m
    BY <1>1
  <1>2. Len(q) \in Nat /\ DOMAIN q = 1 .. Len(q) /\ \A i \in DOMAIN q : q[i] \in 0 .. MaxTokens
    OBVIOUS
  <1> HIDE DEF o2
  <1>3. last = p /\ p \in 0 .. MaxTokens - 1 /\ p + 1 \in 1 .. MaxTokens
    BY DEF Flow
  <1>4. \A i \in DOMAIN out, k \in 1 .. MaxTokens : <<r, k>> \in out[i].outs => k <= p
    BY <1>3 DEF Flow
  <1>5. \A i \in DOMAIN q : q[i] <= p
    <2> SUFFICES ASSUME NEW i \in DOMAIN q, q[i] # 0
                 PROVE  q[i] <= p
      BY <1>2, <1>3
    <2>1. q[i] \in 1 .. MaxTokens
      BY <1>2
    <2> QED BY <2>1, <1>3 DEF Flow
  <1>6. ASSUME NEW k \in 1 .. MaxTokens
        PROVE  (s < k /\ k <= p + 1) <=> \/ \E i \in DOMAIN q : q[i] = k
                                         \/ \E i \in DOMAIN o2 : <<r, k>> \in o2[i].outs
    <2>1. (s < k /\ k <= p) <=> \/ \E i \in DOMAIN q : q[i] = k
                                \/ \E i \in DOMAIN out : <<r, k>> \in out[i].outs
      BY <1>3 DEF Flow
    <2>2. (\E i \in DOMAIN o2 : <<r, k>> \in o2[i].outs)
            <=> (k = p + 1 \/ \E i \in DOMAIN out : <<r, k>> \in out[i].outs)
      BY <1>a
    <2>3. s <= p /\ ((s < k /\ k <= p + 1) <=> (k = p + 1 \/ (s < k /\ k <= p)))
      BY <1>3
    <2> QED BY <2>1, <2>2, <2>3
  <1>7. \A i \in DOMAIN q, j \in DOMAIN o2, k \in 1 .. MaxTokens :
          <<r, k>> \in o2[j].outs => q[i] < k
    <2> SUFFICES ASSUME NEW i \in DOMAIN q, NEW j \in DOMAIN o2, NEW k \in 1 .. MaxTokens,
                        <<r, k>> \in o2[j].outs
                 PROVE  q[i] < k
      OBVIOUS
    <2>1. CASE j \in DOMAIN out
      BY <1>1, <2>1 DEF Flow
    <2>2. CASE j = Len(out) + 1
      BY <1>1, <1>2, <1>3, <1>5, <2>2
    <2> QED BY <1>1, <2>1, <2>2, SMTT(60)
  <1>8. ASSUME NEW i \in DOMAIN o2, NEW j \in DOMAIN o2, NEW k \in 1 .. MaxTokens,
               NEW n \in 1 .. MaxTokens,
               <<r, k>> \in o2[i].outs, <<r, n>> \in o2[j].outs, i <= j
        PROVE  k <= n /\ (k = n => i = j)
    <2>1. CASE i \in DOMAIN out /\ j \in DOMAIN out
      BY <1>1, <1>8, <2>1 DEF Flow
    <2>2. CASE i \in DOMAIN out /\ j = Len(out) + 1
      BY <1>1, <1>3, <1>4, <1>8, <2>2
    <2>3. CASE i = Len(out) + 1
      BY <1>1, <1>8, <2>3
    <2> QED BY <1>1, <2>1, <2>2, <2>3
  <1>9. p2 # Absent => p + 1 = p2
    BY <1>3
  <1>10. \A i, j \in DOMAIN q : i < j /\ q[j] # Exception => q[i] < q[j]
    BY DEF Flow
  <1> QED BY <1>3, <1>6, <1>7, <1>8, <1>9, <1>10, SMTT(60) DEF Flow, o2

\* The consumer gets the output after the last one it has seen.
LEMMA FlowYield ==
  ASSUME NEW r \in Requests, NEW q \in Seq(0 .. MaxTokens), NEW out \in Seq(Messages),
         NEW s \in 0 .. MaxTokens, NEW p \in Absent .. MaxTokens - 1, NEW last \in s .. MaxTokens,
         Flow(r, q, out, s, p, last), q # <<>>, Head(q) # Exception
  PROVE  /\ Head(q) = s + 1 /\ Head(q) \in 0 .. MaxTokens /\ last \in Head(q) .. MaxTokens
         /\ Flow(r, Tail(q), out, Head(q), p, last)
  <1> USE MQEngineAssumption DEF Exception, Absent
  <1> DEFINE q2 == Tail(q)
             h == Head(q)
  <1>1. /\ Len(q) \in Nat /\ Len(q) > 0
        /\ DOMAIN q = 1 .. Len(q) /\ DOMAIN q2 = 1 .. Len(q) - 1
        /\ \A i \in DOMAIN q2 : q2[i] = q[i + 1] /\ i + 1 \in DOMAIN q
        /\ \A i \in DOMAIN q : i # 1 => i - 1 \in DOMAIN q2 /\ q2[i - 1] = q[i]
        /\ \A i \in DOMAIN q : q[i] \in 0 .. MaxTokens
        /\ h = q[1] /\ h \in 1 .. MaxTokens /\ 1 \in DOMAIN q
    OBVIOUS
  <1>a. h # Exception
    OBVIOUS
  <1> HIDE DEF q2, h
  <1>2. s < h /\ h <= last
    BY <1>1 DEF Flow
  <1>3. \A i \in DOMAIN q : q[i] # Exception => i = 1 \/ h < q[i]
    <2> SUFFICES ASSUME NEW i \in DOMAIN q, q[i] # Exception, i # 1
                 PROVE  h < q[i]
      OBVIOUS
    <2>1. 1 < i
      BY <1>1
    <2> QED BY <1>1, <2>1 DEF Flow
  <1>4. \A j \in DOMAIN out, k \in 1 .. MaxTokens : <<r, k>> \in out[j].outs => h < k
    BY <1>1 DEF Flow
  <1>5. h = s + 1
    <2> SUFFICES ASSUME h # s + 1
                 PROVE  FALSE
      OBVIOUS
    <2>1. s + 1 \in 1 .. MaxTokens /\ s < s + 1 /\ s + 1 <= last /\ s + 1 < h
      BY <1>1, <1>2
    <2>2. \/ \E i \in DOMAIN q : q[i] = s + 1
          \/ \E i \in DOMAIN out : <<r, s + 1>> \in out[i].outs
      BY <2>1 DEF Flow
    <2>3. CASE \E i \in DOMAIN q : q[i] = s + 1
      <3>1. PICK i \in DOMAIN q : q[i] = s + 1
        BY <2>3
      <3>2. q[i] # Exception
        BY <3>1, <2>1
      <3>3. i = 1 \/ h < s + 1
        BY <1>3, <3>1, <3>2
      <3>4. h \in Int /\ s \in Int
        BY <1>1
      <3> QED BY <1>1, <2>1, <3>1, <3>3, <3>4
    <2>4. CASE \E i \in DOMAIN out : <<r, s + 1>> \in out[i].outs
      <3>1. h < s + 1
        BY <1>4, <2>1, <2>4
      <3>2. h \in Int /\ s \in Int
        BY <1>1
      <3> QED BY <2>1, <3>1, <3>2
    <2> QED BY <2>2, <2>3, <2>4
  <1>6. ASSUME NEW k \in 1 .. MaxTokens
        PROVE  (h < k /\ k <= last) <=> \/ \E i \in DOMAIN q2 : q2[i] = k
                                        \/ \E i \in DOMAIN out : <<r, k>> \in out[i].outs
    <2>1. (s < k /\ k <= last) <=> \/ \E i \in DOMAIN q : q[i] = k
                                   \/ \E i \in DOMAIN out : <<r, k>> \in out[i].outs
      BY DEF Flow
    <2>2. (\E i \in DOMAIN q : q[i] = k) <=> (k = h \/ \E i \in DOMAIN q2 : q2[i] = k)
      BY <1>1
    <2>3. ASSUME NEW i \in DOMAIN q2
          PROVE  q2[i] # h
      <3>1. i + 1 \in DOMAIN q /\ q2[i] = q[i + 1] /\ i + 1 # 1 /\ q[i + 1] \in 0 .. MaxTokens
        BY <1>1
      <3>2. q[i + 1] # Exception => h < q[i + 1]
        BY <1>3, <3>1
      <3> QED BY <1>1, <1>a, <3>1, <3>2
    <2>4. CASE k = h
      BY <1>4, <2>3, <2>4
    <2>5. CASE k # h
      <3>1. (s < k /\ k <= last) <=> (h < k /\ k <= last)
        BY <1>1, <1>5, <2>5
      <3> QED BY <2>1, <2>2, <2>5, <3>1
    <2> QED BY <2>4, <2>5
  <1>7. ASSUME NEW i \in DOMAIN q2, NEW j \in DOMAIN q2, i < j, q2[j] # Exception
        PROVE  q2[i] < q2[j]
    <2>1. i + 1 \in DOMAIN q /\ j + 1 \in DOMAIN q /\ i + 1 < j + 1
      BY <1>1, <1>7
    <2>2. q2[i] = q[i + 1] /\ q2[j] = q[j + 1]
      BY <1>1
    <2> QED BY <1>7, <2>1, <2>2 DEF Flow
  <1>8. \A i \in DOMAIN q2, j \in DOMAIN out, k \in 1 .. MaxTokens :
          <<r, k>> \in out[j].outs => q2[i] < k
    BY <1>1 DEF Flow
  <1>9. Flow(r, q2, out, h, p, last)
    BY <1>6, <1>7, <1>8 DEF Flow
  <1> QED BY <1>1, <1>2, <1>5, <1>9 DEF h, q2

\* When the process ends, what is kept of the socket is a shorter flow: the outputs up
\* to the first one that is dropped.
LEMMA FlowCut ==
  ASSUME NEW r \in Requests, NEW q \in Seq(0 .. MaxTokens), NEW out \in Seq(Messages),
         NEW s \in 0 .. MaxTokens, NEW p \in Absent .. MaxTokens - 1, NEW last \in s .. MaxTokens,
         Flow(r, q, out, s, p, last), NEW kept \in 0 .. Len(out)
  PROVE  \E l2 \in s .. MaxTokens : Flow(r, q, SubSeq(out, 1, kept), s, Absent, l2)
  <1> USE MQEngineAssumption DEF Exception, Absent
  <1> DEFINE o2 == SubSeq(out, 1, kept)
             Kept(k) == \/ \E i \in DOMAIN q : q[i] = k
                        \/ \E i \in DOMAIN o2 : <<r, k>> \in o2[i].outs
             Lost == {k \in Nat : k \in 1 .. MaxTokens /\ s < k /\ k <= last /\ ~Kept(k)}
  <1>1. /\ Len(out) \in Nat /\ kept \in Nat /\ kept <= Len(out)
        /\ DOMAIN out = 1 .. Len(out) /\ DOMAIN o2 = 1 .. kept
        /\ \A i \in DOMAIN o2 : o2[i] = out[i] /\ i \in DOMAIN out
    OBVIOUS
  <1> HIDE DEF o2
  <1>2. \A k \in 1 .. MaxTokens : Kept(k) => s < k /\ k <= last
    BY <1>1 DEF Flow
  <1>3. /\ \A i, j \in DOMAIN q : i < j /\ q[j] # Exception => q[i] < q[j]
        /\ \A i \in DOMAIN q, j \in DOMAIN o2, k \in 1 .. MaxTokens :
             <<r, k>> \in o2[j].outs => q[i] < k
        /\ \A i, j \in DOMAIN o2, k, m \in 1 .. MaxTokens :
             <<r, k>> \in o2[i].outs /\ <<r, m>> \in o2[j].outs /\ i <= j =>
               k <= m /\ (k = m => i = j)
    BY <1>1, ZenonT(60) DEF Flow
  <1>4. CASE Lost = {}
    <2>1. ASSUME NEW k \in 1 .. MaxTokens
          PROVE  (s < k /\ k <= last) <=> Kept(k)
      <3>1. k \in Nat /\ k \notin Lost
        BY <1>4, SMTT(60)
      <3>2. s < k /\ k <= last => Kept(k)
        BY <3>1
      <3> QED BY <1>2, <3>2
    <2>2. Flow(r, q, o2, s, Absent, last)
      BY <1>3, <2>1 DEF Flow
    <2> QED BY <2>2 DEF o2
  <1>5. CASE Lost # {}
    <2>1. PICK m \in Lost : \A k \in Lost : ~(k < m)
      <3>1. IsWellFoundedOn(OpToRel(<, Nat), Nat)
        BY NatLessThanWellFounded
      <3>2. PICK m \in Lost : \A k \in Lost : <<k, m>> \notin OpToRel(<, Nat)
        <4> HIDE DEF Lost
        <4>1. Lost \subseteq Nat
          BY DEF Lost
        <4> QED BY <1>5, <3>1, <4>1, WFMin
      <3> QED BY <3>2 DEF OpToRel
    <2>2. /\ m \in 1 .. MaxTokens /\ s < m /\ m <= last /\ ~Kept(m)
          /\ m - 1 \in s .. MaxTokens
      <3>1. m \in 1 .. MaxTokens /\ s < m /\ m <= last /\ ~Kept(m)
        BY <2>1
      <3> HIDE DEF Kept, Lost
      <3>2. m - 1 \in s .. MaxTokens
        BY <3>1
      <3> QED BY <3>1, <3>2
    <2>3. \A k \in 1 .. MaxTokens : s < k /\ k < m => Kept(k)
      <3> SUFFICES ASSUME NEW k \in 1 .. MaxTokens, s < k, k < m, ~Kept(k)
                   PROVE  FALSE
        OBVIOUS
      <3>1. k \in Lost
        <4>1. k \in Nat /\ k <= last
          BY <2>2
        <4> QED BY <4>1
      <3> QED BY <2>1, <3>1
    <2> HIDE DEF Lost
    <2>4. PICK j \in DOMAIN out : <<r, m>> \in out[j].outs
      BY <2>2 DEF Flow
    <2>5. kept < j
      BY <1>1, <2>2, <2>4, SMTT(60)
    <2>6. \A k \in 1 .. MaxTokens : Kept(k) => k < m
      <3> SUFFICES ASSUME NEW k \in 1 .. MaxTokens, Kept(k)
                   PROVE  k < m
        OBVIOUS
      <3>1. CASE \E i \in DOMAIN q : q[i] = k
        BY <2>2, <2>4, <3>1 DEF Flow
      <3>2. CASE \E i \in DOMAIN o2 : <<r, k>> \in o2[i].outs
        <4>1. PICK i \in DOMAIN o2 : <<r, k>> \in o2[i].outs
          BY <3>2
        <4>2. i \in DOMAIN out /\ <<r, k>> \in out[i].outs /\ i < j
          BY <1>1, <2>5, <4>1
        <4>3. k <= m /\ (k = m => i = j)
          BY <2>2, <2>4, <4>2 DEF Flow
        <4> QED BY <4>2, <4>3, <2>2, <1>1
      <3> QED BY <3>1, <3>2
    <2>7. ASSUME NEW k \in 1 .. MaxTokens
          PROVE  (s < k /\ k <= m - 1) <=> Kept(k)
      <3> HIDE DEF Kept
      <3>1. k <= m - 1 <=> k < m
        BY <2>2
      <3> QED BY <1>2, <2>3, <2>6, <3>1
    <2>8. Flow(r, q, o2, s, Absent, m - 1)
      BY <1>3, <2>7 DEF Flow
    <2> QED BY <2>2, <2>8 DEF o2
  <1> QED BY <1>4, <1>5

\* A request leaves the engine: its flow ends where it is.
LEMMA FlowDrop ==
  ASSUME NEW r, NEW q, NEW out, NEW s, NEW p, NEW last, Flow(r, q, out, s, p, last)
  PROVE  Flow(r, q, out, s, Absent, last)
  BY DEF Flow

\* The flow of a request for which nothing has been produced, in or out of the engine.
LEMMA FlowFresh ==
  ASSUME NEW r \in Requests, NEW q \in Seq(0 .. MaxTokens), NEW out \in Seq(Messages),
         NEW s, NEW p, Fresh(r, q, out, s, p), NEW p2 \in {Absent, 0}
  PROVE  s = 0 /\ 0 \in 0 .. MaxTokens /\ Flow(r, q, out, s, p2, 0)
  <1> USE MQEngineAssumption DEF Exception, Absent
  <1>1. \A i \in DOMAIN out, k \in 1 .. MaxTokens : <<r, k>> \notin out[i].outs
    BY DEF Fresh, Names
  <1>2. \A i \in DOMAIN q : q[i] = 0
    BY DEF Fresh
  <1> QED BY <1>1, <1>2 DEF Fresh, Flow

-----------------------------------------------------------------------------
(* What one request survives.                                               *)

Pieces(r, q, inp, out, s, p) ==
  /\ r \in Requests
  /\ q \in Seq(0 .. MaxTokens)
  /\ inp \in Seq(InputMessages)
  /\ out \in Seq(Messages)
  /\ s \in 0 .. MaxTokens
  /\ p \in Absent .. MaxTokens - 1

\* An exception is put into the queue of a registered stream.
LEMMA GoodPut ==
  ASSUME NEW r, NEW st, NEW q, NEW inp, NEW out, NEW s, NEW p,
         Pieces(r, q, inp, out, s, p), Good(r, st, q, inp, out, s, p), st \in {"send", "open"}
  PROVE  Good(r, st, Append(q, Exception), inp, out, s, p)
  <1>1. Fresh(r, q, out, s, p) => Fresh(r, Append(q, Exception), out, s, p)
    <2>1. q \in Seq(0 .. MaxTokens) /\ Exception \in 0 .. MaxTokens
      BY MQEngineAssumption DEF Pieces, Exception
    <2>2. \A i \in DOMAIN Append(q, Exception) :
            (i \in DOMAIN q /\ Append(q, Exception)[i] = q[i]) \/ Append(q, Exception)[i] = Exception
      BY <2>1
    <2> QED BY <2>2 DEF Fresh
  <1>2. Heard(r, st, Append(q, Exception), inp, out, s, p)
    BY <1>1 DEF Good, Heard
  <1>3. \E last \in s .. MaxTokens : Flow(r, Append(q, Exception), out, s, p, last)
    BY FlowException DEF Good, Pieces
  <1> QED BY <1>2, <1>3 DEF Good

\* A message that has nothing for the request is sent.
LEMMA GoodPush ==
  ASSUME NEW r, NEW st, NEW q, NEW inp, NEW out, NEW s, NEW p,
         Pieces(r, q, inp, out, s, p), Good(r, st, q, inp, out, s, p),
         NEW m \in Messages, ~Names(m, r)
  PROVE  Good(r, st, q, inp, Append(out, m), s, p)
  <1>1. Fresh(r, q, out, s, p) => Fresh(r, q, Append(out, m), s, p)
    <2>1. out \in Seq(Messages)
      BY DEF Pieces
    <2>2. \A i \in DOMAIN Append(out, m) :
            (i \in DOMAIN out /\ Append(out, m)[i] = out[i]) \/ Append(out, m)[i] = m
      BY <2>1
    <2> QED BY <2>2 DEF Fresh
  <1>2. Heard(r, st, q, inp, Append(out, m), s, p)
    BY <1>1 DEF Good, Heard
  <1>3. st \in {"send", "open"} =>
          \E last \in s .. MaxTokens : Flow(r, q, Append(out, m), s, p, last)
    BY FlowPush DEF Good, Pieces
  <1> QED BY <1>2, <1>3 DEF Good

\* A message goes that has nothing for the request, or that finds no stream.
LEMMA GoodPop ==
  ASSUME NEW r, NEW st, NEW q, NEW inp, NEW out, NEW s, NEW p,
         Pieces(r, q, inp, out, s, p), Good(r, st, q, inp, out, s, p),
         out # <<>>, ~Names(out[1], r) \/ st \notin {"send", "open"}
  PROVE  Good(r, st, q, inp, Tail(out), s, p)
  <1>1. Fresh(r, q, out, s, p) => Fresh(r, q, Tail(out), s, p)
    <2>1. out \in Seq(Messages)
      BY DEF Pieces
    <2>2. \A i \in DOMAIN Tail(out) : i + 1 \in DOMAIN out /\ Tail(out)[i] = out[i + 1]
      BY <2>1
    <2> QED BY <2>2 DEF Fresh
  <1>2. Heard(r, st, q, inp, Tail(out), s, p)
    BY <1>1 DEF Good, Heard
  <1>3. st \in {"send", "open"} =>
          \E last \in s .. MaxTokens : Flow(r, q, Tail(out), s, p, last)
    BY FlowPop DEF Good, Pieces
  <1> QED BY <1>2, <1>3 DEF Good

\* The next output of a registered stream is put into its queue.
LEMMA GoodPopPut ==
  ASSUME NEW r, NEW st, NEW q, NEW inp, NEW out, NEW s, NEW p,
         Pieces(r, q, inp, out, s, p), Good(r, st, q, inp, out, s, p),
         out # <<>>, st \in {"send", "open"}, NEW x \in 1 .. MaxTokens, <<r, x>> \in out[1].outs
  PROVE  Good(r, st, Append(q, x), inp, Tail(out), s, p)
  <1>1. ~Fresh(r, q, out, s, p)
    <2>1. 1 \in DOMAIN out
      BY DEF Pieces
    <2> QED BY <2>1 DEF Fresh, Names
  <1>2. Heard(r, st, Append(q, x), inp, Tail(out), s, p)
    BY <1>1 DEF Good, Heard
  <1>3. \E last \in s .. MaxTokens : Flow(r, Append(q, x), Tail(out), s, p, last)
    BY FlowPopPut DEF Good, Pieces
  <1> QED BY <1>2, <1>3 DEF Good

\* A message about another request is sent to the engine.
LEMMA GoodInput ==
  ASSUME NEW r, NEW st, NEW q, NEW inp, NEW out, NEW s, NEW p,
         Pieces(r, q, inp, out, s, p), Good(r, st, q, inp, out, s, p),
         NEW y \in InputMessages, y.id # r
  PROVE  Good(r, st, q, Append(inp, y), out, s, p)
  <1> DEFINE i2 == Append(inp, y)
  <1>1. \A i \in DOMAIN i2 : (i \in DOMAIN inp /\ i2[i] = inp[i]) \/ i2[i] = y
    BY DEF Pieces
  <1> HIDE DEF i2
  <1>2. \A i \in DOMAIN i2 : i2[i].id = r => i \in DOMAIN inp /\ i2[i] = inp[i]
    BY <1>1
  <1>3. Heard(r, st, q, i2, out, s, p)
    BY <1>2 DEF Good, Heard
  <1> QED BY <1>3 DEF Good, i2

\* A request is sent, to an engine that is alive or not.
LEMMA GoodSend ==
  ASSUME NEW r, NEW st, NEW q, NEW inp, NEW out, NEW s, NEW p,
         Pieces(r, q, inp, out, s, p), Good(r, st, q, inp, out, s, p), st = "send"
  PROVE  /\ Good(r, "open", q, inp, out, s, p)
         /\ Good(r, "open", q, Append(inp, [type |-> "add", id |-> r]), out, s, p)
  <1> DEFINE y == [type |-> "add", id |-> r]
             i2 == Append(inp, y)
  <1>1. /\ \A i \in DOMAIN i2 : (i \in DOMAIN inp /\ i2[i] = inp[i]) \/ (i = Len(inp) + 1 /\ i2[i] = y)
        /\ y.type = "add"
    BY DEF Pieces, InputMessages
  <1>2. Fresh(r, q, out, s, p) /\ \A i \in DOMAIN inp : inp[i].id # r
    BY DEF Good, Heard
  <1> HIDE DEF i2, y
  <1>3. \A i \in DOMAIN i2 : i2[i].id = r => i = Len(inp) + 1 /\ i2[i].type = "add"
    BY <1>1, <1>2
  <1>4. Heard(r, "open", q, i2, out, s, p)
    BY <1>2, <1>3 DEF Heard
  <1>5. Heard(r, "open", q, inp, out, s, p)
    BY <1>2 DEF Heard
  <1> QED BY <1>4, <1>5 DEF Good, i2, y

\* A stream that has not registered yet goes on.
LEMMA GoodReady ==
  ASSUME NEW r, NEW st, NEW q, NEW inp, NEW out, NEW s, NEW p,
         Pieces(r, q, inp, out, s, p), Good(r, st, q, inp, out, s, p), st \in {"new", "guided"},
         NEW st2 \in {"guided", "send", "raised"}
  PROVE  Good(r, st2, q, inp, out, s, p)
  <1>1. Fresh(r, q, out, s, p) /\ \A i \in DOMAIN inp : inp[i].id # r
    BY DEF Good, Heard
  <1>2. Heard(r, st2, q, inp, out, s, p)
    BY <1>1 DEF Heard
  <1>3. \E last \in s .. MaxTokens : Flow(r, q, out, s, p, last)
    <2>1. p = Absent /\ s = 0
      BY <1>1 DEF Fresh
    <2>2. s = 0 /\ 0 \in 0 .. MaxTokens /\ Flow(r, q, out, s, Absent, 0)
      BY <1>1, FlowFresh DEF Pieces
    <2> QED BY <2>1, <2>2
  <1> QED BY <1>2, <1>3 DEF Good

\* A stream ends.
LEMMA GoodEnd ==
  ASSUME NEW r, NEW q, NEW inp, NEW out, NEW s, NEW p, NEW how \in Ended,
         how = "finished" => s = MaxTokens
  PROVE  Good(r, how, q, inp, out, s, p)
  BY DEF Good, Heard, Ended

\* The consumer of an open stream gets an output.
LEMMA GoodYield ==
  ASSUME NEW r, NEW st, NEW q, NEW inp, NEW out, NEW s, NEW p,
         Pieces(r, q, inp, out, s, p), Good(r, st, q, inp, out, s, p),
         st = "open", q # <<>>, Head(q) # Exception
  PROVE  /\ Head(q) = s + 1 /\ Head(q) \in 0 .. MaxTokens
         /\ Good(r, st, Tail(q), inp, out, Head(q), p)
  <1>1. PICK last \in s .. MaxTokens : Flow(r, q, out, s, p, last)
    BY DEF Good
  <1>2. /\ Head(q) = s + 1 /\ Head(q) \in 0 .. MaxTokens /\ last \in Head(q) .. MaxTokens
        /\ Flow(r, Tail(q), out, Head(q), p, last)
    BY <1>1, FlowYield DEF Pieces
  <1>3. ~Fresh(r, q, out, s, p)
    <2>1. 1 \in DOMAIN q /\ Head(q) = q[1]
      BY DEF Pieces
    <2> QED BY <2>1 DEF Fresh
  <1>4. Heard(r, st, Tail(q), inp, out, Head(q), p)
    BY <1>3 DEF Good, Heard
  <1> QED BY <1>2, <1>4 DEF Good

\* The engine takes a message.
LEMMA GoodTail ==
  ASSUME NEW r, NEW st, NEW q, NEW inp, NEW out, NEW s, NEW p,
         Pieces(r, q, inp, out, s, p), Good(r, st, q, inp, out, s, p), inp # <<>>
  PROVE  Good(r, st, q, Tail(inp), out, s, p)
  <1> DEFINE i2 == Tail(inp)
  <1>1. \A i \in DOMAIN i2 : i \in Int /\ i + 1 \in DOMAIN inp /\ i2[i] = inp[i + 1]
    BY DEF Pieces
  <1> HIDE DEF i2
  <1>2. st \in {"new", "guided", "send"} =>
          Fresh(r, q, out, s, p) /\ \A i \in DOMAIN i2 : i2[i].id # r
    BY <1>1 DEF Good, Heard
  <1>3. ASSUME st = "open", NEW i \in DOMAIN i2, i2[i].id = r
        PROVE  /\ i2[i].type = "add" /\ Fresh(r, q, out, s, p)
               /\ \A j \in DOMAIN i2 : i2[j].id = r => i = j
    <2>1. i + 1 \in DOMAIN inp /\ inp[i + 1].id = r
      BY <1>1, <1>3
    <2>2. /\ inp[i + 1].type = "add" /\ Fresh(r, q, out, s, p)
          /\ \A j \in DOMAIN inp : inp[j].id = r => i + 1 = j
      BY <1>3, <2>1 DEF Good, Heard
    <2>3. \A j \in DOMAIN i2 : i2[j].id = r => i + 1 = j + 1
      BY <1>1, <2>2
    <2> QED BY <1>1, <2>2, <2>3
  <1>4. Heard(r, st, q, i2, out, s, p)
    BY <1>2, <1>3 DEF Heard
  <1> QED BY <1>4 DEF Good, i2

\* The engine begins to work on a request.
LEMMA GoodAdd ==
  ASSUME NEW r, NEW st, NEW q, NEW inp, NEW out, NEW s, NEW p,
         Pieces(r, q, inp, out, s, p), Good(r, st, q, inp, out, s, p),
         inp # <<>>, inp[1].id = r
  PROVE  Good(r, st, q, Tail(inp), out, s, 0)
  <1> DEFINE i2 == Tail(inp)
  <1>1. /\ 1 \in DOMAIN inp
        /\ \A i \in DOMAIN i2 : i + 1 # 1 /\ i + 1 \in DOMAIN inp /\ i2[i] = inp[i + 1]
    BY DEF Pieces
  <1> HIDE DEF i2
  <1>2. st \notin {"new", "guided", "send"}
    BY <1>1 DEF Good, Heard
  <1>3. CASE st = "open"
    <2>1. Fresh(r, q, out, s, p) /\ \A j \in DOMAIN inp : inp[j].id = r => 1 = j
      BY <1>1, <1>3 DEF Good, Heard
    <2>2. \A i \in DOMAIN i2 : i2[i].id # r
      BY <1>1, <2>1
    <2>3. Heard(r, st, q, i2, out, s, 0)
      BY <1>2, <2>2 DEF Heard
    <2>4. s = 0 /\ 0 \in 0 .. MaxTokens /\ Flow(r, q, out, s, 0, 0)
      BY <2>1, FlowFresh DEF Pieces
    <2> QED BY <1>3, <2>3, <2>4 DEF Good, i2
  <1>4. CASE st # "open"
    BY <1>2, <1>4 DEF Good, Heard
  <1> QED BY <1>3, <1>4

\* A request leaves the engine.
LEMMA GoodDrop ==
  ASSUME NEW r, NEW st, NEW q, NEW inp, NEW out, NEW s, NEW p,
         Good(r, st, q, inp, out, s, p)
  PROVE  Good(r, st, q, inp, out, s, Absent)
  <1>1. Fresh(r, q, out, s, p) => Fresh(r, q, out, s, Absent)
    BY DEF Fresh
  <1>2. Heard(r, st, q, inp, out, s, Absent)
    BY <1>1 DEF Good, Heard
  <1> QED BY <1>2, FlowDrop DEF Good

\* The engine produces the next output of a request.
LEMMA GoodStep ==
  ASSUME NEW r, NEW st, NEW q, NEW inp, NEW out, NEW s, NEW p,
         Pieces(r, q, inp, out, s, p), Good(r, st, q, inp, out, s, p),
         p # Absent, NEW m \in Messages,
         \A k \in 1 .. MaxTokens : <<r, k>> \in m.outs <=> k = p + 1,
         NEW p2 \in {Absent, p + 1}
  PROVE  Good(r, st, q, inp, Append(out, m), s, p2)
  <1>1. ~Fresh(r, q, out, s, p)
    BY DEF Fresh
  <1>2. Heard(r, st, q, inp, Append(out, m), s, p2)
    BY <1>1 DEF Good, Heard
  <1>3. ASSUME st \in {"send", "open"}
        PROVE  \E last \in s .. MaxTokens : Flow(r, q, Append(out, m), s, p2, last)
    <2>1. PICK last \in s .. MaxTokens : Flow(r, q, out, s, p, last)
      BY <1>3 DEF Good
    <2>2. p \in 0 .. MaxTokens - 1
      BY MQEngineAssumption DEF Pieces, Absent
    <2>3. p + 1 \in s .. MaxTokens /\ Flow(r, q, Append(out, m), s, p2, p + 1)
      BY <2>1, <2>2, FlowStep DEF Pieces
    <2> QED BY <2>3
  <1> QED BY <1>2, <1>3 DEF Good

\* The engine ends; part of what it sent still arrives.
LEMMA GoodExit ==
  ASSUME NEW r, NEW st, NEW q, NEW inp, NEW out, NEW s, NEW p,
         Pieces(r, q, inp, out, s, p), Good(r, st, q, inp, out, s, p),
         NEW kept \in 0 .. Len(out)
  PROVE  Good(r, st, q, <<>>, SubSeq(out, 1, kept), s, Absent)
  <1>1. Fresh(r, q, out, s, p) => Fresh(r, q, SubSeq(out, 1, kept), s, Absent)
    <2>1. \A i \in DOMAIN SubSeq(out, 1, kept) :
            i \in DOMAIN out /\ SubSeq(out, 1, kept)[i] = out[i]
      BY DEF Pieces
    <2> QED BY <2>1 DEF Fresh
  <1>2. Heard(r, st, q, <<>>, SubSeq(out, 1, kept), s, Absent)
    BY <1>1 DEF Good, Heard
  <1>3. st \in {"send", "open"} =>
          \E last \in s .. MaxTokens : Flow(r, q, SubSeq(out, 1, kept), s, Absent, last)
    BY FlowCut DEF Good, Pieces
  <1> QED BY <1>2, <1>3 DEF Good

\* The abort of a request is not overtaken by what is sent later about others.
LEMMA LeavingInput ==
  ASSUME NEW r, NEW inp \in Seq(InputMessages), NEW p, Leaving(r, inp, p),
         NEW y \in InputMessages, y.id # r
  PROVE  Leaving(r, Append(inp, y), p)
  <1> DEFINE i2 == Append(inp, y)
  <1>1. /\ \A i \in DOMAIN i2 : (i \in DOMAIN inp /\ i2[i] = inp[i]) \/ i2[i] = y
        /\ \A i \in DOMAIN inp : i \in DOMAIN i2 /\ i2[i] = inp[i]
    OBVIOUS
  <1>2. y # [type |-> "add", id |-> r]
    OBVIOUS
  <1> HIDE DEF i2
  <1>3. p # Absent => \E j \in DOMAIN i2 : i2[j] = [type |-> "abort", id |-> r]
    BY <1>1 DEF Leaving
  <1>4. ASSUME NEW i \in DOMAIN i2, i2[i] = [type |-> "add", id |-> r]
        PROVE  \E j \in DOMAIN i2 : i2[j] = [type |-> "abort", id |-> r] /\ i < j
    <2>1. i \in DOMAIN inp /\ inp[i] = [type |-> "add", id |-> r]
      BY <1>1, <1>2, <1>4
    <2>2. PICK j \in DOMAIN inp : inp[j] = [type |-> "abort", id |-> r] /\ i < j
      BY <2>1 DEF Leaving
    <2> QED BY <1>1, <2>2
  <1> QED BY <1>3, <1>4 DEF Leaving, i2

\* A stream that leaves tells the engine.
LEMMA LeavingAbort ==
  ASSUME NEW r \in Requests, NEW inp \in Seq(InputMessages), NEW p
  PROVE  Leaving(r, Append(inp, [type |-> "abort", id |-> r]), p)
  <1> DEFINE y == [type |-> "abort", id |-> r]
             i2 == Append(inp, y)
  <1>1. /\ \A i \in DOMAIN i2 : i < Len(inp) + 1 \/ i2[i] = y
        /\ Len(inp) + 1 \in DOMAIN i2 /\ i2[Len(inp) + 1] = y
        /\ y # [type |-> "add", id |-> r]
    BY DEF InputMessages
  <1> HIDE DEF i2
  <1> QED BY <1>1 DEF Leaving, i2

\* The engine takes a message that is not the abort.
LEMMA LeavingTail ==
  ASSUME NEW r, NEW inp \in Seq(InputMessages), NEW p, Leaving(r, inp, p), inp # <<>>,
         inp[1] # [type |-> "abort", id |-> r], NEW p2,
         p2 = p \/ inp[1] = [type |-> "add", id |-> r]
  PROVE  Leaving(r, Tail(inp), p2)
  <1> DEFINE i2 == Tail(inp)
  <1>1. /\ \A i \in DOMAIN i2 : i \in Int /\ i + 1 \in DOMAIN inp /\ i2[i] = inp[i + 1]
        /\ \A i \in DOMAIN inp : i \in Int /\ (i # 1 => i - 1 \in DOMAIN i2 /\ i2[i - 1] = inp[i])
        /\ 1 \in DOMAIN inp
    OBVIOUS
  <1> HIDE DEF i2
  <1>2. p2 # Absent => \E j \in DOMAIN i2 : i2[j] = [type |-> "abort", id |-> r]
    <2> SUFFICES ASSUME p2 # Absent
                 PROVE  \E j \in DOMAIN i2 : i2[j] = [type |-> "abort", id |-> r]
      OBVIOUS
    <2>1. PICK j \in DOMAIN inp : inp[j] = [type |-> "abort", id |-> r]
      BY <1>1 DEF Leaving
    <2>2. j # 1
      BY <2>1
    <2> QED BY <1>1, <2>1, <2>2
  <1>3. ASSUME NEW i \in DOMAIN i2, i2[i] = [type |-> "add", id |-> r]
        PROVE  \E j \in DOMAIN i2 : i2[j] = [type |-> "abort", id |-> r] /\ i < j
    <2>1. i + 1 \in DOMAIN inp /\ inp[i + 1] = [type |-> "add", id |-> r]
      BY <1>1, <1>3
    <2>2. PICK j \in DOMAIN inp : inp[j] = [type |-> "abort", id |-> r] /\ i + 1 < j
      BY <2>1 DEF Leaving
    <2>3. j # 1 /\ j \in Int /\ i \in Int
      BY <1>1, <2>2
    <2>4. j - 1 \in DOMAIN i2 /\ i2[j - 1] = [type |-> "abort", id |-> r] /\ i < j - 1
      BY <1>1, <2>2, <2>3
    <2> QED BY <2>4
  <1> QED BY <1>2, <1>3 DEF Leaving, i2

\* The engine takes the abort.
LEMMA LeavingTailAbort ==
  ASSUME NEW r, NEW inp \in Seq(InputMessages), NEW p, Leaving(r, inp, p), inp # <<>>,
         inp[1] = [type |-> "abort", id |-> r]
  PROVE  Leaving(r, Tail(inp), Absent)
  <1> DEFINE i2 == Tail(inp)
  <1>1. /\ \A i \in DOMAIN i2 : i \in Int /\ i >= 1 /\ i + 1 \in DOMAIN inp /\ i2[i] = inp[i + 1]
        /\ \A i \in DOMAIN inp : i \in Int /\ (i # 1 => i - 1 \in DOMAIN i2 /\ i2[i - 1] = inp[i])
    OBVIOUS
  <1> HIDE DEF i2
  <1>3. ASSUME NEW i \in DOMAIN i2, i2[i] = [type |-> "add", id |-> r]
        PROVE  \E j \in DOMAIN i2 : i2[j] = [type |-> "abort", id |-> r] /\ i < j
    <2>1. i + 1 \in DOMAIN inp /\ inp[i + 1] = [type |-> "add", id |-> r]
      BY <1>1, <1>3
    <2>2. PICK j \in DOMAIN inp : inp[j] = [type |-> "abort", id |-> r] /\ i + 1 < j
      BY <2>1 DEF Leaving
    <2>3. j # 1 /\ j \in Int /\ i \in Int
      BY <1>1, <2>2
    <2>4. j - 1 \in DOMAIN i2 /\ i2[j - 1] = [type |-> "abort", id |-> r] /\ i < j - 1
      BY <1>1, <2>2, <2>3
    <2> QED BY <2>4
  <1> QED BY <1>3 DEF Leaving, i2

\* A request that is in the engine may be worked on, or end there.
LEMMA LeavingStep ==
  ASSUME NEW r, NEW inp, NEW p, Leaving(r, inp, p), NEW p2, p # Absent \/ p2 = Absent
  PROVE  Leaving(r, inp, p2)
  BY DEF Leaving

-----------------------------------------------------------------------------
(* The steps.                                                               *)

\* The pieces of a request are well typed.
LEMMA PiecesType ==
  ASSUME TypeOK
  PROVE  \A r \in Requests : Pieces(r, outQueue[r], input, output, seen[r], progress[r])
  BY DEF TypeOK, Pieces, Messages

\* The kinds of requests are fixed.
LEMMA KindsFixed ==
  ASSUME UNCHANGED kind
  PROVE  /\ Generates' = Generates /\ Adapters' = Adapters
         /\ Plain' = Plain /\ Guided' = Guided
  BY DEF Generates, Adapters, Plain, Guided

\* Every request has one of three kinds.
LEMMA Kinds ==
  ASSUME TypeOK
  PROVE  /\ Generates \subseteq Requests
         /\ \A r \in Requests : r \in Generates <=> r \notin Adapters
  <1>1. kind \in [Requests -> {"plain", "guided", "adapter"}]
    BY MQEngineAssumption DEF TypeOK
  <1> QED BY <1>1 DEF Generates, Plain, Guided, Adapters

\* The operators that the last two conjuncts of the invariant are made of say what the
\* properties say.
LEMMA Unfold ==
  ASSUME NEW r \in Requests
  PROVE  /\ GoodRequest(r) =>
              /\ stream[r] \in {"send", "open"} =>
                   \E last \in seen[r] .. MaxTokens : OnTheWay(r, last)
              /\ stream[r] = "finished" => seen[r] = MaxTokens
         /\ Leaving(r, input, progress[r]) =>
              LET aborts == {i \in DOMAIN input : input[i] = [type |-> "abort", id |-> r]}
              IN  /\ progress[r] # Absent => aborts # {}
                  /\ \A i \in DOMAIN input :
                       input[i] = [type |-> "add", id |-> r] => \E j \in aborts : i < j
  <1>1. \A last : Flow(r, outQueue[r], output, seen[r], progress[r], last) <=> OnTheWay(r, last)
    BY Zenon DEF Flow, OnTheWay, Carries
  <1>2. GoodRequest(r) =>
              /\ stream[r] \in {"send", "open"} =>
                   \E last \in seen[r] .. MaxTokens : OnTheWay(r, last)
              /\ stream[r] = "finished" => seen[r] = MaxTokens
    BY <1>1 DEF GoodRequest, Good
  <1>3. Leaving(r, input, progress[r]) =>
              LET aborts == {i \in DOMAIN input : input[i] = [type |-> "abort", id |-> r]}
              IN  /\ progress[r] # Absent => aborts # {}
                  /\ \A i \in DOMAIN input :
                       input[i] = [type |-> "add", id |-> r] => \E j \in aborts : i < j
    BY DEF Leaving
  <1> QED BY <1>2, <1>3

\* What is sent to the engine is appended, or lost with the process.
LEMMA Sent ==
  ASSUME TypeOK, NEW r \in Requests, NEW type \in {"add", "abort", "adapter"}
  PROVE  /\ [type |-> type, id |-> r] \in InputMessages
         /\ SentInput(type, r) \in Seq(InputMessages)
         /\ engine.at = "dead" => SentInput(type, r) = input
         /\ engine.at # "dead" => SentInput(type, r) = Append(input, [type |-> type, id |-> r])
  <1> DEFINE y == [type |-> type, id |-> r]
  <1>1. y \in InputMessages
    BY DEF InputMessages
  <1>2. input \in Seq(InputMessages)
    BY DEF TypeOK
  <1> HIDE DEF y
  <1>3. Append(input, y) \in Seq(InputMessages)
    BY <1>1, <1>2
  <1>4. SentInput(type, r) = IF engine.at = "dead" THEN input ELSE Append(input, y)
    BY DEF SentInput, y
  <1>5. SentInput(type, r) \in Seq(InputMessages)
    BY <1>2, <1>3, <1>4
  <1> QED BY <1>1, <1>4, <1>5 DEF y

\* Initially nothing is on its way.
LEMMA InitIndInv == ASSUME Init PROVE IndInv
  <1> USE MQEngineAssumption
  <1>1. TypeOK
    <2>1. outQueue \in [Requests -> Seq(0 .. MaxTokens)] /\ input \in Seq(InputMessages)
      BY DEF Init
    <2>2. output \in Seq([outs : SUBSET (Requests \X (1 .. MaxTokens)), error : BOOLEAN,
                          id : Requests \cup {None}, dead : BOOLEAN])
      BY DEF Init
    <2>3. seen \in [Requests -> 0 .. MaxTokens] /\ progress \in [Requests -> Absent .. MaxTokens - 1]
      BY DEF Init, Absent
    <2>4. engine \in [at : {"input", "step", "exit", "dead"}, errored : BOOLEAN]
      BY DEF Init
    <2>5. stream \in [Requests -> {"new", "guided", "send", "open"} \cup Ended]
      BY DEF Init
    <2>6. {errored, outputLoop, heartLoop, unhealthy} \subseteq BOOLEAN
      BY DEF Init
    <2> QED BY <2>1, <2>2, <2>3, <2>4, <2>5, <2>6 DEF Init, TypeOK
  <1>2. Sorted /\ DeadIsIdle
    BY DEF Init, Sorted, DeadIsIdle
  <1>3. ASSUME NEW r \in Generates
        PROVE  GoodRequest(r) /\ LeavingRequest(r)
    <2>1. r \in Requests
      BY DEF Generates, Plain, Guided
    <2>2. stream[r] = "new" /\ outQueue[r] = <<>> /\ input = <<>> /\ output = <<>>
          /\ seen[r] = 0 /\ progress[r] = Absent
      BY <2>1 DEF Init
    <2>3. Fresh(r, <<>>, <<>>, 0, Absent)
      BY DEF Fresh
    <2>4. Good(r, "new", <<>>, <<>>, <<>>, 0, Absent)
      BY <2>3 DEF Good, Heard
    <2> QED BY <2>2, <2>4 DEF GoodRequest, LeavingRequest
  <1> QED BY <1>1, <1>2, <1>3 DEF IndInv

\* A call of generate() or add_lora() begins.
LEMMA StartStep ==
  ASSUME IndInv, NEW c \in Requests, Start(c) \/ GuidedReady(c), UNCHANGED kind
  PROVE  IndInv'
  <1>1. /\ stream \in [Requests -> {"new", "guided", "send", "open"} \cup Ended]
        /\ stream[c] \in {"new", "guided"}
        /\ UNCHANGED <<outQueue, seen, errored, outputLoop, heartLoop, input, output,
                       unhealthy, engine, progress, kind>>
    BY DEF IndInv, TypeOK, Start, GuidedReady, engineSide
  <1>2. \E st2 \in {"guided", "send", "raised"} :
          /\ stream' = [stream EXCEPT ![c] = st2]
          /\ st2 = "raised" => errored
    <2> DEFINE v == CASE c \in Adapters -> "send"
                      [] c \in Generates /\ errored -> "raised"
                      [] c \in Plain /\ ~errored -> "send"
                      [] c \in Guided /\ ~errored -> "guided"
    <2>1. CASE GuidedReady(c)
      BY <2>1 DEF GuidedReady
    <2>2. CASE Start(c)
      <3>1. stream' = [stream EXCEPT ![c] = v]
        BY <2>2 DEF Start
      <3>2. c \in Adapters \/ c \in Plain \/ c \in Guided
        BY Kinds DEF IndInv, Generates
      <3>3. /\ c \in Generates <=> c \in Plain \/ c \in Guided
            /\ ~(c \in Adapters /\ c \in Generates) /\ ~(c \in Plain /\ c \in Guided)
        BY DEF Generates, Plain, Guided, Adapters
      <3>4. errored \in BOOLEAN
        BY DEF IndInv, TypeOK
      <3>5. CASE c \in Adapters
        <4>1. v = "send"
          BY <3>3, <3>4, <3>5
        <4> QED BY <3>1, <4>1
      <3>6. CASE c \in Generates /\ errored
        <4>1. v = "raised"
          BY <3>3, <3>4, <3>6
        <4> QED BY <3>1, <3>6, <4>1
      <3>7. CASE c \in Plain /\ ~errored
        <4>1. v = "send"
          BY <3>3, <3>4, <3>7
        <4> QED BY <3>1, <4>1
      <3>8. CASE c \in Guided /\ ~errored
        <4>1. v = "guided"
          BY <3>3, <3>4, <3>8
        <4> QED BY <3>1, <4>1
      <3> QED BY <3>2, <3>3, <3>5, <3>6, <3>7, <3>8
    <2> QED BY <2>1, <2>2
  <1>3. PICK st2 \in {"guided", "send", "raised"} :
          stream' = [stream EXCEPT ![c] = st2] /\ (st2 = "raised" => errored)
    BY <1>2
  <1>4. TypeOK'
    BY <1>1, <1>3 DEF IndInv, TypeOK, Ended
  <1>5. Sorted' /\ DeadIsIdle'
    BY <1>1, KindsFixed DEF IndInv, Sorted, DeadIsIdle
  <1>6. ASSUME NEW r \in Generates
        PROVE  GoodRequest(r)' /\ LeavingRequest(r)'
    <2>1. r \in Requests /\ GoodRequest(r) /\ LeavingRequest(r)
      BY Kinds DEF IndInv
    <2>2. CASE r # c
      BY <1>1, <1>3, <2>1, <2>2 DEF GoodRequest, LeavingRequest
    <2>3. CASE r = c
      <3>1. stream'[r] = st2
        BY <1>1, <1>3, <2>3
      <3>2. Good(r, st2, outQueue[r], input, output, seen[r], progress[r])
        <4>1. Pieces(r, outQueue[r], input, output, seen[r], progress[r])
          BY PiecesType, <2>1 DEF IndInv
        <4> QED BY <1>1, <2>1, <2>3, <4>1, GoodReady DEF GoodRequest
      <3>3. LeavingRequest(r)'
        BY <1>1, <1>3, <3>1 DEF LeavingRequest
      <3> QED BY <1>1, <3>1, <3>2, <3>3 DEF GoodRequest
    <2> QED BY <2>2, <2>3
  <1> QED BY <1>4, <1>5, <1>6, KindsFixed DEF IndInv

\* A registered request is sent.
LEMMA SendStep ==
  ASSUME IndInv, NEW c \in Requests, Send(c), UNCHANGED kind
  PROVE  IndInv'
  <1> DEFINE t == IF c \in Adapters THEN "adapter" ELSE "add"
             y == [type |-> t, id |-> c]
  <1>0. TypeOK /\ input \in Seq(InputMessages)
    BY DEF IndInv, TypeOK
  <1>1. /\ stream \in [Requests -> {"new", "guided", "send", "open"} \cup Ended]
        /\ stream[c] = "send" /\ stream' = [stream EXCEPT ![c] = "open"]
        /\ UNCHANGED <<outQueue, seen, errored, outputLoop, heartLoop, output,
                       unhealthy, engine, progress, kind>>
    BY DEF IndInv, TypeOK, Send, engineSide
  <1>2. /\ y \in InputMessages /\ y.id = c /\ (y.type = "adapter" <=> c \in Adapters)
        /\ (c \notin Adapters => y = [type |-> "add", id |-> c])
        /\ input' \in Seq(InputMessages)
        /\ engine.at = "dead" => input' = input
        /\ engine.at # "dead" => input' = Append(input, y)
    <2>1. t \in {"add", "abort", "adapter"}
      OBVIOUS
    <2>2. input' = SentInput(t, c)
      BY DEF Send
    <2>3. (y.type = "adapter" <=> c \in Adapters) /\ y.id = c
      OBVIOUS
    <2>4. c \notin Adapters => y = [type |-> "add", id |-> c]
      OBVIOUS
    <2> HIDE DEF t
    <2> QED BY <1>0, <2>1, <2>2, <2>3, <2>4, Sent
  <1> HIDE DEF y, t
  <1>3. TypeOK'
    BY <1>1, <1>2 DEF IndInv, TypeOK, Ended
  <1>4. Sorted'
    <2>1. \A i \in DOMAIN input' : (i \in DOMAIN input /\ input'[i] = input[i]) \/ input'[i] = y
      BY <1>0, <1>2
    <2> QED BY <1>1, <1>2, <2>1, KindsFixed DEF IndInv, Sorted
  <1>5. DeadIsIdle'
    BY <1>1, <1>2 DEF IndInv, DeadIsIdle
  <1>6. ASSUME NEW r \in Generates
        PROVE  GoodRequest(r)' /\ LeavingRequest(r)'
    <2>1. r \in Requests /\ GoodRequest(r) /\ LeavingRequest(r) /\ r \notin Adapters
      BY Kinds DEF IndInv
    <2>2. Pieces(r, outQueue[r], input, output, seen[r], progress[r])
      BY PiecesType, <2>1 DEF IndInv
    <2>3. CASE r # c
      <3>1. stream'[r] = stream[r]
        BY <1>1, <2>1, <2>3
      <3>2. Good(r, stream[r], outQueue[r], input', output, seen[r], progress[r])
        BY <1>2, <2>1, <2>2, <2>3, GoodInput DEF GoodRequest
      <3>3. Leaving(r, input, progress[r]) => Leaving(r, input', progress[r])
        BY <1>0, <1>2, <2>3, LeavingInput
      <3> QED BY <1>1, <2>1, <3>1, <3>2, <3>3 DEF GoodRequest, LeavingRequest
    <2>4. CASE r = c
      <3>1. stream'[r] = "open" /\ stream[r] = "send"
        BY <1>1, <2>1, <2>4
      <3>2. Good(r, "open", outQueue[r], input', output, seen[r], progress[r])
        BY <1>2, <2>1, <2>2, <2>4, <3>1, GoodSend, ZenonT(60) DEF GoodRequest
      <3> QED BY <1>1, <3>1, <3>2 DEF GoodRequest, LeavingRequest
    <2> QED BY <2>3, <2>4
  <1> QED BY <1>3, <1>4, <1>5, <1>6, KindsFixed DEF IndInv

\* A stream ends: its consumer has what it waited for, or goes away.
LEMMA LeaveStep ==
  ASSUME IndInv, NEW c \in Requests, NEW how \in Ended, stream[c] = "open", Leave(c, how),
         seen' \in [Requests -> 0 .. MaxTokens],
         \A r \in Requests : r # c => seen'[r] = seen[r],
         how = "finished" /\ c \in Generates => seen'[c] = MaxTokens,
         UNCHANGED <<errored, outputLoop, heartLoop, output, unhealthy, engine, progress, kind>>
  PROVE  IndInv'
  <1> DEFINE y == [type |-> "abort", id |-> c]
  <1>0. TypeOK /\ input \in Seq(InputMessages) /\ <<>> \in Seq(0 .. MaxTokens)
    BY DEF IndInv, TypeOK
  <1>1. /\ stream \in [Requests -> {"new", "guided", "send", "open"} \cup Ended]
        /\ outQueue \in [Requests -> Seq(0 .. MaxTokens)]
        /\ stream' = [stream EXCEPT ![c] = how]
        /\ outQueue' = [outQueue EXCEPT ![c] = <<>>]
    BY DEF IndInv, TypeOK, Leave
  <1>2. /\ y \in InputMessages /\ y.id = c /\ y.type # "adapter"
        /\ input' \in Seq(InputMessages)
        /\ input' = input \/ (input' = Append(input, y) /\ c \in Generates /\ engine.at # "dead")
        /\ (c \in Generates /\ how # "finished" /\ ~errored /\ engine.at # "dead"
              => input' = Append(input, y))
    <2>1. /\ y \in InputMessages /\ SentInput("abort", c) \in Seq(InputMessages)
          /\ engine.at = "dead" => SentInput("abort", c) = input
          /\ engine.at # "dead" => SentInput("abort", c) = Append(input, y)
      BY <1>0, Sent
    <2>2. input' = IF c \in Generates /\ how # "finished" /\ ~errored
                   THEN SentInput("abort", c) ELSE input
      BY DEF Leave
    <2>3. y.id = c /\ y.type # "adapter"
      OBVIOUS
    <2> HIDE DEF y
    <2> QED BY <1>0, <2>1, <2>2, <2>3
  <1>a. y = [type |-> "abort", id |-> c]
    OBVIOUS
  <1> HIDE DEF y
  <1>3. TypeOK'
    BY <1>0, <1>1, <1>2 DEF TypeOK
  <1>4. Sorted'
    <2>1. \A i \in DOMAIN input' : (i \in DOMAIN input /\ input'[i] = input[i])
                                     \/ (input'[i] = y /\ c \in Generates)
      BY <1>0, <1>2, SMTT(60)
    <2>2. c \in Generates => c \notin Adapters
      BY <1>0, Kinds
    <2> QED BY <1>2, <2>1, <2>2, KindsFixed DEF IndInv, Sorted
  <1>5. DeadIsIdle'
    BY <1>1, <1>2 DEF IndInv, DeadIsIdle
  <1>6. ASSUME NEW r \in Generates
        PROVE  GoodRequest(r)' /\ LeavingRequest(r)'
    <2>1. r \in Requests /\ GoodRequest(r) /\ LeavingRequest(r) /\ r \notin Adapters
      BY Kinds DEF IndInv
    <2>2. Pieces(r, outQueue[r], input, output, seen[r], progress[r])
      BY PiecesType, <2>1 DEF IndInv
    <2>3. CASE r # c
      <3>1. stream'[r] = stream[r] /\ outQueue'[r] = outQueue[r] /\ seen'[r] = seen[r]
        BY <1>1, <2>1, <2>3
      <3>2. Good(r, stream[r], outQueue[r], input', output, seen[r], progress[r])
        BY <1>2, <2>1, <2>2, <2>3, GoodInput, ZenonT(60) DEF GoodRequest
      <3>3. Leaving(r, input, progress[r]) => Leaving(r, input', progress[r])
        BY <1>0, <1>2, <2>3, LeavingInput
      <3> QED BY <2>1, <3>1, <3>2, <3>3 DEF GoodRequest, LeavingRequest
    <2>4. CASE r = c
      <3>1. stream'[r] = how /\ (how = "finished" => seen'[r] = MaxTokens)
        BY <1>1, <2>1, <2>4
      <3>2. Good(r, how, outQueue'[r], input', output', seen'[r], progress'[r])
        BY <3>1, GoodEnd
      <3>3. ASSUME how # "finished", ~errored
            PROVE  Leaving(r, input', progress[r])
        <4>1. CASE engine.at = "dead"
          <5>1. input = <<>> /\ progress[r] = Absent
            BY <2>1, <4>1 DEF IndInv, DeadIsIdle
          <5>2. input' = <<>>
            BY <1>2, <4>1, <5>1
          <5> QED BY <5>1, <5>2 DEF Leaving
        <4>2. CASE engine.at # "dead"
          <5>1. input' = Append(input, y)
            BY <1>2, <2>4, <3>3, <4>2
          <5> QED BY <1>0, <1>a, <2>1, <2>4, <5>1, LeavingAbort
        <4> QED BY <4>1, <4>2
      <3>4. LeavingRequest(r)'
        BY <3>1, <3>3 DEF LeavingRequest
      <3> QED BY <3>1, <3>2, <3>4 DEF GoodRequest
    <2> QED BY <2>3, <2>4
  <1> QED BY <1>3, <1>4, <1>5, <1>6, KindsFixed DEF IndInv

\* The consumer gets an item of the queue.
LEMMA YieldStep ==
  ASSUME IndInv, NEW c \in Requests, Yield(c), UNCHANGED kind
  PROVE  IndInv'
  <1> DEFINE k == Head(outQueue[c])
  <1>0. TypeOK
    BY DEF IndInv
  <1>1. /\ stream[c] = "open" /\ outQueue[c] # <<>>
        /\ outQueue \in [Requests -> Seq(0 .. MaxTokens)]
        /\ seen \in [Requests -> 0 .. MaxTokens]
        /\ UNCHANGED <<errored, outputLoop, heartLoop, output, unhealthy, engine, progress, kind>>
    BY <1>0 DEF TypeOK, Yield, engineSide
  <1>2. k \in 0 .. MaxTokens
    <2>1. outQueue[c] \in Seq(0 .. MaxTokens)
      BY <1>1
    <2>2. \A q \in Seq(0 .. MaxTokens) : q # <<>> => Head(q) \in 0 .. MaxTokens
      BY MQEngineAssumption
    <2> QED BY <1>1, <2>1, <2>2
  <1>3. CASE k = Exception
    <2>1. Leave(c, "raised") /\ seen' = seen
      BY <1>3 DEF Yield
    <2> QED BY <1>1, <2>1, LeaveStep DEF Ended
  <1>4. CASE k # Exception /\ (k = MaxTokens \/ c \in Adapters)
    <2>1. Leave(c, "finished") /\ seen' = [seen EXCEPT ![c] = k]
      BY <1>4 DEF Yield
    <2>2. /\ seen' \in [Requests -> 0 .. MaxTokens] /\ seen'[c] = k
          /\ \A r \in Requests : r # c => seen'[r] = seen[r]
      BY <1>1, <1>2, <2>1
    <2>3. c \in Generates => seen'[c] = MaxTokens
      BY <1>0, <1>4, <2>2, Kinds
    <2> HIDE DEF k
    <2> QED BY <1>1, <2>1, <2>2, <2>3, LeaveStep DEF Ended
  <1>5. CASE k # Exception /\ ~(k = MaxTokens \/ c \in Adapters)
    <2>1. /\ seen' = [seen EXCEPT ![c] = k]
          /\ outQueue' = [outQueue EXCEPT ![c] = Tail(@)]
          /\ UNCHANGED <<stream, input>>
      BY <1>5 DEF Yield
    <2>2. TypeOK'
      <3>1. seen' \in [Requests -> 0 .. MaxTokens]
        BY <1>1, <1>2, <2>1
      <3>2. Tail(outQueue[c]) \in Seq(0 .. MaxTokens)
        BY <1>1
      <3>3. outQueue' \in [Requests -> Seq(0 .. MaxTokens)]
        BY <1>1, <2>1, <3>2
      <3> QED BY <1>0, <1>1, <2>1, <3>1, <3>3 DEF TypeOK
    <2>3. Sorted' /\ DeadIsIdle'
      BY <1>1, <2>1, KindsFixed DEF IndInv, Sorted, DeadIsIdle
    <2>4. ASSUME NEW r \in Generates
          PROVE  GoodRequest(r)' /\ LeavingRequest(r)'
      <3>1. r \in Requests /\ GoodRequest(r) /\ LeavingRequest(r) /\ r \notin Adapters
        BY Kinds DEF IndInv
      <3>2. Pieces(r, outQueue[r], input, output, seen[r], progress[r])
        BY PiecesType, <3>1 DEF IndInv
      <3>3. CASE r # c
        <4>1. outQueue'[r] = outQueue[r] /\ seen'[r] = seen[r]
          BY <1>1, <2>1, <3>1, <3>3
        <4> QED BY <1>1, <2>1, <3>1, <4>1 DEF GoodRequest, LeavingRequest
      <3>4. CASE r = c
        <4>1. outQueue'[r] = Tail(outQueue[r]) /\ seen'[r] = Head(outQueue[r])
          BY <1>1, <2>1, <3>1, <3>4
        <4>2. Good(r, stream[r], Tail(outQueue[r]), input, output, Head(outQueue[r]), progress[r])
          BY <1>1, <1>5, <3>1, <3>2, <3>4, GoodYield DEF GoodRequest
        <4> QED BY <1>1, <2>1, <3>1, <4>1, <4>2 DEF GoodRequest, LeavingRequest
      <3> QED BY <3>3, <3>4
    <2> QED BY <2>2, <2>3, <2>4, KindsFixed, <1>1 DEF IndInv
  <1> QED BY <1>3, <1>4, <1>5

\* The consumer goes away.
LEMMA CancelStep ==
  ASSUME IndInv, NEW c \in Requests, Cancel(c), UNCHANGED kind
  PROVE  IndInv'
  <1>1. /\ stream[c] = "open" /\ Leave(c, "cancelled") /\ seen' = seen
        /\ seen \in [Requests -> 0 .. MaxTokens]
        /\ UNCHANGED <<errored, outputLoop, heartLoop, output, unhealthy, engine, progress, kind>>
    BY DEF Cancel, engineSide, IndInv, TypeOK
  <1> QED BY <1>1, LeaveStep DEF Ended

\* What run_output_handler_loop does with a message, seen from one request.
LEMMA Delivered ==
  ASSUME IndInv, HandleOutput, NEW r \in Requests
  PROVE  \/ /\ outQueue'[r] = outQueue[r]
            /\ ~Names(output[1], r) \/ stream[r] \notin {"send", "open"}
         \/ /\ stream[r] \in {"send", "open"} /\ ~Names(output[1], r)
            /\ outQueue'[r] = Append(outQueue[r], Exception)
         \/ /\ stream[r] \in {"send", "open"}
            /\ \E x \in 1 .. MaxTokens : /\ <<r, x>> \in output[1].outs
                                         /\ outQueue'[r] = Append(outQueue[r], x)
  <1> DEFINE m == output[1]
  <1>1. 1 \in DOMAIN output /\ output \in Seq(Messages)
    BY DEF HandleOutput, HandleOutputAt, IndInv, TypeOK, Messages
  <1>2. m \in Messages /\ m.outs \in SUBSET (Requests \X (1 .. MaxTokens))
        /\ (m.error => m.outs = {}) /\ m.error \in BOOLEAN
    <2>1. m \in Messages
      BY <1>1
    <2>2. m.error => m.outs = {}
      BY <1>1 DEF IndInv, Sorted
    <2> QED BY <2>1, <2>2 DEF Messages
  <1>3. r \in Registered <=> stream[r] \in {"send", "open"}
    BY DEF Registered
  <1>4. CASE m.error
    <2> DEFINE f == [x \in Targets(m) |-> Exception]
    <2>1. PutAll(f)
      BY <1>4 DEF HandleOutput, HandleOutputAt
    <2>2. outQueue'[r] = IF r \in Registered \cap DOMAIN f THEN Append(outQueue[r], f[r])
                         ELSE outQueue[r]
      BY <2>1 DEF PutAll
    <2>3. r \in DOMAIN f => f[r] = Exception
      OBVIOUS
    <2>4. ~Names(m, r)
      BY <1>2, <1>4 DEF Names
    <2> HIDE DEF f, m
    <2>5. CASE r \in Registered \cap DOMAIN f
      BY <1>3, <2>2, <2>3, <2>4, <2>5 DEF m
    <2>6. CASE r \notin Registered \cap DOMAIN f
      BY <2>2, <2>4, <2>6 DEF m
    <2> QED BY <2>5, <2>6
  <1>5. CASE ~m.error
    <2> DEFINE f == [x \in {o[1] : o \in m.outs} |-> (CHOOSE o \in m.outs : o[1] = x)[2]]
    <2>1. PutAll(f)
      BY <1>5 DEF HandleOutput, HandleOutputAt
    <2>2. outQueue'[r] = IF r \in Registered \cap DOMAIN f THEN Append(outQueue[r], f[r])
                         ELSE outQueue[r]
      BY <2>1 DEF PutAll
    <2>3. ASSUME r \in DOMAIN f
          PROVE  f[r] \in 1 .. MaxTokens /\ <<r, f[r]>> \in m.outs
      <3> DEFINE o0 == CHOOSE o \in m.outs : o[1] = r
      <3>1. \E o \in m.outs : o[1] = r
        BY <2>3
      <3>2. o0 \in m.outs /\ o0[1] = r
        BY <3>1
      <3>3. f[r] = o0[2]
        BY <2>3
      <3> HIDE DEF o0, f, m
      <3>4. o0 = <<o0[1], o0[2]>> /\ o0[2] \in 1 .. MaxTokens
        BY <1>2, <3>2
      <3> QED BY <3>2, <3>3, <3>4
    <2>4. r \notin DOMAIN f => ~Names(m, r)
      <3> SUFFICES ASSUME NEW k \in 1 .. MaxTokens, <<r, k>> \in m.outs
                   PROVE  r \in DOMAIN f
        BY DEF Names
      <3>1. r = <<r, k>>[1]
        OBVIOUS
      <3> QED BY <3>1
    <2> HIDE DEF f, m
    <2>5. CASE r \in Registered \cap DOMAIN f
      BY <1>3, <2>2, <2>3, <2>5 DEF m
    <2>6. CASE r \notin DOMAIN f
      BY <2>2, <2>4, <2>6 DEF m
    <2>7. CASE r \notin Registered
      BY <1>3, <2>2, <2>7
    <2> QED BY <2>5, <2>6, <2>7
  <1> QED BY <1>4, <1>5

\* run_output_handler_loop handles a message.
LEMMA HandleOutputStep ==
  ASSUME IndInv, HandleOutput, UNCHANGED kind
  PROVE  IndInv'
  <1> DEFINE m == output[1]
  <1>0. TypeOK /\ output \in Seq(Messages) /\ outQueue \in [Requests -> Seq(0 .. MaxTokens)]
    BY DEF IndInv, TypeOK, Messages
  <1>1. /\ 1 \in DOMAIN output
        /\ UNCHANGED <<stream, seen, outputLoop, heartLoop, input, unhealthy, engine, progress, kind>>
        /\ output' = RemoveAt(output, 1)
        /\ errored' = (errored \/ (m.error /\ m.dead))
    BY DEF HandleOutput, HandleOutputAt, engineSide
  <1>2. output # <<>> /\ Tail(output) \in Seq(Messages)
    BY <1>0, <1>1
  <1>3. output' = Tail(output)
    BY <1>0, <1>1, <1>2, TakeFirst
  <1>4. errored' \in BOOLEAN /\ (errored => errored')
    <2>1. errored \in BOOLEAN
      BY <1>0 DEF TypeOK
    <2> QED BY <1>1, <2>1
  <1> HIDE DEF m
  <1>5. TypeOK'
    <2>1. ASSUME NEW r \in Requests
          PROVE  outQueue'[r] \in Seq(0 .. MaxTokens)
      <3>1. outQueue[r] \in Seq(0 .. MaxTokens) /\ Exception \in 0 .. MaxTokens
            /\ \A x \in 1 .. MaxTokens : x \in 0 .. MaxTokens
        BY <1>0, MQEngineAssumption DEF Exception
      <3>2. \A x \in 0 .. MaxTokens : Append(outQueue[r], x) \in Seq(0 .. MaxTokens)
        BY <3>1
      <3> QED BY <3>1, <3>2, Delivered
    <2>2. \E f : outQueue' = [r \in Requests |-> f[r]]
      <3> DEFINE g(k) == [r \in Requests |-> IF r \in Registered \cap DOMAIN k
                                             THEN Append(outQueue[r], k[r]) ELSE outQueue[r]]
      <3>1. \E k : outQueue' = g(k)
        BY DEF HandleOutput, HandleOutputAt, PutAll
      <3> QED BY <3>1
    <2>3. outQueue' \in [Requests -> Seq(0 .. MaxTokens)]
      BY <2>1, <2>2
    <2> QED BY <1>0, <1>1, <1>2, <1>3, <1>4, <2>3 DEF TypeOK, Messages
  <1>6. Sorted' /\ DeadIsIdle'
    <2>1. \A i \in DOMAIN output' : i + 1 \in DOMAIN output /\ output'[i] = output[i + 1]
      BY <1>0, <1>2, <1>3
    <2> QED BY <1>1, <2>1, KindsFixed DEF IndInv, Sorted, DeadIsIdle
  <1>7. ASSUME NEW r \in Generates
        PROVE  GoodRequest(r)' /\ LeavingRequest(r)'
    <2>1. r \in Requests /\ GoodRequest(r) /\ LeavingRequest(r)
      BY Kinds DEF IndInv
    <2>2. /\ Pieces(r, outQueue[r], input, output, seen[r], progress[r])
          /\ Pieces(r, outQueue[r], input, Tail(output), seen[r], progress[r])
      <3>1. Pieces(r, outQueue[r], input, output, seen[r], progress[r])
        BY PiecesType, <1>0, <2>1
      <3> QED BY <1>2, <3>1 DEF Pieces
    <2>3. Good(r, stream[r], outQueue'[r], input, Tail(output), seen[r], progress[r])
      <3>0. Good(r, stream[r], outQueue[r], input, output, seen[r], progress[r])
        BY <2>1 DEF GoodRequest
      <3>1. CASE /\ outQueue'[r] = outQueue[r]
                 /\ ~Names(output[1], r) \/ stream[r] \notin {"send", "open"}
        BY <1>2, <2>2, <3>0, <3>1, GoodPop
      <3>2. CASE /\ stream[r] \in {"send", "open"} /\ ~Names(output[1], r)
                 /\ outQueue'[r] = Append(outQueue[r], Exception)
        <4>1. Good(r, stream[r], outQueue[r], input, Tail(output), seen[r], progress[r])
          BY <1>2, <2>2, <3>0, <3>2, GoodPop
        <4> QED BY <2>2, <3>2, <4>1, GoodPut
      <3>3. CASE /\ stream[r] \in {"send", "open"}
                 /\ \E x \in 1 .. MaxTokens : /\ <<r, x>> \in output[1].outs
                                              /\ outQueue'[r] = Append(outQueue[r], x)
        <4>1. PICK x \in 1 .. MaxTokens : /\ <<r, x>> \in output[1].outs
                                          /\ outQueue'[r] = Append(outQueue[r], x)
          BY <3>3
        <4>2. Good(r, stream[r], Append(outQueue[r], x), input, Tail(output), seen[r], progress[r])
          BY <1>2, <2>2, <3>0, <3>3, <4>1, GoodPopPut
        <4> QED BY <4>1, <4>2
      <3> QED BY <2>1, <3>1, <3>2, <3>3, Delivered
    <2>4. GoodRequest(r)'
      BY <1>1, <1>3, <2>3 DEF GoodRequest
    <2>5. LeavingRequest(r)'
      BY <1>1, <1>4, <2>1 DEF LeavingRequest
    <2> QED BY <2>4, <2>5
  <1> QED BY <1>1, <1>5, <1>6, <1>7, KindsFixed DEF IndInv

\* The loop ends in the error state and alerts all streams.
LEMMA OutputTimeoutStep ==
  ASSUME IndInv, OutputTimeout, UNCHANGED kind
  PROVE  IndInv'
  <1>0. TypeOK /\ outQueue \in [Requests -> Seq(0 .. MaxTokens)]
    BY DEF IndInv, TypeOK
  <1>1. /\ UNCHANGED <<stream, seen, errored, heartLoop, input, output, unhealthy, engine,
                       progress, kind>>
        /\ outputLoop' = FALSE
        /\ outQueue' = [r \in Requests |-> IF stream[r] \in {"send", "open"}
                                           THEN Append(outQueue[r], Exception) ELSE outQueue[r]]
    <2>1. PutAll([r \in Requests |-> Exception])
      BY DEF OutputTimeout
    <2>2. \A r \in Requests : r \in Registered \cap DOMAIN [x \in Requests |-> Exception]
                                <=> stream[r] \in {"send", "open"}
      BY DEF Registered
    <2>3. outQueue' = [r \in Requests |-> IF stream[r] \in {"send", "open"}
                                          THEN Append(outQueue[r], Exception) ELSE outQueue[r]]
      BY <2>1, <2>2 DEF PutAll
    <2> QED BY <2>3 DEF OutputTimeout, engineSide
  <1>2. TypeOK'
    <2>1. ASSUME NEW r \in Requests
          PROVE  Append(outQueue[r], Exception) \in Seq(0 .. MaxTokens)
      <3>1. outQueue[r] \in Seq(0 .. MaxTokens) /\ Exception \in 0 .. MaxTokens
        BY <1>0, MQEngineAssumption DEF Exception
      <3> QED BY <3>1
    <2>2. outQueue' \in [Requests -> Seq(0 .. MaxTokens)]
      BY <1>0, <1>1, <2>1
    <2> QED BY <1>0, <1>1, <2>2 DEF TypeOK
  <1>3. Sorted' /\ DeadIsIdle'
    BY <1>1, KindsFixed DEF IndInv, Sorted, DeadIsIdle
  <1>4. ASSUME NEW r \in Generates
        PROVE  GoodRequest(r)' /\ LeavingRequest(r)'
    <2>1. r \in Requests /\ GoodRequest(r) /\ LeavingRequest(r)
      BY Kinds DEF IndInv
    <2>2. Pieces(r, outQueue[r], input, output, seen[r], progress[r])
      BY PiecesType, <1>0, <2>1
    <2>3. CASE stream[r] \in {"send", "open"}
      <3>1. outQueue'[r] = Append(outQueue[r], Exception)
        BY <1>1, <2>1, <2>3
      <3>2. Good(r, stream[r], Append(outQueue[r], Exception), input, output, seen[r], progress[r])
        BY <2>1, <2>2, <2>3, GoodPut DEF GoodRequest
      <3> QED BY <1>1, <2>1, <3>1, <3>2 DEF GoodRequest, LeavingRequest
    <2>4. CASE stream[r] \notin {"send", "open"}
      <3>1. outQueue'[r] = outQueue[r]
        BY <1>1, <2>1, <2>4
      <3> QED BY <1>1, <2>1, <3>1 DEF GoodRequest, LeavingRequest
    <2> QED BY <2>3, <2>4
  <1> QED BY <1>1, <1>2, <1>3, <1>4, KindsFixed DEF IndInv

\* The client learns that the engine is not well, or the engine goes on with nothing
\* that concerns a request.
LEMMA QuietStep ==
  ASSUME IndInv, UNCHANGED kind,
         Heartbeat \/ InputDone \/ \E ok \in BOOLEAN : HealthCheck(ok)
  PROVE  IndInv'
  <1>0. TypeOK /\ engine \in [at : {"input", "step", "exit", "dead"}, errored : BOOLEAN]
        /\ {errored, heartLoop, unhealthy} \subseteq BOOLEAN
    BY DEF IndInv, TypeOK
  <1>1. /\ UNCHANGED <<kind, stream, outQueue, seen, outputLoop, input, output, progress>>
        /\ errored' \in BOOLEAN /\ heartLoop' \in BOOLEAN /\ unhealthy' \in BOOLEAN
        /\ engine' \in [at : {"input", "step", "exit", "dead"}, errored : BOOLEAN]
        /\ errored => errored'
        /\ engine'.at = "dead" => engine.at = "dead"
        /\ engine.at = "exit" => engine'.at = "exit"
    <2>1. CASE Heartbeat
      BY <1>0, <2>1 DEF Heartbeat, engineSide
    <2>2. CASE InputDone
      BY <1>0, <2>2 DEF InputDone, client
    <2>3. CASE \E ok \in BOOLEAN : HealthCheck(ok)
      <3>1. PICK ok \in BOOLEAN : HealthCheck(ok)
        BY <2>3
      <3>2. /\ UNCHANGED <<stream, outQueue, seen, errored, outputLoop, heartLoop, input, output,
                           progress>>
            /\ unhealthy' = (unhealthy \/ engine.errored \/ ~ok)
            /\ engine' = [engine EXCEPT !.errored = engine.errored \/ ~ok]
        BY <3>1 DEF HealthCheck, client
      <3>3. engine.errored \in BOOLEAN /\ engine.at \in {"input", "step", "exit", "dead"}
        BY <1>0
      <3>4. engine' \in [at : {"input", "step", "exit", "dead"}, errored : BOOLEAN]
            /\ engine'.at = engine.at
        BY <1>0, <3>2
      <3>5. unhealthy' \in BOOLEAN
        BY <1>0, <3>2, <3>3
      <3> QED BY <1>0, <3>2, <3>4, <3>5
    <2> QED BY <2>1, <2>2, <2>3
  <1>2. TypeOK'
    BY <1>0, <1>1 DEF TypeOK
  <1>3. Sorted' /\ DeadIsIdle'
    BY <1>1, KindsFixed DEF IndInv, Sorted, DeadIsIdle
  <1>4. ASSUME NEW r \in Generates
        PROVE  GoodRequest(r)' /\ LeavingRequest(r)'
    <2>1. r \in Requests /\ GoodRequest(r) /\ LeavingRequest(r)
      BY Kinds DEF IndInv
    <2> QED BY <1>1, <2>1 DEF GoodRequest, LeavingRequest
  <1> QED BY <1>1, <1>2, <1>3, <1>4, KindsFixed DEF IndInv

\* A message of the engine with no output of a generation: an error, or the answer of
\* add_lora.
Quiet(m) ==
  /\ m \in Messages /\ (m.error => m.outs = {})
  /\ \A r \in Generates : ~Names(m, r)

\* The socket after the engine has sent up to two of them.
Said(out2) ==
  \/ out2 = output
  \/ \E m \in Messages : Quiet(m) /\ out2 = Append(output, m)
  \/ \E m, n \in Messages : Quiet(m) /\ Quiet(n) /\ out2 = Append(Append(output, m), n)

\* Errors are such messages.
LEMMA ErrorsQuiet ==
  ASSUME NEW id \in Requests \cup {None}, NEW dead \in BOOLEAN
  PROVE  RPCError(id, dead) \in Messages /\ Quiet(RPCError(id, dead))
  <1> DEFINE m == RPCError(id, dead)
  <1>1. m.outs = {} /\ m \in Messages
    BY DEF RPCError, Messages
  <1> HIDE DEF m
  <1>2. Quiet(m)
    BY <1>1 DEF Quiet, Names
  <1> QED BY <1>1, <1>2 DEF m

\* So is the answer of add_lora.
LEMMA AdapterQuiet ==
  ASSUME NEW a \in Adapters
  PROVE  Outputs({<<a, 1>>}) \in Messages /\ Quiet(Outputs({<<a, 1>>}))
  <1> DEFINE m == Outputs({<<a, 1>>})
  <1>0. 1 \in 1 .. MaxTokens /\ a \in Requests /\ {<<a, 1>>} \in SUBSET (Requests \X (1 .. MaxTokens))
    BY MQEngineAssumption DEF Adapters
  <1>1. m.outs = {<<a, 1>>} /\ m.error = FALSE /\ m \in Messages
    BY <1>0 DEF Outputs, Messages
  <1>2. a \notin Generates
    BY DEF Adapters, Generates, Plain, Guided
  <1> HIDE DEF m
  <1>3. \A r, k : <<r, k>> \in m.outs => r = a
    BY <1>1
  <1>4. Quiet(m)
    BY <1>1, <1>2, <1>3 DEF Quiet, Names
  <1> QED BY <1>1, <1>4 DEF m

\* Appending a sequence of one message.
LEMMA ConcatOne ==
  ASSUME NEW S, NEW s \in Seq(S), NEW x \in S
  PROVE  s \o <<x>> = Append(s, x)
  OBVIOUS

\* What the engine says leaves the socket well typed and sorted.
LEMMA SaidType ==
  ASSUME IndInv, NEW out2, Said(out2)
  PROVE  /\ out2 \in Seq(Messages)
         /\ \A i \in DOMAIN out2 : out2[i].error => out2[i].outs = {}
  <1>1. output \in Seq(Messages) /\ \A i \in DOMAIN output : output[i].error => output[i].outs = {}
    BY DEF IndInv, TypeOK, Sorted, Messages
  <1>2. ASSUME NEW o \in Seq(Messages), \A i \in DOMAIN o : o[i].error => o[i].outs = {},
               NEW m \in Messages, Quiet(m)
        PROVE  /\ Append(o, m) \in Seq(Messages)
               /\ \A i \in DOMAIN Append(o, m) : Append(o, m)[i].error => Append(o, m)[i].outs = {}
    <2>1. \A i \in DOMAIN Append(o, m) :
            (i \in DOMAIN o /\ Append(o, m)[i] = o[i]) \/ Append(o, m)[i] = m
      OBVIOUS
    <2>2. Append(o, m) \in Seq(Messages)
      OBVIOUS
    <2> QED BY <1>2, <2>1, <2>2 DEF Quiet
  <1>3. CASE out2 = output
    BY <1>1, <1>3
  <1>4. CASE \E m \in Messages : Quiet(m) /\ out2 = Append(output, m)
    BY <1>1, <1>2, <1>4
  <1>5. CASE \E m, n \in Messages : Quiet(m) /\ Quiet(n) /\ out2 = Append(Append(output, m), n)
    <2>1. PICK m \in Messages, n \in Messages :
            Quiet(m) /\ Quiet(n) /\ out2 = Append(Append(output, m), n)
      BY <1>5
    <2> DEFINE o == Append(output, m)
    <2>2. o \in Seq(Messages) /\ \A i \in DOMAIN o : o[i].error => o[i].outs = {}
      BY <1>1, <1>2, <2>1
    <2> HIDE DEF o
    <2>3. /\ Append(o, n) \in Seq(Messages)
          /\ \A i \in DOMAIN Append(o, n) : Append(o, n)[i].error => Append(o, n)[i].outs = {}
      BY <1>2, <2>1, <2>2
    <2> QED BY <2>1, <2>3 DEF o
  <1> QED BY <1>3, <1>4, <1>5 DEF Said

\* And it changes nothing for a generation.
LEMMA SaidGood ==
  ASSUME NEW out2, Said(out2),
         NEW r \in Generates, NEW st, NEW q, NEW inp, NEW s, NEW p,
         Pieces(r, q, inp, output, s, p), Good(r, st, q, inp, output, s, p)
  PROVE  Good(r, st, q, inp, out2, s, p)
  <1>1. CASE out2 = output
    BY <1>1
  <1>2. CASE \E m \in Messages : Quiet(m) /\ out2 = Append(output, m)
    BY <1>2, GoodPush DEF Quiet
  <1>3. CASE \E m, n \in Messages : Quiet(m) /\ Quiet(n) /\ out2 = Append(Append(output, m), n)
    <2>1. PICK m \in Messages, n \in Messages :
            Quiet(m) /\ Quiet(n) /\ out2 = Append(Append(output, m), n)
      BY <1>3
    <2>2. Good(r, st, q, inp, Append(output, m), s, p)
      BY <2>1, GoodPush DEF Quiet
    <2>3. Pieces(r, q, inp, Append(output, m), s, p)
      BY DEF Pieces
    <2>4. Good(r, st, q, inp, Append(Append(output, m), n), s, p)
      BY <2>1, <2>2, <2>3, GoodPush DEF Quiet
    <2> QED BY <2>1, <2>4
  <1> QED BY <1>1, <1>2, <1>3 DEF Said

\* The engine takes a message and does what it says.
LEMMA HandleInputStep ==
  ASSUME IndInv, NEW accept \in BOOLEAN, HandleInput(accept), UNCHANGED kind
  PROVE  IndInv'
  <1> DEFINE m == Head(input)
             dead == IF engine.errored /\ m.type = "add" THEN <<RPCError(m.id, TRUE)>> ELSE <<>>
  <1>0. /\ TypeOK /\ input \in Seq(InputMessages) /\ input # <<>> /\ engine.at = "input"
        /\ output \in Seq(Messages) /\ engine.errored \in BOOLEAN
        /\ progress \in [Requests -> Absent .. MaxTokens - 1]
    BY DEF IndInv, TypeOK, HandleInput, Messages
  <1>1. /\ m = input[1] /\ 1 \in DOMAIN input /\ m \in InputMessages /\ Tail(input) \in Seq(InputMessages)
        /\ \A i \in DOMAIN Tail(input) : i + 1 \in DOMAIN input /\ Tail(input)[i] = input[i + 1]
    BY <1>0
  <1>2. /\ m.type \in {"add", "abort", "adapter"} /\ m.id \in Requests
        /\ m.type = "adapter" <=> m.id \in Adapters
        /\ m = [type |-> m.type, id |-> m.id]
    <2>1. m.type \in {"add", "abort", "adapter"} /\ m.id \in Requests /\ m = [type |-> m.type, id |-> m.id]
      BY <1>1 DEF InputMessages
    <2>2. m.type = "adapter" <=> m.id \in Adapters
      BY <1>1 DEF IndInv, Sorted
    <2> QED BY <2>1, <2>2
  <1>3. /\ input' = Tail(input)
        /\ UNCHANGED <<kind, stream, outQueue, seen, errored, outputLoop, heartLoop, unhealthy, engine>>
    BY DEF HandleInput, client
  <1>4. /\ Said(output')
        /\ \/ m.type = "add" /\ progress' = [progress EXCEPT ![m.id] = 0]
           \/ m.type \in {"add", "adapter"} /\ progress' = progress
           \/ m.type = "abort" /\ progress' = [progress EXCEPT ![m.id] = Absent]
    <2>1. /\ m.type = "add" /\ accept => /\ progress' = [progress EXCEPT ![m.id] = 0]
                                        /\ output' = output \o dead
          /\ m.type = "add" /\ ~accept =>
               /\ output' = output \o dead \o <<RPCError(m.id, engine.errored)>>
               /\ progress' = progress
          /\ m.type = "adapter" =>
               /\ output' = Append(output, IF accept THEN Outputs({<<m.id, 1>>})
                                           ELSE RPCError(m.id, FALSE))
               /\ progress' = progress
          /\ m.type = "abort" => /\ progress' = [progress EXCEPT ![m.id] = Absent]
                                 /\ output' = output
      <3>1. m.type = "add" /\ accept => /\ progress' = [progress EXCEPT ![m.id] = 0]
                                        /\ output' = output \o dead
        BY DEF HandleInput
      <3>2. m.type = "add" /\ ~accept =>
               /\ output' = output \o dead \o <<RPCError(m.id, engine.errored)>>
               /\ progress' = progress
        BY DEF HandleInput
      <3>3. m.type = "adapter" =>
               /\ output' = Append(output, IF accept THEN Outputs({<<m.id, 1>>})
                                           ELSE RPCError(m.id, FALSE))
               /\ progress' = progress
        BY DEF HandleInput
      <3>4. m.type = "abort" => /\ progress' = [progress EXCEPT ![m.id] = Absent]
                                /\ output' = output
        BY DEF HandleInput
      <3> QED BY <3>1, <3>2, <3>3, <3>4
    <2> HIDE DEF m
    <2>2. /\ RPCError(m.id, TRUE) \in Messages /\ Quiet(RPCError(m.id, TRUE))
          /\ RPCError(m.id, FALSE) \in Messages /\ Quiet(RPCError(m.id, FALSE))
          /\ RPCError(m.id, engine.errored) \in Messages /\ Quiet(RPCError(m.id, engine.errored))
      BY <1>0, <1>2, ErrorsQuiet
    <2>3. CASE m.type = "add"
      <3>1. dead = <<>> \/ dead = <<RPCError(m.id, TRUE)>>
        OBVIOUS
      <3>2. output \o dead = output \/ output \o dead = Append(output, RPCError(m.id, TRUE))
        <4>1. output \o <<>> = output
          BY <1>0
        <4>2. output \o <<RPCError(m.id, TRUE)>> = Append(output, RPCError(m.id, TRUE))
          BY <1>0, <2>2, ConcatOne
        <4> QED BY <3>1, <4>1, <4>2
      <3>3. CASE accept
        <4>1. Said(output \o dead)
          BY <2>2, <3>2 DEF Said
        <4> QED BY <2>1, <2>3, <3>3, <4>1
      <3>4. CASE ~accept
        <4> DEFINE e == RPCError(m.id, engine.errored)
                   f == RPCError(m.id, TRUE)
        <4>1. output \o dead \o <<e>> = Append(output, e)
                \/ output \o dead \o <<e>> = Append(Append(output, f), e)
          <5>1. output \o <<e>> = Append(output, e)
            BY <1>0, <2>2, ConcatOne
          <5>2. Append(output, f) \in Seq(Messages)
            <6>1. f \in Messages
              BY <2>2
            <6> HIDE DEF f
            <6> QED BY <1>0, <6>1
          <5> HIDE DEF dead, e, f
          <5>3. Append(output, f) \o <<e>> = Append(Append(output, f), e)
            BY <2>2, <5>2 DEF e
          <5> QED BY <3>2, <5>1, <5>3 DEF f
        <4>2. Said(output \o dead \o <<e>>)
          <5> HIDE DEF dead
          <5> QED BY <2>2, <4>1 DEF Said
        <4> QED BY <2>1, <2>3, <3>4, <4>2
      <3> QED BY <3>3, <3>4
    <2>4. CASE m.type = "adapter"
      <3> DEFINE x == IF accept THEN Outputs({<<m.id, 1>>}) ELSE RPCError(m.id, FALSE)
      <3>1. x \in Messages /\ Quiet(x)
        BY <1>2, <2>2, <2>4, AdapterQuiet
      <3> HIDE DEF x
      <3>2. Said(Append(output, x))
        BY <3>1 DEF Said
      <3> QED BY <2>1, <2>4, <3>2 DEF x
    <2>5. CASE m.type = "abort"
      BY <2>1, <2>5 DEF Said
    <2> QED BY <1>2, <2>3, <2>4, <2>5
  <1> HIDE DEF m, dead
  <1>5. progress' \in [Requests -> Absent .. MaxTokens - 1]
    <2>1. 0 \in Absent .. MaxTokens - 1 /\ Absent \in Absent .. MaxTokens - 1
      BY MQEngineAssumption DEF Absent
    <2> QED BY <1>0, <1>2, <1>4, <2>1
  <1>6. TypeOK'
    <2>1. output' \in Seq(Messages)
      BY <1>4, SaidType
    <2> QED BY <1>0, <1>1, <1>3, <1>5, <2>1 DEF TypeOK, Messages
  <1>7. Sorted'
    BY <1>1, <1>3, <1>4, SaidType, KindsFixed DEF IndInv, Sorted
  <1>8. DeadIsIdle'
    BY <1>0, <1>3 DEF DeadIsIdle
  <1>9. ASSUME NEW r \in Generates
        PROVE  GoodRequest(r)' /\ LeavingRequest(r)'
    <2>1. r \in Requests /\ GoodRequest(r) /\ LeavingRequest(r) /\ r \notin Adapters
      BY Kinds DEF IndInv
    <2>2. Pieces(r, outQueue[r], input, output, seen[r], progress[r])
      BY PiecesType, <1>0, <2>1
    <2>3. Pieces(r, outQueue[r], Tail(input), output, seen[r], progress'[r])
      BY <1>1, <1>5, <2>1, <2>2 DEF Pieces
    <2>4. Good(r, stream[r], outQueue[r], input, output, seen[r], progress[r])
      BY <2>1 DEF GoodRequest
    <2>5. Good(r, stream[r], outQueue[r], Tail(input), output, seen[r], progress[r])
      BY <1>0, <2>2, <2>4, GoodTail
    <2>6. /\ Good(r, stream[r], outQueue[r], Tail(input), output, seen[r], progress'[r])
          /\ Leaving(r, input, progress[r]) => Leaving(r, Tail(input), progress'[r])
      <3>1. CASE m.id = r /\ m.type = "add" /\ progress' = [progress EXCEPT ![m.id] = 0]
        <4>1. progress'[r] = 0
          BY <1>0, <2>1, <3>1
        <4>2. Good(r, stream[r], outQueue[r], Tail(input), output, seen[r], 0)
          BY <1>0, <1>1, <2>2, <2>4, <3>1, GoodAdd
        <4>3. input[1] = [type |-> "add", id |-> r] /\ input[1] # [type |-> "abort", id |-> r]
          BY <1>1, <1>2, <3>1
        <4>4. Leaving(r, input, progress[r]) => Leaving(r, Tail(input), 0)
          BY <1>0, <4>3, LeavingTail
        <4> QED BY <4>1, <4>2, <4>4
      <3>2. CASE m.id = r /\ m.type = "abort"
        <4>1. progress'[r] = Absent
          BY <1>0, <1>4, <2>1, <3>2
        <4>2. Good(r, stream[r], outQueue[r], Tail(input), output, seen[r], Absent)
          BY <2>5, GoodDrop
        <4>3. input[1] = [type |-> "abort", id |-> r]
          BY <1>1, <1>2, <3>2
        <4>4. Leaving(r, input, progress[r]) => Leaving(r, Tail(input), Absent)
          BY <1>0, <4>3, LeavingTailAbort
        <4> QED BY <4>1, <4>2, <4>4
      <3>3. CASE (m.id # r \/ m.type # "abort") /\ progress'[r] = progress[r]
        <4>1. input[1] # [type |-> "abort", id |-> r]
          BY <1>1, <1>2, <3>3
        <4>2. Leaving(r, input, progress[r]) => Leaving(r, Tail(input), progress[r])
          BY <1>0, <4>1, LeavingTail
        <4> QED BY <2>5, <3>3, <4>2
      <3>4. m.id # r => progress'[r] = progress[r]
        BY <1>0, <1>4, <2>1
      <3> QED BY <1>4, <3>1, <3>2, <3>3, <3>4
    <2>7. Good(r, stream[r], outQueue[r], Tail(input), output', seen[r], progress'[r])
      BY <1>4, <2>3, <2>6, SaidGood
    <2>8. GoodRequest(r)'
      BY <1>3, <2>7 DEF GoodRequest
    <2>9. LeavingRequest(r)'
      BY <1>3, <2>1, <2>6 DEF LeavingRequest
    <2> QED BY <2>8, <2>9
  <1> QED BY <1>3, <1>6, <1>7, <1>8, <1>9, KindsFixed DEF IndInv

\* The engine takes a message, or none, and says something; it may drop requests, and it
\* goes on or fails.
LEMMA TalkStep ==
  ASSUME IndInv, UNCHANGED <<kind, stream, outQueue, seen, errored, outputLoop, heartLoop>>,
         Said(output'), unhealthy' \in BOOLEAN,
         engine' \in [at : {"input", "step", "exit", "dead"}, errored : BOOLEAN],
         engine.at \in {"input", "step"}, engine'.at # "dead",
         input' = input \/ (input # <<>> /\ input' = Tail(input) /\ engine'.at = "exit"),
         progress' \in [Requests -> Absent .. MaxTokens - 1],
         \A r \in Requests : progress'[r] = progress[r] \/ progress'[r] = Absent
  PROVE  IndInv'
  <1>0. TypeOK /\ input \in Seq(InputMessages)
    BY DEF IndInv, TypeOK
  <1>1. input # <<>> =>
          /\ Tail(input) \in Seq(InputMessages)
          /\ \A i \in DOMAIN Tail(input) : i + 1 \in DOMAIN input /\ Tail(input)[i] = input[i + 1]
    BY <1>0
  <1>2. TypeOK'
    <2>1. output' \in Seq(Messages)
      BY SaidType
    <2>2. input' \in Seq(InputMessages)
      BY <1>0, <1>1
    <2> QED BY <1>0, <2>1, <2>2 DEF TypeOK, Messages
  <1>3. Sorted'
    <2>1. \A i \in DOMAIN input' : input'[i].type = "adapter" <=> input'[i].id \in Adapters
      <3>1. \A i \in DOMAIN input : input[i].type = "adapter" <=> input[i].id \in Adapters
        BY DEF IndInv, Sorted
      <3>2. CASE input' = input
        BY <3>1, <3>2
      <3>3. CASE input # <<>> /\ input' = Tail(input)
        BY <1>1, <3>1, <3>3
      <3> QED BY <3>2, <3>3
    <2> QED BY <2>1, SaidType, KindsFixed DEF Sorted
  <1>4. DeadIsIdle'
    BY DEF DeadIsIdle
  <1>5. ASSUME NEW r \in Generates
        PROVE  GoodRequest(r)' /\ LeavingRequest(r)'
    <2>1. r \in Requests /\ GoodRequest(r) /\ LeavingRequest(r)
      BY Kinds DEF IndInv
    <2>2. Pieces(r, outQueue[r], input, output, seen[r], progress[r])
      BY PiecesType, <1>0, <2>1
    <2>3. Pieces(r, outQueue[r], input', output, seen[r], progress'[r])
      BY <1>0, <1>1, <2>1, <2>2 DEF Pieces
    <2>4. Good(r, stream[r], outQueue[r], input', output, seen[r], progress[r])
      <3>1. Good(r, stream[r], outQueue[r], input, output, seen[r], progress[r])
        BY <2>1 DEF GoodRequest
      <3>2. CASE input' = input
        BY <3>1, <3>2
      <3>3. CASE input # <<>> /\ input' = Tail(input)
        BY <2>2, <3>1, <3>3, GoodTail
      <3> QED BY <3>2, <3>3
    <2>5. Good(r, stream[r], outQueue[r], input', output, seen[r], progress'[r])
      BY <2>1, <2>4, GoodDrop
    <2>6. Good(r, stream[r], outQueue[r], input', output', seen[r], progress'[r])
      BY <2>3, <2>5, SaidGood
    <2>7. LeavingRequest(r)'
      BY <2>1, LeavingStep DEF LeavingRequest
    <2> QED BY <2>6, <2>7 DEF GoodRequest
  <1> QED BY <1>2, <1>3, <1>4, <1>5, KindsFixed DEF IndInv

\* handle_new_input fails.
LEMMA HandleInputFailsStep ==
  ASSUME IndInv, NEW inCallback \in BOOLEAN, HandleInputFails(inCallback), UNCHANGED kind
  PROVE  IndInv'
  <1>1. progress \in [Requests -> Absent .. MaxTokens - 1]
    BY DEF IndInv, TypeOK
  <1>2. Said(output')
    <2>1. RPCError(None, TRUE) \in Messages /\ Quiet(RPCError(None, TRUE))
      BY ErrorsQuiet
    <2> QED BY <2>1 DEF HandleInputFails, Said
  <1>3. /\ UNCHANGED <<kind, stream, outQueue, seen, errored, outputLoop, heartLoop, progress>>
        /\ unhealthy' = TRUE /\ engine' = [at |-> "exit", errored |-> TRUE]
        /\ engine.at = "input" /\ input # <<>> /\ input' = Tail(input)
    BY DEF HandleInputFails, client, Fail
  <1> QED BY <1>1, <1>2, <1>3, TalkStep

\* A request is refused in a step.
LEMMA InputErrorStep ==
  ASSUME IndInv, NEW c \in Requests, InputError(c), UNCHANGED kind
  PROVE  IndInv'
  <1>1. /\ progress \in [Requests -> Absent .. MaxTokens - 1] /\ unhealthy \in BOOLEAN
        /\ engine \in [at : {"input", "step", "exit", "dead"}, errored : BOOLEAN]
    BY DEF IndInv, TypeOK
  <1>2. Said(output')
    <2>1. RPCError(c, FALSE) \in Messages /\ Quiet(RPCError(c, FALSE))
      BY ErrorsQuiet
    <2> QED BY <2>1 DEF InputError, Said
  <1>3. /\ UNCHANGED <<kind, stream, outQueue, seen, errored, outputLoop, heartLoop, unhealthy, input>>
        /\ engine' = [engine EXCEPT !.at = "input"] /\ engine.at = "step"
        /\ progress' = [progress EXCEPT ![c] = Absent]
    BY DEF InputError, client
  <1>4. /\ engine' \in [at : {"input", "step", "exit", "dead"}, errored : BOOLEAN]
        /\ engine'.at = "input"
    BY <1>1, <1>3
  <1>5. /\ progress' \in [Requests -> Absent .. MaxTokens - 1]
        /\ \A r \in Requests : progress'[r] = progress[r] \/ progress'[r] = Absent
    <2>1. Absent \in Absent .. MaxTokens - 1
      BY MQEngineAssumption DEF Absent
    <2> QED BY <1>1, <1>3, <2>1
  <1> QED BY <1>1, <1>2, <1>3, <1>4, <1>5, TalkStep

\* A step fails.
LEMMA StepFailsStep ==
  ASSUME IndInv, StepFails, UNCHANGED kind
  PROVE  IndInv'
  <1>1. progress \in [Requests -> Absent .. MaxTokens - 1] /\ unhealthy \in BOOLEAN
    BY DEF IndInv, TypeOK
  <1>2. Said(output')
    <2>1. RPCError(None, TRUE) \in Messages /\ Quiet(RPCError(None, TRUE))
      BY ErrorsQuiet
    <2> QED BY <2>1 DEF StepFails, Said
  <1>3. /\ UNCHANGED <<kind, stream, outQueue, seen, errored, outputLoop, heartLoop, progress,
                       unhealthy, input>>
        /\ engine' = [at |-> "exit", errored |-> TRUE] /\ engine.at = "step"
    BY DEF StepFails, client, Fail
  <1> QED BY <1>1, <1>2, <1>3, TalkStep

\* A step gives some requests their next output.
LEMMA StepStep ==
  ASSUME IndInv, NEW S \in SUBSET Requests, Step(S), UNCHANGED kind
  PROVE  IndInv'
  <1> DEFINE m == Outputs({<<r, progress[r] + 1>> : r \in S})
  <1>0. /\ TypeOK /\ output \in Seq(Messages)
        /\ progress \in [Requests -> Absent .. MaxTokens - 1]
        /\ engine \in [at : {"input", "step", "exit", "dead"}, errored : BOOLEAN]
    BY DEF IndInv, TypeOK, Messages
  <1>1. /\ UNCHANGED <<kind, stream, outQueue, seen, errored, outputLoop, heartLoop, unhealthy, input>>
        /\ engine.at = "step" /\ engine' = [engine EXCEPT !.at = "input"]
        /\ output' = Append(output, m)
        /\ \A r \in S : progress[r] # Absent
        /\ progress' = [r \in Requests |-> IF r \notin S THEN progress[r]
                                           ELSE IF progress[r] + 1 = MaxTokens THEN Absent
                                           ELSE progress[r] + 1]
    BY DEF Step, client, Unfinished
  <1>2. \A r \in S : progress[r] + 1 \in 1 .. MaxTokens /\ progress[r] \in 0 .. MaxTokens - 1
    BY <1>0, <1>1, MQEngineAssumption DEF Absent
  <1>3. m \in Messages /\ m.error = FALSE /\ m.outs = {<<r, progress[r] + 1>> : r \in S}
    <2>1. {<<r, progress[r] + 1>> : r \in S} \in SUBSET (Requests \X (1 .. MaxTokens))
      BY <1>2
    <2> QED BY <2>1 DEF Outputs, Messages
  <1> HIDE DEF m
  <1>4. /\ \A r \in Requests \ S : ~Names(m, r)
        /\ \A r \in S, k \in 1 .. MaxTokens : <<r, k>> \in m.outs <=> k = progress[r] + 1
    BY <1>3 DEF Names
  <1>5. \A r \in Requests : /\ r \notin S => progress'[r] = progress[r]
                            /\ r \in S => progress'[r] \in {Absent, progress[r] + 1}
    BY <1>1
  <1>6. progress' \in [Requests -> Absent .. MaxTokens - 1]
    <2>1. Absent \in Absent .. MaxTokens - 1
      BY MQEngineAssumption DEF Absent
    <2>2. \A r \in S : progress[r] + 1 # MaxTokens => progress[r] + 1 \in Absent .. MaxTokens - 1
      BY <1>2, MQEngineAssumption DEF Absent
    <2> QED BY <1>0, <1>1, <2>1, <2>2
  <1>7. /\ engine' \in [at : {"input", "step", "exit", "dead"}, errored : BOOLEAN]
        /\ engine'.at = "input"
    BY <1>0, <1>1
  <1>8. TypeOK'
    <2>1. output' \in Seq(Messages)
      BY <1>0, <1>1, <1>3
    <2> QED BY <1>0, <1>1, <1>6, <1>7, <2>1 DEF TypeOK, Messages
  <1>9. Sorted'
    <2>1. \A i \in DOMAIN output' : (i \in DOMAIN output /\ output'[i] = output[i]) \/ output'[i] = m
      BY <1>0, <1>1, <1>3
    <2>2. \A i \in DOMAIN output' : output'[i].error => output'[i].outs = {}
      BY <1>3, <2>1 DEF IndInv, Sorted
    <2> QED BY <1>1, <2>2, KindsFixed DEF IndInv, Sorted
  <1>10. DeadIsIdle'
    BY <1>7 DEF DeadIsIdle
  <1>11. ASSUME NEW r \in Generates
         PROVE  GoodRequest(r)' /\ LeavingRequest(r)'
    <2>1. r \in Requests /\ GoodRequest(r) /\ LeavingRequest(r)
      BY Kinds DEF IndInv
    <2>2. Pieces(r, outQueue[r], input, output, seen[r], progress[r])
      BY PiecesType, <1>0, <2>1
    <2>3. Good(r, stream[r], outQueue[r], input, Append(output, m), seen[r], progress'[r])
      <3>1. CASE r \in S
        BY <1>1, <1>3, <1>4, <1>5, <2>1, <2>2, <3>1, GoodStep DEF GoodRequest
      <3>2. CASE r \notin S
        BY <1>3, <1>4, <1>5, <2>1, <2>2, <3>2, GoodPush DEF GoodRequest
      <3> QED BY <3>1, <3>2
    <2>4. Leaving(r, input, progress[r]) => Leaving(r, input, progress'[r])
      BY <1>1, <1>5, <2>1, LeavingStep
    <2>5. LeavingRequest(r)'
      BY <1>1, <1>7, <2>1, <2>4 DEF LeavingRequest
    <2> QED BY <1>1, <2>3, <2>5 DEF GoodRequest
  <1> QED BY <1>1, <1>8, <1>9, <1>10, <1>11, KindsFixed DEF IndInv

\* The process ends.
LEMMA ExitStep ==
  ASSUME IndInv, NEW kept \in 0 .. Len(output), Exit(kept), UNCHANGED kind
  PROVE  IndInv'
  <1>0. /\ TypeOK /\ output \in Seq(Messages)
        /\ engine \in [at : {"input", "step", "exit", "dead"}, errored : BOOLEAN]
    BY DEF IndInv, TypeOK, Messages
  <1>1. /\ UNCHANGED <<kind, stream, outQueue, seen, errored, outputLoop, heartLoop, unhealthy>>
        /\ output' = SubSeq(output, 1, kept)
        /\ engine' = [engine EXCEPT !.at = "dead"]
        /\ input' = <<>>
        /\ progress' = [r \in Requests |-> Absent]
    BY DEF Exit, client
  <1>2. /\ engine' \in [at : {"input", "step", "exit", "dead"}, errored : BOOLEAN]
        /\ engine'.at = "dead"
    BY <1>0, <1>1
  <1>3. TypeOK'
    <2>1. output' \in Seq(Messages)
      BY <1>0, <1>1
    <2>2. input' \in Seq(InputMessages)
      BY <1>1
    <2>3. progress' \in [Requests -> Absent .. MaxTokens - 1]
      BY <1>1, MQEngineAssumption DEF Absent
    <2> QED BY <1>0, <1>1, <1>2, <2>1, <2>2, <2>3 DEF TypeOK, Messages
  <1>4. Sorted'
    <2>1. \A i \in DOMAIN output' : i \in DOMAIN output /\ output'[i] = output[i]
      BY <1>0, <1>1
    <2> QED BY <1>1, <2>1 DEF IndInv, Sorted
  <1>5. DeadIsIdle'
    BY <1>1 DEF DeadIsIdle
  <1>6. ASSUME NEW r \in Generates
        PROVE  GoodRequest(r)' /\ LeavingRequest(r)'
    <2>1. r \in Requests /\ GoodRequest(r)
      BY Kinds DEF IndInv
    <2>2. Pieces(r, outQueue[r], input, output, seen[r], progress[r])
      BY PiecesType, <1>0, <2>1
    <2>3. Good(r, stream[r], outQueue[r], <<>>, SubSeq(output, 1, kept), seen[r], Absent)
      BY <2>1, <2>2, GoodExit DEF GoodRequest
    <2>4. progress'[r] = Absent
      BY <1>1, <2>1
    <2>5. LeavingRequest(r)'
      BY <1>1, <2>4 DEF LeavingRequest, Leaving
    <2> QED BY <1>1, <2>3, <2>4, <2>5 DEF GoodRequest
  <1> QED BY <1>1, <1>3, <1>4, <1>5, <1>6, KindsFixed DEF IndInv

-----------------------------------------------------------------------------
(* The theorems.                                                            *)

\* The inductive invariant holds in every reachable state of client and engine.
THEOREM Invariant == SafeSpec => []IndInv
  <1>1. IndInv /\ [Next]_vars => IndInv'
    <2> SUFFICES ASSUME IndInv, [Next]_vars
                 PROVE  IndInv'
      OBVIOUS
    <2>1. CASE Next
      <3>0. UNCHANGED kind /\ SystemNext
        BY <2>1 DEF Next
      <3>1. ASSUME NEW r \in Requests, Start(r) \/ GuidedReady(r) \/ Send(r) \/ Yield(r) \/ Cancel(r)
            PROVE  IndInv'
        BY <3>0, <3>1, StartStep, SendStep, YieldStep, CancelStep
      <3>2. CASE HandleOutput \/ OutputTimeout
        BY <3>0, <3>2, HandleOutputStep, OutputTimeoutStep
      <3>3. CASE Heartbeat \/ InputDone \/ \E ok \in BOOLEAN : HealthCheck(ok)
        BY <3>0, <3>3, QuietStep
      <3>4. CASE \E accept \in BOOLEAN : HandleInput(accept)
        BY <3>0, <3>4, HandleInputStep
      <3>5. CASE \E inCallback \in BOOLEAN : HandleInputFails(inCallback)
        BY <3>0, <3>5, HandleInputFailsStep
      <3>6. CASE \E S \in SUBSET Requests : Step(S)
        BY <3>0, <3>6, StepStep
      <3>7. CASE \E r \in Requests : InputError(r)
        BY <3>0, <3>7, InputErrorStep
      <3>8. CASE StepFails
        BY <3>0, <3>8, StepFailsStep
      <3>9. CASE \E kept \in 0 .. Len(output) : Exit(kept)
        BY <3>0, <3>9, ExitStep
      <3> QED BY <3>0, <3>1, <3>2, <3>3, <3>4, <3>5, <3>6, <3>7, <3>8, <3>9 DEF SystemNext
    <2>2. CASE UNCHANGED vars
      <3>1. UNCHANGED <<kind, stream, outQueue, seen, errored, outputLoop, heartLoop, input, output,
                        unhealthy, engine, progress>>
        BY <2>2 DEF vars, client
      <3>2. TypeOK' /\ Sorted' /\ DeadIsIdle'
        BY <3>1, KindsFixed DEF IndInv, TypeOK, Sorted, DeadIsIdle
      <3>3. \A r \in Generates : GoodRequest(r)' /\ LeavingRequest(r)'
        BY <3>1 DEF IndInv, GoodRequest, LeavingRequest
      <3> QED BY <3>1, <3>2, <3>3, KindsFixed DEF IndInv
    <2> QED BY <2>1, <2>2
  <1> QED BY InitIndInv, <1>1, PTL DEF SafeSpec

\* Every reachable state of the two processes is well typed, for every workload.
THEOREM TypeCorrect == Spec => []TypeOK
  <1>1. IndInv => TypeOK
    BY DEF IndInv
  <1> QED BY <1>1, Invariant, PTL DEF Spec

\* A stream of generate() yields every output once and in order, beside errors, aborts
\* and the end of the engine: client.py's queues and the output socket together hold
\* the outputs that follow the last one seen.
THEOREM OutputsInOrder == Spec => []InOrder
  <1>1. IndInv => InOrder
    BY Unfold, Kinds DEF IndInv, InOrder
  <1> QED BY <1>1, Invariant, PTL DEF Spec

\* Nothing works for a stream that is gone: a request that was cancelled or failed is
\* in the engine, or on its way there, only with its abort behind it.
THEOREM AbandonedRequestsLeave == Spec => []AbandonedLeaves
  <1>1. IndInv => AbandonedLeaves
    BY Unfold, Kinds DEF IndInv, AbandonedLeaves, LeavingRequest
  <1> QED BY <1>1, Invariant, PTL DEF Spec
=============================================================================
