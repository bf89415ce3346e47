-------------------------- MODULE MessageQueue_proofs --------------------------
(***************************************************************************)
(* The ring of MessageQueue implements a broadcast queue for any number of *)
(* readers, chunks and messages.                                           *)
(*                                                                         *)
(* The argument is about positions.  Chunk c holds message Held[c].  A     *)
(* reader that has marked Marked[r] messages is at the chunk of the next   *)
(* one.  That message is still to come, and then the chunk holds the       *)
(* message of one round before, which this reader has marked; or it is     *)
(* there, and then the chunk is not the one being filled, because the      *)
(* writer waited for this reader.                                          *)
(***************************************************************************)
EXTENDS MessageQueue, SequenceTheorems, TLAPS

-----------------------------------------------------------------------------
(* The inductive invariant.                                                 *)

Published == Len(queue.sent)

\* The writer owns the chunk at its index.
Filling == writer.at \in {"write", "body", "reset", "publish"}

\* The number of the message in each chunk: the last one is in the chunk behind
\* the writer, the oldest in the chunk it fills next.  Not positive when the chunk
\* was never filled.
Held ==
  [c \in Chunks |->
     IF c < writer.idx THEN Published + 1 - writer.idx + c
     ELSE Published + 1 - writer.idx + c - MaxChunks]

\* How many chunks each reader has marked; the large message of the last one may
\* still be on the socket.
Marked ==
  [r \in Local |-> IF reader[r].at = "recv" THEN Len(queue.got[r]) + 1
                   ELSE Len(queue.got[r])]

\* What has been published is numbered, and the writer's message is the next one
\* until it is published, and then the last.
Numbered ==
  /\ \A k \in 1 .. Published : queue.sent[k].n = k
  /\ writer.at \in {"acquire", "write", "body", "reset", "publish"} =>
       writer.msg \in Messages /\ writer.msg.n = Published + 1
  /\ writer.at \in {"send", "remote"} =>
       Published > 0 /\ writer.msg = queue.sent[Published]
  /\ writer.at = "send" => writer.msg.big
  /\ writer.at = "body" => ~writer.msg.big
  /\ writer.clear \in 1 .. NumLocal
  /\ writer.at # "reset" => writer.clear = 1

\* Everybody has received a prefix of what was published.
Prefixes ==
  \A r \in Readers :
    /\ Len(queue.got[r]) <= Published
    /\ \A k \in 1 .. Len(queue.got[r]) : queue.got[r][k] = queue.sent[k]

\* No reader is ahead of the writer or more than a round behind, and while the
\* writer fills a chunk no reader still has to read it.
Distance ==
  \A r \in Local :
    /\ Marked[r] <= Published
    /\ Published <= Marked[r] + MaxChunks
    /\ Filling => Published < Marked[r] + MaxChunks

\* A reader stands at the chunk of the message after the last one it marked.
Positions ==
  \A r \in Local :
    Held[reader[r].idx] = IF Marked[r] = Published THEN Marked[r] + 1 - MaxChunks
                          ELSE Marked[r] + 1

\* What is in a chunk that is not being filled.
Contents ==
  \A c \in Chunks :
    ~(Filling /\ c = writer.idx) =>
      /\ Held[c] <= 0 => ~written[c]
      /\ Held[c] > 0 =>
           /\ written[c]
           /\ first[c] = queue.sent[Held[c]].big
           /\ ~first[c] => body[c] = queue.sent[Held[c]]
           /\ \A r \in Local : read[c][r] <=> Marked[r] >= Held[c]

\* What is in the chunk that is being filled.
Filled ==
  LET c == writer.idx
  IN  /\ Filling => ~written[c]
      /\ writer.at = "body" => ~first[c]
      /\ writer.at \in {"reset", "publish"} =>
           /\ first[c] = writer.msg.big
           /\ ~first[c] => body[c] = writer.msg
      /\ writer.at = "reset" => \A r \in Local : r < writer.clear => ~read[c][r]
      /\ writer.at = "publish" => \A r \in Local : ~read[c][r]

ReaderStates ==
  [at : ReaderPlaces, idx : Chunks, flag : BOOLEAN, overflow : BOOLEAN,
   obj : Messages \cup {Torn}]

\* What a reader x knows that has marked m messages: a look at its read flag that
\* found it clear is about the next message or about a chunk that is not written;
\* past both looks the next message is there, and what was copied is that message.
ReaderKnows(x, m) ==
  /\ x.at = "check" /\ ~x.flag => ~written[x.idx] \/ m < Published
  /\ x.at \in {"first", "body", "mark"} => m < Published
  /\ x.at = "body" => ~queue.sent[m + 1].big /\ ~x.overflow
  /\ x.at = "mark" =>
       /\ x.overflow = queue.sent[m + 1].big
       /\ ~x.overflow => x.obj = queue.sent[m + 1]
  /\ x.at = "recv" => queue.sent[m].big

Knows == \A r \in Local : ReaderKnows(reader[r], Marked[r])

\* How many of the published messages have been sent to the local and to the remote
\* readers, where that is necessary.
SentLocal == IF writer.at = "send" THEN Published - 1 ELSE Published
SentRemote == IF writer.at \in {"send", "remote"} THEN Published - 1 ELSE Published

\* The socket s of a local reader that has received g of the messages holds the large
\* ones up to the n-th that it has not received, in order.
LocalSocket(s, sent, g, n) ==
  /\ g <= n
  /\ \A i \in 1 .. Len(s) :
       /\ s[i].n \in g + 1 .. n
       /\ s[i] = sent[s[i].n] /\ s[i].big
       /\ \A j \in 1 .. i - 1 : s[j].n < s[i].n
  /\ \A k \in g + 1 .. n : sent[k].big => \E i \in 1 .. Len(s) : s[i].n = k

LocalSockets ==
  \A r \in Local : LocalSocket(socket[r], queue.sent, Len(queue.got[r]), SentLocal)

\* The socket of a remote reader holds everything it has not received.
RemoteSocket(s, sent, g, n) ==
  /\ g + Len(s) = n
  /\ \A i \in 1 .. Len(s) : s[i] = sent[g + i]

RemoteSockets ==
  \A r \in Remote : RemoteSocket(socket[r], queue.sent, Len(queue.got[r]), SentRemote)

IndInv ==
  /\ TypeOK
  /\ Numbered
  /\ Prefixes
  /\ Distance
  /\ Positions
  /\ Contents
  /\ Filled
  /\ Knows
  /\ LocalSockets
  /\ RemoteSockets

-----------------------------------------------------------------------------
(* Positions in the ring.                                                   *)

\* The i-th element after the first g is one of the first g + l.
LEMMA IndexSum ==
  ASSUME NEW g \in Nat, NEW l \in Nat, NEW i \in 1 .. l
  PROVE  g + i \in 1 .. g + l
OBVIOUS

\* The index moves to the next chunk, and from the last one to the first.
LEMMA AdvanceValue ==
  ASSUME NEW i \in Chunks
  PROVE  /\ Advance(i) \in Chunks
         /\ Advance(i) = IF i + 1 = MaxChunks THEN 0 ELSE i + 1
<1>1. CASE i + 1 = MaxChunks
  <2>1. MaxChunks % MaxChunks = 0
    BY MessageQueueAssumption
  <2> QED BY <1>1, <2>1, MessageQueueAssumption DEF Advance, Chunks
<1>2. CASE i + 1 # MaxChunks
  <2>1. i + 1 \in Nat /\ i + 1 < MaxChunks
    BY <1>2, MessageQueueAssumption DEF Chunks
  <2>2. (i + 1) % MaxChunks = i + 1
    BY <2>1, MessageQueueAssumption
  <2> QED BY <1>2, <2>1, <2>2, MessageQueueAssumption DEF Advance, Chunks
<1> QED BY <1>1, <1>2

\* The types of what the invariant is about.
LEMMA Values ==
  ASSUME TypeOK
  PROVE  /\ Published \in Nat
         /\ Held \in [Chunks -> Int]
         /\ Marked \in [Local -> Nat]
         /\ \A r \in Readers : Len(queue.got[r]) \in Nat /\ Len(socket[r]) \in Nat
         /\ writer.idx \in Chunks
         /\ \A r \in Local : reader[r].idx \in Chunks /\ r \in Readers
<1>1. /\ Published \in Nat
      /\ \A r \in Readers : Len(queue.got[r]) \in Nat /\ Len(socket[r]) \in Nat
      /\ writer.idx \in Chunks
      /\ \A r \in Local : reader[r].idx \in Chunks /\ r \in Readers
  BY DEF TypeOK, Published, Readers
<1>2. writer.idx \in Int /\ MaxChunks \in Int /\ \A c \in Chunks : c \in Int
  BY <1>1, MessageQueueAssumption DEF Chunks
<1>3. Published \in Int
  BY <1>1
<1>4. Held \in [Chunks -> Int]
  BY <1>2, <1>3 DEF Held
<1>5. Marked \in [Local -> Nat]
  BY <1>1 DEF Marked
<1> QED BY <1>1, <1>4, <1>5

\* The chunks hold the last MaxChunks messages, the oldest at the writer's index.
LEMMA HeldRange ==
  ASSUME TypeOK, NEW c \in Chunks
  PROVE  /\ Held[c] \in Int
         /\ Published + 1 - MaxChunks <= Held[c] /\ Held[c] <= Published
         /\ Held[c] = Published + 1 - MaxChunks <=> c = writer.idx
<1>1. /\ Published \in Int /\ writer.idx \in Int /\ MaxChunks \in Int /\ c \in Int
      /\ 0 <= writer.idx /\ writer.idx < MaxChunks /\ 0 <= c /\ c < MaxChunks
  BY Values, MessageQueueAssumption DEF Chunks
<1> QED BY <1>1 DEF Held

\* No two chunks hold the same message.
LEMMA HeldOnce ==
  ASSUME TypeOK, NEW c \in Chunks, NEW d \in Chunks, Held[c] = Held[d]
  PROVE  c = d
<1>1. /\ Published \in Int /\ writer.idx \in Int /\ MaxChunks \in Int
      /\ 0 <= writer.idx /\ writer.idx < MaxChunks
  BY Values, MessageQueueAssumption DEF Chunks
<1>2. c \in Int /\ d \in Int /\ 0 <= c /\ c < MaxChunks /\ 0 <= d /\ d < MaxChunks
  BY MessageQueueAssumption DEF Chunks
<1> QED BY <1>1, <1>2 DEF Held

\* The chunk after that of a message holds the next message, or the oldest.
LEMMA HeldNext ==
  ASSUME TypeOK, NEW c \in Chunks
  PROVE  Held[Advance(c)] = IF Held[c] = Published THEN Published + 1 - MaxChunks
                            ELSE Held[c] + 1
<1>1. /\ Published \in Int /\ writer.idx \in Int /\ MaxChunks \in Int
      /\ 0 <= writer.idx /\ writer.idx < MaxChunks
  BY Values, MessageQueueAssumption DEF Chunks
<1>2. c \in Int /\ 0 <= c /\ c < MaxChunks
  BY MessageQueueAssumption DEF Chunks
<1> QED BY <1>1, <1>2, AdvanceValue DEF Held

\* Publishing puts the next message into the chunk at the writer's index.
LEMMA HeldPublish ==
  ASSUME TypeOK, writer'.idx = Advance(writer.idx), Len(queue'.sent) = Len(queue.sent) + 1
  PROVE  /\ Published' = Published + 1
         /\ Held' = [Held EXCEPT ![writer.idx] = Published + 1]
<1>1. Published' = Published + 1
  BY DEF Published
<1>2. /\ Published \in Int /\ writer.idx \in Int /\ MaxChunks \in Int
      /\ 0 <= writer.idx /\ writer.idx < MaxChunks /\ writer.idx \in Chunks
  BY Values, MessageQueueAssumption DEF Chunks
<1>3. ASSUME NEW c \in Chunks
      PROVE  Held'[c] = IF c = writer.idx THEN Published + 1 ELSE Held[c]
  <2>1. c \in Int /\ 0 <= c /\ c < MaxChunks
    BY MessageQueueAssumption DEF Chunks
  <2>2. writer'.idx = IF writer.idx + 1 = MaxChunks THEN 0 ELSE writer.idx + 1
    BY <1>2, AdvanceValue
  <2>3. Held[c] = IF c < writer.idx THEN Published + 1 - writer.idx + c
                  ELSE Published + 1 - writer.idx + c - MaxChunks
    BY DEF Held
  <2>4. Held'[c] = IF c < writer'.idx THEN Published' + 1 - writer'.idx + c
                   ELSE Published' + 1 - writer'.idx + c - MaxChunks
    BY DEF Held
  <2>5. CASE writer.idx + 1 = MaxChunks
    BY <1>1, <1>2, <2>1, <2>2, <2>3, <2>4, <2>5
  <2>6. CASE writer.idx + 1 # MaxChunks
    <3>1. writer'.idx = writer.idx + 1
      BY <2>2, <2>6
    <3>2. CASE c < writer.idx
      BY <1>1, <1>2, <2>1, <2>3, <2>4, <3>1, <3>2
    <3>3. CASE c = writer.idx
      BY <1>1, <1>2, <2>1, <2>4, <3>1, <3>3
    <3>4. CASE c > writer.idx
      BY <1>1, <1>2, <2>1, <2>3, <2>4, <3>1, <3>4
    <3> QED BY <1>2, <2>1, <3>2, <3>3, <3>4
  <2> QED BY <2>5, <2>6
<1>4. Held' \in [Chunks -> Int] /\ Held \in [Chunks -> Int]
  <2>1. writer'.idx \in Int
    BY <1>2, AdvanceValue, MessageQueueAssumption DEF Chunks
  <2>2. \A c \in Chunks : c \in Int
    BY DEF Chunks
  <2>3. Published' \in Int /\ Published \in Int /\ MaxChunks \in Int
    BY <1>1, <1>2
  <2>4. Held' \in [Chunks -> Int]
    BY <2>1, <2>2, <2>3 DEF Held
  <2> QED BY <2>4, Values
<1> QED BY <1>1, <1>2, <1>3, <1>4

\* A step that publishes nothing leaves the messages in their chunks.
LEMMA SameHeld ==
  ASSUME writer'.idx = writer.idx, queue'.sent = queue.sent
  PROVE  Published' = Published /\ Held' = Held
BY DEF Published, Held

\* A step that neither marks a chunk nor returns a message leaves the counts.
LEMMA SameMarked ==
  ASSUME queue'.got = queue.got,
         \A r \in Local : reader'[r].at = "recv" <=> reader[r].at = "recv"
  PROVE  Marked' = Marked
BY DEF Marked

\* What is received is the same while nothing is sent and nothing is returned.
LEMMA SameReceived ==
  ASSUME TypeOK, Prefixes, LocalSockets, RemoteSockets, UNCHANGED <<socket, queue>>,
         writer'.at = "send" <=> writer.at = "send",
         writer'.at = "remote" <=> writer.at = "remote"
  PROVE  Prefixes' /\ LocalSockets' /\ RemoteSockets'
<1>1. Published' = Published /\ SentLocal' = SentLocal /\ SentRemote' = SentRemote
  BY DEF Published, SentLocal, SentRemote
<1> QED BY <1>1 DEF Prefixes, LocalSockets, RemoteSockets

-----------------------------------------------------------------------------
(* Initially.                                                               *)

\* Nothing is written, sent or received, and everybody is at the first chunk.
LEMMA InitInd == Init => IndInv
<1> SUFFICES ASSUME Init PROVE IndInv
  OBVIOUS
<1>1. TypeOK
  BY MessageQueueAssumption
     DEF Init, TypeOK, EmptyQueue, WriterPlaces, ReaderPlaces, Chunks, Local, Readers, Torn
<1>2. /\ Published = 0
      /\ \A r \in Readers : Len(queue.got[r]) = 0 /\ Len(socket[r]) = 0
      /\ \A r \in Local : r \in Readers /\ Marked[r] = 0 /\ reader[r].at = "idle" /\ reader[r].idx = 0
      /\ writer.at = "idle" /\ writer.idx = 0
  BY DEF Init, EmptyQueue, Published, Marked, Readers
<1>3. /\ 0 \in Chunks /\ Held[0] = 1 - MaxChunks
      /\ \A c \in Chunks : Held[c] <= 0
  BY <1>1, <1>2, HeldRange, MessageQueueAssumption DEF Chunks
<1>4. Numbered /\ Prefixes /\ Distance /\ Positions /\ Knows
  <2>1. 1 \in 1 .. NumLocal /\ MaxChunks \in Nat
    BY MessageQueueAssumption
  <2>2. Numbered
    BY <1>2, <2>1 DEF Init, Numbered
  <2> QED
    BY <1>2, <1>3, <2>1, <2>2 DEF Prefixes, Distance, Positions, Knows, ReaderKnows, Filling
<1>5. Contents /\ Filled
  BY <1>2, <1>3, HeldRange, <1>1 DEF Init, Contents, Filled, Filling
<1>6. SentLocal = 0 /\ SentRemote = 0
  BY <1>2 DEF SentLocal, SentRemote
<1>7. LocalSockets
  BY <1>2, <1>6 DEF LocalSockets, LocalSocket
<1>8. RemoteSockets
  <2> SUFFICES ASSUME NEW r \in Remote
               PROVE  RemoteSocket(socket[r], queue.sent, Len(queue.got[r]), 0)
    BY <1>6 DEF RemoteSockets
  <2>1. Len(queue.got[r]) = 0 /\ Len(socket[r]) = 0
    BY <1>2 DEF Readers
  <2> QED BY <2>1 DEF RemoteSocket
<1> QED BY <1>1, <1>4, <1>5, <1>7, <1>8 DEF IndInv

-----------------------------------------------------------------------------
(* The writer.                                                              *)

\* enqueue() takes the next number for its message.
LEMMA EnqueueStep ==
  ASSUME NEW big \in BOOLEAN, IndInv, Enqueue(big)
  PROVE  IndInv'
<1> USE DEF IndInv
<1>1. /\ writer.at = "idle" /\ writer'.at = "acquire"
      /\ writer' = [writer EXCEPT !.at = "acquire", !.msg = [n |-> Published + 1, big |-> big]]
      /\ writer'.msg = [n |-> Published + 1, big |-> big]
      /\ writer'.idx = writer.idx /\ writer'.clear = writer.clear
      /\ UNCHANGED <<memory, socket, reader, queue>>
      /\ writer'.msg \in Messages
  BY Values, MessageQueueAssumption DEF Enqueue, Published, TypeOK, Messages
<1>2. TypeOK'
  BY <1>1 DEF TypeOK, WriterPlaces, memory
<1>3. Published' = Published /\ Held' = Held /\ Marked' = Marked /\ Filling' = FALSE
  BY <1>1, SameHeld, SameMarked DEF Filling
<1>4. Prefixes' /\ LocalSockets' /\ RemoteSockets'
  BY <1>1, SameReceived
<1>5. Numbered'
  BY <1>1, <1>3 DEF Numbered
<1>6. Distance' /\ Positions' /\ Knows'
  BY <1>1, <1>3 DEF Distance, Positions, Knows, ReaderKnows, memory
<1>7. Contents' /\ Filled'
  BY <1>1, <1>3 DEF Contents, Filled, Filling, memory
<1> QED BY <1>2, <1>4, <1>5, <1>6, <1>7

\* A writer that gives up has changed nothing.
LEMMA WriteTimeoutStep ==
  ASSUME IndInv, WriteTimeout
  PROVE  IndInv'
<1> USE DEF IndInv
<1>1. /\ writer.at = "acquire" /\ writer'.at = "idle"
      /\ writer' = [writer EXCEPT !.at = "idle", !.msg = Torn]
      /\ writer'.idx = writer.idx /\ writer'.clear = writer.clear
      /\ UNCHANGED <<memory, socket, reader, queue>>
  BY DEF WriteTimeout, TypeOK
<1>2. TypeOK'
  BY <1>1 DEF TypeOK, WriterPlaces, memory
<1>3. Published' = Published /\ Held' = Held /\ Marked' = Marked /\ Filling' = FALSE
  BY <1>1, SameHeld, SameMarked DEF Filling
<1>4. Prefixes' /\ LocalSockets' /\ RemoteSockets'
  BY <1>1, SameReceived
<1>5. Numbered'
  BY <1>1, <1>3 DEF Numbered
<1>6. Distance' /\ Positions' /\ Knows'
  BY <1>1, <1>3 DEF Distance, Positions, Knows, ReaderKnows, memory
<1>7. Contents' /\ Filled'
  BY <1>1, <1>3 DEF Contents, Filled, Filling, memory
<1> QED BY <1>2, <1>4, <1>5, <1>6, <1>7

\* The chunk is free: it was never filled, or every reader has marked the message
\* of a round ago.
LEMMA AcquireWriteStep ==
  ASSUME IndInv, AcquireWrite
  PROVE  IndInv'
<1> USE DEF IndInv
<1>1. /\ writer.at = "acquire" /\ writer'.at = "write"
      /\ writer' = [writer EXCEPT !.at = "write"]
      /\ writer'.idx = writer.idx /\ writer'.clear = writer.clear /\ writer'.msg = writer.msg
      /\ ChunkFree(writer.idx)
      /\ written' = [written EXCEPT ![writer.idx] = FALSE]
      /\ UNCHANGED <<read, first, body, socket, reader, queue>>
  BY DEF AcquireWrite, TypeOK
<1>2. TypeOK'
  BY <1>1 DEF TypeOK, WriterPlaces
<1>3. Published' = Published /\ Held' = Held /\ Marked' = Marked /\ Filling' = TRUE /\ ~Filling
  BY <1>1, SameHeld, SameMarked DEF Filling
<1>4. Prefixes' /\ LocalSockets' /\ RemoteSockets'
  BY <1>1, SameReceived
<1>5. Numbered'
  BY <1>1, <1>3 DEF Numbered
<1>6. \A r \in Local : Published < Marked[r] + MaxChunks
  <2> TAKE r \in Local
  <2>1. writer.idx \in Chunks /\ Published \in Nat /\ Marked[r] \in Nat /\ MaxChunks \in Nat
    BY Values, MessageQueueAssumption
  <2>2. Held[writer.idx] = Published + 1 - MaxChunks
    BY <2>1, HeldRange
  <2>3. CASE Held[writer.idx] <= 0
    BY <2>1, <2>2, <2>3
  <2>4. CASE Held[writer.idx] > 0
    <3>1. written[writer.idx] /\ (read[writer.idx][r] <=> Marked[r] >= Held[writer.idx])
      BY <1>3, <2>1, <2>4 DEF Contents
    <3>2. read[writer.idx][r]
      BY <1>1, <3>1 DEF ChunkFree
    <3> QED BY <2>1, <2>2, <3>1, <3>2
  <2> QED BY <2>1, <2>2, <2>3, <2>4
<1>7. Distance' /\ Positions'
  BY <1>1, <1>3, <1>6 DEF Distance, Positions
<1>8. Contents' /\ Filled'
  BY <1>1, <1>3, Values DEF Contents, Filled, TypeOK
<1>9. Knows'
  BY <1>1, <1>3, Values DEF Knows, ReaderKnows, TypeOK
<1> QED BY <1>2, <1>4, <1>5, <1>7, <1>8, <1>9

\* The first byte says where the message is; only the chunk being filled changes.
LEMMA WriteFirstStep ==
  ASSUME IndInv, WriteFirst
  PROVE  IndInv'
<1> USE DEF IndInv
<1>1. /\ writer.at = "write"
      /\ writer'.at = IF writer.msg.big THEN "reset" ELSE "body"
      /\ writer' = [writer EXCEPT !.at = IF writer.msg.big THEN "reset" ELSE "body"]
      /\ writer'.idx = writer.idx /\ writer'.clear = writer.clear /\ writer'.msg = writer.msg
      /\ first' = [first EXCEPT ![writer.idx] = writer.msg.big]
      /\ \/ writer.msg.big /\ body' = body
         \/ ~writer.msg.big /\ body' = [body EXCEPT ![writer.idx] = Torn]
      /\ UNCHANGED <<written, read, socket, reader, queue>>
  BY DEF WriteFirst, TypeOK
<1>2. writer.msg \in Messages /\ writer.msg.big \in BOOLEAN
  BY <1>1 DEF Numbered, Messages
<1>3. TypeOK'
  BY <1>1, <1>2 DEF TypeOK, WriterPlaces
<1>4. Published' = Published /\ Held' = Held /\ Marked' = Marked /\ Filling' = TRUE /\ Filling
  BY <1>1, SameHeld, SameMarked DEF Filling
<1>5. Prefixes' /\ LocalSockets' /\ RemoteSockets'
  BY <1>1, SameReceived
<1>6. Numbered'
  BY <1>1, <1>4 DEF Numbered
<1>7. Distance' /\ Positions' /\ Knows'
  BY <1>1, <1>4 DEF Distance, Positions, Knows, ReaderKnows
<1>8. Contents'
  BY <1>1, <1>4 DEF Contents, TypeOK
<1>9. Filled'
  <2>1. writer.idx \in Chunks /\ first'[writer.idx] = writer.msg.big
    BY <1>1, Values DEF TypeOK
  <2>2. writer.clear = 1
    BY <1>1 DEF Numbered
  <2> QED BY <1>1, <1>2, <1>4, <2>1, <2>2 DEF Filled, Local
<1> QED BY <1>3, <1>5, <1>6, <1>7, <1>8, <1>9

\* The body of a small message; only the chunk being filled changes.
LEMMA WriteBodyStep ==
  ASSUME IndInv, WriteBody
  PROVE  IndInv'
<1> USE DEF IndInv
<1>1. /\ writer.at = "body" /\ writer'.at = "reset"
      /\ writer' = [writer EXCEPT !.at = "reset"]
      /\ writer'.idx = writer.idx /\ writer'.clear = writer.clear /\ writer'.msg = writer.msg
      /\ body' = [body EXCEPT ![writer.idx] = writer.msg]
      /\ UNCHANGED <<written, read, first, socket, reader, queue>>
  BY DEF WriteBody, TypeOK
<1>2. writer.msg \in Messages /\ writer.msg.big = FALSE
  BY <1>1 DEF Numbered, Messages
<1>3. TypeOK'
  BY <1>1, <1>2 DEF TypeOK, WriterPlaces
<1>4. Published' = Published /\ Held' = Held /\ Marked' = Marked /\ Filling' = TRUE /\ Filling
  BY <1>1, SameHeld, SameMarked DEF Filling
<1>5. Prefixes' /\ LocalSockets' /\ RemoteSockets'
  BY <1>1, SameReceived
<1>6. Numbered'
  BY <1>1, <1>4 DEF Numbered
<1>7. Distance' /\ Positions' /\ Knows'
  BY <1>1, <1>4 DEF Distance, Positions, Knows, ReaderKnows
<1>8. Contents'
  BY <1>1, <1>4 DEF Contents, TypeOK
<1>9. Filled'
  <2>1. writer.idx \in Chunks /\ body'[writer.idx] = writer.msg /\ ~first[writer.idx]
    BY <1>1, Values DEF TypeOK, Filled
  <2>2. writer.clear = 1 /\ first[writer.idx] \in BOOLEAN
    BY <1>1, <2>1 DEF Numbered, TypeOK
  <2>3. \A r \in Local : ~(r < 1)
    BY DEF Local
  <2>4. ~written[writer.idx]
    BY <1>4 DEF Filled
  <2> QED BY <1>1, <1>2, <1>4, <2>1, <2>2, <2>3, <2>4 DEF Filled
<1> QED BY <1>3, <1>5, <1>6, <1>7, <1>8, <1>9

\* The read flags of the chunk being filled are cleared one after the other.
LEMMA ResetFlagStep ==
  ASSUME IndInv, ResetFlag
  PROVE  IndInv'
<1> USE DEF IndInv
<1>1. /\ writer.at = "reset" /\ writer.clear \in 1 .. NumLocal /\ writer.idx \in Chunks
      /\ writer'.idx = writer.idx /\ writer'.msg = writer.msg
      /\ \/ /\ writer.clear = NumLocal
            /\ writer' = [writer EXCEPT !.at = "publish", !.clear = 1]
            /\ writer'.at = "publish" /\ writer'.clear = 1
         \/ /\ writer.clear < NumLocal
            /\ writer' = [writer EXCEPT !.clear = writer.clear + 1]
            /\ writer'.at = "reset" /\ writer'.clear = writer.clear + 1
      /\ UNCHANGED <<written, first, body, socket, reader, queue>>
  BY MessageQueueAssumption DEF ResetFlag, TypeOK, Numbered
<1>2. /\ read' \in [Chunks -> [Local -> BOOLEAN]]
      /\ \A c \in Chunks, r \in Local :
           read'[c][r] = IF c = writer.idx /\ r = writer.clear THEN FALSE ELSE read[c][r]
  BY <1>1 DEF ResetFlag, TypeOK
<1>3. TypeOK'
  <2>1. writer'.clear \in 1 .. NumLocal + 1
    BY <1>1, MessageQueueAssumption
  <2> QED BY <1>1, <1>2, <2>1 DEF TypeOK, WriterPlaces
<1>4. Published' = Published /\ Held' = Held /\ Marked' = Marked /\ Filling' = TRUE /\ Filling
  BY <1>1, SameHeld, SameMarked DEF Filling
<1>5. Prefixes' /\ LocalSockets' /\ RemoteSockets'
  BY <1>1, SameReceived
<1>6. Numbered'
  BY <1>1, <1>4, MessageQueueAssumption DEF Numbered
<1>7. Distance' /\ Positions' /\ Knows'
  BY <1>1, <1>4 DEF Distance, Positions, Knows, ReaderKnows
<1>8. Contents'
  BY <1>1, <1>2, <1>4, ZenonT(60) DEF Contents
<1>9. Filled'
  <2>1. /\ ~written[writer.idx]
        /\ first[writer.idx] = writer.msg.big
        /\ ~first[writer.idx] => body[writer.idx] = writer.msg
        /\ \A r \in Local : r < writer.clear => ~read[writer.idx][r]
    BY <1>1, <1>4 DEF Filled
  <2>2. ASSUME NEW r \in Local, r < writer.clear + 1
        PROVE  ~read'[writer.idx][r]
    <3>1. r < writer.clear \/ r = writer.clear
      BY <1>1, <2>2, MessageQueueAssumption DEF Local
    <3>2. read'[writer.idx][r] = IF r = writer.clear THEN FALSE ELSE read[writer.idx][r]
      BY <1>1, <1>2
    <3> QED BY <2>1, <3>1, <3>2
  <2>3. writer'.at = "publish" => \A r \in Local : ~read'[writer.idx][r]
    BY <1>1, <2>2, MessageQueueAssumption DEF Local
  <2> QED BY <1>1, <2>1, <2>2, <2>3 DEF Filled
<1> QED BY <1>3, <1>5, <1>6, <1>7, <1>8, <1>9

\* The message becomes the last one; the chunk it is in is not written before and
\* holds it afterwards.
LEMMA PublishStep ==
  ASSUME IndInv, Publish
  PROVE  IndInv'
<1> USE DEF IndInv
<1>1. /\ writer.at = "publish" /\ writer.msg \in Messages /\ writer.msg.n = Published + 1
      /\ writer'.at = IF writer.msg.big THEN "send" ELSE "remote"
      /\ writer'.idx = Advance(writer.idx)
      /\ writer'.msg = writer.msg /\ writer'.clear = writer.clear /\ writer.clear = 1
      /\ writer' \in [at : WriterPlaces, idx : Chunks, msg : Messages \cup {Torn},
                      clear : 1 .. NumLocal + 1]
      /\ written' = [written EXCEPT ![writer.idx] = TRUE]
      /\ UNCHANGED <<read, first, body, socket, reader>>
  <2>1. writer.idx \in Chunks /\ Advance(writer.idx) \in Chunks
    BY Values, AdvanceValue
  <2> QED BY <2>1 DEF Publish, TypeOK, Numbered, WriterPlaces
<1>2. /\ queue'.sent = Append(queue.sent, writer.msg)
      /\ queue'.got = queue.got
      /\ queue' \in [sent : Seq(Messages), got : [Readers -> Seq(Messages \cup {Torn})]]
  <2>1. queue.sent \in Seq(Messages) /\ Append(queue.sent, writer.msg) \in Seq(Messages)
    BY <1>1, AppendProperties DEF TypeOK
  <2>2. queue' = [queue EXCEPT !.sent = Append(queue.sent, writer.msg)]
    BY DEF Publish, Sent
  <2> QED BY <2>1, <2>2 DEF TypeOK
<1>3. TypeOK'
  BY <1>1, <1>2 DEF TypeOK
<1>4. /\ Published \in Nat
      /\ Published' = Published + 1
      /\ Held' = [Held EXCEPT ![writer.idx] = Published + 1]
      /\ Marked' = Marked
      /\ Filling /\ ~Filling'
      /\ queue.sent \in Seq(Messages)
  BY <1>1, <1>2, HeldPublish, SameMarked, Values DEF TypeOK, Filling
<1>5. /\ \A k \in 1 .. Published : queue'.sent[k] = queue.sent[k]
      /\ queue'.sent[Published + 1] = writer.msg
  BY <1>1, <1>2, <1>4 DEF Published
<1>6. Numbered'
  BY <1>1, <1>4, <1>5 DEF Numbered
<1>7. Prefixes'
  <2> SUFFICES ASSUME NEW r \in Readers
               PROVE  /\ Len(queue.got[r]) <= Published + 1
                      /\ \A k \in 1 .. Len(queue.got[r]) : queue.got[r][k] = queue'.sent[k]
    BY <1>2, <1>4, ZenonT(60) DEF Prefixes
  <2> QED BY <1>4, <1>5, Values DEF Prefixes
<1>8. Distance'
  <2> SUFFICES ASSUME NEW r \in Local
               PROVE  Marked[r] <= Published + 1 /\ Published + 1 <= Marked[r] + MaxChunks
    BY <1>4 DEF Distance
  <2> QED BY <1>4, Values, MessageQueueAssumption DEF Distance
<1>9. Positions'
  <2> SUFFICES ASSUME NEW r \in Local
               PROVE  Held'[reader[r].idx] = Marked[r] + 1 /\ Marked[r] # Published + 1
    BY <1>1, <1>4 DEF Positions
  <2>1. /\ reader[r].idx \in Chunks /\ writer.idx \in Chunks /\ Held \in [Chunks -> Int]
        /\ Marked[r] \in Nat /\ MaxChunks \in Nat
        /\ Marked[r] <= Published /\ Published < Marked[r] + MaxChunks
    BY <1>4, Values, MessageQueueAssumption DEF Distance
  <2>2. CASE reader[r].idx = writer.idx
    <3>1. Held[reader[r].idx] = Published + 1 - MaxChunks
      BY <2>1, <2>2, HeldRange
    <3>2. Marked[r] = Published
      BY <1>4, <2>1, <3>1 DEF Positions
    <3> QED BY <1>4, <2>1, <2>2, <3>2
  <2>3. CASE reader[r].idx # writer.idx
    <3>1. Held[reader[r].idx] # Published + 1 - MaxChunks
      BY <2>1, <2>3, HeldRange
    <3>2. Held[reader[r].idx] = Marked[r] + 1
      BY <1>4, <2>1, <3>1 DEF Positions
    <3> QED BY <1>4, <2>1, <2>3, <3>2
  <2> QED BY <2>2, <2>3
<1>10. Contents'
  <2> SUFFICES ASSUME NEW c \in Chunks
               PROVE  /\ Held'[c] <= 0 => ~written'[c]
                      /\ Held'[c] > 0 =>
                           /\ written'[c]
                           /\ first[c] = queue'.sent[Held'[c]].big
                           /\ ~first[c] => body[c] = queue'.sent[Held'[c]]
                           /\ \A r \in Local : read[c][r] <=> Marked[r] >= Held'[c]
    BY <1>1, <1>4 DEF Contents
  <2>1. writer.idx \in Chunks /\ Held \in [Chunks -> Int]
    BY Values
  <2>2. CASE c = writer.idx
    <3>1. Held'[c] = Published + 1 /\ written'[c]
      BY <1>1, <1>4, <2>1, <2>2 DEF TypeOK
    <3>2. /\ first[c] = writer.msg.big
          /\ ~first[c] => body[c] = writer.msg
          /\ \A r \in Local : ~read[c][r]
      BY <1>1, <2>2 DEF Filled
    <3>3. \A r \in Local : ~(Marked[r] >= Published + 1)
      BY <1>4, Values DEF Distance
    <3> QED BY <1>4, <1>5, <3>1, <3>2, <3>3
  <2>3. CASE c # writer.idx
    <3>1. Held'[c] = Held[c] /\ written'[c] = written[c] /\ Held[c] \in Int /\ Held[c] <= Published
      BY <1>1, <1>4, <2>1, <2>3, HeldRange DEF TypeOK
    <3>2. Held[c] > 0 => queue'.sent[Held[c]] = queue.sent[Held[c]]
      BY <1>4, <1>5, <3>1
    <3> QED BY <2>3, <3>1, <3>2 DEF Contents
  <2> QED BY <2>2, <2>3
<1>11. Filled'
  BY <1>1, <1>4 DEF Filled, Filling
<1>12. Knows'
  <2> SUFFICES ASSUME NEW r \in Local
               PROVE  /\ reader[r].at = "check" /\ ~reader[r].flag =>
                           ~written'[reader[r].idx] \/ Marked[r] < Published + 1
                      /\ reader[r].at \in {"first", "body", "mark"} => Marked[r] < Published + 1
                      /\ reader[r].at = "body" =>
                           ~queue'.sent[Marked[r] + 1].big /\ ~reader[r].overflow
                      /\ reader[r].at = "mark" =>
                           /\ reader[r].overflow = queue'.sent[Marked[r] + 1].big
                           /\ ~reader[r].overflow => reader[r].obj = queue'.sent[Marked[r] + 1]
                      /\ reader[r].at = "recv" => queue'.sent[Marked[r]].big
    BY <1>1, <1>4 DEF Knows, ReaderKnows
  <2>1. Marked[r] \in Nat /\ Marked[r] <= Published
    BY Values DEF Distance
  <2>2. Marked[r] < Published => queue'.sent[Marked[r] + 1] = queue.sent[Marked[r] + 1]
    BY <1>4, <1>5, <2>1
  <2>3. reader[r].at = "recv" => Marked[r] > 0
    BY Values DEF Marked
  <2>4. Marked[r] > 0 => queue'.sent[Marked[r]] = queue.sent[Marked[r]]
    BY <1>4, <1>5, <2>1
  <2> QED BY <1>4, <2>1, <2>2, <2>3, <2>4 DEF Knows, ReaderKnows
<1>13. LocalSockets'
  <2> SUFFICES ASSUME NEW r \in Local
      PROVE  LocalSocket(socket[r], queue'.sent, Len(queue.got[r]), SentLocal')
    BY <1>1, <1>2 DEF LocalSockets
  <2> DEFINE s == socket[r]
             g == Len(queue.got[r])
  <2>1. /\ g \in Nat
        /\ LocalSocket(s, queue.sent, g, Published)
    BY <1>1, Values DEF LocalSockets, SentLocal
  <2>2. SentLocal' = IF writer.msg.big THEN Published ELSE Published + 1
    BY <1>1, <1>4 DEF SentLocal
  <2>3. ASSUME NEW i \in 1 .. Len(s)
        PROVE  /\ s[i].n \in g + 1 .. Published
               /\ s[i] = queue'.sent[s[i].n] /\ s[i].big
               /\ \A j \in 1 .. i - 1 : s[j].n < s[i].n
    <3>1. /\ s[i].n \in g + 1 .. Published
          /\ s[i] = queue.sent[s[i].n] /\ s[i].big
          /\ \A j \in 1 .. i - 1 : s[j].n < s[i].n
      BY <2>1 DEF LocalSocket
    <3>2. s[i].n \in 1 .. Published
      BY <1>4, <2>1, <3>1
    <3>3. s[i] = queue'.sent[s[i].n]
      BY <1>5, <3>1, <3>2
    <3> QED BY <3>1, <3>3
  <2>4. ASSUME NEW k \in g + 1 .. SentLocal', queue'.sent[k].big
        PROVE  \E i \in 1 .. Len(s) : s[i].n = k
    <3>1. k # Published + 1
      BY <1>4, <1>5, <2>1, <2>2, <2>4
    <3>2. k \in g + 1 .. Published /\ k \in 1 .. Published
      BY <1>4, <2>1, <2>2, <3>1
    <3>3. queue.sent[k].big
      BY <1>5, <2>4, <3>2
    <3> QED BY <2>1, <3>2, <3>3 DEF LocalSocket
  <2>5. g <= SentLocal' /\ \A i \in g + 1 .. Published : i \in g + 1 .. SentLocal'
    BY <1>4, <2>1, <2>2 DEF LocalSocket
  <2> HIDE DEF s, g
  <2> QED BY <2>3, <2>4, <2>5 DEF LocalSocket, s, g
<1>14. RemoteSockets'
  <2> SUFFICES ASSUME NEW r \in Remote
      PROVE  RemoteSocket(socket[r], queue'.sent, Len(queue.got[r]), Published)
    <3>1. SentRemote' = Published
      BY <1>1, <1>4 DEF SentRemote
    <3> QED BY <1>1, <1>2, <3>1 DEF RemoteSockets
  <2>1. Len(queue.got[r]) \in Nat /\ Len(socket[r]) \in Nat
    BY Values DEF Readers
  <2>2. RemoteSocket(socket[r], queue.sent, Len(queue.got[r]), Published)
    BY <1>1 DEF RemoteSockets, SentRemote
  <2>3. Len(queue.got[r]) + Len(socket[r]) = Published
    BY <2>2 DEF RemoteSocket
  <2>4. ASSUME NEW i \in 1 .. Len(socket[r])
        PROVE  socket[r][i] = queue'.sent[Len(queue.got[r]) + i]
    <3>1. Len(queue.got[r]) + i \in 1 .. Published
      BY <2>1, <2>3, IndexSum
    <3> QED BY <1>5, <2>2, <3>1 DEF RemoteSocket
  <2> QED BY <2>3, <2>4 DEF RemoteSocket
<1> QED
  BY <1>3, <1>6, <1>7, <1>8, <1>9, <1>10, <1>11, <1>12, <1>13, <1>14

\* A large message follows on the sockets of the local readers.
LEMMA SendLocalStep ==
  ASSUME IndInv, SendLocal
  PROVE  IndInv'
<1> USE DEF IndInv
<1>1. /\ writer.at = "send" /\ writer'.at = "remote"
      /\ writer' = [writer EXCEPT !.at = "remote"]
      /\ writer'.idx = writer.idx /\ writer'.clear = writer.clear /\ writer'.msg = writer.msg
      /\ Published \in Nat \ {0} /\ writer.msg = queue.sent[Published] /\ writer.msg.big
      /\ queue.sent \in Seq(Messages)
      /\ UNCHANGED <<memory, reader, queue>>
  BY Values DEF SendLocal, TypeOK, Numbered
<1>2. writer.msg \in Messages /\ writer.msg.n = Published
  BY <1>1 DEF Numbered, Published
<1>3. /\ socket' \in [Readers -> Seq(Messages)]
      /\ \A r \in Local : socket[r] \in Seq(Messages) /\ socket'[r] = Append(socket[r], writer.msg)
      /\ \A r \in Remote : socket'[r] = socket[r]
  <2>1. \A r \in Remote : r \notin Local
    BY MessageQueueAssumption DEF Local
  <2>2. \A r \in Readers : socket[r] \in Seq(Messages) /\ Append(socket[r], writer.msg) \in Seq(Messages)
    BY <1>1, <1>2, AppendProperties DEF TypeOK
  <2> QED BY <2>1, <2>2 DEF SendLocal, Readers
<1>4. TypeOK'
  BY <1>1, <1>2, <1>3 DEF TypeOK, WriterPlaces, memory
<1>5. Published' = Published /\ Held' = Held /\ Marked' = Marked /\ ~Filling' /\ ~Filling
  BY <1>1, <1>2, SameHeld, SameMarked DEF Filling
<1>6. Numbered' /\ Prefixes'
  BY <1>1, <1>2, <1>5 DEF Numbered, Prefixes
<1>7. Distance' /\ Positions' /\ Knows'
  BY <1>1, <1>2, <1>5 DEF Distance, Positions, Knows, ReaderKnows, memory
<1>8. Contents' /\ Filled'
  BY <1>1, <1>2, <1>5 DEF Contents, Filled, Filling, memory
<1>9. LocalSockets'
  <2> SUFFICES ASSUME NEW r \in Local
      PROVE  LocalSocket(socket'[r], queue.sent, Len(queue.got[r]), Published)
    BY <1>1, <1>2, <1>5 DEF LocalSockets, SentLocal
  <2> DEFINE s == socket[r]
             t == socket'[r]
             g == Len(queue.got[r])
  <2>1. g \in Nat /\ LocalSocket(s, queue.sent, g, Published - 1)
    BY <1>1, <1>2, Values DEF LocalSockets, SentLocal
  <2>2. /\ s \in Seq(Messages) /\ Len(s) \in Nat /\ Len(t) = Len(s) + 1
        /\ \A i \in 1 .. Len(s) : t[i] = s[i]
        /\ t[Len(s) + 1] = writer.msg
    BY <1>1, <1>2, <1>3, AppendProperties
  <2>3. /\ g <= Published - 1
        /\ \A i \in 1 .. Len(s) :
             /\ s[i].n \in g + 1 .. Published - 1
             /\ s[i] = queue.sent[s[i].n] /\ s[i].big
             /\ \A j \in 1 .. i - 1 : s[j].n < s[i].n
        /\ \A k \in g + 1 .. Published - 1 : queue.sent[k].big => \E i \in 1 .. Len(s) : s[i].n = k
    BY <2>1 DEF LocalSocket
  <2> HIDE DEF s, t, g
  <2>4. ASSUME NEW i \in 1 .. Len(t)
        PROVE  /\ t[i].n \in g + 1 .. Published
               /\ t[i] = queue.sent[t[i].n] /\ t[i].big
               /\ \A j \in 1 .. i - 1 : t[j].n < t[i].n
    <3>1. CASE i = Len(s) + 1
      <4>1. \A j \in 1 .. Len(s) : t[j].n < Published
        BY <1>1, <2>1, <2>2, <2>3
      <4>2. t[i] = writer.msg /\ i - 1 = Len(s)
        BY <2>2, <3>1
      <4>3. Published \in g + 1 .. Published
        BY <1>1, <2>1, <2>3
      <4> QED BY <1>1, <1>2, <4>1, <4>2, <4>3
    <3>2. CASE i \in 1 .. Len(s)
      <4>1. t[i] = s[i] /\ \A j \in 1 .. i - 1 : t[j] = s[j]
        BY <2>2, <3>2
      <4>2. s[i].n \in g + 1 .. Published
        BY <1>1, <2>1, <2>3, <3>2
      <4> QED BY <2>3, <3>2, <4>1, <4>2
    <3> QED BY <2>2, <3>1, <3>2
  <2>5. ASSUME NEW k \in g + 1 .. Published, queue.sent[k].big
        PROVE  \E i \in 1 .. Len(t) : t[i].n = k
    <3>1. CASE k = Published
      BY <1>1, <1>2, <2>2, <3>1
    <3>2. CASE k # Published
      <4>1. PICK i \in 1 .. Len(s) : s[i].n = k
        BY <1>1, <2>1, <2>5, <2>3, <3>2
      <4> QED BY <2>2, <4>1
    <3> QED BY <3>1, <3>2
  <2>6. g <= Published
    BY <1>1, <2>1, <2>3
  <2> QED BY <2>4, <2>5, <2>6 DEF LocalSocket, s, t, g
<1>10. RemoteSockets'
  BY <1>1, <1>2, <1>3, <1>5 DEF RemoteSockets, SentRemote
<1> QED BY <1>4, <1>6, <1>7, <1>8, <1>9, <1>10

\* Every message is sent to the remote readers.
LEMMA SendRemoteStep ==
  ASSUME IndInv, SendRemote
  PROVE  IndInv'
<1> USE DEF IndInv
<1>1. /\ writer.at = "remote" /\ writer'.at = "idle"
      /\ writer' = [writer EXCEPT !.at = "idle", !.msg = Torn]
      /\ writer'.idx = writer.idx /\ writer'.clear = writer.clear
      /\ Published \in Nat \ {0} /\ writer.msg = queue.sent[Published]
      /\ queue.sent \in Seq(Messages) /\ writer.msg \in Messages
      /\ UNCHANGED <<memory, reader, queue>>
  BY Values DEF SendRemote, TypeOK, Numbered, Published
<1>2. /\ socket' \in [Readers -> Seq(Messages)]
      /\ \A r \in Remote : socket[r] \in Seq(Messages) /\ socket'[r] = Append(socket[r], writer.msg)
      /\ \A r \in Local : socket'[r] = socket[r]
  <2>1. \A r \in Local : r \notin Remote
    BY MessageQueueAssumption DEF Local
  <2>2. \A r \in Readers : socket[r] \in Seq(Messages) /\ Append(socket[r], writer.msg) \in Seq(Messages)
    BY <1>1, AppendProperties DEF TypeOK
  <2> QED BY <2>1, <2>2 DEF SendRemote, Readers
<1>3. TypeOK'
  BY <1>1, <1>2 DEF TypeOK, WriterPlaces, memory
<1>4. Published' = Published /\ Held' = Held /\ Marked' = Marked /\ ~Filling' /\ ~Filling
  BY <1>1, SameHeld, SameMarked DEF Filling
<1>5. Numbered' /\ Prefixes'
  BY <1>1, <1>4 DEF Numbered, Prefixes
<1>6. Distance' /\ Positions' /\ Knows'
  BY <1>1, <1>4 DEF Distance, Positions, Knows, ReaderKnows, memory
<1>7. Contents' /\ Filled'
  BY <1>1, <1>4 DEF Contents, Filled, Filling, memory
<1>8. LocalSockets'
  BY <1>1, <1>2, <1>4 DEF LocalSockets, SentLocal
<1>9. RemoteSockets'
  <2> SUFFICES ASSUME NEW r \in Remote
      PROVE  RemoteSocket(socket'[r], queue.sent, Len(queue.got[r]), Published)
    BY <1>1, <1>4 DEF RemoteSockets, SentRemote
  <2> DEFINE s == socket[r]
             t == socket'[r]
             g == Len(queue.got[r])
  <2>1. g \in Nat /\ RemoteSocket(s, queue.sent, g, Published - 1)
    BY <1>1, Values DEF RemoteSockets, SentRemote, Readers
  <2>2. /\ s \in Seq(Messages) /\ Len(s) \in Nat /\ Len(t) = Len(s) + 1
        /\ \A i \in 1 .. Len(s) : t[i] = s[i]
        /\ t[Len(s) + 1] = writer.msg
    BY <1>1, <1>2, AppendProperties
  <2>3. g + Len(s) = Published - 1 /\ \A i \in 1 .. Len(s) : s[i] = queue.sent[g + i]
    BY <2>1 DEF RemoteSocket
  <2> HIDE DEF s, t, g
  <2>4. \A i \in 1 .. Len(t) : t[i] = queue.sent[g + i]
    <3> SUFFICES ASSUME NEW i \in 1 .. Len(t) PROVE t[i] = queue.sent[g + i]
      OBVIOUS
    <3>1. CASE i = Len(s) + 1
      <4>1. g + i = Published
        BY <1>1, <2>1, <2>2, <2>3, <3>1
      <4> QED BY <1>1, <2>2, <3>1, <4>1
    <3>2. CASE i \in 1 .. Len(s)
      BY <2>2, <2>3, <3>2
    <3> QED BY <2>2, <3>1, <3>2
  <2>5. g + Len(t) = Published
    BY <1>1, <2>1, <2>2, <2>3, SMTT(60)
  <2> QED BY <2>4, <2>5 DEF RemoteSocket, s, t, g
<1> QED BY <1>3, <1>5, <1>6, <1>7, <1>8, <1>9

-----------------------------------------------------------------------------
(* The readers.                                                             *)

\* A reader that only looks changes nothing but what it knows.
LEMMA LookStep ==
  ASSUME IndInv, NEW r \in Local,
         UNCHANGED <<memory, socket, writer, queue>>,
         reader' \in [Local -> ReaderStates],
         \A x \in Local : x # r => reader'[x] = reader[x],
         reader'[r].idx = reader[r].idx,
         reader[r].at # "recv", reader'[r].at # "recv",
         ReaderKnows(reader'[r], Marked[r])
  PROVE  IndInv'
<1> USE DEF IndInv
<1>1. TypeOK'
  BY DEF TypeOK, ReaderStates, memory
<1>2. \A x \in Local : reader'[x].idx = reader[x].idx /\ (reader'[x].at = "recv" <=> reader[x].at = "recv")
  OBVIOUS
<1>3. Published' = Published /\ Held' = Held /\ Marked' = Marked /\ (Filling' <=> Filling)
  BY <1>2, SameHeld, SameMarked DEF Filling
<1>4. Prefixes' /\ LocalSockets' /\ RemoteSockets'
  BY SameReceived
<1>5. Numbered' /\ Distance'
  BY <1>3 DEF Numbered, Distance
<1>6. Positions'
  BY <1>2, <1>3 DEF Positions
<1>7. Contents' /\ Filled'
  BY <1>3 DEF Contents, Filled, Filling, memory
<1>8. Knows'
  <2> SUFFICES ASSUME NEW x \in Local
               PROVE  ReaderKnows(reader'[x], Marked[x])
    BY <1>3 DEF Knows, ReaderKnows, memory
  <2> QED BY DEF Knows
<1> QED BY <1>1, <1>4, <1>5, <1>6, <1>7, <1>8

\* A read flag that is clear in a chunk that is written is about the next message:
\* the message of a round ago would have been marked.
LEMMA ReadFlagStep ==
  ASSUME NEW r \in Local, IndInv, ReadFlag(r)
  PROVE  IndInv'
<1> USE DEF IndInv
<1>1. /\ reader[r].at = "idle" /\ reader'[r].at = "check"
      /\ reader'[r].idx = reader[r].idx
      /\ reader'[r].flag = read[reader[r].idx][r]
      /\ reader[r].idx \in Chunks
      /\ \A x \in Local : x # r => reader'[x] = reader[x]
      /\ UNCHANGED <<memory, socket, writer, queue>>
  BY DEF ReadFlag, TypeOK
<1>2. reader' \in [Local -> ReaderStates]
  <2> DEFINE new == [reader[r] EXCEPT !.at = "check", !.flag = read[reader[r].idx][r]]
  <2>1. reader \in [Local -> ReaderStates] /\ reader[r] \in ReaderStates
    BY DEF TypeOK, ReaderStates
  <2>2. new \in ReaderStates
    <3>1. read[reader[r].idx][r] \in BOOLEAN
      BY <1>1 DEF TypeOK
    <3> QED BY <2>1, <3>1 DEF ReaderStates, ReaderPlaces
  <2>3. reader' = [reader EXCEPT ![r] = new]
    BY <2>1 DEF ReadFlag, ReaderStates
  <2> HIDE DEF new
  <2> QED BY <2>1, <2>2, <2>3
<1>3. ASSUME ~read[reader[r].idx][r], written[reader[r].idx]
      PROVE  Marked[r] < Published
  <2> DEFINE c == reader[r].idx
  <2>1. /\ ~(Filling /\ c = writer.idx)
        /\ Held[c] \in Int /\ Marked[r] \in Nat /\ Published \in Nat /\ MaxChunks \in Nat \ {0}
    BY <1>1, <1>3, HeldRange, Values, MessageQueueAssumption DEF Filled
  <2>2. Held[c] > 0 /\ ~(Marked[r] >= Held[c])
    BY <1>1, <1>3, <2>1 DEF Contents
  <2>3. Marked[r] <= Published /\ (Marked[r] = Published => Held[c] = Marked[r] + 1 - MaxChunks)
    BY DEF Distance, Positions
  <2> QED BY <2>1, <2>2, <2>3
<1>4. ReaderKnows(reader'[r], Marked[r])
  BY <1>1, <1>3 DEF ReaderKnows
<1> QED BY <1>1, <1>2, <1>4, LookStep

\* Past both flags the next message is there.
LEMMA CheckWrittenStep ==
  ASSUME NEW r \in Local, IndInv, CheckWritten(r)
  PROVE  IndInv'
<1> USE DEF IndInv
<1>1. /\ reader[r].at = "check"
      /\ reader'[r].at = IF ~written[reader[r].idx] \/ reader[r].flag THEN "idle" ELSE "first"
      /\ reader'[r].idx = reader[r].idx
      /\ \A x \in Local : x # r => reader'[x] = reader[x]
      /\ UNCHANGED <<memory, socket, writer, queue>>
  BY DEF CheckWritten, TypeOK
<1>2. reader' \in [Local -> ReaderStates]
  <2> DEFINE new == [reader[r] EXCEPT !.at = IF ~written[reader[r].idx] \/ reader[r].flag THEN "idle" ELSE "first",
                           !.flag = FALSE]
  <2>1. reader \in [Local -> ReaderStates] /\ reader[r] \in ReaderStates
    BY DEF TypeOK, ReaderStates
  <2>2. new \in ReaderStates
    BY <1>1, <2>1 DEF ReaderStates, ReaderPlaces, TypeOK
  <2>3. reader' = [reader EXCEPT ![r] = new]
    BY <2>1 DEF CheckWritten, ReaderStates
  <2> HIDE DEF new
  <2> QED BY <2>1, <2>2, <2>3
<1>3. ReaderKnows(reader[r], Marked[r])
  BY DEF Knows
<1>4. ReaderKnows(reader'[r], Marked[r])
  BY <1>1, <1>3 DEF ReaderKnows
<1> QED BY <1>1, <1>2, <1>4, LookStep

\* The chunk that a reader copies from holds the next message.
LEMMA ReadsNext ==
  ASSUME NEW r \in Local, IndInv, reader[r].at \in {"first", "body", "mark"}
  PROVE  LET c == reader[r].idx
         IN  /\ c \in Chunks /\ Marked[r] \in Nat /\ Published \in Nat /\ Marked[r] < Published
             /\ ~(Filling /\ c = writer.idx)
             /\ Held[c] = Marked[r] + 1
             /\ first[c] = queue.sent[Marked[r] + 1].big
             /\ ~first[c] => body[c] = queue.sent[Marked[r] + 1]
<1> USE DEF IndInv
<1> DEFINE c == reader[r].idx
<1>1. /\ c \in Chunks /\ Marked[r] \in Nat /\ Published \in Nat /\ MaxChunks \in Nat
      /\ Marked[r] < Published /\ writer.idx \in Chunks
  BY Values, MessageQueueAssumption DEF Knows, ReaderKnows
<1>2. Held[c] = Marked[r] + 1
  BY <1>1 DEF Positions
<1>3. ~(Filling /\ c = writer.idx)
  <2>1. c = writer.idx => Held[c] = Published + 1 - MaxChunks
    BY <1>1, HeldRange
  <2>2. Filling => Published < Marked[r] + MaxChunks
    BY DEF Distance
  <2> QED BY <1>1, <1>2, <2>1, <2>2
<1>4. /\ first[c] = queue.sent[Held[c]].big
      /\ ~first[c] => body[c] = queue.sent[Held[c]]
  BY <1>1, <1>2, <1>3 DEF Contents
<1> QED BY <1>1, <1>2, <1>3, <1>4

\* The first byte that a reader copies is that of its next message.
LEMMA ReadFirstStep ==
  ASSUME NEW r \in Local, IndInv, ReadFirst(r)
  PROVE  IndInv'
<1> USE DEF IndInv
<1>1. /\ reader[r].at = "first"
      /\ reader[r].idx \in Chunks /\ first[reader[r].idx] \in BOOLEAN
      /\ reader'[r].at = IF first[reader[r].idx] THEN "mark" ELSE "body"
      /\ reader'[r].overflow = first[reader[r].idx]
      /\ reader'[r].idx = reader[r].idx
      /\ \A x \in Local : x # r => reader'[x] = reader[x]
      /\ UNCHANGED <<memory, socket, writer, queue>>
  BY DEF ReadFirst, TypeOK
<1>2. reader' \in [Local -> ReaderStates]
  <2> DEFINE new == [reader[r] EXCEPT !.overflow = first[reader[r].idx],
                           !.at = IF first[reader[r].idx] THEN "mark" ELSE "body"]
  <2>1. reader \in [Local -> ReaderStates] /\ reader[r] \in ReaderStates
    BY DEF TypeOK, ReaderStates
  <2>2. new \in ReaderStates
    BY <1>1, <2>1 DEF ReaderStates, ReaderPlaces, TypeOK
  <2>3. reader' = [reader EXCEPT ![r] = new]
    BY <2>1 DEF ReadFirst, ReaderStates
  <2> HIDE DEF new
  <2> QED BY <2>1, <2>2, <2>3
<1>3. Marked[r] < Published /\ first[reader[r].idx] = queue.sent[Marked[r] + 1].big
  BY <1>1, ReadsNext
<1>4. ReaderKnows(reader'[r], Marked[r])
  BY <1>1, <1>3 DEF ReaderKnows
<1> QED BY <1>1, <1>2, <1>4, LookStep

\* The body that a reader copies is that of its next message.
LEMMA ReadBodyStep ==
  ASSUME NEW r \in Local, IndInv, ReadBody(r)
  PROVE  IndInv'
<1> USE DEF IndInv
<1>1. /\ reader[r].at = "body" /\ reader'[r].at = "mark"
      /\ reader[r].idx \in Chunks /\ body[reader[r].idx] \in Messages \cup {Torn}
      /\ reader'[r].obj = body[reader[r].idx]
      /\ reader'[r].overflow = reader[r].overflow
      /\ reader'[r].idx = reader[r].idx
      /\ \A x \in Local : x # r => reader'[x] = reader[x]
      /\ UNCHANGED <<memory, socket, writer, queue>>
  BY DEF ReadBody, TypeOK
<1>2. reader' \in [Local -> ReaderStates]
  <2> DEFINE new == [reader[r] EXCEPT !.obj = body[reader[r].idx], !.at = "mark"]
  <2>1. reader \in [Local -> ReaderStates] /\ reader[r] \in ReaderStates
    BY DEF TypeOK, ReaderStates
  <2>2. new \in ReaderStates
    BY <1>1, <2>1 DEF ReaderStates, ReaderPlaces, TypeOK
  <2>3. reader' = [reader EXCEPT ![r] = new]
    BY <2>1 DEF ReadBody, ReaderStates
  <2> HIDE DEF new
  <2> QED BY <2>1, <2>2, <2>3
<1>3. /\ Marked[r] < Published
      /\ first[reader[r].idx] = queue.sent[Marked[r] + 1].big
      /\ ~first[reader[r].idx] => body[reader[r].idx] = queue.sent[Marked[r] + 1]
  BY <1>1, ReadsNext
<1>4. ~reader'[r].overflow /\ ~queue.sent[Marked[r] + 1].big
  BY <1>1 DEF Knows, ReaderKnows
<1>5. ReaderKnows(reader'[r], Marked[r])
  <2>1. queue.sent[Marked[r] + 1].big \in BOOLEAN /\ first[reader[r].idx] \in BOOLEAN
        /\ reader'[r].overflow \in BOOLEAN
    BY <1>1, <1>3 DEF TypeOK
  <2> QED BY <1>1, <1>3, <1>4, <2>1 DEF ReaderKnows
<1> QED BY <1>1, <1>2, <1>5, LookStep

\* What a reader gets is the next message; r's count of marked chunks goes up, and
\* its chunk is not the one being filled.
LEMMA MarkReadStep ==
  ASSUME NEW r \in Local, IndInv, MarkRead(r)
  PROVE  IndInv'
<1> USE DEF IndInv
<1> DEFINE c == reader[r].idx
           g == Len(queue.got[r])
           next == queue.sent[Marked[r] + 1]
<1>1. /\ reader[r].at = "mark"
      /\ reader'[r].at = IF reader[r].overflow THEN "recv" ELSE "idle"
      /\ reader'[r].idx = Advance(c)
      /\ \A x \in Local : x # r => reader'[x] = reader[x]
      /\ UNCHANGED <<written, first, body, socket, writer>>
      /\ r \in Readers
  BY DEF MarkRead, TypeOK, Readers
<1>2. /\ c \in Chunks /\ Marked[r] \in Nat /\ Published \in Nat /\ Marked[r] < Published
      /\ ~(Filling /\ c = writer.idx)
      /\ Held[c] = Marked[r] + 1
      /\ MaxChunks \in Nat \ {0}
      /\ Held \in [Chunks -> Int] /\ Marked \in [Local -> Nat]
  BY <1>1, ReadsNext, Values, MessageQueueAssumption
<1>3. /\ next \in Messages
      /\ reader[r].overflow = next.big
      /\ ~reader[r].overflow => reader[r].obj = next
  <2>1. next \in Messages
    BY <1>2 DEF TypeOK, Published
  <2> QED BY <1>1, <2>1 DEF Knows, ReaderKnows
<1>4. Marked[r] = g /\ g \in Nat
  BY <1>1, Values DEF Marked
<1>5. /\ queue'.sent = queue.sent
      /\ \A x \in Readers : x # r => queue'.got[x] = queue.got[x]
      /\ queue'.got[r] = IF next.big THEN queue.got[r] ELSE Append(queue.got[r], next)
      /\ queue' \in [sent : Seq(Messages), got : [Readers -> Seq(Messages \cup {Torn})]]
      /\ next.big => queue' = queue
  <2>1. CASE next.big
    <3>1. queue' = queue
      BY <1>3, <2>1 DEF MarkRead
    <3> QED BY <2>1, <3>1 DEF TypeOK
  <2>2. CASE ~next.big
    <3>1. queue' = [queue EXCEPT !.got[r] = Append(queue.got[r], next)]
      BY <1>3, <2>2 DEF MarkRead, Return
    <3>2. Append(queue.got[r], next) \in Seq(Messages \cup {Torn})
      BY <1>1, <1>3, AppendProperties DEF TypeOK
    <3> QED BY <1>1, <2>2, <3>1, <3>2 DEF TypeOK
  <2> QED BY <2>1, <2>2
<1>6. /\ Published' = Published /\ Held' = Held /\ (Filling' <=> Filling)
      /\ SentLocal' = SentLocal /\ SentRemote' = SentRemote
  BY <1>1, <1>5, SameHeld DEF Filling, SentLocal, SentRemote
<1>7. /\ Len(queue'.got[r]) = IF next.big THEN g ELSE g + 1
      /\ queue.got[r] \in Seq(Messages \cup {Torn})
      /\ \A k \in 1 .. g : queue'.got[r][k] = queue.got[r][k]
      /\ ~next.big => queue'.got[r][g + 1] = next
  <2>1. queue.got[r] \in Seq(Messages \cup {Torn})
    BY <1>1 DEF TypeOK
  <2> QED BY <1>3, <1>5, <2>1, AppendProperties
<1>8. Marked' = [Marked EXCEPT ![r] = Marked[r] + 1]
  <2>1. ASSUME NEW x \in Local
        PROVE  Marked'[x] = IF x = r THEN Marked[r] + 1 ELSE Marked[x]
    <3>1. CASE x = r
      BY <1>1, <1>3, <1>4, <1>7, <3>1 DEF Marked
    <3>2. CASE x # r
      BY <1>1, <1>5, <3>2 DEF Marked, Readers
    <3> QED BY <3>1, <3>2
  <2>2. Marked' = [x \in Local |-> Marked'[x]]
    BY DEF Marked
  <2> QED BY <1>2, <2>1, <2>2
<1>9. /\ read' \in [Chunks -> [Local -> BOOLEAN]]
      /\ \A d \in Chunks, x \in Local :
           read'[d][x] = IF d = c /\ x = r THEN TRUE ELSE read[d][x]
  BY <1>2 DEF MarkRead, TypeOK
<1>10. TypeOK'
  <2> DEFINE new == [reader[r] EXCEPT !.idx = Advance(c),
                       !.at = IF reader[r].overflow THEN "recv" ELSE "idle",
                       !.overflow = FALSE, !.obj = Torn]
  <2>1. reader \in [Local -> ReaderStates] /\ reader[r] \in ReaderStates
    BY DEF TypeOK, ReaderStates
  <2>2. new \in ReaderStates
    BY <1>2, <2>1, AdvanceValue DEF ReaderStates, ReaderPlaces
  <2>3. reader' = [reader EXCEPT ![r] = new]
    BY <2>1 DEF MarkRead, ReaderStates
  <2> HIDE DEF new
  <2>4. reader' \in [Local -> ReaderStates]
    BY <2>1, <2>2, <2>3
  <2> QED BY <1>1, <1>5, <1>9, <2>4 DEF TypeOK, ReaderStates
<1> HIDE DEF c, g, next
<1>11. Numbered'
  BY <1>1, <1>5, <1>6 DEF Numbered
<1>12. Prefixes'
  <2> SUFFICES ASSUME NEW x \in Readers
               PROVE  /\ Len(queue'.got[x]) <= Published
                      /\ \A k \in 1 .. Len(queue'.got[x]) : queue'.got[x][k] = queue.sent[k]
    BY <1>5, <1>6 DEF Prefixes
  <2>1. CASE x # r
    BY <1>5, <2>1 DEF Prefixes
  <2>2. CASE x = r
    <3>1. Len(queue'.got[r]) <= Published
      BY <1>2, <1>4, <1>7
    <3>2. \A k \in 1 .. g : queue'.got[r][k] = queue.sent[k]
      BY <1>1, <1>7 DEF Prefixes, g
    <3>3. ~next.big => queue'.got[r][g + 1] = queue.sent[g + 1]
      BY <1>4, <1>7 DEF next
    <3>4. \A k \in 1 .. Len(queue'.got[r]) : k \in 1 .. g \/ (~next.big /\ k = g + 1)
      BY <1>4, <1>7
    <3> QED BY <2>2, <3>1, <3>2, <3>3, <3>4
  <2> QED BY <2>1, <2>2
<1>13. Distance'
  <2> SUFFICES ASSUME NEW x \in Local
               PROVE  /\ Marked'[x] <= Published
                      /\ Published <= Marked'[x] + MaxChunks
                      /\ Filling => Published < Marked'[x] + MaxChunks
    BY <1>6 DEF Distance
  <2>1. /\ Marked[x] \in Nat /\ Marked[x] <= Published
        /\ Published <= Marked[x] + MaxChunks
        /\ Filling => Published < Marked[x] + MaxChunks
    BY <1>2 DEF Distance
  <2>2. Marked'[x] = IF x = r THEN Marked[x] + 1 ELSE Marked[x]
    BY <1>2, <1>8
  <2> QED BY <1>2, <2>1, <2>2
<1>14. Positions'
  <2> SUFFICES ASSUME NEW x \in Local
      PROVE  Held[reader'[x].idx] = IF Marked'[x] = Published THEN Marked'[x] + 1 - MaxChunks
                                    ELSE Marked'[x] + 1
    BY <1>6 DEF Positions
  <2>1. CASE x # r
    BY <1>1, <1>2, <1>8, <2>1 DEF Positions
  <2>2. CASE x = r
    <3>1. Held[Advance(c)] = IF Held[c] = Published THEN Published + 1 - MaxChunks ELSE Held[c] + 1
      BY <1>2, HeldNext
    <3>2. Marked'[x] = Marked[r] + 1
      BY <1>2, <1>8, <2>2
    <3> QED BY <1>1, <1>2, <2>2, <3>1, <3>2
  <2> QED BY <2>1, <2>2
<1>15. Contents'
  <2> SUFFICES ASSUME NEW d \in Chunks, ~(Filling /\ d = writer.idx)
               PROVE  /\ Held[d] <= 0 => ~written[d]
                      /\ Held[d] > 0 =>
                           /\ written[d]
                           /\ first[d] = queue.sent[Held[d]].big
                           /\ ~first[d] => body[d] = queue.sent[Held[d]]
                           /\ \A x \in Local : read'[d][x] <=> Marked'[x] >= Held[d]
    BY <1>1, <1>5, <1>6 DEF Contents
  <2>1. ASSUME Held[d] > 0, NEW x \in Local
        PROVE  read'[d][x] <=> Marked'[x] >= Held[d]
    <3>1. read[d][x] <=> Marked[x] >= Held[d]
      BY <2>1 DEF Contents
    <3>2. CASE x # r
      BY <1>2, <1>8, <1>9, <3>1, <3>2
    <3>3. CASE x = r /\ d = c
      <4>1. read'[d][x] = TRUE
        BY <1>9, <3>3
      <4>2. Marked'[x] = Marked[r] + 1
        BY <1>2, <1>8, <3>3
      <4> QED BY <1>2, <3>3, <4>1, <4>2
    <3>4. CASE x = r /\ d # c
      <4>1. Held[d] # Held[c] /\ Held[d] \in Int
        BY <1>2, <3>4, HeldOnce, HeldRange
      <4>2. Marked'[x] = Marked[x] + 1 /\ Held[d] # Marked[x] + 1 /\ Marked[x] \in Nat
        BY <1>2, <1>8, <3>4, <4>1
      <4>3. read'[d][x] = read[d][x]
        BY <1>9, <3>4
      <4> QED BY <3>1, <4>1, <4>2, <4>3
    <3> QED BY <3>2, <3>3, <3>4
  <2> QED BY <2>1 DEF Contents
<1>16. Filled'
  <2>1. Filling => writer.idx \in Chunks /\ \A x \in Local : read'[writer.idx][x] = read[writer.idx][x]
    BY <1>2, <1>9, Values
  <2> QED BY <1>1, <1>6, <2>1 DEF Filled, Filling
<1>17. Knows'
  <2> SUFFICES ASSUME NEW x \in Local
               PROVE  ReaderKnows(reader'[x], Marked'[x])
    BY <1>1, <1>5, <1>6 DEF Knows, ReaderKnows
  <2>1. CASE x # r
    BY <1>1, <1>2, <1>8, <2>1 DEF Knows
  <2>2. CASE x = r
    <3>1. Marked'[x] = Marked[r] + 1 /\ (reader'[x].at = "recv" => next.big)
          /\ reader'[x].at \in {"recv", "idle"}
      BY <1>1, <1>2, <1>3, <1>8, <2>2
    <3> QED BY <3>1 DEF ReaderKnows, next
  <2> QED BY <2>1, <2>2
<1>18. LocalSockets'
  <2> SUFFICES ASSUME NEW x \in Local
               PROVE  LocalSocket(socket[x], queue.sent, Len(queue'.got[x]), SentLocal)
    BY <1>1, <1>5, <1>6 DEF LocalSockets
  <2>1. LocalSocket(socket[x], queue.sent, Len(queue.got[x]), SentLocal) /\ x \in Readers
    BY DEF LocalSockets, Readers
  <2>2. CASE x # r \/ next.big
    BY <1>5, <2>1, <2>2
  <2>3. CASE x = r /\ ~next.big
    <3> DEFINE s == socket[r]
    <3>1. LocalSocket(s, queue.sent, g, SentLocal) /\ Len(queue'.got[x]) = g + 1
      BY <1>7, <2>1, <2>3 DEF g
    <3>2. SentLocal \in Int /\ g + 1 <= SentLocal
      <4>1. CASE writer.at = "send"
        <5>1. queue.sent[Published].big
          BY <4>1 DEF Numbered
        <5>2. g + 1 # Published
          BY <1>4, <2>3, <5>1 DEF next
        <5> QED BY <1>2, <1>4, <4>1, <5>2 DEF SentLocal
      <4>2. CASE writer.at # "send"
        BY <1>2, <1>4, <4>2 DEF SentLocal
      <4> QED BY <4>1, <4>2
    <3>3. queue.sent[g + 1] = next
      BY <1>4 DEF next
    <3> HIDE DEF s
    <3>4. ASSUME NEW i \in 1 .. Len(s)
          PROVE  s[i].n \in g + 1 + 1 .. SentLocal
      <4>1. s[i].n \in g + 1 .. SentLocal /\ s[i] = queue.sent[s[i].n] /\ s[i].big
        BY <3>1 DEF LocalSocket
      <4>2. s[i].n # g + 1
        BY <2>3, <3>3, <4>1
      <4> QED BY <1>4, <3>2, <4>1, <4>2
    <3>5. \A k \in g + 1 + 1 .. SentLocal : k \in g + 1 .. SentLocal
      BY <1>4, <3>2
    <3>6. LocalSocket(s, queue.sent, g + 1, SentLocal)
      BY <3>1, <3>2, <3>4, <3>5 DEF LocalSocket
    <3> QED BY <2>3, <3>1, <3>6 DEF s
  <2> QED BY <2>2, <2>3
<1>19. RemoteSockets'
  <2>1. \A x \in Remote : x # r /\ x \in Readers
    BY MessageQueueAssumption DEF Local, Readers
  <2> QED BY <1>1, <1>5, <1>6, <2>1 DEF RemoteSockets
<1> QED
  BY <1>10, <1>11, <1>12, <1>13, <1>14, <1>15, <1>16, <1>17, <1>18, <1>19

\* The large message that a local reader waits for is the first on its socket.
LEMMA RecvLocalStep ==
  ASSUME NEW r \in Local, IndInv, RecvLocal(r)
  PROVE  IndInv'
<1> USE DEF IndInv
<1> DEFINE s == socket[r]
           t == socket'[r]
           g == Len(queue.got[r])
           m == Head(s)
<1>1. /\ reader[r].at = "recv" /\ s # <<>> /\ r \in Readers
      /\ reader'[r].at = "idle"
      /\ \A x \in Local : reader'[x].idx = reader[x].idx
      /\ \A x \in Local : x # r => reader'[x] = reader[x]
      /\ UNCHANGED <<memory, writer>>
  BY DEF RecvLocal, TypeOK, Readers
<1>2. /\ s \in Seq(Messages) /\ queue.got[r] \in Seq(Messages \cup {Torn})
      /\ g \in Nat /\ Published \in Nat /\ Marked[r] = g + 1
      /\ queue.sent \in Seq(Messages)
  BY <1>1, Values DEF TypeOK, Marked
<1>3. /\ m \in Messages /\ m = s[1] /\ t \in Seq(Messages)
      /\ Len(s) \in Nat \ {0} /\ Len(t) = Len(s) - 1
      /\ \A i \in 1 .. Len(t) : t[i] = s[i + 1]
      /\ socket' \in [Readers -> Seq(Messages)]
      /\ \A x \in Readers : x # r => socket'[x] = socket[x]
  <2>1. t = Tail(s)
    BY <1>1 DEF RecvLocal, TypeOK
  <2>2. /\ m \in Messages /\ m = s[1] /\ Tail(s) \in Seq(Messages)
        /\ Len(s) \in Nat \ {0} /\ Len(Tail(s)) = Len(s) - 1
        /\ \A i \in 1 .. Len(Tail(s)) : Tail(s)[i] = s[i + 1]
    BY <1>1, <1>2, HeadTailProperties, EmptySeq
  <2>3. socket' \in [Readers -> Seq(Messages)] /\ \A x \in Readers : x # r => socket'[x] = socket[x]
    BY <1>1, <2>2 DEF RecvLocal, TypeOK
  <2> QED BY <2>1, <2>2, <2>3
<1>4. /\ SentLocal \in Int /\ g <= SentLocal
      /\ \A i \in 1 .. Len(s) :
           /\ s[i].n \in g + 1 .. SentLocal
           /\ s[i] = queue.sent[s[i].n] /\ s[i].big
           /\ \A j \in 1 .. i - 1 : s[j].n < s[i].n
      /\ \A k \in g + 1 .. SentLocal : queue.sent[k].big => \E i \in 1 .. Len(s) : s[i].n = k
  <2>1. LocalSocket(s, queue.sent, g, SentLocal)
    BY DEF LocalSockets
  <2>2. SentLocal \in Int
    BY <1>2 DEF SentLocal
  <2> QED BY <2>1, <2>2 DEF LocalSocket
<1>5. queue.sent[g + 1].big
  <2>1. ReaderKnows(reader[r], Marked[r])
    BY DEF Knows
  <2> QED BY <1>1, <1>2, <2>1 DEF ReaderKnows
<1>6. m = queue.sent[g + 1] /\ m.n = g + 1 /\ g + 1 <= SentLocal
  <2>1. 1 \in 1 .. Len(s) /\ s[1].n \in g + 1 .. SentLocal
    BY <1>3, <1>4
  <2>2. g + 1 \in g + 1 .. SentLocal
    BY <1>2, <1>4, <2>1
  <2>3. PICK i \in 1 .. Len(s) : s[i].n = g + 1
    BY <1>4, <1>5, <2>2
  <2>4. i = 1
    <3>1. CASE i > 1
      <4>1. 1 \in 1 .. i - 1 /\ s[1].n \in Int
        BY <2>1, <3>1
      <4>2. s[1].n < g + 1
        BY <1>4, <2>3, <4>1
      <4> QED BY <1>2, <2>1, <4>1, <4>2
    <3> QED BY <3>1
  <2> QED BY <1>2, <1>3, <1>4, <2>1, <2>3, <2>4
<1>7. /\ queue'.sent = queue.sent
      /\ \A x \in Readers : x # r => queue'.got[x] = queue.got[x]
      /\ queue'.got[r] = Append(queue.got[r], m)
      /\ queue' \in [sent : Seq(Messages), got : [Readers -> Seq(Messages \cup {Torn})]]
  <2>1. queue' = [queue EXCEPT !.got[r] = Append(queue.got[r], m)]
    BY DEF RecvLocal, Return
  <2>2. Append(queue.got[r], m) \in Seq(Messages \cup {Torn})
    BY <1>2, <1>3, AppendProperties
  <2> HIDE DEF m
  <2> QED BY <1>1, <2>1, <2>2 DEF TypeOK
<1>8. /\ Len(queue'.got[r]) = g + 1
      /\ \A k \in 1 .. g : queue'.got[r][k] = queue.got[r][k]
      /\ queue'.got[r][g + 1] = m
  BY <1>2, <1>3, <1>7, AppendProperties
<1>9. /\ Published' = Published /\ Held' = Held /\ (Filling' <=> Filling)
      /\ SentLocal' = SentLocal /\ SentRemote' = SentRemote
  BY <1>1, <1>7, SameHeld DEF Filling, SentLocal, SentRemote
<1>10. Marked' = Marked
  <2>1. ASSUME NEW x \in Local
        PROVE  Marked'[x] = Marked[x]
    <3>1. CASE x = r
      BY <1>1, <1>2, <1>8, <3>1 DEF Marked
    <3>2. CASE x # r
      BY <1>1, <1>7, <3>2 DEF Marked, Readers
    <3> QED BY <3>1, <3>2
  <2>2. Marked' = [x \in Local |-> Marked'[x]] /\ Marked = [x \in Local |-> Marked[x]]
    BY DEF Marked
  <2> QED BY <2>1, <2>2
<1>11. TypeOK'
  <2> DEFINE new == [reader[r] EXCEPT !.at = "idle"]
  <2>1. reader \in [Local -> ReaderStates] /\ reader[r] \in ReaderStates
    BY DEF TypeOK, ReaderStates
  <2>2. new \in ReaderStates
    BY <2>1 DEF ReaderStates, ReaderPlaces
  <2>3. reader' = [reader EXCEPT ![r] = new]
    BY <2>1 DEF RecvLocal, ReaderStates
  <2> HIDE DEF new
  <2>4. reader' \in [Local -> ReaderStates]
    BY <2>1, <2>2, <2>3
  <2> QED BY <1>1, <1>3, <1>7, <2>4 DEF TypeOK, ReaderStates, memory
<1> HIDE DEF s, t, g, m
<1>12. Numbered'
  BY <1>1, <1>7, <1>9 DEF Numbered
<1>13. Prefixes'
  <2> SUFFICES ASSUME NEW x \in Readers
               PROVE  /\ Len(queue'.got[x]) <= Published
                      /\ \A k \in 1 .. Len(queue'.got[x]) : queue'.got[x][k] = queue.sent[k]
    BY <1>7, <1>9 DEF Prefixes
  <2>1. CASE x # r
    BY <1>7, <2>1 DEF Prefixes
  <2>2. CASE x = r
    <3>1. Len(queue'.got[r]) <= Published
      BY <1>2, <1>6, <1>8 DEF SentLocal
    <3>2. \A k \in 1 .. g : queue'.got[r][k] = queue.sent[k]
      BY <1>1, <1>8 DEF Prefixes, g
    <3>3. \A k \in 1 .. Len(queue'.got[r]) : k \in 1 .. g \/ k = g + 1
      BY <1>2, <1>8
    <3> QED BY <1>6, <1>8, <2>2, <3>1, <3>2, <3>3
  <2> QED BY <2>1, <2>2
<1>14. Distance' /\ Positions'
  BY <1>1, <1>9, <1>10 DEF Distance, Positions
<1>15. Contents' /\ Filled'
  BY <1>1, <1>7, <1>9, <1>10 DEF Contents, Filled, Filling, memory
<1>16. Knows'
  <2> SUFFICES ASSUME NEW x \in Local
               PROVE  ReaderKnows(reader'[x], Marked[x])
    BY <1>1, <1>7, <1>9, <1>10 DEF Knows, ReaderKnows, memory
  <2>1. CASE x # r
    BY <1>1, <2>1 DEF Knows
  <2>2. CASE x = r
    BY <1>1, <2>2 DEF ReaderKnows
  <2> QED BY <2>1, <2>2
<1>17. LocalSockets'
  <2> SUFFICES ASSUME NEW x \in Local
               PROVE  LocalSocket(socket'[x], queue.sent, Len(queue'.got[x]), SentLocal)
    BY <1>7, <1>9 DEF LocalSockets
  <2>1. CASE x # r
    BY <1>3, <1>7, <2>1 DEF LocalSockets, Readers
  <2>2. CASE x = r
    <3>1. ASSUME NEW i \in 1 .. Len(t)
          PROVE  /\ t[i].n \in g + 1 + 1 .. SentLocal
                 /\ t[i] = queue.sent[t[i].n] /\ t[i].big
                 /\ \A j \in 1 .. i - 1 : t[j].n < t[i].n
      <4>1. i + 1 \in 1 .. Len(s) /\ i \in Nat \ {0} /\ t[i] = s[i + 1]
        BY <1>3
      <4>2. /\ s[i + 1].n \in g + 1 .. SentLocal
            /\ s[i + 1] = queue.sent[s[i + 1].n] /\ s[i + 1].big
            /\ \A j \in 1 .. i : s[j].n < s[i + 1].n
        <5>1. i + 1 - 1 = i
          BY <4>1
        <5> QED BY <1>4, <4>1, <5>1
      <4>3. s[1].n < s[i + 1].n /\ s[1].n = g + 1
        <5>1. 1 \in 1 .. i
          BY <4>1
        <5>2. s[1].n < s[i + 1].n
          BY <4>2, <5>1
        <5> QED BY <1>3, <1>6, <5>2
      <4>4. s[i + 1].n \in g + 1 + 1 .. SentLocal
        BY <1>2, <1>4, <4>2, <4>3
      <4>5. \A j \in 1 .. i - 1 : j + 1 \in 1 .. i /\ t[j] = s[j + 1]
        BY <1>3, <4>1
      <4> QED BY <4>1, <4>2, <4>4, <4>5
    <3>2. ASSUME NEW k \in g + 1 + 1 .. SentLocal, queue.sent[k].big
          PROVE  \E i \in 1 .. Len(t) : t[i].n = k
      <4>1. k \in g + 1 .. SentLocal /\ k # g + 1
        BY <1>2, <1>4
      <4>2. PICK i \in 1 .. Len(s) : s[i].n = k
        BY <1>4, <3>2, <4>1
      <4>3. i # 1
        BY <1>3, <1>6, <4>1, <4>2
      <4>4. i - 1 \in 1 .. Len(t) /\ t[i - 1] = s[i - 1 + 1] /\ i - 1 + 1 = i
        BY <1>3, <4>3
      <4> QED BY <4>2, <4>4
    <3>3. LocalSocket(t, queue.sent, g + 1, SentLocal)
      BY <1>6, <3>1, <3>2 DEF LocalSocket
    <3> QED BY <1>8, <2>2, <3>3 DEF t
  <2> QED BY <2>1, <2>2
<1>18. RemoteSockets'
  <2>1. \A x \in Remote : x # r /\ x \in Readers
    BY MessageQueueAssumption DEF Local, Readers
  <2> QED BY <1>3, <1>7, <1>9, <2>1 DEF RemoteSockets
<1> QED
  BY <1>11, <1>12, <1>13, <1>14, <1>15, <1>16, <1>17, <1>18

\* A remote reader receives everything in the order in which it was sent.
LEMMA RecvRemoteStep ==
  ASSUME NEW r \in Remote, IndInv, RecvRemote(r)
  PROVE  IndInv'
<1> USE DEF IndInv
<1> DEFINE s == socket[r]
           t == socket'[r]
           g == Len(queue.got[r])
           m == Head(s)
<1>1. /\ s # <<>> /\ r \in Readers /\ r \notin Local
      /\ UNCHANGED <<memory, writer, reader>>
  BY MessageQueueAssumption DEF RecvRemote, Readers, Local
<1>2. /\ s \in Seq(Messages) /\ queue.got[r] \in Seq(Messages \cup {Torn})
      /\ g \in Nat /\ Published \in Nat
  BY <1>1, Values DEF TypeOK
<1>3. /\ m \in Messages /\ m = s[1] /\ t \in Seq(Messages)
      /\ Len(s) \in Nat \ {0} /\ Len(t) = Len(s) - 1
      /\ \A i \in 1 .. Len(t) : t[i] = s[i + 1]
      /\ socket' \in [Readers -> Seq(Messages)]
      /\ \A x \in Readers : x # r => socket'[x] = socket[x]
  <2>1. t = Tail(s)
    BY <1>1 DEF RecvRemote, TypeOK
  <2>2. /\ m \in Messages /\ m = s[1] /\ Tail(s) \in Seq(Messages)
        /\ Len(s) \in Nat \ {0} /\ Len(Tail(s)) = Len(s) - 1
        /\ \A i \in 1 .. Len(Tail(s)) : Tail(s)[i] = s[i + 1]
    BY <1>1, <1>2, HeadTailProperties, EmptySeq
  <2>3. socket' \in [Readers -> Seq(Messages)] /\ \A x \in Readers : x # r => socket'[x] = socket[x]
    BY <1>1, <2>2 DEF RecvRemote, TypeOK
  <2> QED BY <2>1, <2>2, <2>3
<1>4. /\ g + Len(s) = SentRemote /\ SentRemote <= Published
      /\ \A i \in 1 .. Len(s) : s[i] = queue.sent[g + i]
  <2>1. SentRemote <= Published
    BY <1>2 DEF SentRemote
  <2> QED BY <2>1 DEF RemoteSockets, RemoteSocket
<1>5. m = queue.sent[g + 1]
  BY <1>3, <1>4
<1>6. /\ queue'.sent = queue.sent
      /\ \A x \in Readers : x # r => queue'.got[x] = queue.got[x]
      /\ queue'.got[r] = Append(queue.got[r], m)
      /\ queue' \in [sent : Seq(Messages), got : [Readers -> Seq(Messages \cup {Torn})]]
  <2>1. queue' = [queue EXCEPT !.got[r] = Append(queue.got[r], m)]
    BY DEF RecvRemote, Return
  <2>2. Append(queue.got[r], m) \in Seq(Messages \cup {Torn})
    BY <1>2, <1>3, AppendProperties
  <2> HIDE DEF m
  <2> QED BY <1>1, <2>1, <2>2 DEF TypeOK
<1>7. /\ Len(queue'.got[r]) = g + 1
      /\ \A k \in 1 .. g : queue'.got[r][k] = queue.got[r][k]
      /\ queue'.got[r][g + 1] = m
  BY <1>2, <1>3, <1>6, AppendProperties
<1>8. /\ Published' = Published /\ Held' = Held /\ (Filling' <=> Filling)
      /\ SentLocal' = SentLocal /\ SentRemote' = SentRemote
  BY <1>1, <1>6, SameHeld DEF Filling, SentLocal, SentRemote
<1>9. Marked' = Marked
  <2>1. \A x \in Local : x # r /\ x \in Readers
    BY <1>1 DEF Readers
  <2> QED BY <1>1, <1>6, <2>1 DEF Marked
<1>10. TypeOK'
  BY <1>1, <1>3, <1>6 DEF TypeOK, memory
<1> HIDE DEF s, t, g, m
<1>11. Numbered'
  BY <1>1, <1>6, <1>8 DEF Numbered
<1>12. Prefixes'
  <2> SUFFICES ASSUME NEW x \in Readers
               PROVE  /\ Len(queue'.got[x]) <= Published
                      /\ \A k \in 1 .. Len(queue'.got[x]) : queue'.got[x][k] = queue.sent[k]
    BY <1>6, <1>8 DEF Prefixes
  <2>1. CASE x # r
    BY <1>6, <2>1 DEF Prefixes
  <2>2. CASE x = r
    <3>1. Len(queue'.got[r]) <= Published
      BY <1>2, <1>3, <1>4, <1>7
    <3>2. \A k \in 1 .. g : queue'.got[r][k] = queue.sent[k]
      BY <1>1, <1>7 DEF Prefixes, g
    <3>3. \A k \in 1 .. Len(queue'.got[r]) : k \in 1 .. g \/ k = g + 1
      BY <1>2, <1>7
    <3> QED BY <1>5, <1>7, <2>2, <3>1, <3>2, <3>3
  <2> QED BY <2>1, <2>2
<1>13. Distance' /\ Positions'
  BY <1>1, <1>8, <1>9 DEF Distance, Positions
<1>14. Contents' /\ Filled'
  BY <1>1, <1>6, <1>8, <1>9 DEF Contents, Filled, Filling, memory
<1>15. Knows'
  BY <1>1, <1>6, <1>8, <1>9 DEF Knows, ReaderKnows, memory
<1>16. LocalSockets'
  <2>1. \A x \in Local : x # r /\ x \in Readers
    BY <1>1 DEF Readers
  <2> QED BY <1>3, <1>6, <1>8, <2>1 DEF LocalSockets
<1>17. RemoteSockets'
  <2> SUFFICES ASSUME NEW x \in Remote
               PROVE  RemoteSocket(socket'[x], queue.sent, Len(queue'.got[x]), SentRemote)
    BY <1>6, <1>8 DEF RemoteSockets
  <2>1. CASE x # r
    BY <1>3, <1>6, <2>1 DEF RemoteSockets, Readers
  <2>2. CASE x = r
    <3>1. \A i \in 1 .. Len(t) : i + 1 \in 1 .. Len(s) /\ g + (i + 1) = g + 1 + i
      BY <1>2, <1>3
    <3>2. \A i \in 1 .. Len(t) : t[i] = queue.sent[g + 1 + i]
      BY <1>3, <1>4, <3>1
    <3>3. g + 1 + Len(t) = SentRemote
      BY <1>2, <1>3, <1>4
    <3>4. RemoteSocket(t, queue.sent, g + 1, SentRemote)
      BY <3>2, <3>3 DEF RemoteSocket
    <3> QED BY <1>7, <2>2, <3>4 DEF t
  <2> QED BY <2>1, <2>2
<1> QED
  BY <1>10, <1>11, <1>12, <1>13, <1>14, <1>15, <1>16, <1>17

-----------------------------------------------------------------------------
(* Every step, and the theorems.                                            *)

\* Every step keeps the invariant.
LEMMA NextInd ==
  ASSUME IndInv, [Next]_vars
  PROVE  IndInv'
<1>1. CASE UNCHANGED vars
  <2>1. UNCHANGED <<written, read, first, body, socket, writer, reader, queue>>
    BY <1>1 DEF vars, memory
  <2>2. /\ Published' = Published /\ Held' = Held /\ Marked' = Marked /\ (Filling' <=> Filling)
        /\ SentLocal' = SentLocal /\ SentRemote' = SentRemote
    BY <2>1 DEF Published, Held, Marked, Filling, SentLocal, SentRemote
  <2>3. TypeOK' /\ Numbered' /\ Prefixes' /\ Distance' /\ Positions'
    BY <2>1, <2>2 DEF IndInv, TypeOK, Numbered, Prefixes, Distance, Positions
  <2>4. Contents' /\ Filled' /\ Knows'
    BY <2>1, <2>2 DEF IndInv, Contents, Filled, Knows, ReaderKnows
  <2>5. LocalSockets' /\ RemoteSockets'
    BY <2>1, <2>2 DEF IndInv, LocalSockets, RemoteSockets
  <2> QED BY <2>3, <2>4, <2>5 DEF IndInv
<1>2. ASSUME NEW big \in BOOLEAN, Enqueue(big)
      PROVE  IndInv'
  BY <1>2, EnqueueStep
<1>3. CASE WriteTimeout
  BY <1>3, WriteTimeoutStep
<1>4. CASE WriterStep
  BY <1>4, AcquireWriteStep, WriteFirstStep, WriteBodyStep, ResetFlagStep, PublishStep,
     SendLocalStep, SendRemoteStep DEF WriterStep
<1>5. ASSUME NEW r \in Local, ReaderStep(r)
      PROVE  IndInv'
  BY <1>5, ReadFlagStep, CheckWrittenStep, ReadFirstStep, ReadBodyStep, MarkReadStep,
     RecvLocalStep DEF ReaderStep
<1>6. ASSUME NEW r \in Remote, RecvRemote(r)
      PROVE  IndInv'
  BY <1>6, RecvRemoteStep
<1> QED BY <1>1, <1>2, <1>3, <1>4, <1>5, <1>6 DEF Next

\* The invariant holds throughout; fairness plays no part in it.
THEOREM Invariant == SafeSpec => []IndInv
BY InitInd, NextInd, PTL DEF SafeSpec

\* Every variable of the ring, the sockets and both sides keeps its type.
THEOREM TypeCorrect == Spec => []TypeOK
<1>1. IndInv => TypeOK
  BY DEF IndInv
<1> QED BY <1>1, Invariant, PTL DEF Spec

\* While the writer fills a chunk no reader is between its look at the flags of
\* that chunk and its mark there.
THEOREM WriterIsAlone == Spec => []WriterAlone
<1>1. IndInv => WriterAlone
  <2> SUFFICES ASSUME IndInv, Filling,
                      NEW r \in Local, reader[r].at \in {"first", "body", "mark"}
               PROVE  reader[r].idx # writer.idx
    BY DEF WriterAlone, Filling
  <2> QED BY ReadsNext
<1> QED BY <1>1, Invariant, PTL DEF Spec

\* Publishing is sending: there is room in the queue because the oldest chunk was
\* read by everybody, up to one large message that a reader still has to receive.
LEMMA PublishSends ==
  ASSUME IndInv, Publish
  PROVE  \E m \in Messages : Abstract!Enqueue(m)
<1>1. writer.at = "publish" /\ Filling /\ queue' = Sent(queue, writer.msg)
  BY DEF Publish, Filling
<1>2. writer.msg \in Messages
  BY <1>1 DEF IndInv, Numbered
<1>3. ASSUME NEW r \in Local
      PROVE  Lag(queue, r) < MaxChunks + 1
  <2>1. Published < Marked[r] + MaxChunks
    BY <1>1 DEF IndInv, Distance
  <2>2. /\ Published \in Nat /\ Len(queue.got[r]) \in Nat /\ MaxChunks \in Nat
        /\ Marked[r] = Len(queue.got[r]) \/ Marked[r] = Len(queue.got[r]) + 1
    BY Values, MessageQueueAssumption DEF IndInv, Marked
  <2>3. Lag(queue, r) = Published - Len(queue.got[r])
    BY DEF Lag, Published
  <2> QED BY <2>1, <2>2, <2>3
<1>4. Room(queue, Local, MaxChunks + 1)
  BY <1>3 DEF Room
<1>5. Abstract!Enqueue(writer.msg)
  BY <1>1, <1>4
     DEF Abstract!Enqueue, Abstract!Room, Abstract!Lag, Abstract!Sent, Room, Lag, Sent
<1> QED BY <1>2, <1>5

\* What dequeue() returns is the next message, because everybody has received a
\* prefix of what was published before the step and after it.
LEMMA ReturnReceives ==
  ASSUME IndInv, IndInv', NEW r \in Readers, NEW m \in Messages \cup {Torn}, Return(r, m)
  PROVE  Abstract!Dequeue(r)
<1> DEFINE g == Len(queue.got[r])
<1>1. /\ queue.got[r] \in Seq(Messages \cup {Torn})
      /\ g \in Nat /\ Published \in Nat
      /\ queue' = [queue EXCEPT !.got[r] = Append(queue.got[r], m)]
  BY Values DEF IndInv, TypeOK, Return
<1>2. queue'.sent = queue.sent /\ queue'.got[r] = Append(queue.got[r], m)
  BY <1>1 DEF IndInv, TypeOK
<1>3. Len(queue'.got[r]) = g + 1 /\ queue'.got[r][g + 1] = m
  BY <1>1, <1>2, AppendProperties
<1>4. /\ Len(queue'.got[r]) <= Len(queue'.sent)
      /\ \A k \in 1 .. Len(queue'.got[r]) : queue'.got[r][k] = queue'.sent[k]
  BY DEF IndInv, Prefixes, Published
<1>5. m = queue.sent[g + 1] /\ g + 1 <= Published
  BY <1>1, <1>2, <1>3, <1>4 DEF Published
<1>6. Lag(queue, r) > 0
  <2>1. Lag(queue, r) = Published - g
    BY DEF Lag, Published
  <2> QED BY <1>1, <1>5, <2>1
<1>7. queue' = Received(queue, r)
  BY <1>1, <1>5 DEF Received, NextFor
<1> QED
  BY <1>6, <1>7
     DEF Abstract!Dequeue, Abstract!Lag, Abstract!Received, Abstract!NextFor, Lag, Received, NextFor

\* Every step of the ring is a step of the broadcast queue or leaves it alone.
LEMMA StepImplements ==
  ASSUME IndInv, [Next]_vars
  PROVE  [Abstract!Next]_queue
<1>0. IndInv'
  BY NextInd
<1>1. CASE UNCHANGED vars
  BY <1>1 DEF vars
<1>2. CASE (\E big \in BOOLEAN : Enqueue(big)) \/ WriteTimeout
  BY <1>2 DEF Enqueue, WriteTimeout
<1>3. CASE WriterStep
  <2>1. CASE Publish
    BY <2>1, PublishSends DEF Abstract!Next
  <2>2. CASE ~Publish
    BY <1>3, <2>2 DEF WriterStep, AcquireWrite, WriteFirst, WriteBody, ResetFlag, SendLocal, SendRemote
  <2> QED BY <2>1, <2>2
<1>4. ASSUME NEW r \in Local, ReaderStep(r)
      PROVE  [Abstract!Next]_queue
  <2>1. r \in Readers /\ reader[r].obj \in Messages \cup {Torn}
    BY DEF Readers, IndInv, TypeOK
  <2>2. CASE MarkRead(r)
    <3>1. UNCHANGED queue \/ Return(r, reader[r].obj)
      BY <2>2 DEF MarkRead
    <3> QED BY <1>0, <2>1, <3>1, ReturnReceives DEF Abstract!Next
  <2>3. CASE RecvLocal(r)
    <3>1. Head(socket[r]) \in Messages
      BY <2>1, <2>3, HeadTailProperties DEF RecvLocal, IndInv, TypeOK
    <3> QED BY <1>0, <2>1, <2>3, <3>1, ReturnReceives DEF RecvLocal, Abstract!Next
  <2>4. CASE ~MarkRead(r) /\ ~RecvLocal(r)
    BY <1>4, <2>4 DEF ReaderStep, ReadFlag, CheckWritten, ReadFirst, ReadBody
  <2> QED BY <2>2, <2>3, <2>4
<1>5. ASSUME NEW r \in Remote, RecvRemote(r)
      PROVE  [Abstract!Next]_queue
  <2>1. r \in Readers
    BY DEF Readers
  <2>2. Head(socket[r]) \in Messages
    BY <1>5, <2>1, HeadTailProperties DEF RecvRemote, IndInv, TypeOK
  <2> QED BY <1>0, <1>5, <2>1, <2>2, ReturnReceives DEF RecvRemote, Abstract!Next
<1> QED BY <1>1, <1>2, <1>3, <1>4, <1>5 DEF Next

\* The ring of flags, chunks and sockets implements the broadcast queue: every reader,
\* local or remote, receives every message once, whole and in the order of sending,
\* and the writer is at most MaxChunks + 1 messages ahead of a local reader.
THEOREM RingImplementsQueue == Spec => Implements
<1>1. Init => Abstract!Init
  BY DEF Init, Abstract!Init, EmptyQueue, Abstract!EmptyQueue
<1>2. IndInv /\ [Next]_vars => [Abstract!Next]_queue
  BY StepImplements
<1> QED BY <1>1, <1>2, Invariant, PTL DEF Spec, SafeSpec, Implements, Abstract!Spec
=============================================================================
