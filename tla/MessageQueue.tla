----------------------------- MODULE MessageQueue -----------------------------
(***************************************************************************)
(* MessageQueue and ShmRingBuffer (distributed/device_communicators/       *)
(* shm_broadcast.py): the queue from the engine to its workers, and from   *)
(* each worker back.  Readers on the writer's node share a ring of chunks  *)
(* with it; each chunk has a written flag and one read flag per reader.    *)
(* There are no locks.  A message that does not fit a chunk is announced   *)
(* in the ring and then published on a socket; readers on other nodes only *)
(* use a socket.                                                           *)
(*                                                                         *)
(* Every access to shared memory is a step of its own, except that the     *)
(* writer looks at the flags of a chunk in one step: only the writer       *)
(* clears flags, so a look that finds them all set stays true.  Memory is  *)
(* sequentially consistent.  A chunk has a first byte (is the message on   *)
(* the socket?) and a body, which is Torn while it is being written.       *)
(*                                                                         *)
(* A message is its number and whether it is large.  `queue' records what  *)
(* has been published and what dequeue() has returned to each reader.      *)
(***************************************************************************)
EXTENDS Broadcast, Integers

CONSTANTS
  NumLocal,    \* n_local_reader; local readers are 1 .. NumLocal
  Remote,      \* remote readers
  MaxChunks,   \* max_chunks
  MaxSent      \* bound on the number of messages

ASSUME MessageQueueAssumption ==
  /\ NumLocal \in Nat \ {0}
  /\ MaxChunks \in Nat \ {0}
  /\ MaxSent \in Nat
  /\ Remote \cap Nat = {}

Local == 1 .. NumLocal
Readers == Local \cup Remote
Chunks == 0 .. MaxChunks - 1
Messages == [n : 1 .. MaxSent, big : BOOLEAN]
Torn == [n |-> 0, big |-> FALSE]

VARIABLES
  written,   \* metadata_buffer[0] of each chunk
  read,      \* metadata_buffer[1 + rank] of each chunk
  first,     \* buf[0] of each chunk: the message is on the socket
  body,      \* buf[1:] of each chunk
  socket,    \* what is on the way to each reader on its socket
  writer,    \* the writer: where it stands, its current_idx, the message it
             \* sends and the next read flag to clear
  reader,    \* each local reader: where it stands, current_idx, read_flag,
             \* overflow and obj
  queue

memory == <<written, read, first, body>>
vars == <<memory, socket, writer, reader, queue>>

WriterPlaces == {"idle", "acquire", "write", "body", "reset", "publish", "send", "remote"}
ReaderPlaces == {"idle", "check", "first", "body", "mark", "recv"}

TypeOK ==
  /\ written \in [Chunks -> BOOLEAN]
  /\ read \in [Chunks -> [Local -> BOOLEAN]]
  /\ first \in [Chunks -> BOOLEAN]
  /\ body \in [Chunks -> Messages \cup {Torn}]
  /\ socket \in [Readers -> Seq(Messages)]
  /\ writer \in [at : WriterPlaces, idx : Chunks, msg : Messages \cup {Torn},
                 clear : 1 .. NumLocal + 1]
  /\ reader \in [Local -> [at : ReaderPlaces, idx : Chunks, flag : BOOLEAN,
                           overflow : BOOLEAN, obj : Messages \cup {Torn}]]
  /\ queue \in [sent : Seq(Messages), got : [Readers -> Seq(Messages \cup {Torn})]]

Init ==
  /\ written = [c \in Chunks |-> FALSE]
  /\ read = [c \in Chunks |-> [r \in Local |-> FALSE]]
  /\ first = [c \in Chunks |-> FALSE]
  /\ body = [c \in Chunks |-> Torn]
  /\ socket = [r \in Readers |-> <<>>]
  /\ writer = [at |-> "idle", idx |-> 0, msg |-> Torn, clear |-> 1]
  /\ reader = [r \in Local |-> [at |-> "idle", idx |-> 0, flag |-> FALSE,
                                overflow |-> FALSE, obj |-> Torn]]
  /\ queue = EmptyQueue(Readers)

\* Mutated form: the index wraps one chunk too late.
AdvanceTooFar(i) == (i + 1) % (MaxChunks + 1)

\* current_idx moves around the ring.
Advance(i) == (i + 1) % MaxChunks

-----------------------------------------------------------------------------
(* The writer: enqueue(obj) and acquire_write.                              *)

\* Mutated form: the chunk is free as soon as one reader has read it.
ChunkFreeForOne(c) == ~written[c] \/ \E r \in Local : read[c][r]

\* The chunk is not written, or read by all readers.
ChunkFree(c) == ~written[c] \/ \A r \in Local : read[c][r]

Enqueue(big) ==
  /\ writer.at = "idle"
  /\ Len(queue.sent) < MaxSent
  /\ writer' = [writer EXCEPT !.at = "acquire",
                              !.msg = [n |-> Len(queue.sent) + 1, big |-> big]]
  /\ UNCHANGED <<memory, socket, reader, queue>>

\* The writer polls the flags; the chunk is its own from here.
AcquireWrite ==
  /\ writer.at = "acquire"
  /\ ChunkFree(writer.idx)
  /\ written' = [written EXCEPT ![writer.idx] = FALSE]
  /\ writer' = [writer EXCEPT !.at = "write"]
  /\ UNCHANGED <<read, first, body, socket, reader, queue>>

\* TimeoutError while the chunk is not free: nothing is sent.
WriteTimeout ==
  /\ writer.at = "acquire"
  /\ ~ChunkFree(writer.idx)
  /\ writer' = [writer EXCEPT !.at = "idle", !.msg = Torn]
  /\ UNCHANGED <<memory, socket, reader, queue>>

\* The first byte; the body of a small message follows.
WriteFirst ==
  /\ writer.at = "write"
  /\ first' = [first EXCEPT ![writer.idx] = writer.msg.big]
  /\ IF writer.msg.big
     THEN UNCHANGED body
     ELSE body' = [body EXCEPT ![writer.idx] = Torn]
  /\ writer' = [writer EXCEPT !.at = IF writer.msg.big THEN "reset" ELSE "body"]
  /\ UNCHANGED <<written, read, socket, reader, queue>>

\* Mutated form: the read flags of the previous round stay.
WriteBodyNoReset ==
  /\ writer.at = "body"
  /\ body' = [body EXCEPT ![writer.idx] = writer.msg]
  /\ writer' = [writer EXCEPT !.at = "publish"]
  /\ UNCHANGED <<written, read, first, socket, reader, queue>>

WriteBody ==
  /\ writer.at = "body"
  /\ body' = [body EXCEPT ![writer.idx] = writer.msg]
  /\ writer' = [writer EXCEPT !.at = "reset"]
  /\ UNCHANGED <<written, read, first, socket, reader, queue>>

\* The read flags are cleared one by one.
ResetFlag ==
  /\ writer.at = "reset"
  /\ read' = [read EXCEPT ![writer.idx][writer.clear] = FALSE]
  /\ writer' = IF writer.clear = NumLocal
               THEN [writer EXCEPT !.at = "publish", !.clear = 1]
               ELSE [writer EXCEPT !.clear = @ + 1]
  /\ UNCHANGED <<written, first, body, socket, reader, queue>>

\* The chunk can be read from here on.
Publish ==
  /\ writer.at = "publish"
  /\ written' = [written EXCEPT ![writer.idx] = TRUE]
  /\ queue' = Sent(queue, writer.msg)
  /\ writer' = [writer EXCEPT !.at = IF writer.msg.big THEN "send" ELSE "remote",
                              !.idx = Advance(@)]
  /\ UNCHANGED <<read, first, body, socket, reader>>

\* local_socket.send of a large message.
SendLocal ==
  /\ writer.at = "send"
  /\ socket' = [r \in Readers |-> IF r \in Local THEN Append(socket[r], writer.msg)
                                  ELSE socket[r]]
  /\ writer' = [writer EXCEPT !.at = "remote"]
  /\ UNCHANGED <<memory, reader, queue>>

\* remote_socket.send of every message; enqueue() returns.
SendRemote ==
  /\ writer.at = "remote"
  /\ socket' = [r \in Readers |-> IF r \in Remote THEN Append(socket[r], writer.msg)
                                  ELSE socket[r]]
  /\ writer' = [writer EXCEPT !.at = "idle", !.msg = Torn]
  /\ UNCHANGED <<memory, reader, queue>>

-----------------------------------------------------------------------------
(* A local reader: dequeue() and acquire_read.                              *)

\* read_flag is read before written_flag.
ReadFlag(r) ==
  /\ reader[r].at = "idle"
  /\ reader' = [reader EXCEPT ![r].at = "check", ![r].flag = read[reader[r].idx][r]]
  /\ UNCHANGED <<memory, socket, writer, queue>>

\* Mutated form: the read flag is not consulted.
CheckWrittenOnly(r) ==
  /\ reader[r].at = "check"
  /\ reader' = [reader EXCEPT ![r].at = IF ~written[reader[r].idx] THEN "idle" ELSE "first",
                              ![r].flag = FALSE]
  /\ UNCHANGED <<memory, socket, writer, queue>>

\* Not written yet, or read before: poll again, or give up with TimeoutError,
\* after which dequeue() starts in the same way.
CheckWritten(r) ==
  /\ reader[r].at = "check"
  /\ reader' = [reader EXCEPT
       ![r].at = IF ~written[reader[r].idx] \/ reader[r].flag THEN "idle" ELSE "first",
       ![r].flag = FALSE]
  /\ UNCHANGED <<memory, socket, writer, queue>>

ReadFirst(r) ==
  /\ reader[r].at = "first"
  /\ reader' = [reader EXCEPT ![r].overflow = first[reader[r].idx],
                              ![r].at = IF first[reader[r].idx] THEN "mark" ELSE "body"]
  /\ UNCHANGED <<memory, socket, writer, queue>>

ReadBody(r) ==
  /\ reader[r].at = "body"
  /\ reader' = [reader EXCEPT ![r].obj = body[reader[r].idx], ![r].at = "mark"]
  /\ UNCHANGED <<memory, socket, writer, queue>>

\* What dequeue() returns to reader r.
Return(r, m) == queue' = [queue EXCEPT !.got[r] = Append(@, m)]

\* The chunk is marked as read; a small message is returned.
MarkRead(r) ==
  /\ reader[r].at = "mark"
  /\ read' = [read EXCEPT ![reader[r].idx][r] = TRUE]
  /\ reader' = [reader EXCEPT ![r].idx = Advance(@),
                              ![r].at = IF reader[r].overflow THEN "recv" ELSE "idle",
                              ![r].overflow = FALSE, ![r].obj = Torn]
  /\ IF reader[r].overflow THEN UNCHANGED queue ELSE Return(r, reader[r].obj)
  /\ UNCHANGED <<written, first, body, socket, writer>>

\* A large message comes from the socket.
RecvLocal(r) ==
  /\ reader[r].at = "recv"
  /\ socket[r] # <<>>
  /\ socket' = [socket EXCEPT ![r] = Tail(@)]
  /\ Return(r, Head(socket[r]))
  /\ reader' = [reader EXCEPT ![r].at = "idle"]
  /\ UNCHANGED <<memory, writer>>

\* dequeue() of a remote reader.
RecvRemote(r) ==
  /\ socket[r] # <<>>
  /\ socket' = [socket EXCEPT ![r] = Tail(@)]
  /\ Return(r, Head(socket[r]))
  /\ UNCHANGED <<memory, writer, reader>>

-----------------------------------------------------------------------------
WriterStep ==
  \/ AcquireWrite \/ WriteFirst \/ WriteBody \/ ResetFlag \/ Publish
  \/ SendLocal \/ SendRemote

ReaderStep(r) ==
  \/ ReadFlag(r) \/ CheckWritten(r) \/ ReadFirst(r) \/ ReadBody(r)
  \/ MarkRead(r) \/ RecvLocal(r)

Next ==
  \/ \E big \in BOOLEAN : Enqueue(big)
  \/ WriteTimeout
  \/ WriterStep
  \/ \E r \in Local : ReaderStep(r)
  \/ \E r \in Remote : RecvRemote(r)

SafeSpec == Init /\ [][Next]_vars

\* Both sides poll, and yield the processor to each other while they do; readers
\* call dequeue() again and again.
Spec ==
  /\ SafeSpec
  /\ WF_vars(WriterStep)
  /\ \A r \in Local : WF_vars(ReaderStep(r))
  /\ \A r \in Remote : WF_vars(RecvRemote(r))

-----------------------------------------------------------------------------
(* Properties.                                                              *)

\* The ring is a broadcast queue: no reader sees a message twice, out of order,
\* half-written or not at all, however the flags are interleaved.  A reader may
\* be one message further behind than the ring is long: it marks the chunk of a
\* large message before it has received it.
Abstract == INSTANCE BroadcastQueue WITH Capacity <- MaxChunks + 1

Implements == Abstract!Spec

\* Nobody but the writer touches a chunk it is filling: no reader is between its
\* look at the flags and its mark there, so what it reads cannot change under it.
WriterAlone ==
  writer.at \in {"write", "body", "reset", "publish"} =>
    \A r \in Local : reader[r].at \in {"first", "body", "mark"} => reader[r].idx # writer.idx

\* Every reader receives whatever has been published, also when the ring wraps.
EveryoneReceives ==
  \A r \in Readers, k \in 1 .. MaxSent :
    Len(queue.sent) >= k ~> Len(queue.got[r]) >= k
=============================================================================
