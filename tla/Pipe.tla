--------------------------------- MODULE Pipe ---------------------------------
(***************************************************************************)
(* One direction of the embedded transport: struct Pipe of                 *)
(* TracyEmbeddedTransport.cpp, a ring of bytes under a mutex with the two  *)
(* condition variables readable and writable, the functions writePipe,     *)
(* readPipe, closePipeWriter, closePipeReader and cancelPipe, and what     *)
(* Send, Read and CloseEndpoint do around them with the flag closed of the *)
(* sender's and of the receiver's own endpoint.                            *)
(*                                                                         *)
(* Every critical section of the mutex is one action.  A thread that       *)
(* blocks in wait or wait_for leaves its critical section, so a call to    *)
(* writePipe is a chain of actions, one per chunk.  Each direction has one *)
(* sending and one receiving thread (Tracy's profiler thread and the       *)
(* Worker's network threads); any thread may close or cancel.  A closing   *)
(* endpoint also closes its side of the other direction, another pipe.     *)
(*                                                                         *)
(* Endpoint::closed is a plain bool that no lock guards.  CloseEndpoint    *)
(* sets it before it takes a mutex, so while it is on its way a Send or a  *)
(* Read of another thread may see the flag or miss it; a thread that saw   *)
(* it once sees it ever after.                                             *)
(*                                                                         *)
(* Bytes are named by their place in the sending application's stream, so  *)
(* that a lost, repeated or misplaced byte shows in what is read.          *)
(***************************************************************************)
EXTENDS Integers, Sequences

CONSTANTS
  Capacity,   \* storage.size()
  MaxSend,    \* bound: the longest buffer passed to Send
  MaxRead,    \* bound: the longest buffer passed to Read
  MaxBytes    \* bound: how many bytes the application offers in all

\* Configure refuses capacity 0; Send and Read return before reaching the pipe
\* when the length is not positive.
ASSUME SizesAssumption ==
  /\ Capacity \in Nat \ {0}
  /\ MaxSend \in Nat \ {0}
  /\ MaxRead \in Nat \ {0}
  /\ MaxBytes \in Nat

VARIABLES
  storage, head, size,        \* the ring
  writerClosed, readerClosed,
  senderEnd, receiverEnd,     \* the endpoint of each side: see EndStates
  transferred, highWater,     \* statistics
  writer,                     \* the sending thread: see WriterStates
  length, written,            \* locals of its current writePipe
  offered,                    \* bytes of the application's stream its finished calls put
  sendResult,                 \* what its last finished call returned
  reader,                     \* the receiving thread: see ReaderStates
  readLength, timed,          \* arguments of its current readPipe
  received,                   \* the bytes its last finished call returned
  delivered,                  \* how many bytes all its calls returned
  readResult                  \* what its last finished call returned

ring      == <<storage, head, size>>
flags     == <<writerClosed, readerClosed>>
ends      == <<senderEnd, receiverEnd>>
counters  == <<transferred, highWater>>
sender    == <<length, written, offered, sendResult>>
receiver  == <<readLength, timed, received, delivered, readResult>>
vars      == <<ring, flags, ends, counters, writer, sender, reader, receiver>>

\* "ready": has the mutex to itself next; "waiting": blocked on the condition
\* variable; "expired": wait_for ran out of time and checks once more.
WriterStates == {"idle", "ready", "waiting"}
ReaderStates == {"idle", "ready", "waiting", "expired"}

\* Endpoint::closed is set unless "open"; "closing": CloseEndpoint has set it and
\* not reached this pipe yet.
EndStates == {"open", "closing", "closed"}

Slots == 0..(Capacity - 1)

Least(a, b) == IF a <= b THEN a ELSE b
Greatest(a, b) == IF a >= b THEN a ELSE b

Init ==
  /\ storage = [i \in Slots |-> 0]
  /\ head = 0 /\ size = 0
  /\ writerClosed = FALSE /\ readerClosed = FALSE
  /\ senderEnd = "open" /\ receiverEnd = "open"
  /\ transferred = 0 /\ highWater = 0
  /\ writer = "idle" /\ length = 0 /\ written = 0 /\ offered = 0 /\ sendResult = 0
  /\ reader = "idle" /\ readLength = 0 /\ timed = FALSE
  /\ received = <<>> /\ delivered = 0 /\ readResult = -1

\* notify_one and notify_all come to the same with one thread a side.
Awake(thread) == IF thread = "waiting" THEN "ready" ELSE thread

\* A bug: the notification is forgotten.
NotifyReadable_Forgotten == reader' = reader
NotifyReadable == reader' = Awake(reader)

\* A bug: the notification is forgotten.
NotifyWritable_Forgotten == writer' = writer
NotifyWritable == writer' = Awake(writer)

-----------------------------------------------------------------------------
(* Send and writePipe *)

\* The predicate of writable.wait: it does not look at writerClosed.
WriteReady == readerClosed \/ size < Capacity

\* What makes a writer give up once it is past the wait.
WriterStops == readerClosed \/ writerClosed

\* Send finds its endpoint open, or misses that it is being closed.
SendCall(n) ==
  /\ writer = "idle"
  /\ senderEnd # "closed"
  /\ offered + n <= MaxBytes
  /\ writer' = "ready"
  /\ length' = n
  /\ written' = 0
  /\ UNCHANGED <<ring, flags, ends, counters, offered, sendResult, reader, receiver>>

\* Send finds its own endpoint closed.
SendRefused ==
  /\ writer = "idle"
  /\ senderEnd # "open"
  /\ sendResult' = -1
  /\ UNCHANGED <<ring, flags, ends, counters, writer, length, written, offered,
                 reader, receiver>>

TailIndex == (head + size) % Capacity

\* A bug: the chunk may run into bytes that were not read yet.
ChunkLength_ToEnd == Least(Capacity - TailIndex, length - written)

\* The longest run of free slots that starts at the tail.
ChunkLength == Least(Least(Capacity - TailIndex, Capacity - size), length - written)

\* A bug: every chunk is copied from the start of the source.
StoreChunk_FromStart(count) ==
  storage' = [i \in Slots |->
                IF i >= TailIndex /\ i < TailIndex + count
                THEN offered + (i - TailIndex) + 1
                ELSE storage[i]]

\* memcpy of the next chunk of the source behind the last byte of the ring.
StoreChunk(count) ==
  storage' = [i \in Slots |->
                IF i >= TailIndex /\ i < TailIndex + count
                THEN offered + written + (i - TailIndex) + 1
                ELSE storage[i]]

WriteChunk ==
  /\ writer = "ready"
  /\ WriteReady
  /\ ~WriterStops
  /\ LET count == ChunkLength IN
       /\ StoreChunk(count)
       /\ size' = size + count
       /\ transferred' = transferred + count
       /\ highWater' = Greatest(highWater, size + count)
       /\ IF written + count = length
          THEN /\ writer' = "idle"
               /\ sendResult' = length
               /\ offered' = offered + length
               /\ written' = 0
          ELSE /\ written' = written + count
               /\ UNCHANGED <<writer, sendResult, offered>>
  /\ NotifyReadable
  /\ UNCHANGED <<head, flags, ends, length, receiver>>

WriteFails ==
  /\ writer = "ready"
  /\ WriteReady
  /\ WriterStops
  /\ writer' = "idle"
  /\ sendResult' = -1
  /\ offered' = offered + written
  /\ written' = 0
  /\ UNCHANGED <<ring, flags, ends, counters, length, reader, receiver>>

WriteWait ==
  /\ writer = "ready"
  /\ ~WriteReady
  /\ writer' = "waiting"
  /\ UNCHANGED <<ring, flags, ends, counters, sender, reader, receiver>>

-----------------------------------------------------------------------------
(* Read and readPipe *)

\* A bug: a closed writer does not end the wait.
ReadReady_IgnoresWriter == size # 0 \/ readerClosed
ReadReady == size # 0 \/ writerClosed \/ readerClosed

\* Read finds its endpoint open, or misses that it is being closed; a Read that
\* saw the flag returned 0.  A negative timeout waits for ever; otherwise the call
\* is timed.
ReadCall(n, t) ==
  /\ reader = "idle"
  /\ receiverEnd # "closed"
  /\ receiverEnd = "closing" => readResult # 0
  /\ reader' = "ready"
  /\ readLength' = n
  /\ timed' = t
  /\ UNCHANGED <<ring, flags, ends, counters, writer, sender, received, delivered, readResult>>

\* Read finds its own endpoint closed: it returns 0 whatever the ring holds.
ReadRefused ==
  /\ reader = "idle"
  /\ receiverEnd # "open"
  /\ received' = <<>>
  /\ readResult' = 0
  /\ UNCHANGED <<ring, flags, ends, counters, writer, sender, reader, readLength, timed,
                 delivered>>

\* A bug: the run of stored bytes is not what bounds the read.
TakeLength_ToEnd == Least(readLength, Capacity - head)

\* The longest run of stored bytes that starts at the head.
TakeLength == Least(Least(readLength, size), Capacity - head)

ReadTake ==
  /\ reader \in {"ready", "expired"}
  /\ size # 0
  /\ LET count == TakeLength IN
       /\ received' = [i \in 1..count |-> storage[head + i - 1]]
       /\ delivered' = delivered + count
       /\ head' = (head + count) % Capacity
       /\ size' = size - count
       /\ readResult' = count
  /\ reader' = "idle"
  /\ NotifyWritable
  /\ UNCHANGED <<storage, flags, ends, counters, sender, readLength, timed>>

\* Return 0: the other side is gone and nothing is left.
ReadEnd ==
  /\ reader \in {"ready", "expired"}
  /\ ReadReady
  /\ size = 0
  /\ reader' = "idle"
  /\ received' = <<>>
  /\ readResult' = 0
  /\ UNCHANGED <<ring, flags, ends, counters, writer, sender, readLength, timed, delivered>>

ReadWait ==
  /\ reader = "ready"
  /\ ~ReadReady
  /\ reader' = "waiting"
  /\ UNCHANGED <<ring, flags, ends, counters, writer, sender, receiver>>

\* The deadline of wait_for passes; the predicate is evaluated once more after
\* the mutex is taken again, so steps of other threads may come in between.
ReadExpire ==
  /\ reader = "waiting"
  /\ timed
  /\ reader' = "expired"
  /\ UNCHANGED <<ring, flags, ends, counters, writer, sender, receiver>>

ReadTimeout ==
  /\ reader = "expired"
  /\ ~ReadReady
  /\ reader' = "idle"
  /\ received' = <<>>
  /\ readResult' = -1
  /\ UNCHANGED <<ring, flags, ends, counters, writer, sender, readLength, timed, delivered>>

-----------------------------------------------------------------------------
(* Closing, by any thread. *)

\* CloseEndpoint of the sender's endpoint; a second call returns at once.
CloseSender ==
  /\ senderEnd = "open"
  /\ senderEnd' = "closing"
  /\ UNCHANGED <<ring, flags, receiverEnd, counters, writer, sender, reader, receiver>>

ClosePipeWriter ==
  /\ senderEnd = "closing"
  /\ senderEnd' = "closed"
  /\ writerClosed' = TRUE
  /\ NotifyReadable
  /\ NotifyWritable
  /\ UNCHANGED <<ring, readerClosed, receiverEnd, counters, sender, receiver>>

\* CloseEndpoint of the receiver's endpoint; a second call returns at once.
CloseReceiver ==
  /\ receiverEnd = "open"
  /\ receiverEnd' = "closing"
  /\ UNCHANGED <<ring, flags, senderEnd, counters, writer, sender, reader, receiver>>

ClosePipeReader ==
  /\ receiverEnd = "closing"
  /\ receiverEnd' = "closed"
  /\ readerClosed' = TRUE
  /\ NotifyReadable
  /\ NotifyWritable
  /\ UNCHANGED <<ring, writerClosed, senderEnd, counters, sender, receiver>>

\* Of the session: the endpoints stay as they are.
CancelPipe ==
  /\ readerClosed' = TRUE
  /\ writerClosed' = TRUE
  /\ NotifyReadable
  /\ NotifyWritable
  /\ UNCHANGED <<ring, ends, counters, sender, receiver>>

\* A condition variable may wake a thread nobody notified.
SpuriousWake ==
  /\ \/ /\ writer = "waiting"
        /\ writer' = "ready"
        /\ UNCHANGED reader
     \/ /\ reader = "waiting"
        /\ reader' = "ready"
        /\ UNCHANGED writer
  /\ UNCHANGED <<ring, flags, ends, counters, sender, receiver>>

-----------------------------------------------------------------------------
Writing == WriteChunk \/ WriteFails \/ WriteWait
Reading == ReadTake \/ ReadEnd \/ ReadWait \/ ReadExpire \/ ReadTimeout
EndClosing == ClosePipeWriter \/ ClosePipeReader
Closing == EndClosing \/ CancelPipe

Next ==
  \/ \E n \in 1..MaxSend : SendCall(n)
  \/ \E n \in 1..MaxRead, t \in BOOLEAN : ReadCall(n, t)
  \/ SendRefused \/ ReadRefused
  \/ Writing
  \/ Reading
  \/ CloseSender \/ CloseReceiver
  \/ Closing
  \/ SpuriousWake

Spec == Init /\ [][Next]_vars

\* The scheduler runs a thread that is not blocked, a CloseEndpoint on its way
\* included, and time passes.  Nothing obliges an application to call, to close,
\* or a thread to wake unprompted.
FairSpec ==
  /\ Spec
  /\ WF_vars(Writing) /\ WF_vars(Reading)
  /\ WF_vars(ClosePipeWriter) /\ WF_vars(ClosePipeReader)

\* A receiver that keeps calling Read, which Tracy's network threads do until
\* Read returns 0.
KeepsReading == WF_vars(\E n \in 1..MaxRead : ReadCall(n, FALSE))

-----------------------------------------------------------------------------
(* Properties *)

TypeOK ==
  /\ storage \in [Slots -> Nat] /\ head \in Slots /\ size \in 0..Capacity
  /\ writerClosed \in BOOLEAN /\ readerClosed \in BOOLEAN
  /\ senderEnd \in EndStates /\ receiverEnd \in EndStates
  /\ transferred \in Nat /\ highWater \in 0..Capacity
  /\ writer \in WriterStates /\ reader \in ReaderStates
  /\ length \in Nat /\ written \in Nat /\ offered \in Nat
  /\ sendResult \in Nat \cup {-1}
  /\ readLength \in Nat /\ timed \in BOOLEAN
  /\ delivered \in Nat /\ readResult \in Nat \cup {-1}

\* The slot that holds the k-th byte in flight.
SlotOf(k) == (head + k - 1) % Capacity

\* The ring holds, in order, the bytes put and not yet read: nothing is lost,
\* repeated or overwritten at the wrap-around, and transferred counts exactly
\* the bytes put (writePipe 98-107, readPipe 123-127).
RingHoldsStream ==
  /\ transferred = delivered + size
  /\ transferred = offered + written
  /\ \A k \in 1..size : storage[SlotOf(k)] = delivered + k

\* No thread sleeps on a condition that already holds: every change of size or
\* of a closed flag that makes a waiter's predicate true wakes that waiter.
NoLostWakeup ==
  /\ writer = "waiting" => ~readerClosed /\ size = Capacity
  /\ reader = "waiting" => ~readerClosed /\ ~writerClosed /\ size = 0

\* What a Read hands over are the next bytes of the stream.
ReadsInOrder ==
  [][delivered' # delivered =>
       received' = [i \in 1..(delivered' - delivered) |-> delivered + i]]_vars

\* Once a Read has returned 0, no later Read returns a byte or a timeout, be it
\* for the end of the stream or for the receiver's own closed endpoint.
EndOfStreamIsFinal == [][readResult = 0 => readResult' = 0]_vars

\* A receiver blocked in Read returns once a byte or a close is there for it,
\* whoever closed (readPipe 115-121); a sender blocked for room returns once the
\* receiving side closes (writePipe 93-96, closePipeReader, cancelPipe), and with
\* a receiver that keeps reading until it closes its endpoint every Send returns.
BlockedCallsReturn ==
  /\ (reader # "idle" /\ (size # 0 \/ writerClosed \/ readerClosed)) ~> reader = "idle"
  /\ (writer # "idle" /\ readerClosed) ~> writer = "idle"
  /\ KeepsReading => (writer # "idle" ~> writer = "idle")

\* With a receiver that keeps reading, every byte put is delivered, also those
\* still in the ring when the sender closed or the session was cancelled; only a
\* receiver that closes its own endpoint gives up what it has not read (Read 239,
\* readPipe 115-128).
PutBytesArrive ==
  KeepsReading =>
    \A k \in 1..MaxBytes : transferred >= k ~> delivered >= k \/ receiverEnd # "open"

\* docs/architecture.md:30 "Closing an endpoint wakes all blocked readers and
\* writers": a sender blocked in writePipe returns after its own endpoint, the
\* writing side of the pipe, was closed.
WriterCloseReleasesWriter == (writer # "idle" /\ writerClosed) ~> writer = "idle"

\* The ring implements the bounded byte stream.
Stream == INSTANCE ByteStream WITH
  inFlight <- [k \in 1..size |-> storage[SlotOf(k)]],
  accepted <- offered + written,
  closed   <- writerClosed \/ readerClosed
ImplementsStream == Stream!Spec
=============================================================================
