------------------------------ MODULE PipeProofs ------------------------------
(***************************************************************************)
(* Proofs about Pipe, for every capacity and every length of the calls.    *)
(***************************************************************************)
EXTENDS Pipe, SequenceTheorems, TLAPS

USE SizesAssumption

-----------------------------------------------------------------------------
(* Index arithmetic of the ring. *)

\* An index below the capacity stays, one in the next round comes back once.
LEMMA Wrap ==
  \A a \in 0..(2 * Capacity - 1) :
    a % Capacity = IF a < Capacity THEN a ELSE a - Capacity
<1> TAKE a \in 0..(2 * Capacity - 1)
<1>1. CASE a < Capacity  BY <1>1
<1>2. CASE a >= Capacity BY <1>2
<1>3. QED BY <1>1, <1>2

\* The slot of a byte in flight is a slot of the ring.
LEMMA SlotInRing ==
  ASSUME head \in Slots, NEW k \in 1..Capacity
  PROVE  /\ SlotOf(k) \in Slots
         /\ SlotOf(k) = IF head + k - 1 < Capacity THEN head + k - 1
                                                  ELSE head + k - 1 - Capacity
<1>1. head + k - 1 \in 0..(2 * Capacity - 1)
  BY DEF Slots
<1>2. QED
  BY <1>1, Wrap DEF SlotOf, Slots

\* The tail is the slot behind the last byte in flight.
LEMMA TailInRing ==
  ASSUME head \in Slots, size \in 0..Capacity
  PROVE  /\ TailIndex \in Slots
         /\ TailIndex = IF head + size < Capacity THEN head + size
                                                 ELSE head + size - Capacity
<1>1. head + size \in 0..(2 * Capacity - 1)
  BY DEF Slots
<1>2. QED
  BY <1>1, Wrap DEF TailIndex, Slots

\* A chunk is stored on free slots only, in the order of its bytes.
LEMMA ChunkOnFreeSlots ==
  ASSUME head \in Slots, size \in 0..Capacity, NEW count \in Nat,
         count <= Capacity - TailIndex, count <= Capacity - size
  PROVE  /\ \A k \in 1..size : SlotOf(k) < TailIndex \/ SlotOf(k) >= TailIndex + count
         /\ \A k \in (size + 1)..(size + count) :
              SlotOf(k) = TailIndex + (k - size - 1)
<1>1. \A k \in 1..size : SlotOf(k) < TailIndex \/ SlotOf(k) >= TailIndex + count
  <2> TAKE k \in 1..size
  <2> QED BY SlotInRing, TailInRing DEF Slots
<1>2. \A k \in (size + 1)..(size + count) : SlotOf(k) = TailIndex + (k - size - 1)
  <2> TAKE k \in (size + 1)..(size + count)
  <2> QED BY SlotInRing, TailInRing DEF Slots
<1>3. QED BY <1>1, <1>2

-----------------------------------------------------------------------------
(* The inductive invariant. *)

\* A call in progress still has bytes to move; none is charged to an idle sender.
CallsInProgress ==
  /\ IF writer = "idle" THEN written = 0 ELSE written < length
  /\ reader # "idle" => readLength >= 1

\* The high-water mark is at least the present fill.
HighWaterBounds == size <= highWater

\* A Read returned 0 with the ring empty and a side closed, or because the
\* receiver's own endpoint was: then no call of it is under way.
EndWasTrue ==
  readResult = 0 => \/ size = 0 /\ (writerClosed \/ readerClosed)
                    \/ receiverEnd # "open" /\ reader = "idle"

IInv ==
  /\ TypeOK
  /\ CallsInProgress
  /\ HighWaterBounds
  /\ RingHoldsStream
  /\ NoLostWakeup
  /\ EndWasTrue

\* A new pipe is empty and open, and nobody waits.
LEMMA InitIInv == Init => IInv
<1> SUFFICES ASSUME Init PROVE IInv  OBVIOUS
<1>1. TypeOK
  <2>1. storage \in [Slots -> Nat] /\ head \in Slots /\ size \in 0..Capacity
    BY DEF Init, Slots
  <2>2. readResult \in Nat \cup {-1} /\ sendResult \in Nat \cup {-1}
    BY DEF Init
  <2>3. QED BY <2>1, <2>2 DEF Init, TypeOK, WriterStates, ReaderStates, EndStates
<1>2. CallsInProgress /\ HighWaterBounds /\ NoLostWakeup /\ EndWasTrue
  BY DEF Init, CallsInProgress, HighWaterBounds, NoLostWakeup, EndWasTrue
<1>3. RingHoldsStream
  BY DEF Init, RingHoldsStream
<1>4. QED BY <1>1, <1>2, <1>3 DEF IInv

\* The length of a chunk is positive, fits the free run, and is owed.
LEMMA ChunkFacts ==
  ASSUME TypeOK, CallsInProgress, writer = "ready", WriteReady, ~WriterStops
  PROVE  /\ ChunkLength \in 1..Capacity
         /\ ChunkLength <= Capacity - TailIndex
         /\ ChunkLength <= Capacity - size
         /\ ChunkLength <= length - written
<1>1. TailIndex \in Slots
  BY TailInRing DEF TypeOK
<1>2. QED
  BY <1>1 DEF TypeOK, CallsInProgress, WriteReady, WriterStops, ChunkLength, Least, Slots

\* A chunk counts once in every counter of the pipe and of the sending call.
LEMMA ChunkCounts ==
  ASSUME IInv, WriteChunk
  PROVE  /\ size' = size + ChunkLength
         /\ delivered' = delivered
         /\ offered' + written' = offered + written + ChunkLength
<1>1. ChunkLength \in 1..Capacity
  BY ChunkFacts DEF IInv, WriteChunk
<1>2. QED
  BY <1>1 DEF WriteChunk, IInv, TypeOK, receiver

\* The length of a read is positive and within the stored run.
LEMMA TakeFacts ==
  ASSUME TypeOK, CallsInProgress, reader # "idle", size # 0
  PROVE  /\ TakeLength \in 1..Capacity
         /\ TakeLength <= size
         /\ TakeLength <= Capacity - head
BY DEF TypeOK, CallsInProgress, TakeLength, Least, Slots

-----------------------------------------------------------------------------
(* writePipe and readPipe move bytes: the two steps that change the ring. *)

\* One chunk of writePipe keeps the invariant: it lands behind the bytes in
\* flight and wakes the receiver.
LEMMA WriteChunkIInv ==
  ASSUME IInv, WriteChunk
  PROVE  IInv'
<1> DEFINE count == ChunkLength
<1>1. /\ count \in 1..Capacity
      /\ count <= Capacity - TailIndex
      /\ count <= Capacity - size
      /\ count <= length - written
  BY ChunkFacts DEF IInv, WriteChunk
<1>2. TailIndex \in Slots
  BY TailInRing DEF IInv, TypeOK
<1>3. /\ head' = head /\ size' = size + count
      /\ transferred' = transferred + count
      /\ offered' + written' = offered + written + count
      /\ delivered' = delivered
  BY ChunkCounts DEF WriteChunk
<1>4. storage' = [i \in Slots |-> IF i >= TailIndex /\ i < TailIndex + count
                                  THEN offered + written + (i - TailIndex) + 1
                                  ELSE storage[i]]
  BY DEF WriteChunk, StoreChunk
<1>5. TypeOK'
  <2>1. storage' \in [Slots -> Nat]
    <3>1. \A i \in Slots : i >= TailIndex => offered + written + (i - TailIndex) + 1 \in Nat
      BY <1>2 DEF IInv, TypeOK, Slots
    <3>2. QED BY <1>4, <3>1 DEF IInv, TypeOK
  <2>2. highWater' \in 0..Capacity
    BY <1>1 DEF IInv, TypeOK, WriteChunk, Greatest
  <2>3. writer' \in WriterStates /\ reader' \in ReaderStates
    BY DEF IInv, TypeOK, WriteChunk, NotifyReadable, Awake, WriterStates, ReaderStates
  <2>4. /\ length' \in Nat /\ written' \in Nat /\ offered' \in Nat
        /\ sendResult' \in Nat \cup {-1}
    BY <1>1 DEF IInv, TypeOK, WriteChunk
  <2>5. QED
    BY <1>1, <1>3, <2>1, <2>2, <2>3, <2>4 DEF IInv, TypeOK, WriteChunk, flags, ends, receiver
<1>6. CallsInProgress'
  BY <1>1 DEF IInv, TypeOK, CallsInProgress, WriteChunk, NotifyReadable, Awake, receiver
<1>7. HighWaterBounds'
  BY <1>1 DEF IInv, TypeOK, HighWaterBounds, WriteChunk, Greatest
<1>8. RingHoldsStream'
  <2>1. ASSUME NEW k \in 1..(size + count)
        PROVE  storage'[SlotOf(k)] = delivered + k
    <3>1. SlotOf(k) \in Slots
      BY <1>1, SlotInRing DEF IInv, TypeOK
    <3>2. CASE k <= size
      <4>1. SlotOf(k) < TailIndex \/ SlotOf(k) >= TailIndex + count
        BY <1>1, <3>2, ChunkOnFreeSlots DEF IInv, TypeOK
      <4>2. storage[SlotOf(k)] = delivered + k
        BY <3>2 DEF IInv, TypeOK, RingHoldsStream
      <4>3. QED BY <1>1, <1>2, <1>4, <3>1, <4>1, <4>2 DEF Slots
    <3>3. CASE k > size
      <4>1. SlotOf(k) = TailIndex + (k - size - 1)
        BY <1>1, <3>3, ChunkOnFreeSlots DEF IInv, TypeOK
      <4>2. storage'[SlotOf(k)] = offered + written + (k - size - 1) + 1
        BY <1>1, <1>2, <1>4, <3>1, <3>3, <4>1 DEF Slots, IInv, TypeOK
      <4>3. offered + written = delivered + size
        BY DEF IInv, RingHoldsStream
      <4>4. QED BY <4>2, <4>3 DEF IInv, TypeOK
    <3>4. QED BY <3>2, <3>3 DEF IInv, TypeOK
  <2>2. \A k : SlotOf(k)' = SlotOf(k)
    BY <1>3 DEF SlotOf
  <2>3. QED
    BY <1>1, <1>3, <2>1, <2>2 DEF RingHoldsStream, IInv, TypeOK
<1>9. NoLostWakeup'
  BY <1>1, <1>3 DEF IInv, TypeOK, NoLostWakeup, WriteChunk, WriterStops, NotifyReadable, Awake, flags
<1>10. EndWasTrue'
  BY <1>1 DEF IInv, EndWasTrue, WriteChunk, WriterStops, NotifyReadable, Awake, receiver,
     flags, ends
<1>11. QED
  BY <1>5, <1>6, <1>7, <1>8, <1>9, <1>10 DEF IInv

\* One successful readPipe keeps the invariant: the bytes left over move up by
\* as many as were taken, and the sender is woken.
LEMMA ReadTakeIInv ==
  ASSUME IInv, ReadTake
  PROVE  IInv'
<1> DEFINE count == TakeLength
<1>1. /\ count \in 1..Capacity
      /\ count <= size
      /\ count <= Capacity - head
  BY TakeFacts DEF IInv, ReadTake
<1>2. head + count \in 0..(2 * Capacity - 1)
  BY <1>1 DEF IInv, TypeOK, Slots
<1>3. /\ head' \in Slots
      /\ head' = IF head + count < Capacity THEN head + count ELSE head + count - Capacity
  <2>1. head' = (head + count) % Capacity
    BY DEF ReadTake
  <2>2. head \in Slots
    BY DEF IInv, TypeOK
  <2> HIDE DEF count
  <2>3. (head + count) % Capacity
          = IF head + count < Capacity THEN head + count ELSE head + count - Capacity
    BY <1>1, <1>2, <2>2, Wrap DEF Slots
  <2>4. QED BY <1>1, <2>1, <2>2, <2>3 DEF Slots
<1>4. /\ size' = size - count
      /\ delivered' = delivered + count
      /\ storage' = storage /\ transferred' = transferred
      /\ offered' = offered /\ written' = written
  BY DEF ReadTake, counters, sender
<1>5. TypeOK'
  BY <1>1, <1>3, <1>4 DEF IInv, TypeOK, ReadTake, flags, ends, counters, sender,
     NotifyWritable, Awake, WriterStates, ReaderStates
<1>6. CallsInProgress'
  BY DEF IInv, CallsInProgress, ReadTake, NotifyWritable, Awake, sender
<1>7. HighWaterBounds'
  BY <1>1 DEF IInv, TypeOK, HighWaterBounds, ReadTake, counters
<1>8. RingHoldsStream'
  <2>1. ASSUME NEW k \in 1..(size - count)
        PROVE  storage[SlotOf(k)'] = delivered + count + k
    <3>1. k + count \in 1..size
      BY <1>1 DEF IInv, TypeOK
    <3>2. head' + k - 1 \in 0..(2 * Capacity - 1)
      BY <1>1, <1>3 DEF IInv, TypeOK, Slots
    <3>3. SlotOf(k)' = IF head' + k - 1 < Capacity THEN head' + k - 1
                                                    ELSE head' + k - 1 - Capacity
      BY <1>3, <3>2, Wrap DEF SlotOf, Slots
    <3>4. SlotOf(k + count) = IF head + (k + count) - 1 < Capacity
                              THEN head + (k + count) - 1
                              ELSE head + (k + count) - 1 - Capacity
      BY <3>1, SlotInRing DEF IInv, TypeOK
    <3>5. SlotOf(k)' = SlotOf(k + count)
      BY <1>1, <1>3, <3>1, <3>3, <3>4 DEF IInv, TypeOK, Slots
    <3>6. storage[SlotOf(k + count)] = delivered + (k + count)
      BY <3>1 DEF IInv, RingHoldsStream
    <3>7. QED BY <1>1, <3>5, <3>6 DEF IInv, TypeOK
  <2>2. QED
    BY <1>1, <1>4, <2>1 DEF RingHoldsStream, IInv, TypeOK
<1>9. NoLostWakeup'
  BY DEF IInv, NoLostWakeup, ReadTake, NotifyWritable, Awake, flags
<1>10. EndWasTrue'
  BY <1>1 DEF IInv, EndWasTrue, ReadTake
<1>11. QED
  BY <1>5, <1>6, <1>7, <1>8, <1>9, <1>10 DEF IInv

-----------------------------------------------------------------------------
(* Every other step leaves the ring and its counters alone. *)

\* The parts of the invariant about the ring only mention these.
LEMMA RingKept ==
  ASSUME IInv, UNCHANGED ring, UNCHANGED counters, UNCHANGED delivered,
         offered' + written' = offered + written
  PROVE  RingHoldsStream' /\ HighWaterBounds'
BY DEF IInv, RingHoldsStream, HighWaterBounds, SlotOf, ring, counters

\* The other steps of a sender keep the invariant.
LEMMA SenderIInv ==
  ASSUME IInv,
         (\E n \in 1..MaxSend : SendCall(n)) \/ SendRefused \/ WriteFails \/ WriteWait
  PROVE  IInv'
<1> USE DEF ring, flags, ends, counters, sender, receiver, IInv
<1>1. CASE \E n \in 1..MaxSend : SendCall(n)
  <2> PICK n \in 1..MaxSend : SendCall(n)  BY <1>1
  <2>1. TypeOK'  BY DEF SendCall, TypeOK, WriterStates
  <2>2. RingHoldsStream' /\ HighWaterBounds'
    BY RingKept DEF SendCall, TypeOK, CallsInProgress
  <2>3. CallsInProgress'  BY DEF SendCall, CallsInProgress
  <2>4. NoLostWakeup' /\ EndWasTrue'  BY DEF SendCall, NoLostWakeup, EndWasTrue
  <2>5. QED BY <2>1, <2>2, <2>3, <2>4
<1>2. CASE WriteFails
  <2>1. TypeOK'  BY <1>2 DEF WriteFails, TypeOK, WriterStates
  <2>2. RingHoldsStream' /\ HighWaterBounds'  BY <1>2, RingKept DEF WriteFails, TypeOK
  <2>3. CallsInProgress'  BY <1>2 DEF WriteFails, CallsInProgress
  <2>4. NoLostWakeup' /\ EndWasTrue'  BY <1>2 DEF WriteFails, NoLostWakeup, EndWasTrue
  <2>5. QED BY <2>1, <2>2, <2>3, <2>4
<1>3. CASE WriteWait
  <2>1. TypeOK'  BY <1>3 DEF WriteWait, TypeOK, WriterStates
  <2>2. RingHoldsStream' /\ HighWaterBounds'  BY <1>3, RingKept DEF WriteWait
  <2>3. CallsInProgress'  BY <1>3 DEF WriteWait, CallsInProgress
  <2>4. NoLostWakeup' /\ EndWasTrue'
    BY <1>3 DEF WriteWait, WriteReady, NoLostWakeup, EndWasTrue, TypeOK
  <2>5. QED BY <2>1, <2>2, <2>3, <2>4
<1>4. CASE SendRefused
  <2>1. TypeOK'  BY <1>4 DEF SendRefused, TypeOK
  <2>2. RingHoldsStream' /\ HighWaterBounds'  BY <1>4, RingKept DEF SendRefused
  <2>3. CallsInProgress'  BY <1>4 DEF SendRefused, CallsInProgress
  <2>4. NoLostWakeup' /\ EndWasTrue'  BY <1>4 DEF SendRefused, NoLostWakeup, EndWasTrue
  <2>5. QED BY <2>1, <2>2, <2>3, <2>4
<1>5. QED BY <1>1, <1>2, <1>3, <1>4

\* The other steps of a receiver keep the invariant.
LEMMA ReceiverIInv ==
  ASSUME IInv,
         \/ \E n \in 1..MaxRead, t \in BOOLEAN : ReadCall(n, t)
         \/ ReadRefused \/ ReadEnd \/ ReadWait \/ ReadExpire \/ ReadTimeout
  PROVE  IInv'
<1> USE DEF ring, flags, ends, counters, sender, receiver, IInv
<1>1. CASE \E n \in 1..MaxRead, t \in BOOLEAN : ReadCall(n, t)
  <2> PICK n \in 1..MaxRead, t \in BOOLEAN : ReadCall(n, t)  BY <1>1
  <2>1. TypeOK'  BY DEF ReadCall, TypeOK, ReaderStates
  <2>2. RingHoldsStream' /\ HighWaterBounds'  BY RingKept DEF ReadCall
  <2>3. CallsInProgress'  BY DEF ReadCall, CallsInProgress
  <2>4. NoLostWakeup'  BY DEF ReadCall, NoLostWakeup
  <2>5. EndWasTrue'
    <3>1. readResult = 0 => receiverEnd = "open"
      BY DEF ReadCall, TypeOK, EndStates
    <3>2. QED BY <3>1 DEF ReadCall, EndWasTrue
  <2>6. QED BY <2>1, <2>2, <2>3, <2>4, <2>5
<1>2. CASE ReadEnd
  <2>1. TypeOK'  BY <1>2 DEF ReadEnd, TypeOK, ReaderStates
  <2>2. RingHoldsStream' /\ HighWaterBounds'  BY <1>2, RingKept DEF ReadEnd
  <2>3. CallsInProgress'  BY <1>2 DEF ReadEnd, CallsInProgress
  <2>4. NoLostWakeup' /\ EndWasTrue'
    BY <1>2 DEF ReadEnd, ReadReady, NoLostWakeup, EndWasTrue
  <2>5. QED BY <2>1, <2>2, <2>3, <2>4
<1>3. CASE ReadWait
  <2>1. TypeOK'  BY <1>3 DEF ReadWait, TypeOK, ReaderStates
  <2>2. RingHoldsStream' /\ HighWaterBounds'  BY <1>3, RingKept DEF ReadWait
  <2>3. CallsInProgress'  BY <1>3 DEF ReadWait, CallsInProgress
  <2>4. NoLostWakeup' /\ EndWasTrue'
    BY <1>3 DEF ReadWait, ReadReady, NoLostWakeup, EndWasTrue
  <2>5. QED BY <2>1, <2>2, <2>3, <2>4
<1>4. CASE ReadExpire
  <2>1. TypeOK'  BY <1>4 DEF ReadExpire, TypeOK, ReaderStates
  <2>2. RingHoldsStream' /\ HighWaterBounds'  BY <1>4, RingKept DEF ReadExpire
  <2>3. CallsInProgress'  BY <1>4 DEF ReadExpire, CallsInProgress
  <2>4. NoLostWakeup' /\ EndWasTrue'  BY <1>4 DEF ReadExpire, NoLostWakeup, EndWasTrue
  <2>5. QED BY <2>1, <2>2, <2>3, <2>4
<1>5. CASE ReadTimeout
  <2>1. TypeOK'  BY <1>5 DEF ReadTimeout, TypeOK, ReaderStates
  <2>2. RingHoldsStream' /\ HighWaterBounds'  BY <1>5, RingKept DEF ReadTimeout
  <2>3. CallsInProgress'  BY <1>5 DEF ReadTimeout, CallsInProgress
  <2>4. NoLostWakeup' /\ EndWasTrue'  BY <1>5 DEF ReadTimeout, NoLostWakeup, EndWasTrue
  <2>5. QED BY <2>1, <2>2, <2>3, <2>4
<1>6. CASE ReadRefused
  <2>1. TypeOK'  BY <1>6 DEF ReadRefused, TypeOK
  <2>2. RingHoldsStream' /\ HighWaterBounds'  BY <1>6, RingKept DEF ReadRefused
  <2>3. CallsInProgress'  BY <1>6 DEF ReadRefused, CallsInProgress
  <2>4. NoLostWakeup' /\ EndWasTrue'  BY <1>6 DEF ReadRefused, NoLostWakeup, EndWasTrue
  <2>5. QED BY <2>1, <2>2, <2>3, <2>4
<1>7. QED BY <1>1, <1>2, <1>3, <1>4, <1>5, <1>6

\* Closing and cancelling wake both sides and keep the invariant.
LEMMA ClosingIInv ==
  ASSUME IInv, CloseSender \/ CloseReceiver \/ Closing \/ SpuriousWake
  PROVE  IInv'
<1> USE DEF ring, flags, ends, counters, sender, receiver, IInv
<1>1. CASE Closing
  <2> USE DEF Closing, EndClosing, ClosePipeWriter, ClosePipeReader, CancelPipe,
              NotifyReadable, NotifyWritable, Awake
  <2>1. TypeOK'  BY <1>1 DEF TypeOK, WriterStates, ReaderStates, EndStates
  <2>2. RingHoldsStream' /\ HighWaterBounds'  BY <1>1, RingKept
  <2>3. CallsInProgress'  BY <1>1 DEF CallsInProgress
  <2>4. NoLostWakeup' /\ EndWasTrue'  BY <1>1 DEF NoLostWakeup, EndWasTrue
  <2>5. QED BY <2>1, <2>2, <2>3, <2>4
<1>2. CASE SpuriousWake
  <2>1. TypeOK'  BY <1>2 DEF SpuriousWake, TypeOK, WriterStates, ReaderStates
  <2>2. RingHoldsStream' /\ HighWaterBounds'  BY <1>2, RingKept DEF SpuriousWake
  <2>3. CallsInProgress'  BY <1>2 DEF SpuriousWake, CallsInProgress
  <2>4. NoLostWakeup' /\ EndWasTrue'  BY <1>2 DEF SpuriousWake, NoLostWakeup, EndWasTrue
  <2>5. QED BY <2>1, <2>2, <2>3, <2>4
<1>3. CASE CloseSender \/ CloseReceiver
  <2> USE DEF CloseSender, CloseReceiver
  <2>1. TypeOK'  BY <1>3 DEF TypeOK, EndStates
  <2>2. RingHoldsStream' /\ HighWaterBounds'  BY <1>3, RingKept
  <2>3. CallsInProgress'  BY <1>3 DEF CallsInProgress
  <2>4. NoLostWakeup' /\ EndWasTrue'  BY <1>3 DEF NoLostWakeup, EndWasTrue
  <2>5. QED BY <2>1, <2>2, <2>3, <2>4
<1>4. QED BY <1>1, <1>2, <1>3

\* A step that changes nothing keeps the invariant.
LEMMA StutterIInv ==
  ASSUME IInv, UNCHANGED vars
  PROVE  IInv'
BY DEF vars, ring, flags, ends, counters, sender, receiver, IInv, TypeOK, CallsInProgress,
       HighWaterBounds, RingHoldsStream, NoLostWakeup, EndWasTrue, SlotOf

\* Every step keeps the invariant.
LEMMA NextIInv == IInv /\ [Next]_vars => IInv'
BY WriteChunkIInv, ReadTakeIInv, SenderIInv, ReceiverIInv, ClosingIInv, StutterIInv
   DEF Next, Writing, Reading

-----------------------------------------------------------------------------
(* What holds for every capacity and every length of the calls. *)

\* The inductive invariant holds in every reachable state.
THEOREM Inductive == Spec => []IInv
<1>1. Init => IInv  BY InitIInv
<1>2. IInv /\ [Next]_vars => IInv'  BY NextIInv
<1>3. QED BY <1>1, <1>2, PTL DEF Spec

\* Every variable of the pipe keeps its type; in particular the ring is never
\* filled beyond its capacity (writePipe 98-106).
THEOREM TypeCorrect == Spec => []TypeOK
<1>1. IInv => TypeOK  BY DEF IInv
<1>2. QED BY <1>1, Inductive, PTL

\* The ring holds exactly the bytes put and not read, in order, whatever the
\* lengths of the calls and wherever the ring wraps.
THEOREM StreamKept == Spec => []RingHoldsStream
<1>1. IInv => RingHoldsStream  BY DEF IInv
<1>2. QED BY <1>1, Inductive, PTL

\* No sender or receiver ever sleeps on a predicate that is already true.
THEOREM WakeupsKept == Spec => []NoLostWakeup
<1>1. IInv => NoLostWakeup  BY DEF IInv
<1>2. QED BY <1>1, Inductive, PTL

-----------------------------------------------------------------------------
(* Reads. *)

\* A Read hands over the next bytes of the stream, never others.
THEOREM OrderKept == Spec => ReadsInOrder
<1> DEFINE InOrder == delivered' # delivered =>
                        received' = [i \in 1..(delivered' - delivered) |-> delivered + i]
<1>1. ASSUME IInv, ReadTake PROVE InOrder
  <2>1. /\ TakeLength \in 1..Capacity
        /\ TakeLength <= size
        /\ TakeLength <= Capacity - head
    BY <1>1, TakeFacts DEF IInv, ReadTake
  <2>2. \A i \in 1..TakeLength : storage[head + i - 1] = delivered + i
    <3> TAKE i \in 1..TakeLength
    <3>1. i \in 1..size /\ i \in 1..Capacity /\ head + i - 1 < Capacity
      BY <1>1, <2>1 DEF IInv, TypeOK, Slots
    <3>2. SlotOf(i) = head + i - 1
      BY <1>1, <3>1, SlotInRing DEF IInv, TypeOK
    <3>3. storage[SlotOf(i)] = delivered + i
      BY <1>1, <3>1 DEF IInv, RingHoldsStream
    <3>4. QED BY <3>2, <3>3
  <2>3. received' = [i \in 1..TakeLength |-> storage[head + i - 1]]
    BY <1>1 DEF ReadTake
  <2>4. delivered' - delivered = TakeLength
    BY <1>1, <2>1 DEF ReadTake, IInv, TypeOK
  <2>5. QED BY <2>2, <2>3, <2>4
<1>2. ASSUME IInv, [Next]_vars, ~ReadTake PROVE InOrder
  BY <1>2 DEF Next, Writing, Reading, Closing, vars, ring, flags, counters, sender,
     receiver, SendCall, SendRefused, ReadCall, ReadRefused, EndClosing, CloseSender,
     CloseReceiver, WriteChunk, WriteFails, WriteWait, ReadEnd, ReadWait,
     ReadExpire, ReadTimeout, ClosePipeWriter, ClosePipeReader, CancelPipe, SpuriousWake
<1>3. IInv /\ [Next]_vars => [InOrder]_vars
  BY <1>1, <1>2
<1>4. QED BY <1>3, Inductive, PTL DEF Spec, ReadsInOrder

\* After a Read has returned 0, every later one does.
THEOREM EndIsFinal == Spec => EndOfStreamIsFinal
<1>1. IInv /\ [Next]_vars => [readResult = 0 => readResult' = 0]_vars
  <2> SUFFICES ASSUME IInv, Next, readResult = 0 PROVE readResult' = 0
    OBVIOUS
  <2>1. \/ size = 0 /\ (writerClosed \/ readerClosed)
        \/ reader = "idle"
    BY DEF IInv, EndWasTrue
  <2>2. QED
    BY <2>1 DEF Next, Writing, Reading, Closing, EndClosing, receiver, SendCall, SendRefused,
       ReadCall, ReadRefused, WriteChunk, WriteFails, WriteWait, ReadTake, ReadEnd, ReadWait,
       ReadExpire, ReadTimeout, ReadReady, CloseSender, CloseReceiver, ClosePipeWriter,
       ClosePipeReader, CancelPipe, SpuriousWake
<1>2. QED BY <1>1, Inductive, PTL DEF Spec, EndOfStreamIsFinal

-----------------------------------------------------------------------------
(* The ring implements the bounded byte stream. *)

\* s bytes numbered from d + 1.
Numbered(d, s) == [k \in 1..s |-> d + k]

\* A run of numbered bytes is a sequence of its length.
LEMMA NumberedRun ==
  ASSUME NEW d \in Nat, NEW s \in Nat
  PROVE  /\ Numbered(d, s) \in Seq(Nat)
         /\ Len(Numbered(d, s)) = s
         /\ \A k \in 1..s : Numbered(d, s)[k] = d + k
BY DEF Numbered

\* Appending the next run gives the longer run.
LEMMA AppendRun ==
  ASSUME NEW d \in Nat, NEW s \in Nat, NEW n \in Nat
  PROVE  Numbered(d, s) \o Numbered(d + s, n) = Numbered(d, s + n)
<1> DEFINE both == Numbered(d, s) \o Numbered(d + s, n)
<1>1. /\ both \in Seq(Nat)
      /\ Len(both) = Len(Numbered(d, s)) + Len(Numbered(d + s, n))
      /\ \A k \in 1..(Len(Numbered(d, s)) + Len(Numbered(d + s, n))) :
           both[k] = IF k <= Len(Numbered(d, s)) THEN Numbered(d, s)[k]
                     ELSE Numbered(d + s, n)[k - Len(Numbered(d, s))]
  <2>1. Numbered(d, s) \in Seq(Nat) /\ Numbered(d + s, n) \in Seq(Nat)
    BY DEF Numbered
  <2>2. QED BY <2>1, ConcatProperties
<1>2. /\ Len(Numbered(d, s)) = s
      /\ \A k \in 1..s : Numbered(d, s)[k] = d + k
  BY DEF Numbered
<1>3. /\ Len(Numbered(d + s, n)) = n
      /\ \A k \in 1..n : Numbered(d + s, n)[k] = (d + s) + k
  BY DEF Numbered
<1>4. /\ Numbered(d, s + n) \in Seq(Nat)
      /\ Len(Numbered(d, s + n)) = s + n
      /\ \A k \in 1..(s + n) : Numbered(d, s + n)[k] = d + k
  BY DEF Numbered
<1> HIDE DEF both
<1>5. /\ Len(both) = s + n
      /\ \A k \in 1..(s + n) : both[k] = d + k
  <2>1. Len(both) = s + n
    BY <1>1, <1>2, <1>3
  <2>2. ASSUME NEW k \in 1..(s + n) PROVE both[k] = d + k
    <3>1. both[k] = IF k <= s THEN Numbered(d, s)[k] ELSE Numbered(d + s, n)[k - s]
      BY <1>1, <1>2, <1>3
    <3>2. CASE k <= s
      BY <1>2, <3>1, <3>2
    <3>3. CASE k > s
      <4>1. k - s \in 1..n
        BY <3>3
      <4>2. QED BY <1>3, <3>1, <3>3, <4>1
    <3>4. QED BY <3>2, <3>3
  <2>3. QED BY <2>1, <2>2
<1>6. both = Numbered(d, s + n)
  BY <1>1, <1>4, <1>5, SeqEqual
<1>7. QED BY <1>6 DEF both

\* Dropping the first bytes of a run leaves the run that starts behind them.
LEMMA DropRun ==
  ASSUME NEW d \in Nat, NEW s \in Nat, NEW n \in Nat, n <= s
  PROVE  SubSeq(Numbered(d, s), n + 1, s) = Numbered(d + n, s - n)
<1>1. SubSeq(Numbered(d, s), n + 1, s) = [k \in 1..(s - n) |-> Numbered(d, s)[n + k]]
  BY NumberedRun
<1>2. \A k \in 1..(s - n) : Numbered(d, s)[n + k] = (d + n) + k
  BY NumberedRun
<1>3. QED BY <1>1, <1>2 DEF Numbered

\* What the ring holds, as the abstract stream sees it.
InFlight == [k \in 1..size |-> storage[SlotOf(k)]]

\* The bytes in flight are the run behind the delivered ones.
LEMMA InFlightNumbered ==
  ASSUME IInv PROVE InFlight = Numbered(delivered, size)
BY DEF IInv, RingHoldsStream, InFlight, Numbered

\* A chunk written is a Put, a chunk read a Get, the first close a Close, and
\* every other step leaves the stream as it is.
LEMMA StreamStep ==
  ASSUME IInv, IInv', [Next]_vars
  PROVE  [Stream!Next]_(Stream!streamVars)
<1>1. /\ InFlight = Numbered(delivered, size)
      /\ InFlight' = Numbered(delivered', size')
  <2>1. InFlight = Numbered(delivered, size)
    BY InFlightNumbered
  <2>2. InFlight' = Numbered(delivered', size')
    BY DEF IInv, RingHoldsStream, InFlight, Numbered
  <2>3. QED BY <2>1, <2>2
<1>2. /\ delivered \in Nat /\ size \in 0..Capacity
      /\ offered + written = delivered + size
  BY DEF IInv, TypeOK, RingHoldsStream
<1>3. CASE WriteChunk
  <2> DEFINE n == ChunkLength
  <2>1. /\ n \in 1..Capacity /\ n <= Capacity - size
    BY <1>3, ChunkFacts DEF IInv, WriteChunk
  <2>2. /\ size' = size + n /\ delivered' = delivered
        /\ offered' + written' = offered + written + n
    BY <1>3, ChunkCounts
  <2>3. ~(writerClosed \/ readerClosed) /\ UNCHANGED flags
    BY <1>3 DEF WriteChunk, WriterStops
  <2>4. InFlight' = InFlight \o [i \in 1..n |-> (offered + written) + i]
    <3> HIDE DEF n
    <3>1. n \in Nat /\ size \in Nat /\ delivered \in Nat
      BY <1>2, <2>1
    <3>2. Numbered(delivered, size) \o Numbered(delivered + size, n)
            = Numbered(delivered, size + n)
      BY <3>1, AppendRun, Zenon
    <3>3. [i \in 1..n |-> (offered + written) + i] = Numbered(delivered + size, n)
      BY <1>2 DEF Numbered
    <3>4. InFlight' = Numbered(delivered, size + n)
      BY <1>1, <2>2
    <3>5. QED BY <1>1, <3>2, <3>3, <3>4
  <2>5. Len(InFlight) + n <= Capacity
    <3>1. Len(InFlight) = size
      BY <1>1, <1>2, NumberedRun
    <3> HIDE DEF n
    <3>2. QED BY <1>2, <2>1, <3>1
  <2>6. Stream!Put(n)
    BY <2>2, <2>3, <2>4, <2>5 DEF Stream!Put, InFlight, flags
  <2>7. QED BY <2>1, <2>6 DEF Stream!Next
<1>4. CASE ReadTake
  <2> DEFINE n == TakeLength
  <2>1. n \in 1..Capacity /\ n <= size
    BY <1>4, TakeFacts DEF IInv, ReadTake
  <2>2. size' = size - n /\ delivered' = delivered + n
    BY <1>4 DEF ReadTake
  <2>3. Len(InFlight) = size
    BY <1>1, <1>2, NumberedRun
  <2>4. InFlight' = SubSeq(InFlight, n + 1, size)
    <3> HIDE DEF n
    <3>1. n \in Nat /\ size \in Nat /\ delivered \in Nat
      BY <1>2, <2>1
    <3>2. SubSeq(Numbered(delivered, size), n + 1, size)
            = Numbered(delivered + n, size - n)
      <4>1. n <= size
        BY <2>1
      <4>2. QED BY <3>1, <4>1, DropRun, Zenon
    <3>3. QED BY <1>1, <2>2, <3>2
  <2>5. Stream!Get(n)
    BY <1>4, <2>1, <2>3, <2>4 DEF Stream!Get, InFlight, ReadTake, flags, sender
  <2>6. QED BY <2>1, <2>5 DEF Stream!Next
<1>5. CASE Closing
  <2>1. InFlight' = InFlight /\ offered' + written' = offered + written
    BY <1>5 DEF Closing, EndClosing, ClosePipeWriter, ClosePipeReader, CancelPipe, InFlight, SlotOf,
       ring, sender
  <2>2. writerClosed' \/ readerClosed'
    BY <1>5 DEF Closing, EndClosing, ClosePipeWriter, ClosePipeReader, CancelPipe
  <2>3. Stream!Close
    BY <2>1, <2>2 DEF Stream!Close, InFlight
  <2>4. QED BY <2>3 DEF Stream!Next
<1>6. CASE ~WriteChunk /\ ~ReadTake /\ ~Closing
  <2>1. UNCHANGED ring /\ UNCHANGED flags
    BY <1>6 DEF Next, Writing, Reading, vars, SendCall, SendRefused, ReadCall, ReadRefused,
       CloseSender, CloseReceiver, WriteFails, WriteWait, ReadEnd, ReadWait, ReadExpire, ReadTimeout, SpuriousWake
  <2>2. offered' + written' = offered + written
    <3>1. ASSUME NEW k \in 1..MaxSend, SendCall(k) PROVE offered' + written' = offered + written
      BY <3>1 DEF SendCall, IInv, CallsInProgress
    <3>2. CASE WriteFails
      BY <3>2 DEF WriteFails, IInv, TypeOK
    <3>3. CASE ~WriteFails /\ ~(\E k \in 1..MaxSend : SendCall(k))
      BY <1>6, <3>3 DEF Next, Writing, Reading, vars, sender, SendRefused, ReadCall,
         ReadRefused, CloseSender, CloseReceiver, WriteWait,
         ReadEnd, ReadWait, ReadExpire, ReadTimeout, SpuriousWake
    <3>4. QED BY <3>1, <3>2, <3>3
  <2>3. InFlight' = InFlight
    BY <2>1 DEF InFlight, SlotOf, ring
  <2>4. QED
    BY <2>1, <2>2, <2>3 DEF Stream!streamVars, InFlight, flags
<1>7. QED BY <1>3, <1>4, <1>5, <1>6

\* Every behaviour of the ring is one of the bounded byte stream.
THEOREM Implementation == Spec => ImplementsStream
<1>1. Init => Stream!Init
  BY DEF Init, Stream!Init
<1>2. IInv /\ IInv' /\ [Next]_vars => [Stream!Next]_(Stream!streamVars)
  BY StreamStep
<1>3. QED BY <1>1, <1>2, Inductive, PTL DEF Spec, ImplementsStream, Stream!Spec
=============================================================================
