-------------------------- MODULE ExternalSortProofs --------------------------
(***************************************************************************)
(* Proofs about ExternalSort, for every chunk size, every --limit and any  *)
(* number of records.                                                      *)
(*                                                                         *)
(* The argument: a node of the heap is the record its run was last read    *)
(* to, and a run without a node has been read to its end (HeapIsFront); so *)
(* the output consists of the records read and left by their run           *)
(* (OutputIsRead), and every record not written is at or behind a node of  *)
(* its sorted run.  The node the heap gives out precedes or equals every   *)
(* other node, hence everything that is left.                              *)
(***************************************************************************)
EXTENDS ExternalSort, FiniteSetTheorems, TLAPS

Sorted(run) ==
  \A p, q \in DOMAIN run : p < q => ~RecordLess(added[run[q]], added[run[p]])

RunsAreSorted == \A r \in DOMAIN runs : Len(runs[r]) >= 1 /\ Sorted(runs[r])

Idle == stage = "adding" => heap = {} /\ out = <<>> /\ read = <<>>

Merging == stage \in {"merging", "done"}

InHeap(r) == \E n \in heap : n.run = r

HeapIsFront ==
  Merging =>
    /\ chunk = {}
    /\ DOMAIN read = DOMAIN runs
    /\ \A n \in heap : n.record = runs[n.run][read[n.run]]
    /\ \A r \in DOMAIN runs : InHeap(r) \/ read[r] = Len(runs[r])

OutputIsRead ==
  Merging =>
    \A r \in DOMAIN runs : \A p \in DOMAIN runs[r] :
      runs[r][p] \in Emitted <=> p < read[r] \/ (p = read[r] /\ ~InHeap(r))

WithinLimit == limit # NoLimit => Len(out) <= limit

Ended == stage = "done" => ~MayEmit /\ truncated = (Len(out) < Len(added))

IInv ==
  /\ SortTypeOK
  /\ EveryRecordOnce
  /\ RunsAreSorted
  /\ Idle
  /\ HeapIsFront
  /\ OutputIsRead
  /\ FrontOfOrder
  /\ WithinLimit
  /\ Ended

-----------------------------------------------------------------------------
(* The two orders. *)

\* The heap's order is record_less the other way round.
LEMMA OrdersAgree == \A l, r \in Keys : Later(l, r) <=> RecordLess(r, l)
BY DEF Later, RecordLess, Keys

\* record_less is a strict order in which records that do not precede one
\* another are equal.
LEMMA NotLessTransitive ==
  \A a, b, c \in Keys : ~RecordLess(a, b) /\ ~RecordLess(b, c) => ~RecordLess(a, c)
BY DEF RecordLess, Keys

LEMMA LessIrreflexive == \A a \in Keys : ~RecordLess(a, a)
BY DEF RecordLess, Keys

\* Sequences over a set are sequences over every larger one.
LEMMA SeqMonotonic == ASSUME NEW S, NEW T, S \subseteq T PROVE Seq(S) \subseteq Seq(T)
OBVIOUS

\* What flush_chunk makes of a chunk that is not empty: one more run, which
\* holds each record of the chunk once and in order.
LEMMA FlushEffect ==
  ASSUME NEW records \in Seq(Keys), NEW c \in SUBSET (1 .. Len(records)), c # {},
         FlushChunk(records, c)
  PROVE  /\ chunk' = {}
         /\ \E run \in Seq(c) :
              /\ runs' = Append(runs, run)
              /\ Len(run) >= 1
              /\ \A i \in c : \E p \in DOMAIN run : run[p] = i
              /\ \A p, q \in DOMAIN run :
                   p < q => run[p] # run[q] /\ ~RecordLess(records[run[q]], records[run[p]])
<1>1. IsFiniteSet(c) /\ Cardinality(c) \in Nat
  <2>1. IsFiniteSet(1 .. Len(records))
    BY FS_Interval
  <2> QED
    BY <2>1, FS_Subset, FS_CardinalityType
<1>2. Cardinality(c) >= 1
  BY <1>1, FS_EmptySet
<1>3. PICK run \in SortedOrders(records, c) : runs' = Append(runs, run) /\ chunk' = {}
  BY DEF FlushChunk
<1>4. run \in [1 .. Cardinality(c) -> c]
  BY <1>3 DEF SortedOrders
<1>5. run \in Seq(c) /\ Len(run) = Cardinality(c)
  BY <1>1, <1>4
<1> QED
  BY <1>2, <1>3, <1>5 DEF SortedOrders

\* A flush keeps every record of the files where it is, adds those of the chunk
\* once, and leaves sorted files.
LEMMA FlushKeeps ==
  ASSUME SortTypeOK, Stored, StoredOnce, RunsAreSorted,
         added' \in Seq(Keys), Numbers \subseteq Numbers',
         \A i \in Numbers : added'[i] = added[i],
         NEW c \in SUBSET Numbers', c # {}, chunk \subseteq c,
         c \cap Numbers \subseteq chunk, Numbers' \subseteq Numbers \cup c,
         FlushChunk(added', c)
  PROVE  /\ chunk' = {}
         /\ runs' \in Seq(Seq(Numbers'))
         /\ Stored' /\ StoredOnce' /\ RunsAreSorted'
<1>1. PICK run \in Seq(c) :
        /\ runs' = Append(runs, run)
        /\ Len(run) >= 1
        /\ \A i \in c : \E p \in DOMAIN run : run[p] = i
        /\ \A p, q \in DOMAIN run :
             p < q => run[p] # run[q] /\ ~RecordLess(added'[run[q]], added'[run[p]])
  BY FlushEffect DEF Numbers
<1>2. chunk' = {}
  BY FlushEffect DEF Numbers
<1>3. /\ runs \in Seq(Seq(Numbers))
      /\ runs \in Seq(Seq(Numbers'))
      /\ run \in Seq(Numbers')
  BY SeqMonotonic DEF SortTypeOK
<1>4. runs' \in Seq(Seq(Numbers'))
  BY <1>1, <1>3
<1>5. /\ DOMAIN runs' = DOMAIN runs \cup {Len(runs) + 1}
      /\ Len(runs) + 1 \notin DOMAIN runs
      /\ \A r \in DOMAIN runs : runs'[r] = runs[r]
      /\ runs'[Len(runs) + 1] = run
  BY <1>1, <1>3
<1>6. /\ \A r \in DOMAIN runs : runs[r] \in Seq(Numbers)
      /\ \A r \in DOMAIN runs : \A p \in DOMAIN runs[r] : runs[r][p] \in Numbers
  BY <1>3
<1>7. \A p \in DOMAIN run : run[p] \in c
  BY <1>1
<1>8. Stored'
  <2> SUFFICES ASSUME NEW i \in Numbers'
               PROVE  \E r \in DOMAIN runs' : \E p \in DOMAIN runs'[r] : runs'[r][p] = i
    BY DEF Stored, InRun
  <2>1. CASE i \in c
    BY <2>1, <1>1, <1>5
  <2>2. CASE i \in Numbers /\ i \notin c
    BY <2>2, <1>5 DEF Stored, InRun
  <2> QED
    BY <2>1, <2>2
<1>9. StoredOnce'
  <2> SUFFICES ASSUME NEW r \in DOMAIN runs', NEW s \in DOMAIN runs',
                      NEW p \in DOMAIN runs'[r], NEW q \in DOMAIN runs'[s],
                      runs'[r][p] = runs'[s][q]
               PROVE  r = s /\ p = q
    BY <1>2 DEF StoredOnce
  <2>1. \A t \in DOMAIN runs : \A u \in DOMAIN runs[t] : runs[t][u] \notin c
    BY <1>6 DEF StoredOnce
  <2>2. CASE r \in DOMAIN runs /\ s \in DOMAIN runs
    BY <2>2, <1>5 DEF StoredOnce
  <2>3. CASE r = Len(runs) + 1 /\ s = Len(runs) + 1
    <3>1. p \in DOMAIN run /\ q \in DOMAIN run /\ run[p] = run[q]
      BY <2>3, <1>5
    <3>2. ~(p < q) /\ ~(q < p)
      BY <3>1, <1>1
    <3>3. p \in Nat /\ q \in Nat
      BY <3>1, <1>1
    <3> QED
      BY <2>3, <3>2, <3>3
  <2> QED
    BY <2>1, <2>2, <2>3, <1>5, <1>7
<1>10. RunsAreSorted'
  <2> SUFFICES ASSUME NEW r \in DOMAIN runs'
               PROVE  /\ Len(runs'[r]) >= 1
                      /\ \A p, q \in DOMAIN runs'[r] :
                           p < q => ~RecordLess(added'[runs'[r][q]], added'[runs'[r][p]])
    BY DEF RunsAreSorted, Sorted
  <2>1. CASE r \in DOMAIN runs
    BY <2>1, <1>5, <1>6 DEF RunsAreSorted, Sorted
  <2>2. CASE r = Len(runs) + 1
    BY <2>2, <1>1, <1>5
  <2> QED
    BY <2>1, <2>2, <1>5
<1> QED
  BY <1>2, <1>4, <1>8, <1>9, <1>10

-----------------------------------------------------------------------------
(* The steps. *)

LEMMA InitHolds == SortInit => IInv
<1> SUFFICES ASSUME SortInit PROVE IInv
  OBVIOUS
<1>1. SortTypeOK
  <2>1. /\ added \in Seq(Keys) /\ chunk \subseteq Numbers
        /\ runs \in Seq(Seq(Numbers)) /\ out \in Seq(Numbers)
    BY DEF SortInit
  <2>2. /\ DOMAIN read = {}
        /\ heap \subseteq [run : DOMAIN read, record : Numbers]
    BY DEF SortInit
  <2>3. /\ limit \in Nat \cup {NoLimit} /\ truncated \in BOOLEAN
        /\ stage \in {"adding", "merging", "done", "failed"}
    BY LimitAssumption DEF SortInit
  <2> QED
    BY <2>1, <2>2, <2>3 DEF SortTypeOK
<1>2. EveryRecordOnce
  BY DEF SortInit, EveryRecordOnce, Stored, StoredOnce, WrittenOnce, Numbers
<1>3. RunsAreSorted /\ Idle
  BY DEF SortInit, RunsAreSorted, Idle
<1>4. HeapIsFront /\ OutputIsRead /\ Ended
  BY DEF SortInit, HeapIsFront, OutputIsRead, Ended, Merging
<1>5. FrontOfOrder
  BY DEF SortInit, FrontOfOrder, MergedInOrder, NothingSmallerLeft
<1>6. WithinLimit
  BY LimitAssumption DEF SortInit, WithinLimit, NoLimit
<1> QED
  BY <1>1, <1>2, <1>3, <1>4, <1>5, <1>6 DEF IInv

\* While records are added, only the chunk and the files matter.
LEMMA AddKeeps == ASSUME IInv, NEW r \in Keys, Add(r) PROVE IInv'
<1> DEFINE c == chunk \cup {Len(added')}
<1>1. /\ SortTypeOK /\ Stored /\ StoredOnce /\ RunsAreSorted
      /\ stage = "adding" /\ heap = {} /\ out = <<>> /\ read = <<>>
      /\ UNCHANGED <<limit, read, heap, out, stage, truncated>>
  BY DEF IInv, EveryRecordOnce, Idle, Add
<1>2. /\ added \in Seq(Keys)
      /\ added' = Append(added, r)
  BY <1>1 DEF SortTypeOK, Add
<1>3. /\ added' \in Seq(Keys)
      /\ Len(added') = Len(added) + 1
      /\ Numbers' = Numbers \cup {Len(added')}
      /\ Len(added') \notin Numbers
      /\ \A i \in Numbers : added'[i] = added[i]
  BY <1>2 DEF Numbers
<1>4. chunk' \subseteq Numbers' /\ runs' \in Seq(Seq(Numbers')) /\ Stored' /\ StoredOnce' /\ RunsAreSorted'
  <2>1. CASE Cardinality(c) >= ChunkLimit
    <3>1. FlushChunk(added', c)
      BY <2>1 DEF Add
    <3>2. c \in SUBSET Numbers' /\ chunk \subseteq c /\ c \cap Numbers \subseteq chunk
          /\ Numbers' \subseteq Numbers \cup c /\ c # {} /\ Numbers \subseteq Numbers'
      BY <1>1, <1>3 DEF SortTypeOK
    <3> HIDE DEF c
    <3> QED
      BY <1>1, <1>3, <3>1, <3>2, FlushKeeps
  <2>2. CASE ~(Cardinality(c) >= ChunkLimit)
    <3>1. chunk' = c /\ runs' = runs
      BY <2>2 DEF Add
    <3>2. chunk \subseteq Numbers /\ runs \in Seq(Seq(Numbers))
      BY <1>1 DEF SortTypeOK
    <3>3. \A s \in DOMAIN runs : \A p \in DOMAIN runs[s] : runs[s][p] \in Numbers
      BY <3>2
    <3>4. runs \in Seq(Seq(Numbers'))
      <4>1. Seq(Numbers) \subseteq Seq(Numbers')
        BY <1>3, SeqMonotonic
      <4> QED
        BY <3>2, <4>1, SeqMonotonic
    <3>5. Stored'
      BY <1>1, <1>3, <3>1 DEF Stored, InRun
    <3>6. StoredOnce'
      BY <1>1, <1>3, <3>1, <3>3 DEF StoredOnce
    <3>7. RunsAreSorted'
      BY <1>1, <1>3, <3>1, <3>3 DEF RunsAreSorted, Sorted
    <3> QED
      BY <1>3, <3>1, <3>2, <3>4, <3>5, <3>6, <3>7
  <2> QED
    BY <2>1, <2>2
<1>5. SortTypeOK'
  BY <1>1, <1>3, <1>4 DEF SortTypeOK
<1>6. WrittenOnce' /\ FrontOfOrder'
  BY <1>1 DEF WrittenOnce, FrontOfOrder, MergedInOrder, NothingSmallerLeft
<1>7. Idle' /\ HeapIsFront' /\ OutputIsRead' /\ Ended'
  BY <1>1 DEF Idle, HeapIsFront, OutputIsRead, Ended, Merging
<1>8. WithinLimit'
  BY <1>1 DEF IInv, WithinLimit
<1> QED
  BY <1>4, <1>5, <1>6, <1>7, <1>8 DEF IInv, EveryRecordOnce

\* After the last flush every record is in a file, and the heap holds the first
\* one of each.
LEMMA FinishKeeps == ASSUME IInv, Finish PROVE IInv'
<1>1. /\ SortTypeOK /\ Stored /\ StoredOnce /\ RunsAreSorted
      /\ stage = "adding" /\ heap = {} /\ out = <<>> /\ read = <<>>
      /\ stage' = "merging"
      /\ UNCHANGED <<limit, added, out, truncated>>
  BY DEF IInv, EveryRecordOnce, Idle, Finish
<1>2. chunk' = {} /\ runs' \in Seq(Seq(Numbers')) /\ Stored' /\ StoredOnce' /\ RunsAreSorted'
  <2>1. /\ added \in Seq(Keys) /\ chunk \subseteq Numbers /\ runs \in Seq(Seq(Numbers))
        /\ Numbers' = Numbers
    BY <1>1 DEF SortTypeOK, Numbers
  <2>2. CASE chunk = {}
    <3>1. chunk' = chunk /\ runs' = runs
      BY <2>2 DEF Finish
    <3> QED
      BY <1>1, <2>1, <2>2, <3>1 DEF Stored, InRun, StoredOnce, RunsAreSorted, Sorted
  <2>3. CASE chunk # {}
    <3>1. FlushChunk(added', chunk)
      BY <1>1, <2>3 DEF Finish
    <3>2. /\ added' \in Seq(Keys) /\ Numbers \subseteq Numbers'
          /\ \A i \in Numbers : added'[i] = added[i]
          /\ chunk \in SUBSET Numbers' /\ chunk \cap Numbers \subseteq chunk
          /\ Numbers' \subseteq Numbers \cup chunk
      BY <1>1, <2>1
    <3> QED
      BY <1>1, <2>3, <3>1, <3>2, FlushKeeps
  <2> QED
    BY <2>2, <2>3
<1>3. /\ read' = [r \in DOMAIN runs' |-> 1]
      /\ heap' = {[run |-> r, record |-> runs'[r][1]] : r \in DOMAIN runs'}
  BY DEF Finish
<1>4. \A r \in DOMAIN runs' : /\ runs'[r] \in Seq(Numbers')
                              /\ Len(runs'[r]) >= 1
                              /\ runs'[r][1] \in Numbers'
  BY <1>2 DEF RunsAreSorted
<1>5. DOMAIN read' = DOMAIN runs' /\ \A r \in DOMAIN runs' : read'[r] = 1
  BY <1>3
<1>6. \A r \in DOMAIN runs' : InHeap(r)'
  <2> SUFFICES ASSUME NEW r \in DOMAIN runs' PROVE \E n \in heap' : n.run = r
    BY DEF InHeap
  <2>1. [run |-> r, record |-> runs'[r][1]] \in heap'
    BY <1>3
  <2> QED
    BY <2>1
<1>7. SortTypeOK'
  <2>1. \A r \in DOMAIN read' : read'[r] \in 1 .. Len(runs'[r])
    BY <1>4, <1>5
  <2>2. heap' \subseteq [run : DOMAIN read', record : Numbers']
    BY <1>3, <1>4, <1>5
  <2>3. out' \in Seq(Numbers') /\ added' \in Seq(Keys) /\ limit' \in Nat \cup {NoLimit}
        /\ truncated' \in BOOLEAN
    BY <1>1 DEF SortTypeOK
  <2> QED
    BY <1>1, <1>2, <1>5, <2>1, <2>2, <2>3 DEF SortTypeOK
<1>8. HeapIsFront'
  <2>1. \A n \in heap' : n.record = runs'[n.run][read'[n.run]]
    BY <1>3, <1>5
  <2> QED
    BY <1>2, <1>5, <1>6, <2>1 DEF HeapIsFront
<1>9. OutputIsRead'
  <2> SUFFICES ASSUME NEW r \in DOMAIN runs', NEW p \in DOMAIN runs'[r]
               PROVE  ~(p < read'[r]) /\ ~(p = read'[r] /\ ~InHeap(r)') /\ runs'[r][p] \notin Emitted'
    BY DEF OutputIsRead
  <2>1. p \in Nat /\ p >= 1
    BY <1>4
  <2>2. read'[r] = 1 /\ InHeap(r)'
    BY <1>5, <1>6
  <2>3. Emitted' = {}
    BY <1>1 DEF Emitted
  <2> QED
    BY <2>1, <2>2, <2>3
<1>10. WrittenOnce' /\ FrontOfOrder' /\ Idle' /\ Ended'
  BY <1>1 DEF WrittenOnce, FrontOfOrder, MergedInOrder, NothingSmallerLeft, Emitted, Idle, Ended
<1>11. WithinLimit'
  BY <1>1 DEF IInv, WithinLimit
<1> QED
  BY <1>2, <1>7, <1>8, <1>9, <1>10, <1>11 DEF IInv, EveryRecordOnce
\* What a failure leaves of the invariant, from whatever stage.
LEMMA FailureKeeps ==
  ASSUME IInv, stage' = "failed",
         UNCHANGED <<limit, added, chunk, runs, read, heap, out, truncated>>
  PROVE  IInv'
<1>1. SortTypeOK'
  BY DEF IInv, SortTypeOK, Numbers
<1>2. EveryRecordOnce' /\ RunsAreSorted'
  BY DEF IInv, EveryRecordOnce, Stored, InRun, StoredOnce, WrittenOnce, Numbers,
         RunsAreSorted, Sorted
<1>3. Idle' /\ HeapIsFront' /\ OutputIsRead' /\ Ended'
  BY DEF Idle, HeapIsFront, OutputIsRead, Ended, Merging
<1>4. FrontOfOrder' /\ WithinLimit'
  BY DEF IInv, FrontOfOrder, MergedInOrder, NothingSmallerLeft, WithinLimit
<1> QED
  BY <1>1, <1>2, <1>3, <1>4 DEF IInv

\* The end of finish only sets what it returns.
LEMMA StopKeeps == ASSUME IInv, Stop PROVE IInv'
<1>1. /\ stage = "merging" /\ stage' = "done"
      /\ truncated' = (Len(out) < Len(added))
      /\ UNCHANGED <<limit, added, chunk, runs, read, heap, out>>
  BY DEF Stop
<1>2. SortTypeOK'
  BY <1>1 DEF IInv, SortTypeOK, Numbers
<1>3. EveryRecordOnce' /\ RunsAreSorted'
  BY <1>1 DEF IInv, EveryRecordOnce, Stored, InRun, StoredOnce, WrittenOnce, Numbers,
              RunsAreSorted, Sorted
<1>4. HeapIsFront'
  BY <1>1 DEF IInv, HeapIsFront, Merging, InHeap
<1>5. OutputIsRead'
  BY <1>1 DEF IInv, OutputIsRead, Merging, InHeap, Emitted
<1>6. FrontOfOrder' /\ WithinLimit'
  BY <1>1 DEF IInv, FrontOfOrder, MergedInOrder, NothingSmallerLeft, Emitted, Numbers,
              WithinLimit
<1>7. Ended' /\ Idle'
  BY <1>1 DEF Ended, Idle, Stop, MayEmit
<1> QED
  BY <1>2, <1>3, <1>4, <1>5, <1>6, <1>7 DEF IInv

\* While the sorter merges, a record not written yet lies in a run that has a
\* node, at the node's place or behind it.
LEMMA UnwrittenIsBehindNode ==
  ASSUME IInv, Merging, NEW j \in Numbers \ Emitted
  PROVE  \E m \in heap : \E p \in DOMAIN runs[m.run] :
           /\ m.run \in DOMAIN runs
           /\ runs[m.run][p] = j
           /\ read[m.run] <= p
<1>1. SortTypeOK /\ HeapIsFront /\ OutputIsRead /\ Stored
  BY DEF IInv, EveryRecordOnce
<1>2. InRun(j)
  BY <1>1 DEF Stored, HeapIsFront
<1>3. PICK r \in DOMAIN runs : \E p \in DOMAIN runs[r] : runs[r][p] = j
  BY <1>2 DEF InRun
<1>4. PICK p \in DOMAIN runs[r] : runs[r][p] = j
  BY <1>3
<1>5. ~(p < read[r]) /\ ~(p = read[r] /\ ~InHeap(r))
  BY <1>1, <1>4 DEF OutputIsRead
<1>6. /\ p \in 1 .. Len(runs[r])
      /\ Len(runs[r]) \in Nat
      /\ read[r] \in 1 .. Len(runs[r])
  <2>1. runs[r] \in Seq(Numbers) /\ r \in DOMAIN read
    BY <1>1 DEF SortTypeOK, HeapIsFront
  <2> QED
    BY <1>1, <2>1 DEF SortTypeOK
<1>7. InHeap(r)
  BY <1>1, <1>5, <1>6 DEF HeapIsFront
<1>8. PICK m \in heap : m.run = r
  BY <1>7 DEF InHeap
<1> QED
  BY <1>4, <1>5, <1>6, <1>8

\* The node that leaves the heap holds a record that was not written yet and
\* that no such record precedes.
LEMMA TopIsLeast ==
  ASSUME IInv, Merging, NEW n \in heap,
         \A m \in heap : ~Later(added[n.record], added[m.record])
  PROVE  /\ n.record \in Numbers \ Emitted
         /\ \A j \in Numbers \ Emitted : ~RecordLess(added[j], added[n.record])
<1>1. SortTypeOK /\ HeapIsFront /\ OutputIsRead /\ RunsAreSorted
  BY DEF IInv
<1>2. \A m \in heap : /\ m.run \in DOMAIN runs
                      /\ m.record \in Numbers
                      /\ read[m.run] \in DOMAIN runs[m.run]
                      /\ m.record = runs[m.run][read[m.run]]
  <2> SUFFICES ASSUME NEW m \in heap
               PROVE  /\ m.run \in DOMAIN runs
                      /\ m.record \in Numbers
                      /\ read[m.run] \in DOMAIN runs[m.run]
                      /\ m.record = runs[m.run][read[m.run]]
    OBVIOUS
  <2>1. m \in [run : DOMAIN read, record : Numbers] /\ DOMAIN read = DOMAIN runs
    BY <1>1 DEF SortTypeOK, HeapIsFront
  <2>2. m.run \in DOMAIN runs /\ m.record \in Numbers
    BY <2>1
  <2>3. read[m.run] \in 1 .. Len(runs[m.run]) /\ runs[m.run] \in Seq(Numbers)
    BY <1>1, <2>1, <2>2 DEF SortTypeOK
  <2> QED
    BY <1>1, <2>2, <2>3 DEF HeapIsFront
<1>3. n.record \notin Emitted
  <2>1. InHeap(n.run)
    BY DEF InHeap
  <2>2. ~(read[n.run] < read[n.run])
    <3>1. runs[n.run] \in Seq(Numbers)
      BY <1>1, <1>2 DEF SortTypeOK
    <3> QED
      BY <1>2, <3>1
  <2> QED
    BY <1>1, <1>2, <2>1, <2>2 DEF OutputIsRead
<1>4. ASSUME NEW j \in Numbers \ Emitted PROVE ~RecordLess(added[j], added[n.record])
  <2>0. PICK m \in heap : \E p \in DOMAIN runs[m.run] :
          m.run \in DOMAIN runs /\ runs[m.run][p] = j /\ read[m.run] <= p
    BY <1>4, UnwrittenIsBehindNode
  <2>1. PICK p \in DOMAIN runs[m.run] :
          m.run \in DOMAIN runs /\ runs[m.run][p] = j /\ read[m.run] <= p
    BY <2>0
  <2>2. added[j] \in Keys /\ added[m.record] \in Keys /\ added[n.record] \in Keys
    <3>1. \A i \in Numbers : added[i] \in Keys
      BY <1>1 DEF SortTypeOK, Numbers
    <3> QED
      BY <1>2, <3>1
  <2>3. ~RecordLess(added[m.record], added[n.record])
    BY <2>2, OrdersAgree
  <2>4. ~RecordLess(added[j], added[m.record])
    <3>1. CASE read[m.run] = p
      BY <1>2, <2>1, <2>2, <3>1, LessIrreflexive
    <3>2. CASE read[m.run] < p
      BY <1>1, <1>2, <2>1, <3>2 DEF RunsAreSorted, Sorted
    <3>3. read[m.run] \in Int /\ p \in Int
      <4>1. runs[m.run] \in Seq(Numbers)
        BY <1>1, <1>2 DEF SortTypeOK
      <4> QED
        BY <1>2, <4>1
    <3> QED
      BY <2>1, <3>1, <3>2, <3>3
  <2> QED
    BY <2>2, <2>3, <2>4, NotLessTransitive
<1> QED
  BY <1>2, <1>3, <1>4

\* What ReadNext does: run k gets a node for its next record or, at its end,
\* none, and nothing changes for the other runs.
LEMMA ReadNextEffect ==
  ASSUME IInv, Merging, NEW n \in heap, ReadNext(n)
  PROVE  /\ n.run \in DOMAIN runs
         /\ DOMAIN read' = DOMAIN runs
         /\ \A r \in DOMAIN runs : r # n.run => /\ read'[r] = read[r]
                                                /\ InHeap(r)' <=> InHeap(r)
         /\ \/ /\ read'[n.run] = read[n.run] + 1
               /\ read[n.run] < Len(runs[n.run])
               /\ InHeap(n.run)'
            \/ /\ read'[n.run] = read[n.run]
               /\ read[n.run] = Len(runs[n.run])
               /\ ~InHeap(n.run)'
         /\ \A m \in heap' : /\ m \in [run : DOMAIN runs, record : Numbers]
                             /\ m.record = runs[m.run][read'[m.run]]
<1>1. SortTypeOK /\ HeapIsFront
  BY DEF IInv
<1>2. /\ DOMAIN read = DOMAIN runs
      /\ heap \subseteq [run : DOMAIN runs, record : Numbers]
      /\ \A m \in heap : m.record = runs[m.run][read[m.run]]
  BY <1>1 DEF SortTypeOK, HeapIsFront
<1>3. n.run \in DOMAIN runs
  BY <1>2
<1>4. runs[n.run] \in Seq(Numbers) /\ read[n.run] \in 1 .. Len(runs[n.run])
  BY <1>1, <1>2, <1>3 DEF SortTypeOK
<1>5. \A m \in heap : m.run = n.run => m = n
  <2> SUFFICES ASSUME NEW m \in heap, m.run = n.run PROVE m = n
    OBVIOUS
  <2>1. m.record = n.record
    BY <1>2
  <2>2. m \in [run : DOMAIN runs, record : Numbers] /\ n \in [run : DOMAIN runs, record : Numbers]
    BY <1>2
  <2> QED
    BY <2>1, <2>2
<1>6. CASE read[n.run] < Len(runs[n.run])
  <2> DEFINE next == [run |-> n.run, record |-> runs[n.run][read[n.run] + 1]]
  <2>1. heap' = (heap \ {n}) \cup {next} /\ read' = [read EXCEPT ![n.run] = @ + 1]
    BY <1>6 DEF ReadNext
  <2>2. /\ DOMAIN read' = DOMAIN runs
        /\ read'[n.run] = read[n.run] + 1
        /\ \A r \in DOMAIN runs : r # n.run => read'[r] = read[r]
    BY <1>2, <1>3, <2>1
  <2>3. next.run = n.run /\ next.record = runs[n.run][read[n.run] + 1]
        /\ next \in [run : DOMAIN runs, record : Numbers]
    BY <1>3, <1>4, <1>6
  <2> HIDE DEF next
  <2>4. InHeap(n.run)'
    BY <2>1, <2>3 DEF InHeap
  <2>5. \A r \in DOMAIN runs : r # n.run => (InHeap(r)' <=> InHeap(r))
    BY <2>1, <2>3 DEF InHeap
  <2>6. \A m \in heap' : /\ m \in [run : DOMAIN runs, record : Numbers]
                         /\ m.record = runs[m.run][read'[m.run]]
    <3> SUFFICES ASSUME NEW m \in heap'
                 PROVE  /\ m \in [run : DOMAIN runs, record : Numbers]
                        /\ m.record = runs[m.run][read'[m.run]]
      OBVIOUS
    <3>1. CASE m = next
      BY <2>2, <2>3, <3>1
    <3>2. CASE m \in heap /\ m # n
      <4>1. m \in [run : DOMAIN runs, record : Numbers] /\ m.run # n.run
        BY <1>2, <1>5, <3>2
      <4> QED
        BY <1>2, <2>2, <3>2, <4>1
    <3> QED
      BY <2>1, <3>1, <3>2
  <2> QED
    BY <1>3, <1>6, <2>2, <2>4, <2>5, <2>6
<1>7. CASE ~(read[n.run] < Len(runs[n.run]))
  <2>1. heap' = heap \ {n} /\ read' = read
    BY <1>7 DEF ReadNext
  <2>2. read[n.run] = Len(runs[n.run])
    BY <1>4, <1>7
  <2>3. ~InHeap(n.run)'
    BY <1>5, <2>1 DEF InHeap
  <2>4. \A r \in DOMAIN runs : r # n.run => (InHeap(r)' <=> InHeap(r))
    BY <2>1 DEF InHeap
  <2> QED
    BY <1>2, <1>3, <2>1, <2>2, <2>3, <2>4
<1> QED
  BY <1>6, <1>7

\* One turn of the merge.
LEMMA EmitKeeps == ASSUME IInv, Emit PROVE IInv'
<1>1. /\ SortTypeOK /\ EveryRecordOnce /\ RunsAreSorted /\ HeapIsFront
      /\ OutputIsRead /\ FrontOfOrder /\ WithinLimit
      /\ stage = "merging" /\ Merging /\ Merging'
      /\ UNCHANGED <<limit, added, chunk, runs, stage, truncated>>
  BY DEF IInv, Emit, Merging
<1>2. PICK n \in heap : /\ \A m \in heap : ~Later(added[n.record], added[m.record])
                        /\ out' = Append(out, n.record)
                        /\ ReadNext(n)
  BY DEF Emit
<1>3. /\ n.record \in Numbers \ Emitted
      /\ \A j \in Numbers \ Emitted : ~RecordLess(added[j], added[n.record])
  BY <1>1, <1>2, TopIsLeast
<1>4. /\ n.run \in DOMAIN runs
      /\ DOMAIN read' = DOMAIN runs
      /\ \A r \in DOMAIN runs : r # n.run => /\ read'[r] = read[r]
                                             /\ InHeap(r)' <=> InHeap(r)
      /\ \/ /\ read'[n.run] = read[n.run] + 1
            /\ read[n.run] < Len(runs[n.run])
            /\ InHeap(n.run)'
         \/ /\ read'[n.run] = read[n.run]
            /\ read[n.run] = Len(runs[n.run])
            /\ ~InHeap(n.run)'
      /\ \A m \in heap' : /\ m \in [run : DOMAIN runs, record : Numbers]
                          /\ m.record = runs[m.run][read'[m.run]]
  BY <1>1, <1>2, ReadNextEffect
<1>5. /\ out \in Seq(Numbers) /\ out' \in Seq(Numbers)
      /\ DOMAIN out' = DOMAIN out \cup {Len(out) + 1}
      /\ Len(out) + 1 \notin DOMAIN out
      /\ \A p \in DOMAIN out : out'[p] = out[p] /\ p \in Nat /\ p < Len(out) + 1
      /\ out'[Len(out) + 1] = n.record
      /\ Len(out') = Len(out) + 1 /\ Len(out) \in Nat
  BY <1>1, <1>2, <1>3 DEF SortTypeOK
<1>6. Numbers' = Numbers /\ Emitted' = Emitted \cup {n.record}
  BY <1>1, <1>5 DEF Numbers, Emitted
<1>7. /\ \A r \in DOMAIN runs : runs[r] \in Seq(Numbers) /\ read[r] \in 1 .. Len(runs[r])
      /\ n.record = runs[n.run][read[n.run]]
      /\ read[n.run] \in DOMAIN runs[n.run]
      /\ DOMAIN read = DOMAIN runs
  <2>1. DOMAIN read = DOMAIN runs /\ n.record = runs[n.run][read[n.run]]
    BY <1>1 DEF HeapIsFront
  <2>2. \A r \in DOMAIN runs : runs[r] \in Seq(Numbers) /\ read[r] \in 1 .. Len(runs[r])
    BY <1>1, <2>1 DEF SortTypeOK
  <2> QED
    BY <1>4, <2>1, <2>2
<1>8. SortTypeOK'
  <2>1. \A r \in DOMAIN read' : read'[r] \in 1 .. Len(runs'[r])
    <3> SUFFICES ASSUME NEW r \in DOMAIN runs PROVE read'[r] \in 1 .. Len(runs[r])
      BY <1>1, <1>4
    <3>1. read[r] \in 1 .. Len(runs[r]) /\ Len(runs[r]) \in Nat
      BY <1>7
    <3> QED
      BY <1>4, <3>1
  <2>2. heap' \subseteq [run : DOMAIN read', record : Numbers']
    BY <1>4, <1>6
  <2>3. runs' \in Seq(Seq(Numbers')) /\ out' \in Seq(Numbers') /\ chunk' \subseteq Numbers'
    BY <1>1, <1>5, <1>6 DEF SortTypeOK
  <2> QED
    BY <1>1, <1>4, <2>1, <2>2, <2>3 DEF SortTypeOK
<1>9. WrittenOnce'
  <2> SUFFICES ASSUME NEW p \in DOMAIN out', NEW q \in DOMAIN out', out'[p] = out'[q]
               PROVE  p = q
    BY DEF WrittenOnce
  <2>1. CASE p \in DOMAIN out /\ q \in DOMAIN out
    BY <1>1, <1>5, <2>1 DEF EveryRecordOnce, WrittenOnce
  <2>2. \A s \in DOMAIN out : out[s] # n.record
    BY <1>3 DEF Emitted
  <2> QED
    BY <1>5, <2>1, <2>2
<1>10. EveryRecordOnce'
  BY <1>1, <1>6, <1>9 DEF EveryRecordOnce, Stored, InRun, StoredOnce
<1>11. RunsAreSorted'
  BY <1>1 DEF RunsAreSorted, Sorted
<1>12. HeapIsFront'
  <2>1. \A r \in DOMAIN runs : InHeap(r)' \/ read'[r] = Len(runs[r])
    BY <1>1, <1>4 DEF HeapIsFront
  <2> QED
    BY <1>1, <1>4, <2>1 DEF HeapIsFront
<1>13. OutputIsRead'
  <2> SUFFICES ASSUME NEW r \in DOMAIN runs, NEW p \in DOMAIN runs[r]
               PROVE  runs[r][p] \in Emitted' <=>
                        p < read'[r] \/ (p = read'[r] /\ ~InHeap(r)')
    BY <1>1 DEF OutputIsRead
  <2>1. runs[r][p] \in Emitted <=> p < read[r] \/ (p = read[r] /\ ~InHeap(r))
    BY <1>1 DEF OutputIsRead
  <2>2. runs[r][p] = n.record <=> r = n.run /\ p = read[n.run]
    BY <1>1, <1>4, <1>7 DEF EveryRecordOnce, StoredOnce
  <2>3. CASE r # n.run
    BY <1>4, <1>6, <2>1, <2>2, <2>3
  <2>4. CASE r = n.run
    <3>1. InHeap(r)
      BY <2>4 DEF InHeap
    <3>2. runs[r][p] \in Emitted' <=> p < read[r] \/ p = read[r]
      BY <1>6, <2>1, <2>2, <2>4, <3>1
    <3>3. /\ p \in 1 .. Len(runs[r]) /\ Len(runs[r]) \in Nat
          /\ read[r] \in 1 .. Len(runs[r])
      BY <1>7
    <3>4. CASE read'[r] = read[r] + 1 /\ InHeap(r)'
      BY <3>2, <3>3, <3>4
    <3>5. CASE read'[r] = read[r] /\ ~InHeap(r)'
      BY <3>2, <3>5
    <3> QED
      BY <1>4, <2>4, <3>4, <3>5
  <2> QED
    BY <2>3, <2>4
<1>14. MergedInOrder'
  <2> SUFFICES ASSUME NEW p \in DOMAIN out', NEW q \in DOMAIN out', p < q
               PROVE  ~RecordLess(added[out'[q]], added[out'[p]])
    BY <1>1 DEF MergedInOrder
  <2>1. CASE q \in DOMAIN out
    <3>1. p \in DOMAIN out
      BY <1>5, <2>1
    <3> QED
      BY <1>1, <1>5, <2>1, <3>1 DEF FrontOfOrder, MergedInOrder
  <2>2. CASE q = Len(out) + 1
    <3>1. p \in DOMAIN out /\ out'[p] \in Emitted /\ out'[q] = n.record
      BY <1>5, <2>2 DEF Emitted
    <3> QED
      BY <1>1, <1>3, <3>1 DEF FrontOfOrder, NothingSmallerLeft
  <2> QED
    BY <1>5, <2>1, <2>2
<1>15. NothingSmallerLeft'
  BY <1>1, <1>3, <1>6 DEF FrontOfOrder, NothingSmallerLeft
<1>16. WithinLimit'
  <2>1. limit = NoLimit \/ Len(out) < limit
    BY DEF Emit, MayEmit
  <2>2. limit # NoLimit => limit \in Nat
    BY <1>1 DEF SortTypeOK
  <2> QED
    BY <1>1, <1>5, <2>1, <2>2 DEF WithinLimit
<1>17. Idle' /\ Ended'
  BY <1>1 DEF Idle, Ended
<1> QED
  BY <1>8, <1>10, <1>11, <1>12, <1>13, <1>14, <1>15, <1>16, <1>17 DEF IInv, FrontOfOrder

\* Every step keeps the invariant.
LEMMA StepHolds == IInv /\ [SortNext]_sortVars => IInv'
<1> SUFFICES ASSUME IInv, [SortNext]_sortVars PROVE IInv'
  OBVIOUS
<1>1. CASE \E r \in Keys : Add(r)
  BY <1>1, AddKeeps
<1>2. CASE AddFails
  BY <1>2, FailureKeeps DEF AddFails
<1>3. CASE Finish
  BY <1>3, FinishKeeps
<1>4. CASE Emit
  BY <1>4, EmitKeeps
<1>5. CASE Stop
  BY <1>5, StopKeeps
<1>6. CASE FinishFails
  BY <1>6, FailureKeeps DEF FinishFails
<1>7. CASE UNCHANGED sortVars
  <2>1. UNCHANGED <<limit, added, chunk, runs, read, heap, out, stage, truncated>>
    BY <1>7 DEF sortVars
  <2>2. SortTypeOK' /\ EveryRecordOnce' /\ RunsAreSorted'
    BY <2>1 DEF IInv, SortTypeOK, EveryRecordOnce, Stored, InRun, StoredOnce, WrittenOnce,
                Numbers, RunsAreSorted, Sorted
  <2>3. Idle' /\ HeapIsFront' /\ OutputIsRead'
    BY <2>1 DEF IInv, Idle, HeapIsFront, OutputIsRead, Merging, InHeap, Emitted
  <2>4. FrontOfOrder' /\ WithinLimit' /\ Ended'
    BY <2>1 DEF IInv, FrontOfOrder, MergedInOrder, NothingSmallerLeft, Emitted, Numbers,
                WithinLimit, Ended, MayEmit
  <2> QED
    BY <2>2, <2>3, <2>4 DEF IInv
<1> QED
  BY <1>1, <1>2, <1>3, <1>4, <1>5, <1>6, <1>7 DEF SortNext

-----------------------------------------------------------------------------
(* The results. *)

\* The output is as long as the input exactly when it holds every record: it
\* holds none twice.
LEMMA OutputCounts ==
  ASSUME IInv
  PROVE  Len(out) < Len(added) <=> Numbers \ Emitted # {}
<1>1. out \in Seq(Numbers) /\ added \in Seq(Keys) /\ WrittenOnce
  BY DEF IInv, SortTypeOK, EveryRecordOnce
<1>2. Len(out) \in Nat /\ Len(added) \in Nat /\ DOMAIN out = 1 .. Len(out)
  BY <1>1
<1>3. out \in [1 .. Len(out) -> Numbers]
  BY <1>1
<1>4. out \in Injection(1 .. Len(out), Numbers)
  BY <1>1, <1>2, <1>3 DEF WrittenOnce, Injection, IsInjective
<1>5. /\ IsFiniteSet(Numbers) /\ Cardinality(Numbers) = Len(added)
      /\ Cardinality(1 .. Len(out)) = Len(out)
  <2>1. ASSUME NEW k \in Nat PROVE IsFiniteSet(1 .. k) /\ Cardinality(1 .. k) = k
    <3>1. /\ IsFiniteSet(1 .. k)
          /\ Cardinality(1 .. k) = IF 1 > k THEN 0 ELSE k - 1 + 1
      BY FS_Interval
    <3> QED
      BY <3>1
  <2> QED
    BY <1>2, <2>1 DEF Numbers
<1>6. /\ Len(out) <= Len(added)
      /\ Len(out) = Len(added) <=> out \in Surjection(1 .. Len(out), Numbers)
  <2>1. /\ Cardinality(1 .. Len(out)) <= Cardinality(Numbers)
        /\ Cardinality(1 .. Len(out)) = Cardinality(Numbers)
             <=> out \in Surjection(1 .. Len(out), Numbers)
    BY <1>4, <1>5, FS_Injection
  <2> QED
    BY <1>5, <2>1
<1>7. out \in Surjection(1 .. Len(out), Numbers) <=> Numbers \ Emitted = {}
  BY <1>2, <1>3 DEF Surjection, Emitted
<1> QED
  BY <1>2, <1>6, <1>7

LEMMA IInvTruncation == IInv => TruncationExact
<1> SUFFICES ASSUME IInv, stage = "done"
             PROVE  /\ truncated <=> Numbers \ Emitted # {}
                    /\ truncated => limit # NoLimit /\ Len(out) = limit
  BY DEF TruncationExact
<1>1. ~MayEmit /\ truncated = (Len(out) < Len(added))
  BY DEF IInv, Ended
<1>2. truncated <=> Numbers \ Emitted # {}
  BY <1>1, OutputCounts
<1>3. ASSUME truncated PROVE limit # NoLimit /\ Len(out) = limit
  <2>1. heap # {}
    BY <1>2, <1>3, UnwrittenIsBehindNode DEF Merging
  <2>2. limit # NoLimit /\ ~(Len(out) < limit)
    BY <1>1, <2>1 DEF MayEmit
  <2>3. Len(out) <= limit /\ limit \in Nat /\ Len(out) \in Nat
    BY <2>2 DEF IInv, WithinLimit, SortTypeOK
  <2> QED
    BY <2>2, <2>3
<1> QED
  BY <1>2, <1>3

\* The invariant holds in every state of the sorter.
THEOREM Invariant == SortSpec => []IInv
BY InitHolds, StepHolds, PTL DEF SortSpec

\* A run, the heap and the output only ever hold records that were added, and
\* merging starts with every run opened and its first record read.
THEOREM SortTypeCorrect == SortSpec => []SortTypeOK
<1>1. IInv => SortTypeOK
  BY DEF IInv
<1> QED
  BY <1>1, Invariant, PTL

\* No record is lost or doubled on its way through the chunks and the files.
THEOREM NothingLostOrDoubled == SortSpec => []EveryRecordOnce
<1>1. IInv => EveryRecordOnce
  BY DEF IInv
<1> QED
  BY <1>1, Invariant, PTL

\* What finish has written is the front of the order of all records, for every
\* chunk size and although neither std::sort nor the heap is stable.
THEOREM OutputIsFront == SortSpec => []FrontOfOrder
<1>1. IInv => FrontOfOrder
  BY DEF IInv
<1> QED
  BY <1>1, Invariant, PTL

\* finish returns true exactly when records were left out, and only after as
\* many as --limit allows.
THEOREM TruncationIsExact == SortSpec => []TruncationExact
BY Invariant, IInvTruncation, PTL
=============================================================================
