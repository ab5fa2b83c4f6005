----------------------------- MODULE ExternalSort -----------------------------
(***************************************************************************)
(* ExternalSorter of query.cpp: the records of a listing are collected in  *)
(* chunks, every full chunk is sorted and written to a temporary file (a   *)
(* run), and finish merges the runs through a heap that holds the next     *)
(* record of every run, up to --limit.  Only the part of a record that     *)
(* record_less compares is kept; the two orders the class uses, that of    *)
(* the chunks and that of the heap, are written down separately, as in the *)
(* code, and must agree for the merge to be one.                           *)
(*                                                                         *)
(* A record is referred to by its number, the position at which it was     *)
(* added.  Neither std::sort nor std::priority_queue is stable: records    *)
(* that compare equal come out in any order.                               *)
(***************************************************************************)
EXTENDS Integers, Sequences, FiniteSets

CONSTANTS
  ChunkLimit,  \* records of a chunk that is written out, 8192 in the code
  Limits       \* the values of --limit, NoLimit among them when it is absent

ASSUME ChunkAssumption == ChunkLimit \in Nat \ {0}

NoLimit == -1
ASSUME LimitAssumption == Limits \subseteq Nat \cup {NoLimit}

VARIABLES
  limit,      \* options.limit
  added,      \* the records given to add, in that order
  chunk,      \* chunk_: the numbers of those not written out yet
  runs,       \* runs_: the records of each temporary file
  read,       \* how many records have been read back from each run
  heap,       \* heap of finish: a node is a record and the run it was read from
  out,        \* the records written to the output
  stage,      \* how far the sorter is
  truncated   \* what finish returned

sortVars == <<limit, added, chunk, runs, read, heap, out, stage, truncated>>

\* A record's trace, kind and source stand for their ranks: the trace's place
\* on the command line, the enumerator of the kind, the source name's order.
Keys == [time : Int, trace : Nat, kind : Nat, source : Nat, seq : Nat]

\* record_less: the order of a chunk.
RecordLess(l, r) ==
  \/ l.time < r.time
  \/ l.time = r.time /\ l.trace < r.trace
  \/ l.time = r.time /\ l.trace = r.trace /\ l.kind < r.kind
  \/ l.time = r.time /\ l.trace = r.trace /\ l.kind = r.kind /\ l.source < r.source
  \/ /\ l.time = r.time /\ l.trace = r.trace /\ l.kind = r.kind
     /\ l.source = r.source /\ l.seq < r.seq

\* A bug: the heap does not compare the kinds.
Later_NoKind(l, r) ==
  \/ l.time > r.time
  \/ l.time = r.time /\ l.trace > r.trace
  \/ l.time = r.time /\ l.trace = r.trace /\ l.source > r.source
  \/ l.time = r.time /\ l.trace = r.trace /\ l.source = r.source /\ l.seq > r.seq

\* later of finish: the order of the heap, whose top is a record no other
\* record of the heap precedes.
Later(l, r) ==
  \/ l.time > r.time
  \/ l.time = r.time /\ l.trace > r.trace
  \/ l.time = r.time /\ l.trace = r.trace /\ l.kind > r.kind
  \/ l.time = r.time /\ l.trace = r.trace /\ l.kind = r.kind /\ l.source > r.source
  \/ /\ l.time = r.time /\ l.trace = r.trace /\ l.kind = r.kind
     /\ l.source = r.source /\ l.seq > r.seq

SortInit ==
  /\ limit \in Limits
  /\ added = <<>>
  /\ chunk = {}
  /\ runs = <<>>
  /\ read = <<>>
  /\ heap = {}
  /\ out = <<>>
  /\ stage = "adding"
  /\ truncated = FALSE

\* The outcomes of std::sort on the records numbered in c.
SortedOrders(records, c) ==
  {run \in [1 .. Cardinality(c) -> c] :
     /\ \A i \in c : \E p \in DOMAIN run : run[p] = i
     /\ \A p, q \in DOMAIN run :
          p < q => run[p] # run[q] /\ ~RecordLess(records[run[q]], records[run[p]])}

\* flush_chunk, when c is the chunk.
FlushChunk(records, c) ==
  \E run \in SortedOrders(records, c) : runs' = Append(runs, run) /\ chunk' = {}

\* add: a chunk that reaches the limit is flushed.
Add(r) ==
  /\ stage = "adding"
  /\ added' = Append(added, r)
  /\ LET c == chunk \cup {Len(added')}
     IN IF Cardinality(c) >= ChunkLimit
        THEN FlushChunk(added', c)
        ELSE chunk' = c /\ UNCHANGED runs
  /\ UNCHANGED <<limit, read, heap, out, stage, truncated>>

\* The temporary file of a full chunk cannot be created or written.
AddFails ==
  /\ stage = "adding"
  /\ Cardinality(chunk) + 1 >= ChunkLimit
  /\ stage' = "failed"
  /\ UNCHANGED <<limit, added, chunk, runs, read, heap, out, truncated>>

\* A bug: reading starts before the first record although it is in the heap.
Finish_Rewound ==
  /\ stage = "adding"
  /\ IF chunk = {} THEN UNCHANGED <<runs, chunk>> ELSE FlushChunk(added, chunk)
  /\ read' = [r \in DOMAIN runs' |-> 0]
  /\ heap' = {[run |-> r, record |-> runs'[r][1]] : r \in DOMAIN runs'}
  /\ stage' = "merging"
  /\ UNCHANGED <<limit, added, out, truncated>>

\* The start of finish: the last chunk is flushed and the first record of
\* every run is read into the heap.
Finish ==
  /\ stage = "adding"
  /\ IF chunk = {} THEN UNCHANGED <<runs, chunk>> ELSE FlushChunk(added, chunk)
  /\ read' = [r \in DOMAIN runs' |-> 1]
  /\ heap' = {[run |-> r, record |-> runs'[r][1]] : r \in DOMAIN runs'}
  /\ stage' = "merging"
  /\ UNCHANGED <<limit, added, out, truncated>>

\* The condition of the loop of finish.
MayEmit == heap # {} /\ (limit = NoLimit \/ Len(out) < limit)

\* n leaves the heap and the record after it in its run, if any, enters it.
ReadNext(n) ==
  IF read[n.run] < Len(runs[n.run])
  THEN /\ heap' = (heap \ {n}) \cup
                    {[run |-> n.run, record |-> runs[n.run][read[n.run] + 1]]}
       /\ read' = [read EXCEPT ![n.run] = @ + 1]
  ELSE /\ heap' = heap \ {n}
       /\ UNCHANGED read

\* One turn of the loop of finish.
Emit ==
  /\ stage = "merging"
  /\ MayEmit
  /\ \E n \in heap :
       /\ \A m \in heap : ~Later(added[n.record], added[m.record])
       /\ out' = Append(out, n.record)
       /\ ReadNext(n)
  /\ UNCHANGED <<limit, added, chunk, runs, stage, truncated>>

\* The end of finish.
Stop ==
  /\ stage = "merging"
  /\ ~MayEmit
  /\ stage' = "done"
  /\ truncated' = (Len(out) < Len(added))
  /\ UNCHANGED <<limit, added, chunk, runs, read, heap, out>>

\* finish throws: a run cannot be written or read back, or the output is gone.
\* A record may have been written just before.
FinishFails ==
  /\ \/ stage = "adding" /\ added # <<>>
     \/ stage = "merging"
  /\ stage' = "failed"
  /\ UNCHANGED <<limit, added, chunk, runs, read, heap, out, truncated>>

SortNext ==
  \/ \E r \in Keys : Add(r)
  \/ AddFails \/ Finish \/ Emit \/ Stop \/ FinishFails

SortSpec == SortInit /\ [][SortNext]_sortVars

-----------------------------------------------------------------------------
(* Properties of the sorter. *)

Numbers == 1 .. Len(added)
Emitted == {out[p] : p \in DOMAIN out}

SortTypeOK ==
  /\ limit \in Nat \cup {NoLimit}
  /\ added \in Seq(Keys)
  /\ chunk \subseteq Numbers
  /\ runs \in Seq(Seq(Numbers))
  /\ DOMAIN read \in {{}, DOMAIN runs}
  /\ \A r \in DOMAIN read : read[r] \in 1 .. Len(runs[r])
  /\ heap \subseteq [run : DOMAIN read, record : Numbers]
  /\ out \in Seq(Numbers)
  /\ stage \in {"adding", "merging", "done", "failed"}
  /\ truncated \in BOOLEAN

\* No record is lost between the chunks, the files and the heap, and none is
\* written twice: a record is in the chunk or at one place of one file, and the
\* output holds no record twice.
InRun(i) == \E r \in DOMAIN runs : \E p \in DOMAIN runs[r] : runs[r][p] = i
Stored == \A i \in Numbers : i \in chunk \/ InRun(i)
StoredOnce ==
  \A r, s \in DOMAIN runs : \A p \in DOMAIN runs[r], q \in DOMAIN runs[s] :
    /\ runs[r][p] \notin chunk
    /\ runs[r][p] = runs[s][q] => r = s /\ p = q
WrittenOnce == \A p, q \in DOMAIN out : out[p] = out[q] => p = q
EveryRecordOnce == Stored /\ StoredOnce /\ WrittenOnce

\* The output is in the order of record_less, whatever files its records came
\* through, and it is the front of that order: no record still in a file
\* precedes one that was written, so that --limit keeps the first records.
MergedInOrder ==
  \A p, q \in DOMAIN out : p < q => ~RecordLess(added[out[q]], added[out[p]])
NothingSmallerLeft ==
  stage \in {"merging", "done"} =>
    \A i \in Emitted, j \in Numbers \ Emitted : ~RecordLess(added[j], added[i])
FrontOfOrder == MergedInOrder /\ NothingSmallerLeft

\* The notice of truncation is given exactly when a record was left out, and
\* then as many records as --limit asks for were written.
TruncationExact ==
  stage = "done" =>
    /\ truncated <=> Numbers \ Emitted # {}
    /\ truncated => limit # NoLimit /\ Len(out) = limit
=============================================================================
