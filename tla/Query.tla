-------------------------------- MODULE Query --------------------------------
(***************************************************************************)
(* `tracy-query query`: run_query of query.cpp as main and the command     *)
(* line call it.  The traces are loaded, every record of the wanted kinds  *)
(* is visited trace by trace and kind by kind, and each one that matches   *)
(* is listed through the ExternalSorter, counted, or, with --at, kept when *)
(* it is active, the latest or the next record of its source.              *)
(*                                                                         *)
(* A trace is what Tracy's Worker holds of it: per kind, a sequence of     *)
(* groups (the collections the visit functions loop over: a plot's points, *)
(* a thread's samples, the samples of one counter at one address) of items *)
(* with raw times and the fields their visitor reads off them, as texts of *)
(* a small set.  A regular expression is the set of texts it matches.      *)
(* A source has a rank in the order of the sources' names, by which it is  *)
(* known here; a trace's sources say what each is called.                  *)
(***************************************************************************)
EXTENDS ExternalSort, SequencesExt

\* The value of --from, --to and --at when they are absent.
NoTime == -1

VARIABLES
  traces,   \* the traces of the command line
  options,  \* the parsed options
  loaded,   \* how many traces have been loaded
  visits,   \* what the loops of run_query find in the traces
  seen,     \* how many records have been visited
  latest, next,   \* the maps of point mode: a record per key
  records,  \* those point mode has selected; point_ids holds their identities
  count, groups,  \* streaming_count and streaming_groups, then records.size() and groups
  printed,  \* what point mode and count mode have written
  failure,  \* what was thrown
  exit      \* the status main returns, Running before

queryVars == <<traces, options, loaded, visits, seen, latest, next, records, count,
               groups, printed, failure, exit>>
vars == <<sortVars, queryVars>>

Running == -1
NoDepth == -1  \* of a record that is not a zone

-----------------------------------------------------------------------------
(* Kinds, options and the records of a trace. *)

KindSeq == <<"message", "plot", "cpu-zone", "gpu-zone", "frame", "frame-image", "lock",
             "memory", "sample", "ghost-zone", "context-switch", "cpu-slice", "cpu-usage",
             "hardware-sample", "crash">>

KindOrder(k) == CHOOSE i \in DOMAIN KindSeq : KindSeq[i] = k

\* Whether the records of a kind have an end.
Interval(k) ==
  k \in {"cpu-zone", "gpu-zone", "frame", "ghost-zone", "context-switch", "cpu-slice"}

SourceType(k) ==
  CASE k \in {"message", "cpu-zone", "sample", "ghost-zone", "context-switch"} -> "thread"
    [] k \in {"frame", "frame-image"} -> "frame-set"
    [] k \in {"cpu-usage", "crash"} -> "capture"
    [] k = "plot" -> "plot"
    [] k = "gpu-zone" -> "gpu-thread"
    [] k = "lock" -> "lock"
    [] k = "memory" -> "memory-pool"
    [] k = "cpu-slice" -> "cpu"
    [] k = "hardware-sample" -> "hardware-counter"

PointMode(o) == o.at # NoTime
Ranged(o) == o.from # NoTime \/ o.to # NoTime \/ o.fromStart \/ o.toEnd

\* The fields --filter may name, besides those every kind has.
FieldsOf ==
  LET sampled == {"thread", "symbol", "function", "file", "counter"}
      scheduled == {"thread", "process", "cpu", "reason", "state", "derived"}
  IN ("message" :> {"text", "thread", "color"}) @@
     ("plot" :> {"name", "plot_type", "format"}) @@
     ("cpu-zone" :> {"name", "text", "function", "file", "thread", "color"}) @@
     ("gpu-zone" :> {"name", "function", "file", "thread", "context", "note"}) @@
     [k \in {"frame", "frame-image"} |-> {"frame_set"}] @@
     ("lock" :> {"name", "operation", "thread", "function", "file"}) @@
     ("memory" :> {"pool", "operation", "thread", "symbol"}) @@
     [k \in {"sample", "ghost-zone", "hardware-sample"} |-> sampled] @@
     [k \in {"context-switch", "cpu-slice", "cpu-usage"} |-> scheduled] @@
     ("crash" :> {"message", "thread", "symbol"})

IsFilterField(k, field) == field \in {"trace", "source", "kind"} \cup FieldsOf[k]

ZoneStructure(o) ==
  o.rootZones \/ o.zoneDepth # <<>> \/ o.zoneParent # {} \/ o.zoneAncestor # {}

\* The combinations of options the command line accepts for a query.
ValidOptions(o) ==
  /\ o.kinds # <<>>
  /\ PointMode(o) <=> o.flags # {}
  /\ PointMode(o) => ~Ranged(o)
  /\ o.from # NoTime /\ o.to # NoTime => o.from <= o.to
  /\ "active" \in o.flags => \A k \in Range(o.kinds) : Interval(k)
  /\ ZoneStructure(o) => Range(o.kinds) \subseteq {"cpu-zone", "gpu-zone", "ghost-zone"}
  /\ o.zoneParent # {} \/ o.zoneAncestor # {} => "ghost-zone" \notin Range(o.kinds)
  /\ \A f \in Range(o.filters) :
       IF f.kind = "any" THEN \A k \in Range(o.kinds) : IsFilterField(k, f.field)
                         ELSE IsFilterField(f.kind, f.field)

\* The constructor of Matcher, which checks the options again: it compiles the
\* patterns and refuses what the matching cannot do.
MatcherAccepts(o) ==
  /\ \A p \in o.sourceRegexes \cup o.threads \cup o.gpuContexts \cup o.plots
              \cup o.frameSets \cup o.locks \cup o.memoryPools \cup o.zoneParent
              \cup o.zoneAncestor \cup o.stackFrame : p.valid
  /\ \A f \in Range(o.filters) :
       /\ f.pattern.valid
       /\ IF f.kind = "any" THEN \A k \in Range(o.kinds) : IsFilterField(k, f.field)
                            ELSE IsFilterField(f.kind, f.field)
  /\ ZoneStructure(o) =>
       /\ Range(o.kinds) \subseteq {"cpu-zone", "gpu-zone", "ghost-zone"}
       /\ o.zoneParent # {} \/ o.zoneAncestor # {} => "ghost-zone" \notin Range(o.kinds)
  /\ "active" \in o.flags => \A k \in Range(o.kinds) : Interval(k)

Normalize(trace, time) == time - trace.first

\* A label's place on the command line; traces with one label share it, and in
\* a record it stands for the label.
TraceOrder(label) ==
  CHOOSE i \in DOMAIN traces :
    traces[i].label = label /\ \A j \in 1 .. i - 1 : traces[j].label # label

\* The members of a sequence that pass a test, in their order.
Those(seq, Test(_)) ==
  FlattenSeq([p \in DOMAIN seq |-> IF Test(seq[p]) THEN <<seq[p]>> ELSE <<>>])

\* Messages and zones are numbered through the whole trace (a zone before its
\* children),
PerTrace(collections) ==
  LET items == FlattenSeq(collections)
  IN [p \in DOMAIN items |-> [item |-> items[p], number |-> p - 1]]

\* samples through both collections of their thread,
PerSource(collections) ==
  LET items == FlattenSeq(collections)
  IN [p \in DOMAIN items |->
        [item |-> items[p],
         number |-> Cardinality({q \in 1 .. p - 1 : items[q].source = items[p].source})]]

\* and the items of all other kinds from zero in each collection: also hardware
\* samples, of which a source has a collection per address;
PerCollection(collections) ==
  FlattenSeq([g \in DOMAIN collections |->
    [i \in DOMAIN collections[g] |-> [item |-> collections[g][i], number |-> i - 1]]])

\* a frame image has the number of its frame.
Images(frames) == Those(PerCollection(frames), LAMBDA n : n.item.image)

\* What the Worker holds of a kind.
Held(trace, k) == IF k \in DOMAIN trace.data THEN trace.data[k] ELSE <<>>

\* What the Worker guarantees of a trace: its sources are numbered and of the
\* types their records have, no record ends before it begins or after the trace,
\* and, but for the kinds that are numbered otherwise and hardware samples, a
\* source has one collection.
Shared == {"message", "cpu-zone", "gpu-zone", "sample", "hardware-sample"}
WorkerItem(trace, k, item) ==
  /\ item.time \in Int /\ item.time <= trace.last
  /\ item.source \in Nat \cap DOMAIN trace.sources
  /\ trace.sources[item.source].type = SourceType(k)
  /\ {item.image, item.open} \subseteq BOOLEAN
  /\ Interval(k) /\ ~item.open => item.end \in item.time .. trace.last

\* A collection is in the order of time, from source to source: what comes later
\* begins and ends no earlier.  That is not so of memory, and of zones only among
\* those without a parent, within which the others of a thread lie.
Follows(k, x, y) ==
  /\ x.time <= y.time
  /\ Interval(k) /\ ~x.open /\ ~y.open => x.end <= y.end
Within(x, y) ==
  /\ y.depth = 0 /\ x.source = y.source
  /\ y.time <= x.time
  /\ ~x.open /\ ~y.open => x.end <= y.end
InOrder(k, part) ==
  /\ k \notin {"gpu-zone", "ghost-zone", "memory"} =>
       \A j \in DOMAIN part : \A i \in 1 .. j - 1 :
         /\ part[i].source = part[j].source
         /\ k = "cpu-zone" => part[i].depth = 0 /\ part[j].depth = 0
         => Follows(k, part[i], part[j])
  /\ k = "cpu-zone" => \A x \in Range(part) : \E y \in Range(part) : Within(x, y)

WorkerTrace(trace) ==
  /\ {"label", "first", "last", "data", "sources"} \subseteq DOMAIN trace
  /\ trace.first \in Int /\ trace.last \in Int
  /\ IsFiniteSet(DOMAIN trace.sources)
  /\ DOMAIN trace.sources = 0 .. Cardinality(DOMAIN trace.sources) - 1
  /\ \A k \in DOMAIN trace.data :
       LET held == trace.data[k]
       IN /\ held \in Seq(Seq(UNION {Range(part) : part \in Range(held)}))
          /\ \A part \in Range(held) : InOrder(k, part)
          /\ \A g \in DOMAIN held : \A i \in DOMAIN held[g] :
               /\ WorkerItem(trace, k, held[g][i])
               /\ k \notin Shared =>
                    \A h \in DOMAIN held : \A j \in DOMAIN held[h] :
                      held[g][i].source = held[h][j].source => g = h

\* The record made of an item.  file, which the code does not keep, is the trace
\* it comes from, and last the end of that trace, looked up by the visitor.
RecordOf(file, k, n) ==
  LET trace == traces[file]
  IN [time |-> Normalize(trace, n.item.time),
      end |-> Normalize(trace, IF Interval(k) /\ ~n.item.open THEN n.item.end ELSE n.item.time),
      file |-> file,
      trace |-> TraceOrder(trace.label),
      kind |-> k,
      source |-> n.item.source,
      seq |-> n.number,
      fields |-> n.item.fields,
      depth |-> n.item.depth,
      ancestors |-> n.item.ancestors,
      last |-> Normalize(trace, trace.last)]

\* visit_kind: the records of one kind, in the order they are visited.
VisitKind(file, k) ==
  LET items == CASE k \in {"message", "cpu-zone", "gpu-zone"} -> PerTrace(Held(traces[file], k))
                 [] k = "sample" -> PerSource(Held(traces[file], k))
                 [] k = "frame-image" -> Images(Held(traces[file], "frame"))
                 [] OTHER -> PerCollection(Held(traces[file], k))
  IN [p \in DOMAIN items |-> RecordOf(file, k, items[p])]

\* Every record of the run, in the order of the loops of run_query.
AllRecords ==
  FlattenSeq([t \in DOMAIN traces |->
    FlattenSeq([k \in DOMAIN options.kinds |-> VisitKind(t, options.kinds[k])])])

SourceId(r) == traces[r.file].sources[r.source].id

\* field_string: what a record does not have of a place in the code is in its
\* callstack, and any other field it does not have is the empty text.
FieldOf(r, field) ==
  CASE field = "trace" -> traces[r.file].label
    [] field = "source" -> SourceId(r)
    [] field = "kind" -> r.kind
    [] field \in DOMAIN r.fields -> r.fields[field]
    [] field \in {"symbol", "function", "file"} \ DOMAIN r.fields /\ "callstack" \in DOMAIN r.fields ->
         r.fields["callstack"]
    [] OTHER -> ""

\* matches_any and matches_either, when the fields are one and two.
MatchesAny(r, fields, patterns) ==
  patterns = {} \/ \E f \in fields, p \in patterns : FieldOf(r, f) \in p.accepts

\* A scope that only the records of a kind are in.
InScope(r, k, fields, patterns) ==
  patterns # {} => r.kind = k /\ MatchesAny(r, fields, patterns)

\* The selectors of sources and scopes.
InScopes(r) ==
  /\ options.sources = {} \/ SourceId(r) \in options.sources
  /\ MatchesAny(r, {"source"}, options.sourceRegexes)
  /\ options.types = {} \/ SourceType(r.kind) \in options.types
  /\ MatchesAny(r, {"thread", "thread_name"}, options.threads)
  /\ MatchesAny(r, {"context", "context_name"}, options.gpuContexts)
  /\ InScope(r, "plot", {"name"}, options.plots)
  /\ MatchesAny(r, {"frame_set"}, options.frameSets)
  /\ InScope(r, "lock", {"source", "name"}, options.locks)
  /\ InScope(r, "memory", {"source", "pool"}, options.memoryPools)
  /\ options.cpus = {} \/ FieldOf(r, "cpu") \in options.cpus

\* The options on the nesting of zones.  Only zones have a depth.
InStructure(r) ==
  /\ options.rootZones => r.depth \in {NoDepth, 0}
  /\ options.zoneDepth # <<>> => r.depth \in options.zoneDepth[1] .. options.zoneDepth[2]
  /\ MatchesAny(r, {"parent_name"}, options.zoneParent)
  /\ options.zoneAncestor # {} =>
       \E name \in r.ancestors, p \in options.zoneAncestor : name \in p.accepts

\* Matcher::matches.  Each filter may be for one kind only.
Matches(r) ==
  /\ InScopes(r)
  /\ InStructure(r)
  /\ MatchesAny(r, {"callstack"}, options.stackFrame)
  /\ \A f \in Range(options.filters) :
       f.kind \in {r.kind, "any"} => FieldOf(r, f.field) \in f.pattern.accepts

\* A bug: the records of the last instant are left out.
InRange_Exclusive(r) ==
  LET from == IF options.from = NoTime THEN 0 ELSE options.from
      to == IF options.to = NoTime THEN r.last ELSE options.to
  IN Ranged(options) =>
       CASE options.match = "overlap"   -> r.time < to /\ r.end >= from
         [] options.match = "start"     -> r.time >= from /\ r.time < to
         [] options.match = "contained" -> r.time >= from /\ r.end < to

\* temporal_range_match
InRange(r) ==
  LET from == IF options.from = NoTime THEN 0 ELSE options.from
      to == IF options.to = NoTime THEN r.last ELSE options.to
  IN Ranged(options) =>
       CASE options.match = "overlap"   -> r.time <= to /\ r.end >= from
         [] options.match = "start"     -> r.time >= from /\ r.time <= to
         [] options.match = "contained" -> r.time >= from /\ r.end <= to

\* What record_less compares of a record.
KeyOf(r) == [time |-> r.time, trace |-> r.trace, kind |-> KindOrder(r.kind),
             source |-> r.source, seq |-> r.seq]

\* identity, and the key of the maps of point mode.
Identity(r) == <<r.trace, r.source, r.kind, r.seq>>
PointKey(r) == <<r.trace, r.source, r.kind>>

\* The group a record is counted in: its values of the --group-by fields.
GroupOf(r) ==
  [g \in DOMAIN options.groupBy |->
     CASE options.groupBy[g] = "trace" -> r.trace
       [] options.groupBy[g] = "source" -> r.source
       [] options.groupBy[g] = "kind" -> KindOrder(r.kind)]

-----------------------------------------------------------------------------
(* Loading and visiting. *)

\* What main and run_query start with.
Fresh ==
  /\ limit = options.limit
  /\ SortInit
  /\ loaded = 0 /\ visits = <<>> /\ seen = 0
  /\ latest = <<>> /\ next = <<>> /\ records = <<>>
  /\ count = 0 /\ groups = <<>>
  /\ printed = <<>>
  /\ failure = "none" /\ exit = Running

\* The Trace constructor, for the next trace.  With the last one, what there is
\* to visit is known.
Load ==
  /\ exit = Running
  /\ loaded < Len(traces)
  /\ loaded' = loaded + 1
  /\ visits' = IF loaded' = Len(traces) /\ options.command = "query" THEN AllRecords ELSE visits
  /\ UNCHANGED <<sortVars, traces, options, seen, latest, next, records, count,
                 groups, printed, failure, exit>>

\* The catch clauses of main: an OutputError ends in success.
ExitStatus(thrown) == IF thrown \in {"output", "sort run"} THEN 0 ELSE 1

Throw(thrown) == failure' = thrown /\ exit' = ExitStatus(thrown)

\* A trace cannot be loaded.
LoadFails ==
  /\ exit = Running
  /\ loaded < Len(traces)
  /\ Throw("load")
  /\ UNCHANGED <<sortVars, traces, options, loaded, visits, seen, latest, next, records,
                 count, groups, printed>>

\* run_query is called, and its Matcher takes the options: that it never throws
\* them out is AcceptedIsValid of Program.
Querying ==
  /\ exit = Running /\ loaded = Len(traces)
  /\ options.command = "query" /\ MatcherAccepts(options)

Visiting == Querying /\ seen < Len(visits)
Visited == Querying /\ seen = Len(visits)

Wanted(r) == Matches(r) /\ (~PointMode(options) => InRange(r))

Skip ==
  /\ Visiting
  /\ ~Wanted(visits[seen + 1])
  /\ seen' = seen + 1
  /\ UNCHANGED <<sortVars, traces, options, loaded, visits, latest, next, records, count,
                 groups, printed, failure, exit>>

Identities(rs) == {Identity(rs[i]) : i \in DOMAIN rs}

\* A map with the value v at the key k.
With(map, k, v) == [j \in DOMAIN map \cup {k} |-> IF j = k THEN v ELSE map[j]]

\* A bug: the time the latest record has is not looked at again.
IsLater_First(r) ==
  r.time <= options.at /\ PointKey(r) \notin DOMAIN latest

\* Whether r becomes the latest, or the next, record of its key: the first
\* visited one of a time stays.
IsLater(r) ==
  /\ r.time <= options.at
  /\ PointKey(r) \in DOMAIN latest => latest[PointKey(r)].time < r.time
IsSooner(r) ==
  /\ r.time >= options.at
  /\ PointKey(r) \in DOMAIN next => next[PointKey(r)].time > r.time

IsActive(r) == Interval(r.kind) /\ r.time <= options.at /\ r.end >= options.at

\* The visitor, in point mode.
Select ==
  /\ Visiting
  /\ PointMode(options)
  /\ LET r == visits[seen + 1]
     IN /\ Wanted(r)
        /\ records' = IF /\ "active" \in options.flags /\ IsActive(r)
                         /\ Identity(r) \notin Identities(records)
                      THEN Append(records, r) ELSE records
        /\ latest' = IF "latest" \in options.flags /\ IsLater(r)
                     THEN With(latest, PointKey(r), r) ELSE latest
        /\ next' = IF "next" \in options.flags /\ IsSooner(r)
                   THEN With(next, PointKey(r), r) ELSE next
  /\ seen' = seen + 1
  /\ UNCHANGED <<sortVars, traces, options, loaded, visits, count, groups, printed,
                 failure, exit>>

\* A bug: a group that exists already is not counted up.
Tally_Once(tally, r) == With(tally, GroupOf(r), 1)

\* A record enters the tally of its group.
Tally(tally, r) ==
  LET g == GroupOf(r)
  IN With(tally, g, (IF g \in DOMAIN tally THEN tally[g] ELSE 0) + 1)

\* The tally after each of some records.
Tallied(tally, rs) ==
  LET upTo[n \in 0 .. Len(rs)] == IF n = 0 THEN tally ELSE Tally(upTo[n - 1], rs[n])
  IN upTo[Len(rs)]

\* count_record
CountRecord ==
  /\ Visiting
  /\ ~PointMode(options) /\ options.count
  /\ LET r == visits[seen + 1]
     IN /\ Wanted(r)
        /\ groups' = IF options.groupBy = <<>> THEN groups ELSE Tally(groups, r)
  /\ count' = count + 1
  /\ seen' = seen + 1
  /\ UNCHANGED <<sortVars, traces, options, loaded, visits, latest, next, records, printed,
                 failure, exit>>

Listing(o) == ~PointMode(o) /\ ~o.count

\* The visitor hands a record to the sorter, which may fail to write a run.
List ==
  /\ Visiting
  /\ Listing(options)
  /\ Wanted(visits[seen + 1])
  /\ \/ Add(KeyOf(visits[seen + 1])) /\ UNCHANGED <<failure, exit>>
     \/ AddFails /\ Throw("sort run")
  /\ seen' = seen + 1
  /\ UNCHANGED <<traces, options, loaded, visits, latest, next, records, count, groups, printed>>

-----------------------------------------------------------------------------
(* The answer. *)

\* sorter.finish, turn by turn.
FinishListing ==
  /\ Visited
  /\ Listing(options)
  /\ \/ (Finish \/ Emit) /\ UNCHANGED <<failure, exit>>
     \/ Stop /\ exit' = 0 /\ UNCHANGED failure
     \/ FinishFails /\ \E thrown \in {"output", "sort run"} : Throw(thrown)
  /\ UNCHANGED <<traces, options, loaded, visits, seen, latest, next, records, count, groups,
                 printed>>

\* emit_object of the counts; they are already there.
FinishCount ==
  /\ Visited
  /\ ~PointMode(options) /\ options.count
  /\ \/ exit' = 0 /\ UNCHANGED failure
     \/ Throw("output")
  /\ UNCHANGED <<sortVars, traces, options, loaded, visits, seen, latest, next, records,
                 count, groups, printed>>

\* The records of a map of point mode join the selected ones, unless one with
\* their identity is there.
Joined(rs, map) ==
  rs \o SetToSeq({r \in {map[k] : k \in DOMAIN map} : Identity(r) \notin Identities(rs)})

Before(l, r) == RecordLess(KeyOf(l), KeyOf(r))

\* The outcomes of std::sort on the selected records.
PointOrders(rs) ==
  {[i \in DOMAIN rs |-> rs[order[i]]] :
     order \in SortedOrders([i \in DOMAIN rs |-> KeyOf(rs[i])], DOMAIN rs)}

\* The end of run_query in point mode.
FinishPoint ==
  /\ Visited
  /\ PointMode(options)
  /\ \E all \in PointOrders(Joined(Joined(records, latest), next)) :
       LET shown == IF limit # NoLimit /\ limit < Len(all) THEN limit ELSE Len(all)
       IN
        /\ records' = all
        /\ IF options.count
           THEN /\ count' = Len(all)
                /\ groups' = IF options.groupBy = <<>> THEN groups
                             ELSE Tallied(groups, all)
                /\ UNCHANGED <<printed, truncated>>
           ELSE /\ printed' = SubSeq(all, 1, shown)
                /\ truncated' = (shown < Len(all))
                /\ UNCHANGED <<count, groups>>
  /\ \/ exit' = 0 /\ UNCHANGED failure
     \/ Throw("output")
  /\ UNCHANGED <<limit, added, chunk, runs, read, heap, out, stage, traces, options,
                 loaded, visits, seen, latest, next>>

\* The process is gone.
Done == exit # Running /\ UNCHANGED vars

Next ==
  \/ Load \/ LoadFails
  \/ Skip \/ Select \/ CountRecord \/ List
  \/ FinishListing \/ FinishCount \/ FinishPoint
  \/ Done

-----------------------------------------------------------------------------
(* Properties. *)

\* What record_less compares of a visited record is of the types it is given.
VisitsTyped ==
  Len(visits) \in Nat /\ \A p \in 1 .. Len(visits) : KeyOf(visits[p]) \in Keys

TypeOK ==
  /\ SortTypeOK
  /\ VisitsTyped
  /\ loaded \in 0 .. Len(traces)
  /\ seen \in Nat
  /\ \A k \in DOMAIN latest : PointKey(latest[k]) = k
  /\ \A k \in DOMAIN next : PointKey(next[k]) = k
  /\ count \in Nat
  /\ \A g \in DOMAIN groups : groups[g] \in Nat \ {0}
  /\ failure \in {"none", "load", "output", "sort run"}
  /\ exit \in {Running, 0, 1}

Succeeded == exit = 0 /\ failure = "none" /\ options.command = "query"

\* What --from and --to ask for, by the instants a record lasts: one of them in
\* the window, the first one, or all of them.
Asked(r) ==
  LET window == (IF options.from = NoTime THEN 0 ELSE options.from) ..
                (IF options.to = NoTime THEN r.last ELSE options.to)
      instants == r.time .. r.end
  IN /\ Matches(r)
     /\ Ranged(options) =>
          \/ options.match = "overlap" /\ instants \cap window # {}
          \/ options.match = "start" /\ r.time \in window
          \/ options.match = "contained" /\ instants \subseteq window

Occurrences(seq, Test(_)) == Cardinality({i \in DOMAIN seq : Test(seq[i])})

\* A listing holds every record asked for as often as the traces do, however
\* the records were cut into chunks; cut short by --limit, it holds none more
\* often than that and is as long as --limit says (run_query with finish).
ListingAnswer ==
  Succeeded /\ Listing(options) =>
    /\ \A k \in {added[i] : i \in Numbers} \cup {KeyOf(r) : r \in Range(visits)} :
         LET there == Occurrences(visits, LAMBDA r : Asked(r) /\ KeyOf(r) = k)
             listed == Cardinality({p \in DOMAIN out : added[out[p]] = k})
         IN IF truncated THEN listed <= there ELSE listed = there
    /\ truncated => Len(out) = limit /\ limit < Occurrences(visits, Asked)

\* --count gives the number of records the same query without --limit lists,
\* and --group-by divides that number: the groups are those the records have,
\* each with as many as it has (count_record and the end of run_query).
CountAnswer ==
  Succeeded /\ options.count =>
    LET all == IF PointMode(options) THEN records ELSE visits
        Listed(r) == ~PointMode(options) => Asked(r)
    IN /\ count = Occurrences(all, Listed)
       /\ options.groupBy # <<>> =>
            /\ DOMAIN groups = {GroupOf(all[i]) : i \in {j \in DOMAIN all : Listed(all[j])}}
            /\ \A g \in DOMAIN groups :
                 groups[g] = Occurrences(all, LAMBDA r : Listed(r) /\ GroupOf(r) = g)

\* What is one source to the reader of the traces: per trace, source and kind.
SameSource(r, s) == r.file = s.file /\ r.source = s.source /\ r.kind = s.kind

DistinctLabels == \A i, j \in DOMAIN traces : traces[i].label = traces[j].label => i = j

Matching == {r \in Range(visits) : Matches(r)}
NewestBefore(r) ==
  /\ r \in Matching /\ r.time <= options.at
  /\ \A s \in Matching : SameSource(r, s) /\ s.time <= options.at => s.time <= r.time
EarliestAfter(r) ==
  /\ r \in Matching /\ r.time >= options.at
  /\ \A s \in Matching : SameSource(r, s) /\ s.time >= options.at => s.time >= r.time

PointAnswered == Succeeded /\ PointMode(options) /\ DistinctLabels

\* A record selected in several ways is printed once, and the answer is in the
\* order of a listing, of which --limit keeps the front and the notice of
\* truncation speaks.
PointPrinted ==
  Succeeded /\ PointMode(options) /\ ~options.count =>
    /\ \A i, j \in DOMAIN printed : i < j => Before(printed[i], printed[j])
    /\ \A i \in DOMAIN printed, r \in Range(records) \ Range(printed) : Before(printed[i], r)
    /\ truncated <=> Len(printed) < Len(records)
    /\ truncated => Len(printed) = limit

\* Point mode selects the records asked for and no others: every matching
\* interval that spans the point, and of each source that has one, a newest
\* record at or before it; each selected record is one of those, or an earliest
\* one after it.  They are printed as PointPrinted says.
PointAnswer ==
  /\ PointPrinted
  /\ PointAnswered =>
    /\ \A i \in DOMAIN records :
         \/ "active" \in options.flags /\ records[i] \in Matching /\ IsActive(records[i])
         \/ "latest" \in options.flags /\ NewestBefore(records[i])
         \/ "next" \in options.flags /\ EarliestAfter(records[i])
    /\ \A r \in Matching :
         /\ "active" \in options.flags /\ IsActive(r) => r \in Range(records)
         /\ "latest" \in options.flags /\ r.time <= options.at =>
              \E s \in Range(records) : SameSource(r, s) /\ NewestBefore(s)
         /\ "next" \in options.flags /\ r.time >= options.at /\ r.kind # "hardware-sample" =>
              \E s \in Range(records) : SameSource(r, s) /\ EarliestAfter(s)

\* "--next: earliest matching record at or after the point, per
\* trace/source/kind" (SKILL.md), for the records of every kind.
NextPerSource ==
  PointAnswered /\ "next" \in options.flags =>
    \A r \in Matching : r.time >= options.at =>
      \E s \in Range(records) : SameSource(r, s) /\ EarliestAfter(s)

\* "1: capture loading, reading, output, or execution failure" (cli.md): a
\* query whose temporary files fail does not end in success.
SortFailureReported == exit = 0 => failure # "sort run"
=============================================================================
