------------------------------- MODULE Sources -------------------------------
(***************************************************************************)
(* `tracy-query sources`: discover_sources and source_selected of          *)
(* commands.cpp.  It walks the collections of the Worker on its own, where *)
(* a query visits them record by record: it counts what is in them and     *)
(* takes a source's first and last time, for most kinds, from the front    *)
(* and the back of a collection.                                           *)
(***************************************************************************)
EXTENDS Query

TypeSeq == <<"thread", "gpu-thread", "plot", "frame-set", "lock", "memory-pool", "cpu",
             "hardware-counter", "capture">>

\* The kinds a source of a type may have, in the order they are looked at.
KindsOfType(type) ==
  CASE type = "thread" -> <<"cpu-zone", "message", "sample", "ghost-zone", "context-switch">>
    [] type = "gpu-thread" -> <<"gpu-zone">>
    [] type = "plot" -> <<"plot">>
    [] type = "frame-set" -> <<"frame", "frame-image">>
    [] type = "lock" -> <<"lock">>
    [] type = "memory-pool" -> <<"memory">>
    [] type = "cpu" -> <<"cpu-slice">>
    [] type = "hardware-counter" -> <<"hardware-sample">>
    [] type = "capture" -> <<"crash">>

\* Sources of these kinds are listed when they are empty, too.
ListedEmpty == {"gpu-zone", "plot", "frame", "lock", "memory"}

\* The parts of the collections of a kind that are a source's.
PartsOf(trace, rank, k) ==
  LET held == Held(trace, IF k = "frame-image" THEN "frame" ELSE k)
      IsOf(item) == item.source = rank /\ (k = "frame-image" => item.image)
  IN [g \in DOMAIN held |-> Those(held[g], IsOf)]

EndOf(item, k) == IF Interval(k) THEN item.end ELSE item.time

\* A bug: the last allocation or free of a pool is the last one recorded.
Times_MemoryEnds(part, k) ==
  IF part = <<>> THEN {} ELSE {Head(part).time, EndOf(Last(part), k)}

\* The times that count for a source's first and last.
Times(part, k) ==
  LET roots == Those(part, LAMBDA item : item.depth = 0)
  IN IF k = "frame-image" \/ part = <<>> THEN {}
     ELSE CASE k = "cpu-zone" -> {Head(roots).time, Last(roots).end}
            [] k \in {"gpu-zone", "ghost-zone", "memory"} ->
                 {item.time : item \in Range(part)} \cup {EndOf(item, k) : item \in Range(part)}
            [] OTHER -> {Head(part).time, EndOf(Last(part), k)}

\* A Source, with its counts by kind; those of a memory pool's allocations and
\* frees are taken together.
SourceAt(file, rank) ==
  LET trace == traces[file]
      source == trace.sources[rank]
      parts(k) == PartsOf(trace, rank, k)
      kinds == Those(KindsOfType(source.type),
                     LAMBDA k : k \in ListedEmpty \/ FlattenSeq(parts(k)) # <<>>)
      times == UNION {UNION {Times(part, k) : part \in Range(parts(k))} : k \in Range(kinds)}
  IN [file |-> file, rank |-> rank, id |-> source.id, type |-> source.type,
      name |-> source.name, kinds |-> kinds,
      counts |-> [k \in Range(kinds) |-> Len(FlattenSeq(parts(k)))],
      extent |-> IF times = {} THEN <<>>
                 ELSE <<Normalize(trace, Min(times)), Normalize(trace, Max(times))>>]

\* discover_sources: of threads, those the trace has data of, and what has
\* a kind.  The order among the sources of a type is the Worker's.
DiscoverSources(file) ==
  LET known == traces[file].sources
      all == [n \in 1 .. Cardinality(DOMAIN known) |-> SourceAt(file, n - 1)]
      Found(source) == known[source.rank].own /\ source.kinds # <<>>
  IN FlattenSeq([t \in DOMAIN TypeSeq |->
       Those(all, LAMBDA source : source.type = TypeSeq[t] /\ Found(source))])

-----------------------------------------------------------------------------
(* Selection. *)

\* matches_any and matches_either, when the texts are one and two.
AnyMatch(texts, patterns) == patterns # {} => \E p \in patterns : texts \cap p.accepts # {}

\* A selector of sources of some types.
OfScope(source, types, texts, patterns) ==
  patterns # {} => source.type \in types /\ AnyMatch(texts, patterns)

\* The text a filter tests; only names, identities and types are known here.
SourceText(source, field) ==
  CASE field = "name" -> source.name [] field = "source" -> source.id
    [] field = "source_type" -> source.type

\* source_selected
SourceSelected(o, source) ==
  LET either == {source.id, source.name}
  IN /\ o.kinds # <<>> => Range(o.kinds) \cap Range(source.kinds) # {}
     /\ o.sources # {} => source.id \in o.sources
     /\ AnyMatch({source.id}, o.sourceRegexes)
     /\ o.types # {} => source.type \in o.types
     /\ OfScope(source, {"thread", "gpu-thread"}, either, o.threads)
     /\ OfScope(source, {"gpu-thread"}, either, o.gpuContexts)
     /\ OfScope(source, {"plot"}, {source.name}, o.plots)
     /\ OfScope(source, {"frame-set"}, {source.name}, o.frameSets)
     /\ OfScope(source, {"lock"}, either, o.locks)
     /\ OfScope(source, {"memory-pool"}, either, o.memoryPools)
     \* A cpu is named by its number.
     /\ o.cpus # {} => source.type = "cpu" /\ source.name \in o.cpus
     /\ \A f \in Range(o.filters) :
          f.kind \in Range(source.kinds) \cup {"any"} =>
            SourceText(source, f.field) \in f.pattern.accepts

\* The sources `sources` prints, and --count counts.
ListedSources ==
  FlattenSeq([t \in DOMAIN traces |->
    Those(DiscoverSources(t), LAMBDA source : SourceSelected(options, source))])
=============================================================================
