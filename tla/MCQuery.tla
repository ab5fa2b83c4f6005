------------------------------- MODULE MCQuery -------------------------------
(* Program on small traces: messages and two plots' points, frames that        *)
(* overlap, nested zones, hardware samples at two addresses, at every time of   *)
(* a few, with the command lines that tell their records apart.                 *)
EXTENDS Program

Item(source, time, end, fields) ==
  [source |-> source, time |-> time, end |-> end, fields |-> fields, image |-> FALSE,
   depth |-> NoDepth, ancestors |-> {}, open |-> FALSE]
Point(source, time, fields) == Item(source, time, time, fields)
Zone(source, time, end, depth, name) ==
  [Item(source, time, end, "name" :> name) EXCEPT !.depth = depth]

Source(type, id, name) == [type |-> type, id |-> id, name |-> name, own |-> TRUE]

Trace(first, last, data, sources) ==
  [label |-> "", first |-> first, last |-> last, data |-> data, sources |-> sources]

Alone(trace) == "a" :> trace
Pair(one, other) == ("a" :> one) @@ ("b" :> other)

Thread1 == Source("thread", "thread:1", "main")
Thread2 == Source("thread", "thread:2", "net")
Plot0 == Source("plot", "plot:0", "fps")
Plot1 == Source("plot", "plot:1", "load")
Frames0 == Source("frame-set", "frame-set:0", "default")

\* Two traces that do not start at the same time, the second of frames alone.
FrameFiles ==
  LET frame(s, e) == Item(0, s, e, "frame_set" :> "default")
      image(s, e, x) == [frame(s, e) EXCEPT !.image = x]
  IN {Pair(Trace(5, 8, ("frame" :> <<<<frame(s, e), image(7, 8, x)>>>>) @@
                       ("message" :> <<<<Point(1, m, "text" :> "b")>>>>),
                 (0 :> Frames0) @@ (1 :> Thread1)),
           Trace(1, 4, "frame" :> <<<<frame(u, u + 1)>>>>, 0 :> Frames0)) :
        s \in 5 .. 6, e \in 6 .. 7, m \in {6, 8}, u \in 1 .. 2, x \in BOOLEAN}

\* One trace: two plots, or a memory pool whose records are not in time order.
PlotFiles ==
  {Alone(Trace(0, 3, k :> <<<<Point(0, t, ("name" :> "a") @@ ("pool" :> "a")),
                              Point(0, u, ("name" :> "b") @@ ("pool" :> "a"))>>,
                            <<Point(1, v, "name" :> "a"), Point(1, w, "name" :> "b")>>>>,
               IF k = "plot" THEN (0 :> Plot0) @@ (1 :> Plot1)
               ELSE (0 :> Source("memory-pool", "memory-pool:0", "default")) @@
                    (1 :> Source("memory-pool", "memory-pool:1", "arena")))) :
     <<k, t>> \in ({"plot"} \X (0 .. 1)) \cup ({"memory"} \X (0 .. 2)), u \in {1, 3},
     v \in 0 .. 1, w \in {1, 2}}

\* One trace: five records, which make three files, of two kinds that are
\* visited in one order and listed in the other.
LongFiles ==
  {Alone(Trace(0, 3, ("plot" :> <<<<Point(0, t, "name" :> "fps"), Point(0, 1, "name" :> "fps")>>,
                                 <<Point(1, u, "name" :> "load")>>>>) @@
                     ("message" :> <<<<Point(2, 1, "text" :> "a"), Point(3, v, "text" :> "b")>>>>),
               (0 :> Plot0) @@ (1 :> Plot1) @@ (2 :> Thread1) @@ (3 :> Thread2))) :
     t \in 0 .. 1, u \in 0 .. 2, v \in 1 .. 2}

\* One trace: the samples of one counter at two addresses.
HardwareFiles ==
  {Alone(Trace(0, 3, "hardware-sample" :> <<<<Point(0, t, <<>>)>>, <<Point(0, u, <<>>)>>>>,
               0 :> Source("hardware-counter", "hardware-counter:cycles", "cycles"))) :
     t \in 0 .. 2, u \in 0 .. 2}

\* One trace: nested zones of two threads, numbered together.
Nested(zone, parent) ==
  [zone EXCEPT !.ancestors = {parent}, !.fields = @ @@ ("parent_name" :> parent)]
ZoneFiles ==
  {Alone(Trace(0, 3, "cpu-zone" :> <<<<Zone(0, s, 3, 0, "a"), Nested(Zone(0, 1, e, 1, "b"), "a")>>,
                                    <<Zone(1, u, 2, 0, "a")>>>>,
               (0 :> Thread1) @@ (1 :> Thread2))) :
     s \in 0 .. 1, e \in 1 .. 2, u \in 0 .. 2}

\* One trace with sources of every type, an empty plot, a thread of another
\* program and a crash; frees follow their allocations in the pool.
SourceFiles ==
  {Alone(Trace(0, 9,
     ("cpu-zone" :> <<<<Zone(6, s, 5, 0, "a"), Nested(Zone(6, 4, 5, 1, "b"), "a"), Zone(6, 6, e, 0, "a")>>>>) @@
     ("message" :> <<<<Point(7, s, "text" :> "a"), Point(6, 3, "text" :> "b"), Point(7, e, "text" :> "b")>>>>) @@
     ("sample" :> <<<<Point(7, 4, <<>>), Point(7, 5, <<>>)>>, <<Point(7, s, <<>>), Point(7, e, <<>>)>>>>) @@
     ("ghost-zone" :> <<<<Zone(6, 2, 4, 0, "a"), Zone(6, 3, e, 1, "b")>>>>) @@
     ("gpu-zone" :> <<<<Zone(1, s, 4, 0, "a"), Nested(Zone(1, 2, e, 1, "b"), "a")>>>>) @@
     ("plot" :> <<<<>>, <<Point(5, s, "name" :> "load")>>>>) @@
     ("frame" :> <<<<Item(8, s, 4, "frame_set" :> "default"),
                     [Item(8, 4, e, "frame_set" :> "default") EXCEPT !.image = TRUE]>>>>) @@
     ("lock" :> <<<<Point(2, s, "name" :> "m"), Point(2, e, "name" :> "m")>>>>) @@
     ("memory" :> <<<<Point(3, 3, ("pool" :> "default") @@ ("callstack" :> "a")), Point(3, e, "pool" :> "default"),
                      Point(3, s, "pool" :> "default")>>>>) @@
     ("context-switch" :> <<<<Item(6, s, 4, <<>>),
                              [Item(6, 5, IF x THEN -1 ELSE e, <<>>) EXCEPT !.open = x]>>,
                            <<Item(9, 1, 4, <<>>)>>>>) @@
     ("cpu-slice" :> <<<<Item(10, s, 4, "cpu" :> "0"), Item(10, 4, e, "cpu" :> "0")>>>>) @@
     ("cpu-usage" :> <<<<Point(0, 2, <<>>)>>>>) @@
     ("hardware-sample" :> <<<<Point(11, 2, <<>>), Point(11, 5, <<>>)>>, <<Point(11, s, <<>>)>>>>) @@
     ("crash" :> <<IF s = 1 THEN <<Point(0, 5, <<>>)>> ELSE <<>>>>),
     (0 :> Source("capture", "capture", "")) @@
     (1 :> Source("gpu-thread", "gpu-context:0/thread:1", "main")) @@
     (2 :> Source("lock", "lock:0", "m")) @@ (3 :> Source("memory-pool", "memory-pool:0", "default")) @@
     (4 :> Plot0) @@ (5 :> Plot1) @@ (6 :> Thread1) @@ (7 :> Thread2) @@ (8 :> Frames0) @@
     (9 :> [Source("thread", "thread:77", "other") EXCEPT !.own = FALSE]) @@
     (10 :> Source("cpu", "cpu:0", "0")) @@
     (11 :> Source("hardware-counter", "hardware-counter:cycles", "cycles")))) :
   s \in 1 .. 3, e \in 6 .. 7, x \in BOOLEAN}

-----------------------------------------------------------------------------
(* Command lines. *)

Ns(n) == [whole |-> n, fraction |-> 0, scale |-> 1, unit |-> "ns"]
Time(name, n) == <<<<name, "time", Ns(n)>>>>
Given(name, text) == <<<<name>>, <<text>>>>
Limited(n) == <<<<"--limit">>, <<"", "number", n>>>>
QueryOf(kinds) == <<<<"query">>, <<"--kind", "kinds", kinds>>>>
Files(world) == IF world = "pair" THEN <<<<"a">>, <<"b">>>> ELSE <<<<"a">>>>
Labelled(path, label) == <<<<"--trace-label", "label", [path |-> path, label |-> label]>>>>

Listings(kinds, world) ==
  {QueryOf(kinds) \o f \o t \o m \o l \o Files(world) :
     f \in {<<>>, Time("--from", 1)}, t \in {<<>>, Given("--to", "end"), Time("--to", 2)},
     m \in {<<>>, Given("--range-match", "start"), Given("--range-match", "contained")},
     l \in {<<>>, Limited(2)}}

Counts(kinds, world) ==
  {QueryOf(kinds) \o <<<<"--count">>>> \o g \o f \o Files(world) :
     g \in {<<>>, Given("--group-by", "trace"),
            Given("--group-by", "kind") \o Given("--group-by", "source")},
     f \in {<<>>, Time("--from", 1)}}

Points(kinds, world) ==
  LET If(flag, flags) == IF flag \in flags THEN <<<<flag>>>> ELSE <<>>
  IN {QueryOf(kinds) \o Time("--at", a) \o If("--active", f) \o If("--latest", f) \o If("--next", f)
        \o c \o l \o Files(world) :
        a \in 1 .. 2, f \in SUBSET {"--active", "--latest", "--next"},
        c \in {<<>>, <<<<"--count">>>> \o Given("--group-by", "source")}, l \in {<<>>, Limited(1)}}

SameLabel == Labelled("a", "l") \o Labelled("b", "l")

Pattern(texts) == [valid |-> TRUE, accepts |-> texts]
Broken == [valid |-> FALSE, accepts |-> {}]
Filter(kind, field, pattern) ==
  <<<<"--filter", "filter", [kind |-> kind, field |-> field, pattern |-> pattern]>>>>
Selectors ==
  {Given("--source", "thread:1"), Given("--source-type", "thread"),
   <<<<"--kind", "kinds", <<"cpu-zone">>>>>>, <<<<"--root-zones">>>>,
   <<<<"--zone-depth", "depth", <<0, 0>>>>>>, <<<<"--zone-depth", "depth", <<1, 0>>>>>>,
   <<<<"--cpu", "cpu", "0">>>>, Limited(0)}
   \cup {<<<<name, "pattern", p>>>> :
           name \in DOMAIN PatternSets \cup DOMAIN Patterns, p \in {Pattern({"a", "main"}), Broken}}
   \cup {Filter(k, f, p) : k \in {"any", "cpu-zone", "plot"},
           f \in {"name", "source", "source_type", "text"}, p \in {Pattern({"a", "main"}), Broken}}

\* Lines of one selector: for every command, and for other kinds of records.
Selections(command) == {<<<<command>>>> \o s \o <<<<"a">>>> : s \in Selectors}
ZoneSelections(kinds) == {QueryOf(kinds) \o s \o <<<<"a">>>> : s \in Selectors}

\* Lines with a fault, or unusual ones.
OddLines ==
  {<<>>, <<<<"a">>>>, <<<<"--help">>>>, <<<<"query">>, <<"-h">>>>, <<<<"-x">>>>,
   <<<<"query">>>>, <<<<"query">>, <<"a">>>>, <<<<"--">>, <<"a">>>>, <<<<"--">>, <<"--count">>, <<"a">>>>,
   <<<<"check">>, <<"--count">>, <<"a">>>>, <<<<"check">>, <<"--unknown">>, <<"a">>>>,
   <<<<"a">>, <<"--quiet">>>>, <<<<"range">>, <<"a">>, <<"b">>>>, <<<<"check">>, <<"a">>, <<"--format">>>>,
   <<<<"info">>, <<"--detail">>, <<"full">>, <<"a">>>>, <<<<"info">>, <<"--detail">>, <<"some">>, <<"a">>>>,
   <<<<"range">>>> \o Labelled("c", "l") \o <<<<"a">>>>,
   <<<<"range">>, <<"a">>>> \o Labelled("a", "l") \o Labelled("a", "k"),
   <<<<"sources">>, <<"--count", "text", "x">>, <<"a">>>>,
   QueryOf(<<"cpu-zone">>) \o Time("--from", 2) \o Time("--to", 1) \o <<<<"a">>>>,
   QueryOf(<<"cpu-zone">>) \o Time("--from", 2) \o Given("--to", "start") \o <<<<"a">>>>,
   QueryOf(<<"cpu-zone">>) \o Given("--from", "start") \o Time("--at", 1) \o <<<<"--latest">>, <<"a">>>>,
   QueryOf(<<"cpu-zone">>) \o Given("--from", "end") \o <<<<"a">>>>,
   QueryOf(<<"cpu-zone", "frame">>) \o <<<<"--root-zones">>, <<"a">>>>,
   QueryOf(<<"plot">>) \o Time("--at", 1) \o <<<<"--active">>, <<"a">>>>,
   QueryOf(<<"all">>) \o <<<<"a">>>>, QueryOf(<<"all">>) \o Time("--at", 1) \o <<<<"--active">>, <<"a">>>>,
   QueryOf(<<"ghost-zone">>) \o <<<<"--zone-parent", "pattern", Pattern({"a"})>>, <<"a">>>>}

\* Times around the limits of the words they are computed in.
TimeLines ==
  LET wholes == 0 .. 12 \cup {50, 51, 52, 101, 102, 103, 104} \cup 510 .. 513 \cup 1020 .. 1025
      fractions == {<<0, 1>>} \cup {<<f, 10>> : f \in 0 .. 9} \cup {<<f, 100>> : f \in {0, 5, 10, 25, 98, 99}}
                     \cup {<<500, 1000>>}
  IN {<<<<"query">>, <<"--at", "time",
        [whole |-> w, fraction |-> f[1], scale |-> f[2], unit |-> u]>>>> :
        w \in wholes, f \in fractions, u \in {"ns", "us", "h"}}

SmallUnits == {"ns", "us", "h"}
SmallMultiplier == ("ns" :> 1) @@ ("us" :> 10) @@ ("h" :> 60)
SmallLimits == NoLimit .. 1023

SmallInvocations ==
  LET On(worlds, lines) == [files |-> worlds, lines |-> lines]
  IN {On(FrameFiles, {l \o x : l \in Listings(<<"frame", "message">>, "pair")
                                \cup Counts(<<"frame", "message">>, "pair")
                                \cup Points(<<"frame">>, "pair"), x \in {<<>>, SameLabel}}),
      On(FrameFiles, {QueryOf(<<"frame-image", "frame">>) \o l \o <<<<"a">>>> : l \in {<<>>, Limited(0)}}),
      On(PlotFiles, Listings(<<"plot", "memory">>, "alone") \cup Points(<<"plot", "memory">>, "alone")),
      On(LongFiles, Listings(<<"plot", "message">>, "alone")),
      On(ZoneFiles, Points(<<"cpu-zone">>, "alone") \cup ZoneSelections(<<"cpu-zone">>)),
      On(HardwareFiles, Points(<<"hardware-sample">>, "alone")
                          \cup Listings(<<"hardware-sample">>, "alone")),
      On(SourceFiles, {<<<<"sources">>, <<"a">>>>, <<<<"sources">>, <<"--count">>, <<"a">>>>}),
      On({CHOOSE f \in SourceFiles : TRUE},
         UNION {Selections(command) : command \in Commands} \cup ZoneSelections(<<"plot", "ghost-zone">>)
           \cup {QueryOf(<<"memory">>) \o Filter("any", "symbol", Pattern({"a"})) \o <<<<"a">>>>}),
      On({Pair(f["a"], f["a"]) @@ ("--count" :> f["a"]) : f \in {CHOOSE f \in ZoneFiles : TRUE}}, OddLines \cup TimeLines)}
=============================================================================
