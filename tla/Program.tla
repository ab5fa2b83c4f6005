------------------------------- MODULE Program -------------------------------
(***************************************************************************)
(* The program tracy-query, from its arguments to its status: main parses  *)
(* the command line, loads the traces and runs the command, a query in the *)
(* steps of Query, the others at once, for they only write to the output,  *)
(* whose failure they find out at the end.                                 *)
(***************************************************************************)
EXTENDS CommandLine, Sources

CONSTANT Invocations  \* what the program is started with: a set of arguments and, by
                      \* its path, what each file holds

\* Times and lists of kinds are what they are called, the files are traces, and
\* there is one for every path: loading it may fail in any case.
ASSUME InvocationsAssumption ==
  \A i \in Invocations :
    /\ \A line \in i.lines :
         /\ line \in Seq(Range(line))
         /\ \A p \in DOMAIN line :
              Len(line[p]) = 3 =>
                /\ line[p][2] = "time" => line[p][3] \in Decimals
                /\ line[p][2] = "kinds" => line[p][3] \in Seq(Range(line[p][3]))
         /\ \A input \in Range(ParseCli(line).inputs), files \in i.files :
              input.path \in DOMAIN files
    /\ \A files \in i.files : \A path \in DOMAIN files : WorkerTrace(files[path])

ASSUME LimitsAssumption == 0 .. MaxU64 \cup {NoLimit} \subseteq Limits

VARIABLES
  argv, files,  \* what it is started with
  parsed,       \* whether parse_cli has returned
  answer        \* what a command other than a query has written

programVars == <<argv, files, parsed, answer>>
allVars == <<vars, programVars>>

ProgramInit ==
  /\ \E i \in Invocations : argv \in i.lines /\ files \in i.files
  /\ traces = <<>> /\ options = NoOptions
  /\ Fresh
  /\ parsed = FALSE /\ answer = <<>>

\* The traces that will be loaded are those at the paths of the inputs.
ParseArguments ==
  /\ ~parsed
  /\ parsed' = TRUE
  /\ LET p == ParseCli(argv)
     IN /\ options' = p.options
        /\ exit' = ParseStatus(p.verdict)
        /\ IF p.verdict = "accepted"
           THEN /\ traces' = [i \in DOMAIN p.inputs |->
                                [files[p.inputs[i].path] EXCEPT !.label = p.inputs[i].label]]
                /\ limit' = p.options.limit
           ELSE UNCHANGED <<traces, limit>>
  /\ UNCHANGED <<added, chunk, runs, read, heap, out, stage, truncated, loaded, visits, seen,
                 latest, next, records, count, groups, printed, failure, argv, files, answer>>

\* What range prints of a trace; the metadata that info prints is left out.
RangeOf(trace) == [trace |-> trace.label, last |-> Normalize(trace, trace.last)]

\* run_command, for the other commands.
RunCommand ==
  /\ parsed /\ exit = Running /\ loaded = Len(traces)
  /\ options.command # "query"
  /\ LET sources == ListedSources
     IN /\ answer' = CASE options.command = "sources" /\ ~options.count -> sources
                       [] options.command \in {"range", "info"} ->
                            [t \in DOMAIN traces |-> RangeOf(traces[t])]
                       [] OTHER -> <<>>
        /\ count' = IF options.command = "sources" /\ options.count THEN Len(sources) ELSE count
  /\ \/ exit' = 0 /\ UNCHANGED failure
     \/ options.command # "check" /\ Throw("output")
  /\ UNCHANGED <<sortVars, traces, options, loaded, visits, seen, latest, next, records,
                 groups, printed, argv, files, parsed>>

RunQuery == parsed /\ Next /\ UNCHANGED programVars

ProgramNext == ParseArguments \/ RunCommand \/ RunQuery

ProgramSpec == ProgramInit /\ [][ProgramNext]_allVars

-----------------------------------------------------------------------------
(* Properties. *)

ProgramTypeOK ==
  /\ IF exit = 2 THEN loaded = 0 ELSE TypeOK
  /\ parsed \in BOOLEAN
  /\ exit # Running \/ loaded > 0 => parsed

\* Whatever parse_cli lets pass, run_query can do: the Matcher, which checks the
\* options a second time, refuses none of them, so that no error of usage is
\* found after traces were loaded and ends with status 1.
AcceptedIsValid == parsed /\ exit = Running /\ options.command = "query" => MatcherAccepts(options)

\* Every time on the command line is taken for the instant it is, or refused.
TimesAreTaken ==
  \A i \in DOMAIN argv : Len(argv[i]) = 3 /\ argv[i][2] = "time" => TimeIsExact(argv[i][3])

\* Every record of a trace, as a query for all kinds visits them.
EveryRecord(file) ==
  FlattenSeq([k \in DOMAIN KindSeq |-> VisitKind(file, KindSeq[k])])

\* Whether the records of a source that the query visits are those the source
\* was counted by, and last as long.  The usage of the cpus is no kind that the
\* capture is listed with, and frame images are at the times of their frames.
Agrees(source) ==
  LET all == EveryRecord(source.file)
      timed == {r \in Range(all) : r.source = source.rank /\ r.kind \notin {"frame-image", "cpu-usage"}}
  IN /\ \A k \in Range(source.kinds) :
          source.counts[k] = Occurrences(all, LAMBDA r : r.source = source.rank /\ r.kind = k)
     /\ source.extent # <<>> <=> timed # {}
     /\ timed # {} =>
          /\ source.extent[1] = Min({r.time : r \in timed})
          /\ source.extent[2] = Max({r.end : r \in timed})

\* Whether no source has a last record that the capture ended before; of one
\* that has, the code takes the end as it finds it.
AllEnded(trace) ==
  \A k \in DOMAIN trace.data : \A part \in Range(trace.data[k]) :
    \A item \in Range(part) : ~item.open

\* `sources` and `query`, which walk the trace each in its own way, say the same
\* of it: a listed source has the records, and the first and last time, that
\* a query shows, and without selectors every record but the cpu usage, and what
\* the scheduler knows of other threads, is of a listed source.
SourcesAnswer ==
  exit = 0 /\ failure = "none" /\ options.command = "sources" /\ ~options.count =>
    /\ \A source \in Range(answer) : AllEnded(traces[source.file]) => Agrees(source)
    /\ options = [NoOptions EXCEPT !.command = "sources"] =>
         \A t \in DOMAIN traces : \A r \in Range(EveryRecord(t)) :
           \/ r.kind = "cpu-usage" \/ ~traces[t].sources[r.source].own
           \/ \E source \in Range(answer) :
                source.file = t /\ source.rank = r.source /\ r.kind \in Range(source.kinds)
=============================================================================
