----------------------------- MODULE CommandLine -----------------------------
(***************************************************************************)
(* parse_cli of cli.cpp: the arguments are read one by one, then the       *)
(* options they set are checked against each other.                        *)
(*                                                                         *)
(* An argument is <<word>>, or <<name, tag, value>> when what follows its  *)
(* first = or, with the name "", all of it can be read as a value: a       *)
(* number, a time, a list of kinds, a filter and so on, as the tag says.   *)
(* Every option but a flag reads its value behind its = or from the whole  *)
(* next argument, whatever that is.                                        *)
(***************************************************************************)
EXTENDS Query, RelativeTime

Commands == {"check", "range", "info", "sources", "query"}

PointFlags ==
  [name \in {"--latest", "--next", "--active"} |->
     CASE name = "--latest" -> "latest" [] name = "--next" -> "next" [] name = "--active" -> "active"]
Flags == DOMAIN PointFlags \cup {"--quiet", "--ignore-case", "--count", "--root-zones"}

\* Options that collect what they are given, and the options they collect it in.
TextSets ==
  [name \in {"--source", "--source-type"} |->
     CASE name = "--source" -> "sources" [] name = "--source-type" -> "types"]
PatternSets ==
  [name \in {"--source-regex", "--thread", "--gpu-context", "--plot", "--frame-set", "--lock",
             "--memory-pool"} |->
     CASE name = "--source-regex" -> "sourceRegexes" [] name = "--thread" -> "threads"
       [] name = "--gpu-context" -> "gpuContexts" [] name = "--plot" -> "plots"
       [] name = "--frame-set" -> "frameSets" [] name = "--lock" -> "locks"
       [] name = "--memory-pool" -> "memoryPools"]

\* Options of one pattern, of which the last one given counts.
Patterns ==
  [name \in {"--zone-parent", "--zone-ancestor", "--stack-frame"} |->
     CASE name = "--zone-parent" -> "zoneParent" [] name = "--zone-ancestor" -> "zoneAncestor"
       [] name = "--stack-frame" -> "stackFrame"]

Global == {"--format", "--detail", "--trace-label", "--quiet"}
ValueOptions ==
  DOMAIN TextSets \cup DOMAIN PatternSets \cup DOMAIN Patterns \cup
  {"--format", "--detail", "--trace-label", "--kind", "--from", "--to", "--at",
   "--range-match", "--limit", "--group-by", "--filter", "--zone-depth", "--cpu"}

\* Words that begin with a dash: -x and --unknown stand for those that are no option.
Asking == {"-h", "--help", "--version"}
LongWords == Flags \cup ValueOptions \cup {"--help", "--version", "--", "--unknown"}

NoOptions ==
  [command |-> "", kinds |-> <<>>, at |-> NoTime, from |-> NoTime, to |-> NoTime,
   fromStart |-> FALSE, toEnd |-> FALSE, match |-> "overlap", flags |-> {}, count |-> FALSE,
   groupBy |-> <<>>, limit |-> NoLimit, sources |-> {}, types |-> {}, filters |-> <<>>,
   rootZones |-> FALSE, zoneDepth |-> <<>>, cpus |-> {}, sourceRegexes |-> {}, threads |-> {},
   gpuContexts |-> {}, plots |-> {}, frameSets |-> {}, locks |-> {}, memoryPools |-> {},
   zoneParent |-> {}, zoneAncestor |-> {}, stackFrame |-> {}]

Parser ==
  [options |-> NoOptions, positional |-> FALSE, pending |-> "", queryOption |-> FALSE,
   allKinds |-> FALSE, labels |-> <<>>, inputs |-> <<>>, verdict |-> "open"]

-----------------------------------------------------------------------------
(* Values. *)

\* An argument taken as the value of an option.
ValueOf(arg) == IF Len(arg) = 3 /\ arg[1] = "" THEN <<arg[2], arg[3]>> ELSE <<"text", arg[1]>>

IsText(v, texts) == v[1] = "text" /\ v[2] \in texts
IsTime(v) == v[1] = "time" /\ TimeAccepted(v[2])

\* The texts of other values are not told apart.
TextOf(v) == IF v[1] = "text" THEN v[2] ELSE v[1]

\* A word is a pattern that finds itself.
PatternOf(v) ==
  CASE v[1] = "pattern" -> v[2]
    [] OTHER -> [valid |-> TRUE, accepts |-> {TextOf(v)}]

Takes(name, v) ==
  CASE name = "--format" -> IsText(v, {"jsonl", "text"})
    [] name = "--detail" -> IsText(v, {"basic", "full"})
    [] name = "--trace-label" -> v[1] = "label"
    [] name = "--kind" -> v[1] = "kinds" /\ Range(v[2]) \subseteq Range(KindSeq) \cup {"all"}
    [] name \in {"--from", "--to"} -> IsText(v, {"start", "end"}) \/ IsTime(v)
    [] name = "--at" -> IsTime(v)
    [] name = "--range-match" -> IsText(v, {"overlap", "start", "contained"})
    [] name = "--group-by" -> IsText(v, {"trace", "kind", "source"})
    [] name = "--limit" -> v[1] = "number" /\ v[2] \in 0 .. MaxU64
    [] name = "--cpu" -> v[1] = "cpu"
    [] name = "--filter" -> v[1] = "filter" /\ v[2].kind \in Range(KindSeq) \cup {"any"}
    [] name = "--zone-depth" -> v[1] = "depth" /\ v[2][1] <= v[2][2]
    [] OTHER -> TRUE

\* The kinds with those of a list that are new; "all" is noted elsewhere.
WithKinds(kinds, list) ==
  LET upTo[n \in 0 .. Len(list)] ==
        IF n = 0 THEN kinds
        ELSE IF list[n] \in Range(upTo[n - 1]) \cup {"all"} THEN upTo[n - 1]
        ELSE Append(upTo[n - 1], list[n])
  IN upTo[Len(list)]

\* What an option does to the options: those with a time,
PutTime(o, name, v) ==
  CASE name = "--from" /\ IsText(v, {"end"}) -> [o EXCEPT !.from = MaxI64]
    [] name = "--from" /\ IsText(v, {"start"}) -> [o EXCEPT !.fromStart = TRUE]
    [] name = "--from" /\ IsTime(v) -> [o EXCEPT !.from = Nanoseconds(v[2])]
    [] name = "--to" /\ IsText(v, {"end"}) -> [o EXCEPT !.toEnd = TRUE]
    [] name = "--to" /\ IsText(v, {"start"}) -> [o EXCEPT !.to = 0]
    [] name = "--to" /\ IsTime(v) -> [o EXCEPT !.to = Nanoseconds(v[2])]
    [] name = "--at" -> [o EXCEPT !.at = Nanoseconds(v[2])]

\* those that select by a text or a pattern,
PutSelector(o, name, v) ==
  CASE name \in DOMAIN TextSets -> [o EXCEPT ![TextSets[name]] = @ \cup {TextOf(v)}]
    [] name \in DOMAIN PatternSets -> [o EXCEPT ![PatternSets[name]] = @ \cup {PatternOf(v)}]
    [] name \in DOMAIN Patterns -> [o EXCEPT ![Patterns[name]] = {PatternOf(v)}]

\* and all others; those on labels and the output are kept elsewhere.
Put(o, name, v) ==
  CASE name \in {"--from", "--to", "--at"} -> PutTime(o, name, v)
    [] name \in DOMAIN TextSets \cup DOMAIN PatternSets \cup DOMAIN Patterns ->
         PutSelector(o, name, v)
    [] name = "--kind" -> [o EXCEPT !.kinds = WithKinds(@, v[2])]
    [] name = "--range-match" -> [o EXCEPT !.match = v[2]]
    [] name = "--limit" -> [o EXCEPT !.limit = v[2]]
    [] name = "--group-by" -> [o EXCEPT !.groupBy = Append(@, v[2])]
    [] name = "--filter" -> [o EXCEPT !.filters = Append(@, v[2])]
    [] name = "--zone-depth" -> [o EXCEPT !.zoneDepth = v[2]]
    [] name = "--cpu" -> [o EXCEPT !.cpus = @ \cup {v[2]}]
    [] name \in Global -> o

Refused(p) == [p EXCEPT !.verdict = "refused"]

TakeValue(p, name, v) ==
  IF ~Takes(name, v) THEN Refused(p)
  ELSE [p EXCEPT !.pending = "",
                 !.options = Put(@, name, v),
                 !.queryOption = @ \/ name \notin Global,
                 !.allKinds = @ \/ (name = "--kind" /\ "all" \in Range(v[2])),
                 !.labels = IF name = "--trace-label" THEN Append(@, v[2]) ELSE @]

-----------------------------------------------------------------------------
(* Arguments. *)

\* A flag; a value behind an = is not looked at.
TakeFlag(p, name) ==
  [p EXCEPT !.queryOption = @ \/ name \notin Global,
            !.options.count = @ \/ name = "--count",
            !.options.rootZones = @ \/ name = "--root-zones",
            !.options.flags = IF name \in DOMAIN PointFlags THEN @ \cup {PointFlags[name]} ELSE @]

TakeOption(p, arg) ==
  CASE arg[1] \in Flags -> TakeFlag(p, arg[1])
    [] arg[1] \in ValueOptions /\ Len(arg) = 3 -> TakeValue(p, arg[1], <<arg[2], arg[3]>>)
    [] arg[1] \in ValueOptions /\ Len(arg) = 1 -> [p EXCEPT !.pending = arg[1]]
    [] OTHER -> Refused(p)

TakeInput(p, arg) ==
  [p EXCEPT !.inputs = Append(@, arg[1]),
            !.options.command = IF @ = "" THEN "check" ELSE @]

\* One turn of the loop over argv.
Parse(p, arg) ==
  LET word == IF Len(arg) = 1 /\ ~p.positional THEN arg[1] ELSE ""
      option == ~p.positional /\ arg[1] \in LongWords
  IN CASE p.verdict # "open" -> p
       [] p.verdict = "open" /\ p.pending # "" -> TakeValue(p, p.pending, ValueOf(arg))
       [] p.verdict = "open" /\ p.pending = "" ->
            CASE word = "--" -> [p EXCEPT !.positional = TRUE]
              [] word \in Asking -> [p EXCEPT !.verdict = "help"]
              [] word \in Commands /\ p.options.command = "" ->
                   [p EXCEPT !.options.command = word]
              [] option /\ word \notin Asking \cup {"--"} -> TakeOption(p, arg)
              [] word = "-x" /\ p.options.command = "" -> Refused(p)
              [] OTHER -> TakeInput(p, arg)

\* A bug: the patterns of the filters are not tried.
PatternsOf_Scopes(o) == UNION {o[f] : f \in Range(PatternSets) \cup Range(Patterns)}

\* What the constructor of std::regex is tried on.
PatternsOf(o) ==
  (UNION {o[f] : f \in Range(PatternSets) \cup Range(Patterns)})
    \cup {o.filters[i].pattern : i \in DOMAIN o.filters}

\* What is checked when all arguments are read.
Accepted(p, o) ==
  /\ p.verdict = "open" /\ p.pending = ""
  /\ o.command # "" /\ p.inputs # <<>>
  /\ \A i \in DOMAIN p.labels : p.labels[i].path \in Range(p.inputs)
  /\ o.command = "query" => ValidOptions(o)
  /\ o.command = "sources" =>
       \A f \in Range(o.filters) : f.field \in {"name", "source", "source_type"}
  /\ o.command \notin {"query", "sources"} => ~p.queryOption
  /\ \A pattern \in PatternsOf(o) : pattern.valid

\* Of several labels for a path the last one counts.
LabelOf(p, path) ==
  FoldLeft(LAMBDA label, l : IF l.path = path THEN l.label ELSE label, path, p.labels)

\* parse_cli, but for the program's name.
ParseCli(args) ==
  LET after[n \in 0 .. Len(args)] == IF n = 0 THEN Parser ELSE Parse(after[n - 1], args[n])
      p == after[Len(args)]
      o == IF p.allKinds THEN [p.options EXCEPT !.kinds = KindSeq] ELSE p.options
  IN [options |-> o,
      inputs |-> [i \in DOMAIN p.inputs |-> [path |-> p.inputs[i], label |-> LabelOf(p, p.inputs[i])]],
      verdict |-> CASE p.verdict = "help" -> "help"
                    [] Accepted(p, o) -> "accepted"
                    [] OTHER -> "refused"]

\* The status with which main ends without having started anything.
ParseStatus(verdict) ==
  CASE verdict = "help" -> 0 [] verdict = "refused" -> 2 [] verdict = "accepted" -> Running
=============================================================================
