# Verification of tracy-extensions

TLA+ models of the repository's core logic, the TLC configurations that check
them on small instances, and proofs checked by TLAPS. Line numbers refer to the
sources as they are in this repository.

## 1. Inventory

### The parts of the system

**Embedded capture** (`tracy-embedded-capture/src`) runs Tracy's profiler (the
client) and Tracy's Worker (the server) in one process and joins them through
memory instead of a TCP connection.

| Component | State | Operations | What must be true |
|---|---|---|---|
| byte pipe (`TracyEmbeddedTransport.cpp` 16-29, 67-130) | ring storage, head, size, two closed flags, two counters | `writePipe`, `readPipe`, `closePipeWriter`, `closePipeReader`, `cancelPipe` | bytes arrive once and in order; nobody sleeps through the event it waits for; an end of stream is final |
| rendezvous (31-55, 134-212, 263-309) | `gSession`, `gListening`, `gError`, four flags per session | `Configure`, `Listen`, `Connect`, `Accept`, `Cancel`, `Reset`, `GetStatistics` | one peer per side and session; no joining of a cancelled or replaced session; both ends find each other |
| endpoints and sockets (43-65, 214-261; `TracyEmbeddedSocket.cpp`) | session and closed flag of each endpoint | `Send`, `Read`, `CloseEndpoint`, `ConnectBlocking`, `ListenSocket` | closing one end is seen at the other; a call on an endpoint that is being closed ends |
| lifecycle (`embedded_capture.cpp` 40-68, 122-199, 252-461) | state, reusable flag, owned Worker, statistics snapshot | `configure`, `start`, `finish`, `stop`, `shutdown`, `get_state`, `get_statistics` | one Worker at a time, no use of a destroyed Worker, no lost session, no call that stays in this code, failures are final |
| publication (96-120, 201-250) | partial file, output file, three counters | `partialPath`, `atomicPublish`, the save part of `finishImpl` | only files the Worker has written get the final name, none is replaced, results are truthful |
| disconnect patches (`cmake/TracyServer.cmake` 59-89, 174-226) | a request flag, the Worker's wait | `RequestEmbeddedDisconnect`, the Worker's wait, the client's drain | the request is noticed; committed events arrive before the connection ends |

**tracy-nextest-capture** (Rust) wraps a test: it starts a one-shot capture, runs
the test under `catch_unwind`, saves or discards by policy and outcome, and turns
capture failures into exit code 70.

**tracy-query** (C++) reads finished captures. It is sequential; its risks are
boundaries, ties, identities and what a failure half way leaves.

| Component | State | Operations | What must be true |
|---|---|---|---|
| external sorter (`query.cpp` 729-863) | a chunk, the sorted temporary files, a heap, the output | `add`, `flush_chunk`, `finish` | no record lost or doubled; output in order and the front of it; the truncation notice is right |
| query engine (`query.cpp` 867-999 with the visitors and `Matcher`) | records kept in point mode, counts and groups | `run_query` | the answer is what the options ask for, in each of the three modes; `--count` agrees with the listing |
| command line (`cli.cpp`, `main.cpp`, `time.cpp`) | the parsed options | option rules, `parse_time`, exit status | contradictory options are refused; failures end with the documented status |
| sources, traces, output (`commands.cpp`, `trace.cpp`, `output.cpp`) | loaded Workers | source discovery, loading, writing | `sources` agrees with what a query can find |

**tracy-client-sys** (Rust) builds or downloads the native part and checks the
manifest of prebuilt archives. CMake and CI files package it.

### How they interact

The owner of a capture calls the lifecycle. `configure`/`start` call the
transport's `Configure` and construct a Worker, whose threads call
`Socket::Connect` until the profiler has called `ListenSocket::Listen`; the
profiler's thread then gets the other endpoint from `Accept`. From there on
bytes flow through two pipes, one a direction. `finish` shuts the profiler down,
`stop` asks the Worker to disconnect; both wait for the Worker, save or drop its
model, and `stop` resets the transport for the next `start`. The lifecycle's
mutex is not held during any of that, only around the changes of its own state.

### What is hard

Interleavings of the sending, receiving, closing and controlling threads;
notifications sent after an unlock; sessions replaced under a sleeping thread;
ring arithmetic at wrap-around; the file system seen by several processes, with
crashes; failures half way through a finish. `PROJECT.json` lists each hazard at
its line under `hazards`, with the properties that watch it or the reason why
none does.

## 2. Modules

| Module | Models | Built on |
|---|---|---|
| `ByteStream` | what one direction promises: a bounded FIFO that may be closed | |
| `Pipe` | struct `Pipe` and its five functions, one action per critical section, with the closed flags of the two endpoints | implements `ByteStream` (`ImplementsStream`) |
| `Rendezvous` | the calls under `gMutex`; a notification is an action after the unlock | |
| `Publish` | the save half of `finishImpl`, one action per file system call | |
| `Capture` | the coordinator, the Workers and the profiler; one action per lock or outside call | abstracts the three above |
| `Disconnect` | `stop` of a reusable capture: the request, the Worker's wait, the client's drain, marker and responses, `Cancel` at the deadline | each pipe is a `ByteStream` of frames |
| `Nextest` | the guard of `tracy-nextest-capture` around one test | extends `Capture`, whose calls are its steps |
| `ExternalSort` | the class of that name: `add`, `flush_chunk`, `finish`, one action per record | |
| `Query` | `run_query`: visiting, matching, time ranges, point mode, counts, listing; the exit status of `main` | extends `ExternalSort`, whose actions are its steps |
| `RelativeTime` | the arithmetic of `parse_time`, as operators | |
| `CommandLine` | `parse_cli`, as operators: a fold over the arguments, then the final checks | extends `Query`, `RelativeTime` |
| `Sources` | `discover_sources` and `source_selected`, as operators over the traces of `Query` | extends `Query` |
| `Program` | `main` and `run_command`: arguments, loading, the command, the status | extends `CommandLine`, `Sources` |
| `MCPublish`, `MCQuery` | symmetry of captures; small traces and command lines | `Publish`; `Program` |
| `PipeProofs`, `RendezvousProofs`, `PublishProofs`, `CaptureProofs`, `DisconnectProofs`, `NextestProofs`, `ExternalSortProofs`, `QueryProofs` | theorems | their components; `NextestProofs` uses the theorems on `Capture`, `QueryProofs` those on the sorter and is about `Program` with all it extends |

**Pipe.** `writePipe` releases the mutex after every chunk and inside
`writable.wait`, so a call is a chain of `WriteChunk` and `WriteWait` that ends in
a last chunk or in `WriteFails`. `reader = "expired"` is a `wait_for` whose time has
passed and that has yet to take the mutex again; a byte that arrives in that
window is still returned. A byte is named by its place in the sender's stream, so
loss, repetition and reordering are visible. The refinement maps the ring to the
sequence of bytes in flight. `senderEnd` and `receiverEnd` are the flag `Endpoint::closed` of
either side, which `Send` (232) and `Read` (239) look at first: `SendRefused` returns -1 and
`ReadRefused` 0, whatever the ring holds. The flag is a plain bool without a lock, and
`CloseEndpoint` sets it before it closes the pipe; in between (`"closing"`) a call of another
thread may see it or miss it, and once seen it stays seen.

**Rendezvous.** Sessions are numbered because `shared_ptr` identity is never
reused while an `Accept` holds one. `owed` holds the threads between the unlock
and their `notify_all`. `cancelPipe` on the two pipes is left to `Pipe`. The loops
around `Connect` and `Accept` belong to Tracy and are modelled from the interface:
any call at any time.

**Publish.** A partial file belongs to its capture: two savers are assumed to
draw different 32-bit suffixes. `Worker::Write` is external: it puts
something into the file (`WriteBegins`) and may return (`WriteReturns`) with all of it there, with
nothing, or, as the code looks at the size only (232), with a part that is taken for the whole
(`"short"`); while it is under way the file is `"torn"`. `Throw` is any exception of the try block,
`ForeignCreate` another program, `Crash` the end of the process. `Platforms` says
which way of publishing is in use; the run mixes both, as processes that share a
directory may. `UnlinkMayFail` says whether `remove` of a file in that directory
can fail.

**Capture.** `at[c]` is the next step of controller `c`'s call. What the Worker
and the profiler do is external: a Worker connects to whatever session is there,
gets data, and closes when it likes. `___tracy_shutdown_profiler` returns in a step of its own
(`ShutdownClient` in `finish`, `ShutdownProfiler` in `shutdown`), which need not come; each
call of `shutdown`'s try block may throw (`ShutdownThrows`). Path validation, the choice of error text and
the bytes of `get_error` are left out; a save is its outcome. The forced timeout
and open failure of test builds are left out.

**Disconnect.** The thread in `stop`, the Worker's two threads, the client's thread
and its symbol thread, over two pipes of frames. `exec = "deciding"` is the Worker
between the false condition of `m_netReadCv.wait` and its sleep: it holds
`m_netReadLock`, which keeps the network thread out (`NetRead`) but not `Notify`,
so that the notification may be lost. The client's loops (serving, draining,
responding) take their turns in the same four steps; only what the patches of
`cmake/TracyServer.cmake` (lines 68, 79, 177, 216) say of them is mapped to that
file, and the rest, Tracy's own code, is external. A frame may ask the Worker for
more (`TakeFrame`), an answer is written at once or comes later from the symbol
thread (`Resolve`), into either queue. `Cancel` closes one pipe, then the other.

**Nextest.** The guard calls `configure`, starts the client, polls the state and
calls `finish`, all as actions of `Capture` with one controller. `Environments` is
what it reads: the four variables of an attempt, the policy (absent, not UTF-8 and
misspelt ones too) and whether the rest is in order. File names are left out.

**ExternalSort.** A record is its number in the order of `add`; `added` holds what
`record_less` compares of it, and the order of chunks and that of the heap are two
definitions, as they are in the code. `SortedOrders` are the possible results of
`std::sort`, which may put equal records either way, and `Emit` may take any least
node of the heap. A trace, kind or source stands for its rank. A run that cannot
be written or read back makes the stage `failed`.

**Query.** A trace holds, per kind, the groups the visitors loop over, with raw
times; `RecordOf` normalises the times and `PerTrace`, `PerCollection` and `Images`
number the records as each visitor does. Texts are members of a small set and a
regular expression is the set it accepts. `Matches` has every selector, filter and
zone option. `Asked`, `NewestBefore` and `EarliestAfter` are written from the
records and not from the definitions the actions use. An answer is the numbers in
`out`, the records in `printed`, or `count` and `groups`; the JSON and table forms
are left out. `WorkerTrace` says what the queries rely on of a loaded Worker: numbered
sources of the types of their records, one collection for a source but for a few kinds,
and collections in the order of time, with zones nested in those without a parent.

**CommandLine, RelativeTime.** An argument is a word, or a name and a tagged value
(`<<"--limit", "number", 2>>`), where the tag says how the text can be read; an
option reads its value behind its `=` or from the whole next argument, whatever that
is. `--ignore-case` is in the patterns it changes. A time is a number of units with a
fraction, and is computed in words of a width that is a constant, so that every
overflow happens in the runs.

**Sources, Program.** `sources` walks the Worker's collections by itself: counts, front
and back of most collections, top-level zones only, allocations and frees. A source
has a rank by which records refer to it; `own` tells the threads the trace has data
of from those only the scheduler knows. Commands other than `query` are one step,
as they only write to the output and look for its failure at the end.

## 3. Runs

| Run | Instance | What it shows |
|---|---|---|
| `pipe` | capacity 3, sends up to 4, reads up to 2, 5 bytes, `FairSpec` | types, `RingHoldsStream`, `NoLostWakeup`, refinement of `ByteStream` (order, no byte after an end of stream); blocked calls return when their event came; with a reading receiver every byte arrives, unless the receiver closes its own endpoint |
| `pipe_own_close` | capacity 2, 4 bytes, `FairSpec` | finding: a sender blocked in a full pipe is not released by closing its own endpoint |
| `rendezvous` | 3 sessions, `FairSpec` | one peer per side, no joining of cancelled or later sessions, no lost wakeup; `Accept` notices a teardown without its deadline; two sides that keep trying meet, also in a later session |
| `publish` | 2 captures, 2 outputs, both platforms | only files whose `Write` returned and left something, nothing replaced, OK and failure are truthful, no stray partial file |
| `publish_unlink` | 2 captures, 1 output, `UnlinkMayFail` | finding: a published capture reported as failed |
| `capture` | 1 controller, 3 captures | the documented contract of one controlling thread: final states, statistics of the right capture, nothing saved that was not drained |
| `capture_shared` | 2 controllers, 2 captures, `FairSpec` | without that contract: one Worker, no use of a destroyed Worker, no mixed or lost sessions, no orphaned `FINISHING`, every call returns unless it is inside `___tracy_shutdown_profiler` |
| `disconnect` | 2 events, room for 1 frame up and 3 questions down, `FairSpec` | what was committed before `stop` is in the Worker's model when it saves; the handshake ends, though the notification may be lost, both sides may be full, and the deadline may come at any point |
| `nextest` | 1 capture, every environment, `NextestFairSpec` | what is kept follows outcome and policy; a captured body runs with a Worker that receives; exit 70 and nothing else when the capture fails; the guard ends after the test, unless `finish` is inside `___tracy_shutdown_profiler` |
| `query` | one or two traces of up to 5 records, one of every type of source, chunks of 2 records, `--limit` none, 0, 1, 2, some thousand command lines | `FrontOfOrder`, `ListingAnswer`, `CountAnswer`, `PointAnswer`; `SourcesAnswer`: `sources` and `query` agree; `AcceptedIsValid`: what `parse_cli` accepts the Matcher accepts; `TimesAreTaken`; no deadlock: every invocation ends in an exit |
| `query_next` | the same | finding: `--next` loses a hardware sample to one with the same identity |
| `query_failure` | the same | finding: a failed temporary file ends in status 0 |

Every property of a passing run has a mutant in `PROJECT.json`: an operator ending in
an underscore and a word (`ChunkLength_ToEnd`, `Owes_Forgotten`, ...) that stands
before the definition it would replace and is a plausible bug in those lines.

**Bounds.** Capacity 3 with sends of up to 4 and reads of 2 makes every alignment
of head and tail, partial writes, a send longer than the ring, and reads cut by
the end of the storage; with five bytes the ring is overwritten past its end. Two sessions are enough for a sleeping `Accept` to meet its
successor and three for the one after that. Two captures on one path race each
other at every step, and the foreign program makes a third party. Three captures
give two restarts; two controllers give every pair of calls. In `disconnect`, one frame
of room makes the client block with each frame, three questions are the least the
Worker works with, and two events let one be committed, asked about and answered
late while the other is drained. A guard makes one capture. Chunks of 2 records
(8192 in the code) make a listing of five records two full runs and a rest, so that
merging, ties across runs and a run that ends early all happen; the proofs cover every
other chunk size. The traces of `query` start at different times, share a label or
not, and place records before, at and after each bound of the window and the point.
Words of 10 bits, `int64_t` of 9 and units of 1, 10 and 60 put every product and sum of
`parse_time` on both sides of each limit within the times of the run.

**Deadlock** is checked for `Pipe`, `Rendezvous`, `Disconnect`, `Nextest` and `Program`,
whose `Over`, `Ended` and `Done` are the only steps after the end. `Publish` and `Capture`
stop when all saves are over, and in final states.

**Fairness.** `Pipe!FairSpec` and `Rendezvous!FairSpec` say that a thread which is
not blocked gets to run; neither calls nor closes nor spurious wakeups nor the
deadline of `Accept` are assumed to happen. In `Pipe`, time passes (`ReadExpire`
is part of `Reading`). A `CloseEndpoint` that has set its flag goes on to close the pipes.
Properties that need a receiver that reads, or peers that
keep trying, say so as a premise (`KeepsReading`, `PeersKeepTrying`): Tracy's
network threads and the profiler loop do. `Capture!FairSpec` lets a call under way
go on while it is in this code, `shutdown` too: the 30 s of line 163 pass and the destructor's
join ends. It asks nothing else of Tracy, not even that `___tracy_shutdown_profiler` returns,
which `finish` calls before its deadline starts (160) and `shutdown` without one (389), and which
blocks as long as a Worker that neither reads nor closes makes the profiler wait in `Send`. So
`CallsReturn` and `GuardReturns` say that a call, or the guard, ends or is inside that function
(`InProfilerShutdown`). `Disconnect!FairSpec` lets every thread run, and the symbol thread
answer; the deadline need not come. It asks one more thing of Tracy, strong fairness of
`KeepAlive`: a client that serves and has nothing to send passes the place where it
sends its keep-alive again and again, and now and then does. Without it `StopEnds` fails
just because of the lost notification of line 177, which the keep-alive makes up for.
`NextestFairSpec` lets the guard go on (`wait_until_capturing` gives up after 10 s) and
asks nothing of Tracy, the test or `GetState`. `Program` is one thread and needs none:
every step of it but `Done` brings the exit nearer.

## 4. Proofs

All theorems hold for every value of the constants, under the named assumptions of the
modules (`SizesAssumption`: capacity and call lengths are positive; `SessionsAssumption`;
`NamesAssumption`: the marks of a directory entry are not captures; `RoomAssumption`: the
pipes have room for a frame and three questions; `WidthAssumption`: an `int64_t` fits a
`uint64_t`; `ChunkAssumption`: chunks hold a record; `LimitsAssumption`: `Limits` has every
word of 64 bits and no limit; `TestAssumption`: the guard is the one controller;
`InvocationsAssumption`: times and lists of kinds on command lines are what they are tagged
as, there is a file for each path, whose loading may fail, and what it holds is a
`WorkerTrace`). Each component has one inductive invariant, `IInv`, proved action by action,
whose conjuncts are named; `Nextest` and `Program` add invariants of their own to those of
the components they extend.

- **Pipe.** `RingHoldsStream` and `NoLostWakeup` are inductive together with
  `CallsInProgress` (a call in progress has bytes left, an idle sender has none
  pending) and `EndWasTrue` (0 was returned with the ring empty and a side closed, or
  because the receiver's own endpoint was closed, which is what makes the end final). The index arithmetic is in `Wrap`,
  `SlotInRing`, `TailInRing` and `ChunkOnFreeSlots`. `Implementation` shows each
  chunk to be a `Put`, each read a `Get`, each close a `Close`.
- **Rendezvous.** `FlagsCountEnds` ties the endpoints made to the flags, and
  `ObservesBegun` says that a call which began under a session observes it.
  `EndpointsKeptCurrent` is an action property and follows from the guards under
  these two.
- **Publish.** `EntriesAreLinked` says in which stages a capture may be under its
  name, `PartialsAreOpen` where its partial file may be, and `ContentFollows`,
  `CountersFollow` and `StatusFollows` what the stage says of the rest. `OnlyWrittenCaptures` is
  about what the code can tell, a `Write` that returned and a size; that nothing is missing in a
  published file is not claimed.
  `FailuresAreClean` assumes `~UnlinkMayFail`; the run `publish_unlink` shows that it
  needs to.
- **Capture.** `Ownership` says which call points to which Worker and what the
  state is meanwhile; `Over` is the condition after which no capture can start any
  more, and `SessionOfWorker` and `LastSteps` say that a session is only taken from
  under a Worker, and a late `Reset` or `Cancel` of another call only comes, when a
  session guards against the next start or everything is over. `GoesOn` covers all
  steps of `finishImpl` that keep the Worker. `QuietSettles` includes every throw of `finish`,
  `stop` and `shutdown`. These theorems hold for any set of
  controllers, so they do not need the contract of one controlling thread.
  `StatisticsCurrent` and `TerminalStays` do, and say so (`OneController`). Their invariant
  is `SequentialInv`: `Sequential` gives the states in which the single caller can be at
  each step of its call (`StatesAt`), so that nothing but its own step or a `get_state`
  changes the state, and `Statistics` says whether the snapshot or the live counters are
  those of the capture made last, at each step between `start` and `Reset`.
- **Nextest.** `GuardInv` is `SequentialInv` and what the guard knows: between calls the state
  is one that its stage allows (`BetweenCalls`); inside `configure` and `finish` the step of
  the lifecycle is one that this guard can have reached, with the disposition it asked for
  (`InCalls`); and a capture that was seen as `CAPTURING` has data (`PromotedHasData`), which
  is why its `finish` never gives up. The steps of the guard are steps of the lifecycle or
  leave it alone (`GuardStepsLifecycle`), so that the invariant of `Capture` carries over.
  `OutcomeAndCapture`, `CapturedBody` and `GuardTypesHold` follow.
- **Disconnect.** An event is in a queue, in the buffer, in a frame or in the model
  (`Conserved`). Before `stop` nobody speaks of the end (`Untouched`), and producers
  are quiet after it, so nothing enters the queues behind the turn of the drain that
  found both empty (`Drained`) and no event is behind the marker (`MarkerIsLast`). The
  Worker leaves only when it is satisfied, unless `Cancel` closes the pipes
  (`LeavesSatisfied`); then `stop` does not return OK. `AllArrive` follows. Its mutant, the
  unpatched handler, breaks it.
- **ExternalSort.** The invariant is about runs and the heap: a node is the record
  its run was last read to and a run without a node is at its end (`HeapIsFront`), so
  the output is what the runs have been read past (`OutputIsRead`). Hence every
  record not written is at or behind a node of its sorted run
  (`UnwrittenIsBehindNode`), and the top of the heap, which no node precedes, is
  preceded by nothing that is left (`TopIsLeast`); that needs `record_less` to be an
  order whose incomparable records are equal (`NotLessTransitive`) and the heap's
  comparison to be its reverse (`OrdersAgree`). `TruncationIsExact` counts: the
  output is an injection into the records.
- **Program** (`QueryProofs`). `ProgramBase` is the invariant under all of the following:
  the sorter's `IInv`; that the sorter runs only in a listing; `Inputs`, what was parsed and
  visited (the traces are `WorkerTrace`s, the options typed; a visited record has the types
  `record_less` compares, and is told apart by its source and number but for hardware
  samples); and `Progress` (before the query nothing is visited, then the options are valid,
  and a query that succeeds has visited everything). Each step of the program is a step of
  the sorter, leaves it alone, or is the end of point mode, which sets `truncated` itself;
  hence `ProgramSorts`.
  - *Command line.* `TimesAreExact` is arithmetic: an unchecked sum or product that wraps
    round would need a factor the checks refuse; the division of the scaled fraction has no
    rest, so that scaling back gives what was written. `TimesTaken` carries it over to command
    lines. `ParserTyped` goes through the parser argument by argument; what the final checks
    let pass then meets each conjunct of the Matcher's (`OptionsAreValid`).
  - *Point mode.* `PointHolds`: the maps hold, per key, the newest and the earliest record of
    those visited (`LatestOk`, `NextOk`), and the list those that span the point, each
    identity once (`ActiveOk`). At the end the maps are joined (`JoinedIs`) and sorted by any
    permutation `std::sort` may choose; `PointModeAnswers` follows.
  - *Counts.* `CountHolds`: count and groups are those of the records asked for among the
    visited (`TallyOf`, over the set `WantedTo`); `CountsAreRight`.
  - *Listing.* `ListHolds`: each record in the sorter has a place of its own among the visited
    records that are asked for, and none of those is left out. With the sorter's theorems the
    places compose to those of the output (`ListingsAreRight`).
    `Asked` is written with intervals as sets; `AskedIsWanted` shows that
    `temporal_range_match` says the same.
  - *Sources.* `SourcesHold`: the answer of `sources` is the listing of `discover_sources`.
    That the listing agrees with what a query visits is about data alone. Counts:
    bijections between the places of a source's items in the collections and its records
    (`CountFlat`, `CountParts`, `SourceCounted`). Extents: what the shortcuts look at covers
    the rest, as front and back of an ordered collection bound it and zones lie in their
    roots (`FrontAndBack`, `RootsCover`, `TimesCover`), so that the extremes are the same
    (`SameLeast`, `SameGreatest`). `SourcesAgree` follows.
  - *Types.* `TypesInv` adds counts, exit status and failure, and `TypesHold` follows.

  What recursion computes is dealt with in first-order terms: a set of naturals that has 0
  and is closed under successor is all of them (`NatSetInduction`, from the least element of
  a set), recursive functions exist (`Recursion`), and `FlattenSeq` of the library is
  described by the places its items come from (`FlattenIs`, `FlattenOrdered`, `FlattenPlaces`).

Every invariant and action property of the passing runs is stated by a theorem. Liveness
stays with TLC: fairness and `ENABLED` are beyond the prover. So `BlockedCallsReturn`,
`PutBytesArrive`, `AcceptNoticesTeardown`, `PeersMeet`, `CallsReturn`, `StopEnds` and
`GuardReturns` are model-checked only, on the instances of section 3. What the theorems say of
the tags of the command line, of regular expressions as sets of texts and of the Worker's
collections is as good as these abstractions.

## 5. Findings

1. `writePipe` waits for `readerClosed` or room, never for `writerClosed`
   (lines 93-95). Closing or destroying the endpoint that sends, from another
   thread, leaves a sender blocked in a full pipe until the peer reads or closes.
   `docs/architecture.md:30` says that closing wakes all blocked readers and
   writers. `Cancel` does release it, as it closes both sides.
2. `atomicPublish` removes the partial file with the throwing `remove` after the
   hard link is made (lines 117-118). If that fails, the save returns `IO_ERROR` and
   the state is `FAILED`, while the complete capture is under its final name.
   `docs/architecture.md:109-112` promises failures without a published capture.
3. Hardware samples are numbered from zero for every address (`query.cpp:546`), so
   two samples of one counter can have one identity (724-726). With `--latest --next`
   the next sample is then taken for one that is already selected and is dropped
   (956), against "per trace/source/kind" of the documentation of `--next`.
4. A temporary file that cannot be written or read back throws `OutputError` (800,
   807, 816, 835), which `main.cpp:26` takes for a closed pipe: the query ends with
   status 0, an incomplete answer and no message. `tracy-query/docs/cli.md:56` promises 1.

Two more disagreements with a document have no run of their own:

- A fraction whose product does not fit 64 bits is refused (`time.cpp:90`) although it resolves
  exactly: `0.1000000000h` is 360 s. `tracy-query/SKILL.md:197` says "Fractional values are
  accepted when they resolve exactly to nanoseconds." `TimesAreTaken` is about the converse and
  about numbers without a fraction, and says nothing of refused fractions.
- A `Write` that returns and leaves a short file is published and reported as `OK`, since only
  size 0 is refused (`embedded_capture.cpp:230-232`), where `docs/architecture.md:109-112` names
  writer failures among those "reported without publishing a final capture". Whether this can
  happen, as on a full disk, is up to Tracy's `FileWrite`.

Met while modelling, and not known to contradict a document of the repository:

- `sources` takes the end of a thread's last context switch and of a cpu's last slice as
  it is (`commands.cpp:227`, 315), also when the capture ended before it: the source then
  has a negative last time, where a query shows the record without an end. `SourcesAnswer`
  asks for extents only of traces whose records have ended.
- `sources` lists the capture only when it crashed, and then with the time of the crash alone
  (`commands.cpp:345-351`), while a query shows the cpu usage under the same source
  (`query.cpp:511`). An earlier form of `SourcesAnswer` counted the usage in the extent;
  its run passed because in its traces the crash and an open context switch came together,
  and the attempt to prove it showed the counterexample. `Agrees` now leaves cpu usage out,
  and the traces of the run have the crash by itself.
- `--from end` is the largest `int64_t` (`cli.cpp:173`) and matches nothing, though
  `--to end` is the end of each trace.
- A policy that is not UTF-8 is the same as none (`lib.rs:161`), where a misspelt one is an
  error; both are in `Environments`.
- A Worker that ends its connection of its own accord is taken for one that was drained
  (`embedded_capture.cpp:164`, 181).

## 6. Not modelled, and the plan

Not modelled: the texts of output, help and errors; the metadata of `info`; Tracy itself
beyond what the patches and the transport meet; build and packaging files; the Rust client
crate (a build script and a manifest check that is one conjunction); the data race on the
string behind the pointer of `GetError`; the pieces in which a `Socket` reads a
frame. In `Disconnect` the frames are whole: a `Send` that fails half way ends the
connection, whose remains `Pipe` is about.

What is left to do:

- `Disconnect` as a refinement of the two steps (`RequestDisconnect`, `WorkerCloses`) by which
  `Capture` abstracts it.
