------------------------------- MODULE Capture -------------------------------
(***************************************************************************)
(* The lifecycle of embedded captures: the coordinator of                  *)
(* embedded_capture.cpp and its calls configure, start, finish, stop,      *)
(* shutdown, get_state and get_statistics, with the Worker of each capture *)
(* and the profiler at the other end of the transport.                     *)
(*                                                                         *)
(* Each lock of the coordinator's mutex is one action, and so is each call *)
(* into the transport, the Worker or the profiler in between.  The ring,   *)
(* the rendezvous and the file are abstracted to what the lifecycle sees   *)
(* of them; Pipe, Rendezvous and Publish have their detail.  Captures are  *)
(* numbered: a number stands for the Session that Configure makes and for  *)
(* the Worker made for it.  docs/architecture.md allows one controlling    *)
(* thread; with more of them the model says what the mutex still protects. *)
(***************************************************************************)
EXTENDS Integers, FiniteSets

CONSTANTS
  Controllers,   \* the threads that make lifecycle calls
  MaxCaptures    \* bound: how many sessions the process configures

ASSUME CapturesAssumption == MaxCaptures \in Nat \ {0}

Captures == 1..MaxCaptures
NoCapture == 0

VARIABLES
  state,      \* value.state
  reusable,   \* value.reusable
  worker,     \* the Worker that value.worker owns, or NoCapture
  snapshot,   \* whose statistics value.transportSnapshot holds, or NoCapture
  made,       \* how many sessions Configure made
  session,    \* gSession of the transport, or NoCapture
  cancelled,  \* the sessions that were cancelled
  profiler,   \* "off", "running" (___tracy_profiler_started) or "down"
  listening,  \* gListening of the transport
  alive,      \* the Workers that are constructed and not destroyed
  link,       \* the connection of a Worker: "joining", "connected" or "closed"
  joined,     \* the session a Worker joined, or NoCapture
  hasData,    \* the Workers whose HasData is true
  at,         \* the next step of a controller's call, "idle" between calls
  held,       \* the Worker a call in finishImpl points to, or NoCapture
  saving,     \* the disposition of that call is SAVE
  stopping    \* reusableStop of that call

coordinator == <<state, reusable, worker, snapshot>>
transport == <<made, session, cancelled, listening>>
peers == <<profiler, alive, link, joined, hasData>>
locals == <<held, saving, stopping>>
vars == <<coordinator, transport, peers, at, locals>>

States == {"UNCONFIGURED", "CONFIGURED", "CAPTURING", "FINISHING",
           "FINISHED", "FAILED", "DISCARDED", "IDLE"}
FinishSteps == {"check", "give up", "drain", "wait", "abort", "snapshot", "save",
                "complete", "destroy", "reset"}
ShutdownSteps == {"shut down", "shutdown reset", "shutdown end"}
Steps == {"idle", "fail", "cancel"} \cup FinishSteps \cup ShutdownSteps

Init ==
  /\ state = "UNCONFIGURED" /\ reusable = FALSE
  /\ worker = NoCapture /\ snapshot = NoCapture
  /\ made = 0 /\ session = NoCapture /\ cancelled = {}
  /\ profiler = "off" /\ listening = FALSE
  /\ alive = {}
  /\ link = [g \in Captures |-> "joining"]
  /\ joined = [g \in Captures |-> NoCapture]
  /\ hasData = {}
  /\ at = [c \in Controllers |-> "idle"]
  /\ held = [c \in Controllers |-> NoCapture]
  /\ saving = [c \in Controllers |-> FALSE]
  /\ stopping = [c \in Controllers |-> FALSE]

Goto(c, step) == at' = [at EXCEPT ![c] = step]

-----------------------------------------------------------------------------
(* configure and start: configureImpl, under the mutex from line 283 on. *)

MayConfigure(reuse) ==
  \/ state = "UNCONFIGURED" /\ (reuse => profiler # "running")
  \/ reuse /\ state = "IDLE" /\ profiler = "running"

\* A bug: a session in place is thrown away.
ConfigureRefuses_Never == FALSE

\* tracy::embedded::Configure: another session is still there.
ConfigureRefuses == session # NoCapture

\* A bug: the statistics of the capture before stay in place.
SnapshotAtStart_Kept == snapshot

\* hasTransportSnapshot is cleared.
SnapshotAtStart == NoCapture

\* A bug: the number of a session is given out again.
MakeSession_Again ==
  /\ ~ConfigureRefuses
  /\ made < MaxCaptures
  /\ session' = made + 1
  /\ UNCHANGED <<made, cancelled, listening>>

MakeSession ==
  /\ ~ConfigureRefuses
  /\ made < MaxCaptures
  /\ made' = made + 1
  /\ session' = made + 1
  /\ UNCHANGED <<cancelled, listening>>

Configure(c, reuse) ==
  /\ at[c] = "idle"
  /\ MayConfigure(reuse)
  /\ MakeSession
  /\ worker' = made + 1
  /\ alive' = alive \cup {made + 1}
  /\ reusable' = reuse
  /\ snapshot' = SnapshotAtStart
  /\ state' = "CONFIGURED"
  /\ UNCHANGED <<profiler, link, joined, hasData, at, locals>>

\* A session is in place, the capacity is too large or there is no memory.
ConfigureFails(c, reuse) ==
  /\ at[c] = "idle"
  /\ MayConfigure(reuse)
  /\ state' = "FAILED"
  /\ UNCHANGED <<reusable, worker, snapshot, transport, peers, at, locals>>

\* exists, or the path conversion before it, throws: the mutex is free again
\* when the handler calls setFailure.
ConfigureThrows(c, reuse) ==
  /\ at[c] = "idle"
  /\ MayConfigure(reuse)
  /\ Goto(c, "fail")
  /\ UNCHANGED <<coordinator, transport, peers, locals>>

\* The Worker cannot be made: its session stays.
WorkerThrows(c, reuse) ==
  /\ at[c] = "idle"
  /\ MayConfigure(reuse)
  /\ MakeSession
  /\ Goto(c, "fail")
  /\ UNCHANGED <<coordinator, peers, locals>>

-----------------------------------------------------------------------------
(* finish and stop: finishImpl and the handlers around it. *)

MayFinish(stop) == state \in {"CONFIGURED", "CAPTURING"} /\ reusable = stop

FinishBegins(c, save, stop) ==
  /\ at[c] = "idle"
  /\ MayFinish(stop)
  /\ state' = "FINISHING"
  /\ held' = [held EXCEPT ![c] = worker]
  /\ saving' = [saving EXCEPT ![c] = save]
  /\ stopping' = [stopping EXCEPT ![c] = stop]
  /\ Goto(c, "check")
  /\ UNCHANGED <<reusable, worker, snapshot, transport, peers>>

\* A bug: a Worker without data is drained like any other.
HasCapture_Assumed(c) == TRUE

HasCapture(c) ==
  held[c] # NoCapture /\ held[c] \in hasData /\ profiler = "running"

FinishChecks(c) ==
  /\ at[c] = "check"
  /\ Goto(c, IF HasCapture(c) THEN "drain" ELSE "give up")
  /\ UNCHANGED <<coordinator, transport, peers, locals>>

\* A bug: a finish without data makes room for the next start right away.
GiveUp_Restarts(c) ==
  /\ at[c] \in {"give up", "abort"}
  /\ state' = "IDLE"
  /\ session' = NoCapture
  /\ held' = [held EXCEPT ![c] = NoCapture]
  /\ Goto(c, "idle")
  /\ UNCHANGED <<reusable, worker, snapshot, made, cancelled, listening, peers, saving, stopping>>

\* Cancel and Worker::Disconnect, on lines 147-148 and 173-174.
GiveUp(c) ==
  /\ at[c] \in {"give up", "abort"}
  /\ cancelled' = cancelled \cup ({session} \ {NoCapture})
  /\ Goto(c, "fail")
  /\ UNCHANGED <<coordinator, made, session, listening, peers, locals>>

\* stop asks the Worker to disconnect.
RequestDisconnect(c) ==
  /\ at[c] = "drain"
  /\ stopping[c]
  /\ Goto(c, "wait")
  /\ UNCHANGED <<coordinator, transport, peers, locals>>

\* finish shuts the profiler down: ___tracy_shutdown_profiler returns.
ShutdownClient(c) ==
  /\ at[c] = "drain"
  /\ ~stopping[c]
  /\ profiler' = "down"
  /\ Goto(c, "wait")
  /\ UNCHANGED <<coordinator, transport, alive, link, joined, hasData, locals>>

WorkerIsDone(c) ==
  /\ at[c] = "wait"
  /\ link[held[c]] # "connected"
  /\ Goto(c, "snapshot")
  /\ UNCHANGED <<coordinator, transport, peers, locals>>

\* A bug: the wait has no deadline.
DeadlinePasses_Never(c) == FALSE

DeadlinePasses(c) == link[held[c]] = "connected"

FinishTimesOut(c) ==
  /\ at[c] = "wait"
  /\ DeadlinePasses(c)
  /\ Goto(c, "abort")
  /\ UNCHANGED <<coordinator, transport, peers, locals>>

TakeSnapshot(c) ==
  /\ at[c] = "snapshot"
  /\ snapshot' = session
  /\ Goto(c, IF saving[c] THEN "save" ELSE "complete")
  /\ UNCHANGED <<state, reusable, worker, transport, peers, locals>>

\* The file is published, or it is not; Publish has the detail.
SaveCapture(c) ==
  /\ at[c] = "save"
  /\ \E next \in {"complete", "fail"} : Goto(c, next)
  /\ UNCHANGED <<coordinator, transport, peers, locals>>

FinishCompletes(c) ==
  /\ at[c] = "complete"
  /\ state' = IF stopping[c] THEN "IDLE" ELSE IF saving[c] THEN "FINISHED" ELSE "DISCARDED"
  /\ worker' = NoCapture
  /\ Goto(c, "destroy")
  /\ UNCHANGED <<reusable, snapshot, transport, peers, locals>>

AfterDestroy(c) == IF stopping[c] THEN "reset" ELSE "idle"

DestroyWorker(c) ==
  /\ at[c] = "destroy"
  /\ alive' = alive \ {held[c]}
  /\ link' = [link EXCEPT ![held[c]] = "closed"]
  /\ held' = [held EXCEPT ![c] = NoCapture]
  /\ Goto(c, AfterDestroy(c))
  /\ UNCHANGED <<coordinator, transport, profiler, joined, hasData, saving, stopping>>

ResetTransport(c) ==
  /\ at[c] \in {"reset", "shutdown reset"}
  /\ session' = NoCapture
  /\ Goto(c, IF at[c] = "reset" THEN "idle" ELSE "shutdown end")
  /\ UNCHANGED <<coordinator, made, cancelled, listening, peers, locals>>

\* A bug: an error path leaves the state as it found it.
FailureState_Kept == state

FailureState == "FAILED"

\* setFailure of the error paths.
SetFailure(c) ==
  /\ at[c] = "fail"
  /\ state' = FailureState
  /\ held' = [held EXCEPT ![c] = NoCapture]
  /\ Goto(c, "idle")
  /\ UNCHANGED <<reusable, worker, snapshot, transport, peers, saving, stopping>>

\* finishImpl throws outside its try block: setFailure, then Cancel.
FinishThrows(c) ==
  /\ at[c] \in {"check", "drain", "wait", "snapshot"}
  /\ state' = "FAILED"
  /\ held' = [held EXCEPT ![c] = NoCapture]
  /\ Goto(c, "cancel")
  /\ UNCHANGED <<reusable, worker, snapshot, transport, peers, saving, stopping>>

CancelAfterThrow(c) ==
  /\ at[c] = "cancel"
  /\ cancelled' = cancelled \cup ({session} \ {NoCapture})
  /\ Goto(c, "idle")
  /\ UNCHANGED <<coordinator, made, session, listening, peers, locals>>

-----------------------------------------------------------------------------
(* shutdown, and the calls that only look *)

ShutdownBegins(c) ==
  /\ at[c] = "idle"
  /\ state = "IDLE" /\ reusable /\ profiler = "running"
  /\ state' = "FINISHING"
  /\ Goto(c, "shut down")
  /\ UNCHANGED <<reusable, worker, snapshot, transport, peers, locals>>

\* ___tracy_shutdown_profiler returns.
ShutdownProfiler(c) ==
  /\ at[c] = "shut down"
  /\ profiler' = "down"
  /\ Goto(c, "shutdown reset")
  /\ UNCHANGED <<coordinator, transport, alive, link, joined, hasData, locals>>

ShutdownEnds(c) ==
  /\ at[c] = "shutdown end"
  /\ reusable' = FALSE
  /\ state' = "FINISHED"
  /\ Goto(c, "idle")
  /\ UNCHANGED <<worker, snapshot, transport, peers, locals>>

\* A call of its try block throws; the handlers are setFailure alone.
ShutdownThrows(c) ==
  /\ at[c] \in ShutdownSteps
  /\ Goto(c, "fail")
  /\ UNCHANGED <<coordinator, transport, peers, locals>>

\* A bug: a state that a finish has moved on is taken back.
Promotable_Late == worker # NoCapture /\ worker \in hasData

Promotable == state = "CONFIGURED" /\ worker # NoCapture /\ worker \in hasData

\* get_state, from any thread, promotes the state.
GetState ==
  /\ Promotable
  /\ state' = "CAPTURING"
  /\ UNCHANGED <<reusable, worker, snapshot, transport, peers, at, locals>>

\* The capture whose statistics get_statistics returns.
StatisticsSource == IF snapshot # NoCapture THEN snapshot ELSE session

-----------------------------------------------------------------------------
(* The Worker threads and the profiler, as this code uses them *)

\* The profiler calls Listen when it starts, and then never again.
ProfilerStarts ==
  /\ profiler = "off"
  /\ profiler' = "running"
  /\ listening' = (session # NoCapture /\ session \notin cancelled)
  /\ UNCHANGED <<coordinator, made, session, cancelled, alive, link, joined, hasData, at, locals>>

\* A Worker connects to whatever session is there.
WorkerConnects(g) ==
  /\ g \in alive /\ link[g] = "joining"
  /\ session # NoCapture /\ listening /\ session \notin cancelled
  /\ \A h \in Captures : joined[h] # session
  /\ link' = [link EXCEPT ![g] = "connected"]
  /\ joined' = [joined EXCEPT ![g] = session]
  /\ UNCHANGED <<coordinator, transport, profiler, alive, hasData, at, locals>>

\* The handshake is over and the first events are there.
WorkerGetsData(g) ==
  /\ g \in alive /\ link[g] = "connected"
  /\ profiler = "running" /\ joined[g] \notin cancelled
  /\ hasData' = hasData \cup {g}
  /\ UNCHANGED <<coordinator, transport, profiler, alive, link, joined, at, locals>>

\* The connection ends: on request, with the profiler, on a cancelled pipe, or
\* by the Worker's own decision.
WorkerCloses(g) ==
  /\ g \in alive /\ link[g] = "connected"
  /\ link' = [link EXCEPT ![g] = "closed"]
  /\ UNCHANGED <<coordinator, transport, profiler, alive, joined, hasData, at, locals>>

-----------------------------------------------------------------------------
Finishing(c) ==
  \/ FinishChecks(c) \/ GiveUp(c) \/ RequestDisconnect(c) \/ WorkerIsDone(c)
  \/ FinishTimesOut(c) \/ TakeSnapshot(c) \/ SaveCapture(c) \/ FinishCompletes(c)
  \/ DestroyWorker(c) \/ ResetTransport(c) \/ SetFailure(c) \/ CancelAfterThrow(c)

\* A call is inside ___tracy_shutdown_profiler, which has no deadline.
InProfilerShutdown(c) == (at[c] = "drain" /\ ~stopping[c]) \/ at[c] = "shut down"

ProfilerShutdown(c) == ShutdownClient(c) \/ ShutdownProfiler(c)

Next ==
  \/ \E c \in Controllers, reuse \in BOOLEAN :
       \/ Configure(c, reuse) \/ ConfigureFails(c, reuse)
       \/ ConfigureThrows(c, reuse) \/ WorkerThrows(c, reuse)
       \/ \E save \in BOOLEAN : FinishBegins(c, save, reuse)
  \/ \E c \in Controllers :
       \/ Finishing(c) \/ FinishThrows(c) \/ ProfilerShutdown(c)
       \/ ShutdownBegins(c) \/ ShutdownEnds(c) \/ ShutdownThrows(c)
  \/ GetState \/ ProfilerStarts
  \/ \E g \in Captures : WorkerConnects(g) \/ WorkerGetsData(g) \/ WorkerCloses(g)

Spec == Init /\ [][Next]_vars

\* A call under way goes on where it is in this code; nothing is asked of the
\* Worker or the profiler, not even that ___tracy_shutdown_profiler returns.
FairSpec == Spec /\ \A c \in Controllers : WF_vars(Finishing(c) \/ ShutdownEnds(c))

-----------------------------------------------------------------------------
(* Properties *)

TypeOK ==
  /\ state \in States /\ reusable \in BOOLEAN
  /\ made \in 0..MaxCaptures
  /\ worker \in 0..made /\ snapshot \in 0..made /\ session \in 0..made
  /\ cancelled \subseteq 1..made
  /\ profiler \in {"off", "running", "down"} /\ listening \in BOOLEAN
  /\ alive \subseteq 1..made
  /\ link \in [Captures -> {"joining", "connected", "closed"}]
  /\ joined \in [Captures -> 0..made]
  /\ hasData \subseteq 1..made
  /\ at \in [Controllers -> Steps]
  /\ held \in [Controllers -> 0..made]
  /\ saving \in [Controllers -> BOOLEAN] /\ stopping \in [Controllers -> BOOLEAN]

\* docs/architecture.md:44 "supports at most one active Worker": no two Workers
\* exist at a time, not even while the one before is being destroyed.
OneWorker == \A g, h \in alive : g = h

\* The Worker that finishImpl uses outside the mutex is not destroyed under it,
\* and no two calls use the same one.
PointerIsAlive ==
  \A c \in Controllers : held[c] # NoCapture =>
    /\ held[c] \in alive
    /\ \A d \in Controllers : held[d] = held[c] => d = c

\* At most one Worker, and whoever works on it has it to itself until it is gone.
WorkerIsOwned == OneWorker /\ PointerIsAlive

\* A Worker only ever joins the session that was configured for it: the events
\* of one capture never reach the model of another.
OwnSession == \A g \in Captures : joined[g] \in {NoCapture, g}

\* A capture that can be finished has its Worker and its session, and nobody
\* cancelled or reset that session.
ActiveHasSession ==
  state \in {"CONFIGURED", "CAPTURING"} =>
    /\ worker # NoCapture /\ worker \in alive
    /\ session = worker /\ session \notin cancelled

\* A Worker has one session and keeps it until it is finished with, however two
\* threads start, finish and stop captures.
SessionIsKept == OwnSession /\ ActiveHasSession

\* Once no call is under way, none left the coordinator in FINISHING, where every
\* later call is refused, and an idle process has no Worker and no session left:
\* embedded_capture.h, stop: the profiler is left "ready for another start".
QuietIsSettled ==
  (\A c \in Controllers : at[c] = "idle") =>
    /\ state # "FINISHING"
    /\ state = "IDLE" => alive = {} /\ session = NoCapture

\* get_statistics speaks of the last capture that was started, from its start
\* to the next one, also after the transport was reset; only a start that fails
\* may leave a session behind that it does not speak of.
StatisticsAreCurrent ==
  state \notin {"UNCONFIGURED", "FAILED"} /\ (\A c \in Controllers : at[c] # "fail") =>
    StatisticsSource = made

\* FINISHED, FAILED and DISCARDED are final.
Terminal == state \in {"FINISHED", "FAILED", "DISCARDED"}
TerminalIsFinal == [][Terminal => state' = state]_vars

\* A capture is only saved, or dropped with OK, when its Worker has joined its
\* own session, has received data and has left again.  IsConnected is false for a
\* Worker that never joined as well, so the wait of line 164 does not tell.
SavesDrained ==
  \A c \in Controllers :
    at[c] \in {"snapshot", "save", "complete", "destroy"} =>
      /\ held[c] \in hasData
      /\ joined[held[c]] = held[c] /\ link[held[c]] = "closed"

\* A call returns, whatever the Worker does (the 30 s of line 163), unless it is
\* inside ___tracy_shutdown_profiler: finish calls it before its deadline starts
\* (160), shutdown has none (389), and it may block for as long as a Worker that
\* neither reads nor closes makes it.  Nowhere else does a call stay.
CallsReturn ==
  \A c \in Controllers : at[c] # "idle" ~> at[c] = "idle" \/ InProfilerShutdown(c)
=============================================================================
