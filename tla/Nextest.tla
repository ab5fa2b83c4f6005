------------------------------- MODULE Nextest -------------------------------
(***************************************************************************)
(* tracy-nextest-capture: the guard around one test, which captures the    *)
(* attempt through the one-shot lifecycle of Capture, lets the test run    *)
(* under catch_unwind, saves or drops the capture by policy and outcome,   *)
(* and gives the outcome on or exits with 70.                              *)
(*                                                                         *)
(* The guard is the only controller of Capture, whose actions are its      *)
(* steps.  What a call returned is read off the state it left: the guard   *)
(* makes no call that is refused without changing it, other than configure *)
(* on an output that exists.                                               *)
(***************************************************************************)
EXTENDS Capture

CONSTANT test  \* the test's thread

ASSUME TestAssumption == Controllers = {test}

VARIABLES
  environment,  \* what the guard reads from the environment
  stage,        \* where the guard is
  outcome,      \* what the test's body came to
  result        \* what the process makes of it

guardVars == <<environment, stage, outcome, result>>
nextestVars == <<vars, guardVars>>

Policies == {"off", "failure", "always"}
Outcomes == {"passed", "error", "panicked"}

\* identity: the four variables of an attempt are there; policy: the value of
\* TRACY_NEXTEST_CAPTURE; usable: the directory exists, the names are UTF-8 and
\* the native library has the expected ABI.
Environments ==
  [identity: BOOLEAN, policy: Policies \cup {"unset", "not UTF-8", "misspelt"}, usable: BOOLEAN]

\* parse_policy, for every value but a misspelt one.
Policy == IF environment.policy \in {"unset", "not UTF-8"} THEN "off" ELSE environment.policy

Inert == ~environment.identity \/ Policy = "off"
Misconfigured == ~Inert /\ (Policy = "misspelt" \/ ~environment.usable)
Capturing == ~Inert /\ ~Misconfigured

GuardInit ==
  /\ Init
  /\ environment \in Environments
  /\ stage = "start" /\ outcome = "none" /\ result = "none"

Enter(next) == stage' = next /\ UNCHANGED <<environment, outcome, result>>

\* configuration_failure and finalization_failure
Exit70 == stage' = "ended" /\ result' = "exit 70" /\ UNCHANGED <<environment, outcome>>

\* Start yields no capture: the body runs without.
StartInert ==
  /\ stage = "start" /\ Inert
  /\ Enter("body")
  /\ UNCHANGED vars

\* It refuses, or configure refuses a path that is in use.
StartRefused ==
  /\ stage = "start" /\ ~Inert
  /\ Exit70
  /\ UNCHANGED vars

StartConfigures ==
  /\ stage = "start" /\ Capturing
  /\ \/ Configure(test, FALSE) \/ ConfigureFails(test, FALSE)
     \/ ConfigureThrows(test, FALSE) \/ WorkerThrows(test, FALSE)
  /\ Enter("configuring")

\* The rest of a call of the lifecycle, which may throw.
CallContinues == at[test] # "idle" /\ Finishing(test) /\ UNCHANGED guardVars
CallThrows == at[test] # "idle" /\ FinishThrows(test) /\ UNCHANGED guardVars

\* finish shuts Tracy's profiler down, which may take as long as it likes.
CallShutsDown == ShutdownClient(test) /\ UNCHANGED guardVars

\* A bug: the outcome is passed on while the capture is still being finished.
Returned_Early == TRUE

Returned == at[test] = "idle"

ConfigureReturns ==
  /\ stage = "configuring" /\ Returned
  /\ IF state = "CONFIGURED" THEN Enter("client") ELSE Exit70
  /\ UNCHANGED vars

\* Client::start; the profiler may be running already.
StartClient ==
  /\ stage = "client"
  /\ \/ ProfilerStarts
     \/ profiler = "running" /\ UNCHANGED vars
  /\ Enter("waiting")

\* A bug: the test runs as soon as there is a Worker.
Ready_Early == state \in {"CONFIGURED", "CAPTURING"}

Ready == state = "CAPTURING"

\* wait_until_capturing: get_state is polled, which promotes the state, until 10
\* seconds have passed.
Poll == stage = "waiting" /\ GetState /\ UNCHANGED guardVars
WaitEnds ==
  /\ stage = "waiting"
  /\ \/ Ready /\ Enter("body")
     \/ ~Ready /\ Exit70
  /\ UNCHANGED vars

\* The body returns, returns an error or unwinds.
Body ==
  /\ stage = "body" /\ outcome = "none"
  /\ outcome' \in Outcomes
  /\ UNCHANGED <<vars, environment, stage, result>>

Failed == outcome \in {"error", "panicked"}

\* finish: what is kept is decided by outcome and policy.
FinishCapture ==
  /\ stage = "body" /\ outcome # "none" /\ Capturing
  /\ FinishBegins(test, Failed \/ Policy = "always", FALSE)
  /\ Enter("finishing")

\* A bug: a capture that cannot be kept does not change the test's result.
Conclude_Anyhow == stage' = "ended" /\ result' = outcome /\ UNCHANGED <<environment, outcome>>

\* The outcome is returned, or the panic resumed, once the capture is done with.
Conclude ==
  IF stage = "finishing" /\ state \notin {"FINISHED", "DISCARDED"}
  THEN Exit70
  ELSE stage' = "ended" /\ result' = outcome /\ UNCHANGED <<environment, outcome>>

FinishReturns ==
  /\ \/ stage = "body" /\ outcome # "none" /\ Inert
     \/ stage = "finishing" /\ Returned
  /\ Conclude
  /\ UNCHANGED vars

\* The Worker and the network of Tracy run along while the process lives.
Tracy ==
  /\ stage # "ended"
  /\ \E g \in Captures : WorkerConnects(g) \/ WorkerGetsData(g) \/ WorkerCloses(g)
  /\ UNCHANGED guardVars

Ended == stage = "ended" /\ UNCHANGED nextestVars

Guard ==
  \/ StartInert \/ StartRefused \/ StartConfigures \/ CallContinues \/ ConfigureReturns
  \/ StartClient \/ WaitEnds \/ FinishCapture \/ FinishReturns

NextestNext == Guard \/ CallThrows \/ CallShutsDown \/ Poll \/ Body \/ Tracy \/ Ended

NextestSpec == GuardInit /\ [][NextestNext]_nextestVars

\* The guard goes on; the test's body need not end, no call throw, nor Tracy do
\* anything, and ___tracy_shutdown_profiler need not return.
NextestFairSpec == NextestSpec /\ WF_nextestVars(Guard)

-----------------------------------------------------------------------------
(* Properties *)

NextestTypeOK ==
  /\ TypeOK
  /\ environment \in Environments
  /\ stage \in {"start", "configuring", "client", "waiting", "body", "finishing", "ended"}
  /\ outcome \in Outcomes \cup {"none"}
  /\ result \in Outcomes \cup {"none", "exit 70"}
  /\ at[test] # "idle" => stage \in {"configuring", "finishing"}

\* docs/usage.md, "Lifecycle and safety" and the table of outcomes: a test ends as
\* it would without the guard only if the lifecycle came to FINISHED, where the
\* policy asks for a capture, to DISCARDED, where it does not, or was never begun;
\* and the process exits with 70 only if the lifecycle came to neither.  (A save
\* that failed may still have published its file: FailureLeavesNoOutput of Publish.)
KeptAsAsked ==
  stage = "ended" =>
    \/ /\ result = outcome /\ outcome # "none"
       /\ state = IF Inert THEN "UNCONFIGURED"
                  ELSE IF outcome # "passed" \/ environment.policy = "always" THEN "FINISHED"
                  ELSE "DISCARDED"
    \/ result = "exit 70" /\ ~Inert /\ state \notin {"FINISHED", "DISCARDED"}

\* A captured test runs with a Worker that has joined its session and receives
\* data, so that its finish always finds something to drain: neither does the
\* state it waited for go back, nor is it reached by another session's Worker.
BodyIsCaptured ==
  /\ stage = "body" /\ Capturing =>
       /\ state = "CAPTURING" /\ worker \in hasData
       /\ joined[worker] = session /\ session \notin cancelled
  /\ stage = "finishing" => at[test] # "give up"

\* A process whose test has run ends, whatever the Worker does, unless its finish
\* is inside ___tracy_shutdown_profiler, which the 30 seconds of finishImpl do not
\* cover (embedded_capture.cpp:160, 163).
GuardReturns == outcome # "none" ~> stage = "ended" \/ InProfilerShutdown(test)
=============================================================================
