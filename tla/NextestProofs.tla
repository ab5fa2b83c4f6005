----------------------------- MODULE NextestProofs -----------------------------
(***************************************************************************)
(* Proofs about Nextest, over those about the lifecycle it controls.       *)
(***************************************************************************)
EXTENDS Nextest, CaptureProofs

\* What a finish that ends as it should makes of the capture.
Kept == IF outcome # "passed" \/ environment.policy = "always" THEN "FINISHED" ELSE "DISCARDED"

\* The state was promoted for the Worker that is still the coordinator's.
PromotedHasData == state = "CAPTURING" => worker \in hasData

\* What the guard's own variables say before each of its steps.
GuardTypes ==
  /\ environment \in Environments
  /\ stage \in {"start", "configuring", "client", "waiting", "body", "finishing", "ended"}
  /\ outcome \in Outcomes \cup {"none"}
  /\ stage = "ended" \/ result = "none"
  /\ stage \in {"start", "configuring", "client", "waiting"} => outcome = "none"
  /\ stage = "finishing" => outcome # "none"

\* Where the lifecycle is when the guard is between its calls,
BetweenCalls ==
  /\ stage \notin {"configuring", "finishing"} => at[test] = "idle"
  /\ stage = "start" => state = "UNCONFIGURED"
  /\ stage \in {"configuring", "client", "waiting", "finishing"} => Capturing
  /\ stage = "client" => state = "CONFIGURED"
  /\ stage = "waiting" => state \in {"CONFIGURED", "CAPTURING"}
  /\ stage = "body" => \/ Inert /\ state = "UNCONFIGURED"
                       \/ Capturing /\ state = "CAPTURING"
  /\ stage \in {"waiting", "body"} /\ Capturing => profiler = "running"

\* in configure, and in finish.
InCalls ==
  /\ stage = "configuring" =>
       \/ at[test] = "fail"
       \/ at[test] = "idle" /\ state \in {"CONFIGURED", "FAILED"}
  /\ stage = "finishing" =>
       /\ saving[test] <=> Kept = "FINISHED"
       /\ ~stopping[test]
       /\ at[test] \notin {"give up", "reset"} \cup ShutdownSteps
       /\ at[test] = "check" => profiler = "running" /\ held[test] \in hasData
       /\ at[test] = "destroy" => state = Kept
       /\ at[test] = "idle" => state \in {Kept, "FAILED"}

GuardInv ==
  /\ SequentialInv
  /\ PromotedHasData /\ GuardTypes /\ BetweenCalls /\ InCalls /\ KeptAsAsked

\* The guard runs in one thread, so that what is proved of one controller holds.
LEMMA OneGuard == OneController
  BY TestAssumption DEF OneController

\* The guard's steps are steps of the lifecycle, or do not touch it.
LEMMA GuardStepsLifecycle == NextestNext => [Next]_vars
<1> SUFFICES ASSUME NextestNext, ~UNCHANGED vars PROVE Next
  OBVIOUS
<1> USE TestAssumption
<1>1. CASE StartConfigures
  BY <1>1 DEF StartConfigures, Next
<1>2. CASE CallContinues \/ CallThrows \/ CallShutsDown
  BY <1>2 DEF CallContinues, CallThrows, CallShutsDown, ProfilerShutdown, Next
<1>3. CASE StartClient \/ Poll
  BY <1>3 DEF StartClient, Poll, Next
<1>4. CASE FinishCapture
  <2>1. PICK save \in BOOLEAN : save = (Failed \/ Policy = "always")
    OBVIOUS
  <2>2. FinishBegins(test, save, FALSE)
    BY <1>4, <2>1 DEF FinishCapture
  <2> QED
    BY <2>2 DEF Next
<1>5. CASE Tracy
  BY <1>5 DEF Tracy, Next
<1>6. CASE \/ StartInert \/ StartRefused \/ ConfigureReturns \/ WaitEnds \/ FinishReturns
           \/ Body \/ Ended
  BY <1>6 DEF StartInert, StartRefused, ConfigureReturns, WaitEnds, FinishReturns, Body, Ended,
     nextestVars
<1> QED
  BY <1>1, <1>2, <1>3, <1>4, <1>5, <1>6 DEF NextestNext, Guard

\* The Worker a capture was promoted for stays, and so does its data.
LEMMA PromotionKept ==
  ASSUME IInv, PromotedHasData, [Next]_vars
  PROVE  PromotedHasData' /\ hasData \subseteq hasData'
<1> USE DEF PromotedHasData, coordinator, transport, peers
<1>1. CASE UNCHANGED vars
  BY <1>1 DEF vars
<1>2. ASSUME NEW c \in Controllers, NEW reuse \in BOOLEAN, NEW save \in BOOLEAN,
             \/ Configure(c, reuse) \/ ConfigureFails(c, reuse) \/ ConfigureThrows(c, reuse)
             \/ WorkerThrows(c, reuse) \/ FinishBegins(c, save, reuse)
      PROVE  PromotedHasData' /\ hasData \subseteq hasData'
  BY <1>2 DEF Configure, ConfigureFails, ConfigureThrows, WorkerThrows, FinishBegins
<1>3. ASSUME NEW c \in Controllers, Finishing(c)
      PROVE  PromotedHasData' /\ hasData \subseteq hasData'
  BY <1>3 DEF Finishing, FinishChecks, GiveUp, RequestDisconnect, WorkerIsDone, FinishTimesOut, TakeSnapshot,
     SaveCapture, FinishCompletes, DestroyWorker, ResetTransport, SetFailure, FailureState,
     CancelAfterThrow
<1>4. ASSUME NEW c \in Controllers,
             \/ FinishThrows(c) \/ ProfilerShutdown(c)
             \/ ShutdownBegins(c) \/ ShutdownEnds(c) \/ ShutdownThrows(c)
      PROVE  PromotedHasData' /\ hasData \subseteq hasData'
  BY <1>4 DEF FinishThrows, ProfilerShutdown, ShutdownClient, ShutdownProfiler, ShutdownEnds,
     ShutdownThrows, ShutdownBegins
<1>5. CASE GetState \/ ProfilerStarts
  BY <1>5 DEF GetState, Promotable, ProfilerStarts
<1>6. ASSUME NEW g \in Captures, WorkerConnects(g) \/ WorkerGetsData(g) \/ WorkerCloses(g)
      PROVE  PromotedHasData' /\ hasData \subseteq hasData'
  BY <1>6 DEF WorkerConnects, WorkerGetsData, WorkerCloses
<1> QED
  BY <1>1, <1>2, <1>3, <1>4, <1>5, <1>6 DEF Next

GuardRest == GuardTypes /\ BetweenCalls /\ InCalls /\ KeptAsAsked

\* What the environment asks for stays what it is.
LEMMA SameEnvironment ==
  ASSUME environment' = environment
  PROVE  /\ Inert' <=> Inert
         /\ Capturing' <=> Capturing
         /\ Misconfigured' <=> Misconfigured
         /\ outcome' = outcome => Kept' = Kept
BY DEF Inert, Capturing, Misconfigured, Policy, Kept

\* Steps between two calls, before the test runs.
LEMMA BeforeTest ==
  ASSUME GuardInv,
         \/ StartInert \/ StartRefused \/ StartConfigures \/ ConfigureReturns \/ StartClient
         \/ Poll \/ WaitEnds
  PROVE  GuardRest'
<1> USE DEF GuardInv, GuardRest, GuardTypes, BetweenCalls, InCalls, KeptAsAsked, Enter, Exit70
<1>1. at \in [Controllers -> Steps] /\ test \in Controllers
  BY TestAssumption DEF SequentialInv, IInv, TypeOK
<1>2. environment' = environment
  BY DEF StartInert, StartRefused, StartConfigures, ConfigureReturns, StartClient, Poll, WaitEnds,
     guardVars
<1>3. /\ Inert' <=> Inert
      /\ Capturing' <=> Capturing
      /\ Misconfigured' <=> Misconfigured
  BY <1>2, SameEnvironment
<1>4. Capturing <=> ~Inert /\ ~Misconfigured
  BY DEF Capturing
<1>5. CASE StartInert
  BY <1>3, <1>4, <1>5 DEF StartInert, vars, coordinator, peers
<1>6. CASE StartRefused
  BY <1>3, <1>6 DEF StartRefused, vars, coordinator, peers
<1>7. CASE StartConfigures
  BY <1>1, <1>3, <1>4, <1>7 DEF StartConfigures, Configure, ConfigureFails, ConfigureThrows,
     WorkerThrows, Goto, coordinator
<1>8. CASE ConfigureReturns
  BY <1>1, <1>3, <1>4, <1>8 DEF ConfigureReturns, Returned, vars, coordinator, peers
<1>9. CASE StartClient
  BY <1>1, <1>3, <1>4, <1>9 DEF StartClient, ProfilerStarts, vars, coordinator, peers
<1>10. CASE Poll
  BY <1>1, <1>3, <1>4, <1>10 DEF Poll, GetState, Promotable, guardVars, peers
<1>11. CASE WaitEnds
  BY <1>1, <1>3, <1>4, <1>11 DEF WaitEnds, Ready, vars, coordinator, peers
<1> QED
  BY <1>5, <1>6, <1>7, <1>8, <1>9, <1>10, <1>11

\* The test, and the guard's conclusion from it.
LEMMA AfterTest ==
  ASSUME GuardInv, Body \/ FinishCapture \/ FinishReturns \/ Ended \/ Tracy
  PROVE  GuardRest'
<1> USE DEF GuardInv, GuardRest, GuardTypes, BetweenCalls, InCalls, KeptAsAsked, Enter, Exit70
<1>1. /\ at \in [Controllers -> Steps] /\ test \in Controllers
      /\ held \in [Controllers -> 0..made]
      /\ saving \in [Controllers -> BOOLEAN] /\ stopping \in [Controllers -> BOOLEAN]
  BY TestAssumption DEF SequentialInv, IInv, TypeOK
<1>2. environment' = environment
  BY DEF Body, FinishCapture, FinishReturns, Conclude, Ended, Tracy, guardVars, nextestVars
<1>3. /\ Inert' <=> Inert
      /\ Capturing' <=> Capturing
      /\ Misconfigured' <=> Misconfigured
      /\ outcome' = outcome => Kept' = Kept
  BY <1>2, SameEnvironment
<1>4. Capturing <=> ~Inert /\ ~Misconfigured
  BY DEF Capturing
<1>5. CASE Body
  BY <1>3, <1>4, <1>5 DEF Body, vars, coordinator, peers
<1>6. CASE FinishCapture
  <2>1. /\ stage = "body" /\ stage' = "finishing" /\ UNCHANGED <<outcome, result, profiler, hasData>>
        /\ Capturing /\ state = "CAPTURING" /\ worker \in hasData
        /\ at'[test] = "check" /\ held'[test] = worker /\ stopping'[test] = FALSE
    BY <1>1, <1>4, <1>6 DEF FinishCapture, FinishBegins, Goto, peers, PromotedHasData
  <2>2. outcome \in Outcomes
    BY <1>6 DEF FinishCapture
  <2>3. saving'[test] <=> Failed \/ Policy = "always"
    BY <1>1, <1>6 DEF FinishCapture, FinishBegins
  <2>4. Failed <=> outcome # "passed"
    BY <2>2 DEF Failed, Outcomes
  <2>5. Policy = "always" <=> environment.policy = "always"
    BY DEF Policy
  <2>6. saving'[test] <=> Kept' = "FINISHED"
    BY <1>3, <2>1, <2>3, <2>4, <2>5 DEF Kept
  <2>7. GuardTypes' /\ KeptAsAsked'
    BY <1>2, <2>1, <2>2, Zenon DEF Outcomes
  <2>8. BetweenCalls'
    BY <1>3, <2>1
  <2>9. InCalls'
    BY <2>1, <2>6 DEF ShutdownSteps
  <2> QED
    BY <2>7, <2>8, <2>9
<1>7. CASE FinishReturns
  BY <1>1, <1>2, <1>3, <1>4, <1>7 DEF FinishReturns, Conclude, Returned, vars, coordinator, peers, Kept
<1>8. CASE Ended
  BY <1>3, <1>8 DEF Ended, nextestVars, vars, guardVars, coordinator, peers, locals
<1>9. CASE Tracy
  <2>1. /\ UNCHANGED <<state, at, profiler, held, saving, stopping, stage, outcome, result>>
        /\ hasData \subseteq hasData'
    BY <1>9 DEF Tracy, WorkerConnects, WorkerGetsData, WorkerCloses, coordinator, locals, guardVars
  <2> QED
    BY <1>1, <1>2, <1>3, <1>4, <2>1
<1> QED
  BY <1>5, <1>6, <1>7, <1>8, <1>9

\* The steps of a call.
LEMMA InsideCall ==
  ASSUME GuardInv, CallContinues \/ CallThrows \/ CallShutsDown
  PROVE  GuardRest'
<1> USE DEF GuardInv, GuardRest, GuardTypes, BetweenCalls, InCalls, KeptAsAsked
<1>1. /\ at \in [Controllers -> Steps] /\ test \in Controllers
      /\ held \in [Controllers -> 0..made]
      /\ saving \in [Controllers -> BOOLEAN] /\ stopping \in [Controllers -> BOOLEAN]
  BY TestAssumption DEF SequentialInv, IInv, TypeOK
<1>2. UNCHANGED <<environment, stage, outcome, result>> /\ at[test] # "idle"
      /\ stage \in {"configuring", "finishing"}
  BY DEF CallContinues, CallThrows, CallShutsDown, ShutdownClient, guardVars
<1>3. /\ Capturing' <=> Capturing
      /\ Kept' = Kept /\ Kept \in {"FINISHED", "DISCARDED"}
  BY <1>2, SameEnvironment DEF Kept
<1>4. CASE CallThrows
  BY <1>1, <1>2, <1>3, <1>4 DEF CallThrows, FinishThrows, Goto, ShutdownSteps, peers
<1>5. CASE SetFailure(test) \/ CancelAfterThrow(test)
  <2>1. /\ at'[test] = "idle" /\ state' = "FAILED"
        /\ UNCHANGED <<saving, stopping, profiler, hasData>>
    BY <1>1, <1>5 DEF SetFailure, FailureState, CancelAfterThrow, Goto, peers, coordinator, locals,
       SequentialInv, Sequential, StatesAt
  <2> QED
    BY <1>2, <1>3, <2>1 DEF ShutdownSteps
<1>6. CASE FinishChecks(test)
  <2>1. held[test] # NoCapture
    BY <1>6, <1>1 DEF FinishChecks, SequentialInv, IInv, Ownership, HoldingSteps
  <2> QED
    BY <1>1, <1>2, <1>3, <1>6, <2>1 DEF FinishChecks, HasCapture, Goto, ShutdownSteps, peers,
       coordinator, locals
<1>7. CASE \/ RequestDisconnect(test) \/ ShutdownClient(test) \/ WorkerIsDone(test)
           \/ FinishTimesOut(test)
  BY <1>1, <1>2, <1>3, <1>7 DEF RequestDisconnect, ShutdownClient, WorkerIsDone, FinishTimesOut,
     Goto, ShutdownSteps, peers, coordinator, locals
<1>8. CASE TakeSnapshot(test) \/ SaveCapture(test) \/ GiveUp(test) \/ ResetTransport(test)
  BY <1>1, <1>2, <1>3, <1>8 DEF TakeSnapshot, SaveCapture, GiveUp, ResetTransport, Goto,
     ShutdownSteps, peers, coordinator, locals
<1>9. CASE FinishCompletes(test)
  BY <1>1, <1>2, <1>3, <1>9 DEF FinishCompletes, Goto, ShutdownSteps, peers, locals
<1>10. CASE DestroyWorker(test)
  BY <1>1, <1>2, <1>3, <1>10 DEF DestroyWorker, AfterDestroy, Goto, ShutdownSteps, coordinator
<1> QED
  BY <1>4, <1>5, <1>6, <1>7, <1>8, <1>9, <1>10 DEF CallContinues, CallShutsDown, Finishing

\* The guard starts in its invariant.
LEMMA GuardInitHolds == GuardInit => GuardInv
<1> SUFFICES ASSUME GuardInit PROVE GuardInv
  OBVIOUS
<1>1. SequentialInv
  BY SequentialInitHolds DEF GuardInit
<1> QED
  BY <1>1, TestAssumption DEF GuardInit, Init, GuardInv, PromotedHasData, GuardTypes, BetweenCalls,
     InCalls, KeptAsAsked

\* Every step of the guard, of the lifecycle and of Tracy keeps it.
LEMMA GuardStepHolds == GuardInv /\ [NextestNext]_nextestVars => GuardInv'
<1> SUFFICES ASSUME GuardInv, [NextestNext]_nextestVars PROVE GuardInv'
  OBVIOUS
<1>1. [Next]_vars
  BY GuardStepsLifecycle DEF nextestVars
<1>2. SequentialInv' /\ PromotedHasData'
  BY <1>1, OneGuard, SequentialHolds, PromotionKept DEF GuardInv, SequentialInv
<1>3. GuardRest'
  <2>1. CASE NextestNext
    BY <2>1, BeforeTest, AfterTest, InsideCall DEF NextestNext, Guard
  <2>2. CASE UNCHANGED nextestVars
    <3>1. UNCHANGED <<environment, stage, outcome, result, state, at, profiler, held, hasData, saving,
                      stopping>>
      BY <2>2 DEF nextestVars, guardVars, vars, coordinator, peers, locals
    <3>2. /\ Inert' <=> Inert
          /\ Capturing' <=> Capturing
          /\ Kept' = Kept
      BY <3>1, SameEnvironment
    <3> QED
      BY <3>1, <3>2 DEF GuardInv, GuardRest, GuardTypes, BetweenCalls, InCalls, KeptAsAsked
  <2> QED
    BY <2>1, <2>2
<1> QED
  BY <1>2, <1>3 DEF GuardInv, GuardRest

\* What the guard knows of the capture at every stage of a test: the invariant from
\* which the theorems below follow.
THEOREM GuardInvariant == NextestSpec => []GuardInv
<1> QED
  BY GuardInitHolds, GuardStepHolds, PTL DEF NextestSpec

\* The guard and the lifecycle it controls stay well formed, and a call is under
\* way only where the guard waits for it.
THEOREM GuardTypesHold == NextestSpec => []NextestTypeOK
<1>1. ASSUME GuardInv PROVE NextestTypeOK
  <2>1. TypeOK /\ GuardTypes /\ (at[test] # "idle" => stage \in {"configuring", "finishing"})
    BY <1>1 DEF GuardInv, SequentialInv, IInv, BetweenCalls
  <2>2. result \in Outcomes \cup {"none", "exit 70"}
    BY <1>1, <2>1 DEF GuardInv, GuardTypes, KeptAsAsked
  <2> QED
    BY <2>1, <2>2 DEF GuardTypes, NextestTypeOK
<1> QED
  BY <1>1, GuardInvariant, PTL

\* Whatever the environment, the test and Tracy do, the outcome of a test is
\* passed on only when the lifecycle ended in the state the policy asks for, or was
\* never begun, and exit 70 only when it did not.
THEOREM OutcomeAndCapture == NextestSpec => []KeptAsAsked
<1>1. GuardInv => KeptAsAsked
  BY DEF GuardInv
<1> QED
  BY <1>1, GuardInvariant, PTL

\* A captured test runs with its own Worker on its own session, and its finish
\* never finds the Worker without data.
THEOREM CapturedBody == NextestSpec => []BodyIsCaptured
<1>1. ASSUME GuardInv PROVE BodyIsCaptured
  <2>1. ASSUME stage = "body", Capturing
        PROVE  /\ state = "CAPTURING" /\ worker \in hasData
               /\ joined[worker] = session /\ session \notin cancelled
    <3>1. state = "CAPTURING" /\ worker \in hasData
      BY <1>1, <2>1 DEF GuardInv, BetweenCalls, PromotedHasData, Capturing
    <3>2. session = worker /\ session \notin cancelled
      BY <1>1, <3>1 DEF GuardInv, SequentialInv, IInv, ActiveHasSession
    <3>3. worker \in Captures
      <4>1. made \in 0..MaxCaptures /\ hasData \subseteq 1..made
        BY <1>1 DEF GuardInv, SequentialInv, IInv, TypeOK
      <4> QED
        BY <3>1, <4>1, CapturesAssumption DEF Captures
    <3>4. joined[worker] = worker
      BY <1>1, <3>1, <3>3 DEF GuardInv, SequentialInv, IInv, WorkersProgress
    <3> QED
      BY <3>1, <3>2, <3>4
  <2>2. stage = "finishing" => at[test] # "give up"
    BY <1>1 DEF GuardInv, InCalls
  <2> QED
    BY <2>1, <2>2 DEF BodyIsCaptured
<1> QED
  BY <1>1, GuardInvariant, PTL
=============================================================================
