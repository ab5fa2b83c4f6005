---------------------------- MODULE CaptureProofs ----------------------------
(***************************************************************************)
(* Proofs about Capture, for any set of controllers and any number of      *)
(* captures.                                                               *)
(***************************************************************************)
EXTENDS Capture, TLAPS

USE CapturesAssumption

HoldingSteps == {"check", "give up", "drain", "wait", "abort", "snapshot", "save", "complete"}

\* The call works on the Worker that the coordinator owns.
Uses(c) == held[c] # NoCapture /\ at[c] # "destroy"

\* No capture is finished any more and none can start.
Over ==
  /\ state \in {"FINISHING", "FINISHED", "FAILED", "DISCARDED"}
  /\ \A c \in Controllers : ~Uses(c)

\* Which call points to which Worker, and what the state is meanwhile.
Ownership ==
  /\ worker # NoCapture => worker \in alive
  /\ state \in {"UNCONFIGURED", "IDLE"} => worker = NoCapture
  /\ \A c \in Controllers :
       /\ held[c] # NoCapture =>
            held[c] \in alive /\ at[c] \in HoldingSteps \cup {"destroy", "fail"}
       /\ at[c] \in HoldingSteps \cup {"destroy"} => held[c] # NoCapture
       /\ Uses(c) => held[c] = worker /\ state \in {"FINISHING", "FAILED"}
       /\ at[c] = "destroy" => worker = NoCapture

\* A Worker never meets a session of another capture, and a session is only
\* taken from under a Worker when no capture can start any more.
SessionOfWorker ==
  alive # {} => session \in alive \/ (session = NoCapture /\ Over)

\* What is true while the last steps of a call are still to come.
LastSteps ==
  \A c \in Controllers :
    /\ at[c] = "reset" =>
         /\ alive = {}
         /\ session = NoCapture => Over
         /\ \A d \in Controllers : at[d] = "reset" => d = c
    /\ at[c] \in ShutdownSteps \cup {"cancel"} => Over
    /\ at[c] = "destroy" /\ state = "IDLE" => stopping[c]

\* An idle process that is not ready for the next start has a call under way
\* that makes it ready, or failed.
IdleIsPending ==
  state = "IDLE" =>
    \/ alive = {} /\ session = NoCapture
    \/ \E c \in Controllers : at[c] \in {"destroy", "reset", "fail"}

\* The call that moves the state on from FINISHING.
FinishingIsPending ==
  state = "FINISHING" => \E c \in Controllers : Uses(c) \/ at[c] \in ShutdownSteps \cup {"fail"}

\* What a Worker went through, and what finishImpl has seen of it.
WorkersProgress ==
  /\ \A g \in Captures :
       /\ link[g] = "connected" => joined[g] = g
       /\ g \in hasData => link[g] # "joining" /\ joined[g] = g
  /\ \A c \in Controllers :
       at[c] \in {"drain", "wait"} => held[c] \in hasData

IInv ==
  /\ TypeOK
  /\ OneWorker /\ PointerIsAlive /\ OwnSession /\ ActiveHasSession
  /\ Ownership /\ SessionOfWorker /\ LastSteps
  /\ IdleIsPending /\ FinishingIsPending
  /\ WorkersProgress /\ SavesDrained

\* Everything but the types.
Safe ==
  /\ OneWorker /\ PointerIsAlive /\ OwnSession /\ ActiveHasSession
  /\ Ownership /\ SessionOfWorker /\ LastSteps
  /\ IdleIsPending /\ FinishingIsPending
  /\ WorkersProgress /\ SavesDrained

\* A call of finishImpl that goes on with the same Worker keeps the invariant,
\* whatever it does to the profiler, the cancelled sessions and the snapshot.
LEMMA GoesOn ==
  ASSUME IInv, NEW c \in Controllers, NEW step \in HoldingSteps \cup {"fail"},
         at[c] \in HoldingSteps, Goto(c, step),
         step \in {"drain", "wait"} => held[c] \in hasData,
         step \in {"snapshot", "save", "complete"} =>
           /\ held[c] \in hasData
           /\ joined[held[c]] = held[c] /\ link[held[c]] = "closed",
         UNCHANGED <<state, worker, session, alive, link, joined, hasData, held, stopping>>
  PROVE  Safe'
<1> USE DEF HoldingSteps, NoCapture
<1>1. /\ at'[c] = step
      /\ \A d \in Controllers : d # c => at'[d] = at[d]
  BY DEF IInv, TypeOK, Goto
<1>2. held[c] # NoCapture /\ held[c] = worker /\ state \in {"FINISHING", "FAILED"}
  BY DEF IInv, Ownership, Uses
<1>3. OneWorker' /\ PointerIsAlive' /\ OwnSession'
  BY DEF IInv, OneWorker, PointerIsAlive, OwnSession
<1>4. ActiveHasSession' /\ IdleIsPending'
  BY <1>2 DEF ActiveHasSession, IdleIsPending
<1>5. Ownership'
  BY <1>1, <1>2 DEF IInv, Ownership, Uses
<1>6. \A d \in Controllers : Uses(d)' <=> Uses(d)
  BY <1>1, <1>2 DEF Uses
<1>7. Over' <=> Over
  BY <1>6 DEF Over
<1>8. SessionOfWorker'
  BY <1>7 DEF IInv, SessionOfWorker
<1>9. LastSteps'
  BY <1>1, <1>7 DEF IInv, LastSteps, ShutdownSteps
<1>10. FinishingIsPending'
  BY <1>2, <1>6, <1>1 DEF FinishingIsPending, Uses
<1>11. WorkersProgress'
  BY <1>1 DEF IInv, WorkersProgress
<1>12. SavesDrained'
  BY <1>1 DEF IInv, SavesDrained
<1>13. QED
  BY <1>3, <1>4, <1>5, <1>8, <1>9, <1>10, <1>11, <1>12 DEF Safe

\* Where a capture may be configured, no Worker is left and every call is idle
\* or about to report a failure.
LEMMA Startable ==
  ASSUME IInv, session = NoCapture, state \in {"UNCONFIGURED", "IDLE"}
  PROVE  /\ alive = {} /\ ~Over
         /\ \A d \in Controllers : held[d] = NoCapture /\ at[d] \in {"idle", "fail"}
<1> USE DEF NoCapture
<1>1. ~Over
  BY DEF Over
<1>2. alive = {}
  BY <1>1 DEF IInv, TypeOK, SessionOfWorker
<1>3. ASSUME NEW d \in Controllers
      PROVE  held[d] = NoCapture /\ at[d] \in {"idle", "fail"}
  <2>1. held[d] = NoCapture
    BY <1>2 DEF IInv, Ownership
  <2>2. at[d] \notin HoldingSteps \cup {"destroy"}
    BY <2>1 DEF IInv, Ownership
  <2>3. at[d] \notin ShutdownSteps \cup {"cancel", "reset"}
    BY <1>1 DEF IInv, LastSteps
  <2>4. at[d] \in Steps
    BY DEF IInv, TypeOK
  <2>5. QED
    BY <2>1, <2>2, <2>3, <2>4 DEF HoldingSteps, Steps, FinishSteps, ShutdownSteps
<1>4. QED
  BY <1>1, <1>2, <1>3

\* A start that succeeds keeps the invariant.
LEMMA ConfigureSafe ==
  ASSUME IInv, NEW c \in Controllers, NEW reuse \in BOOLEAN, Configure(c, reuse)
  PROVE  Safe'
<1> USE DEF NoCapture
<1>1. /\ session = NoCapture /\ state \in {"UNCONFIGURED", "IDLE"}
      /\ state' = "CONFIGURED"
      /\ worker' = made + 1 /\ session' = made + 1 /\ alive' = alive \cup {made + 1}
      /\ UNCHANGED <<cancelled, link, joined, hasData, at, held, stopping>>
  BY DEF Configure, MayConfigure, MakeSession, ConfigureRefuses, peers, locals
<1>2. /\ alive' = {made + 1} /\ made + 1 \notin cancelled /\ made + 1 # 0
      /\ \A d \in Controllers : held'[d] = NoCapture /\ at'[d] \in {"idle", "fail"}
  <2>1. /\ alive = {}
        /\ \A d \in Controllers : held[d] = NoCapture /\ at[d] \in {"idle", "fail"}
    BY <1>1, Startable
  <2>2. made \in Nat /\ cancelled \subseteq 1..made
    BY DEF IInv, TypeOK
  <2>3. QED
    BY <1>1, <2>1, <2>2
<1>3. OneWorker' /\ PointerIsAlive' /\ OwnSession' /\ ActiveHasSession'
  BY <1>1, <1>2 DEF IInv, OneWorker, PointerIsAlive, OwnSession, ActiveHasSession
<1>4. Ownership' /\ SessionOfWorker' /\ LastSteps'
  BY <1>1, <1>2 DEF Ownership, SessionOfWorker, LastSteps, Uses, HoldingSteps, ShutdownSteps
<1>5. IdleIsPending' /\ FinishingIsPending'
  BY <1>1 DEF IdleIsPending, FinishingIsPending
<1>6. WorkersProgress' /\ SavesDrained'
  BY <1>1, <1>2 DEF IInv, WorkersProgress, SavesDrained
<1>7. QED
  BY <1>3, <1>4, <1>5, <1>6 DEF Safe

\* A start that fails keeps the invariant, wherever it fails.
LEMMA ConfigureFailsSafe ==
  ASSUME IInv, NEW c \in Controllers, NEW reuse \in BOOLEAN,
         ConfigureFails(c, reuse) \/ ConfigureThrows(c, reuse) \/ WorkerThrows(c, reuse)
  PROVE  Safe'
<1> USE DEF NoCapture
<1>1. state \in {"UNCONFIGURED", "IDLE"} /\ at[c] = "idle"
  BY DEF ConfigureFails, ConfigureThrows, WorkerThrows, MayConfigure
<1>2. \A d \in Controllers : ~Uses(d)
  BY <1>1 DEF IInv, Ownership
<1>3. held[c] = NoCapture /\ ~Over
  BY <1>1 DEF IInv, Ownership, HoldingSteps, Over
<1>4. CASE ConfigureFails(c, reuse)
  <2>1. /\ state' = "FAILED"
        /\ UNCHANGED <<worker, session, alive, link, joined, hasData, at, held, stopping>>
    BY <1>4 DEF ConfigureFails, transport, peers, locals
  <2>2. Over' /\ (\A d \in Controllers : ~Uses(d)')
    BY <1>2, <2>1 DEF Over, Uses
  <2>3. OneWorker' /\ PointerIsAlive' /\ OwnSession' /\ ActiveHasSession'
    BY <2>1 DEF IInv, OneWorker, PointerIsAlive, OwnSession, ActiveHasSession
  <2>4. Ownership' /\ LastSteps'
    BY <2>1, <2>2 DEF IInv, Ownership, LastSteps
  <2>5. SessionOfWorker'
    BY <2>1, <2>2 DEF IInv, SessionOfWorker
  <2>6. IdleIsPending' /\ FinishingIsPending' /\ WorkersProgress' /\ SavesDrained'
    BY <2>1 DEF IInv, IdleIsPending, FinishingIsPending, WorkersProgress, SavesDrained
  <2>7. QED
    BY <2>3, <2>4, <2>5, <2>6 DEF Safe
<1>5. CASE ConfigureThrows(c, reuse) \/ WorkerThrows(c, reuse)
  <2>1. /\ UNCHANGED <<state, worker, cancelled, alive, link, joined, hasData, held, stopping>>
        /\ at'[c] = "fail"
        /\ \A d \in Controllers : d # c => at'[d] = at[d]
    BY <1>5 DEF ConfigureThrows, WorkerThrows, MakeSession, Goto, coordinator, transport,
       peers, locals, IInv, TypeOK
  <2>2. session' = session \/ (session = NoCapture /\ alive = {} /\ session' # NoCapture)
    BY <1>1, <1>5, Startable DEF ConfigureThrows, WorkerThrows, MakeSession, ConfigureRefuses,
       transport, IInv, TypeOK
  <2>3. OneWorker' /\ PointerIsAlive' /\ OwnSession' /\ ActiveHasSession'
    BY <1>1, <2>1 DEF IInv, OneWorker, PointerIsAlive, OwnSession, ActiveHasSession
  <2>4. Ownership'
    BY <1>2, <1>3, <2>1 DEF IInv, Ownership, Uses, HoldingSteps
  <2>5. SessionOfWorker'
    BY <1>3, <2>1, <2>2 DEF IInv, SessionOfWorker
  <2>6. LastSteps'
    BY <1>1, <1>3, <2>1, <2>2 DEF IInv, LastSteps, ShutdownSteps
  <2>7. IdleIsPending' /\ FinishingIsPending'
    BY <1>1, <2>1 DEF IdleIsPending, FinishingIsPending
  <2>8. WorkersProgress' /\ SavesDrained'
    BY <2>1 DEF IInv, WorkersProgress, SavesDrained
  <2>9. QED
    BY <2>3, <2>4, <2>5, <2>6, <2>7, <2>8 DEF Safe
<1>6. QED
  BY <1>4, <1>5

\* The first step of finish and stop keeps the invariant.
LEMMA FinishBeginsSafe ==
  ASSUME IInv, NEW c \in Controllers, NEW save \in BOOLEAN, NEW stop \in BOOLEAN,
         FinishBegins(c, save, stop)
  PROVE  Safe'
<1> USE DEF NoCapture
<1>1. /\ state \in {"CONFIGURED", "CAPTURING"} /\ state' = "FINISHING"
      /\ at[c] = "idle" /\ at'[c] = "check" /\ held'[c] = worker
      /\ \A d \in Controllers :
           d # c => at'[d] = at[d] /\ held'[d] = held[d] /\ stopping'[d] = stopping[d]
      /\ UNCHANGED <<worker, session, alive, link, joined, hasData>>
  BY DEF FinishBegins, MayFinish, Goto, transport, peers, IInv, TypeOK
<1>2. worker # NoCapture /\ worker \in alive /\ session = worker
  BY <1>1 DEF IInv, ActiveHasSession
<1>3. \A d \in Controllers : held[d] = NoCapture
  BY <1>1, <1>2 DEF IInv, Ownership, Uses
<1>4. \A d \in Controllers :
        /\ at[d] \notin HoldingSteps \cup {"destroy", "reset", "cancel"}
        /\ at[d] \notin ShutdownSteps
  BY <1>1, <1>2, <1>3 DEF IInv, Ownership, LastSteps, Over
<1>5. OneWorker' /\ OwnSession' /\ ActiveHasSession'
  BY <1>1 DEF IInv, OneWorker, OwnSession, ActiveHasSession
<1>6. PointerIsAlive'
  BY <1>1, <1>2, <1>3 DEF PointerIsAlive
<1>7. Ownership'
  BY <1>1, <1>2, <1>3, <1>4 DEF Ownership, Uses, HoldingSteps
<1>8. SessionOfWorker'
  BY <1>1, <1>2 DEF SessionOfWorker
<1>9. LastSteps'
  BY <1>1, <1>4 DEF LastSteps, ShutdownSteps
<1>10. IdleIsPending' /\ FinishingIsPending'
  BY <1>1, <1>2 DEF IdleIsPending, FinishingIsPending, Uses
<1>11. WorkersProgress'
  BY <1>1, <1>4 DEF IInv, WorkersProgress, HoldingSteps
<1>12. SavesDrained'
  BY <1>1, <1>4 DEF SavesDrained, HoldingSteps
<1>13. QED
  BY <1>5, <1>6, <1>7, <1>8, <1>9, <1>10, <1>11, <1>12 DEF Safe

\* Two calls never use the Worker of the coordinator.
LEMMA OneUser ==
  ASSUME IInv, NEW c \in Controllers, at[c] \in HoldingSteps
  PROVE  /\ held[c] # NoCapture /\ held[c] = worker /\ worker \in alive
         /\ state \in {"FINISHING", "FAILED"}
         /\ \A d \in Controllers : d # c => held[d] = NoCapture
<1> USE DEF NoCapture
<1>1. /\ held[c] # NoCapture /\ held[c] = worker /\ worker \in alive
      /\ state \in {"FINISHING", "FAILED"}
  BY DEF IInv, Ownership, Uses, HoldingSteps
<1>2. ASSUME NEW d \in Controllers, d # c PROVE held[d] = NoCapture
  <2>1. held[d] # NoCapture => held[d] = held[c]
    BY <1>1 DEF IInv, Ownership, OneWorker
  <2>2. QED
    BY <1>1, <1>2, <2>1 DEF IInv, PointerIsAlive
<1>3. QED
  BY <1>1, <1>2

\* Giving up the ownership of the Worker keeps the invariant.
LEMMA FinishCompletesSafe ==
  ASSUME IInv, NEW c \in Controllers, FinishCompletes(c)
  PROVE  Safe'
<1> USE DEF NoCapture
<1>1. /\ at[c] = "complete" /\ at'[c] = "destroy" /\ worker' = NoCapture
      /\ state' \in {"IDLE", "FINISHED", "DISCARDED"}
      /\ state' = "IDLE" => stopping[c]
      /\ \A d \in Controllers : d # c => at'[d] = at[d]
      /\ UNCHANGED <<session, alive, link, joined, hasData, held, stopping>>
  BY DEF FinishCompletes, Goto, transport, peers, locals, IInv, TypeOK
<1>2. /\ held[c] # NoCapture /\ held[c] = worker /\ worker \in alive
      /\ \A d \in Controllers : d # c => held[d] = NoCapture
  BY <1>1, OneUser DEF HoldingSteps
<1>3. ~Over /\ session \in alive
  BY <1>1, <1>2 DEF Over, Uses, IInv, SessionOfWorker
<1>4. \A d \in Controllers :
        /\ at[d] \notin ShutdownSteps \cup {"cancel", "reset", "destroy"}
        /\ d # c => at[d] \notin HoldingSteps
  BY <1>2, <1>3 DEF IInv, LastSteps, Ownership
<1>5. OneWorker' /\ PointerIsAlive' /\ OwnSession'
  BY <1>1 DEF IInv, OneWorker, PointerIsAlive, OwnSession
<1>6. ActiveHasSession' /\ IdleIsPending' /\ FinishingIsPending'
  BY <1>1 DEF ActiveHasSession, IdleIsPending, FinishingIsPending
<1>7. Ownership'
  BY <1>1, <1>2, <1>4 DEF Ownership, Uses, HoldingSteps
<1>8. SessionOfWorker'
  BY <1>1, <1>3 DEF SessionOfWorker
<1>9. LastSteps'
  BY <1>1, <1>4 DEF LastSteps, ShutdownSteps
<1>10. WorkersProgress' /\ SavesDrained'
  BY <1>1 DEF IInv, WorkersProgress, SavesDrained
<1>11. QED
  BY <1>5, <1>6, <1>7, <1>8, <1>9, <1>10 DEF Safe

\* The end of a Worker keeps the invariant: no call points to it any more.
LEMMA DestroyWorkerSafe ==
  ASSUME IInv, NEW c \in Controllers, DestroyWorker(c)
  PROVE  Safe'
<1> USE DEF NoCapture
<1>1. /\ at[c] = "destroy" /\ at'[c] = IF stopping[c] THEN "reset" ELSE "idle"
      /\ alive' = alive \ {held[c]} /\ held'[c] = NoCapture
      /\ \A d \in Controllers : d # c => at'[d] = at[d] /\ held'[d] = held[d]
      /\ \A g \in Captures : link'[g] = link[g] \/ link'[g] = "closed"
      /\ UNCHANGED <<state, worker, session, joined, hasData, stopping>>
  BY DEF DestroyWorker, AfterDestroy, Goto, coordinator, transport, IInv, TypeOK
<1>2. worker = NoCapture /\ held[c] # NoCapture /\ held[c] \in alive
  BY <1>1 DEF IInv, Ownership
<1>3. alive' = {}
  BY <1>1, <1>2 DEF IInv, OneWorker
<1>4. \A d \in Controllers : held'[d] = NoCapture
  <2>1. ASSUME NEW d \in Controllers, d # c, held[d] # NoCapture PROVE FALSE
    <3>1. held[d] = held[c]
      BY <1>2, <2>1 DEF IInv, Ownership, OneWorker
    <3>2. QED
      BY <2>1, <3>1 DEF IInv, PointerIsAlive
  <2>2. QED
    BY <1>1, <2>1
<1>5. \A d \in Controllers :
        at'[d] \notin HoldingSteps \cup {"destroy"} /\ (at'[d] = "reset" => d = c)
  BY <1>1, <1>2, <1>4 DEF IInv, Ownership, LastSteps, HoldingSteps
<1>6. Over => Over'
  BY <1>1, <1>4 DEF Over, Uses
<1>7. OneWorker' /\ PointerIsAlive' /\ OwnSession'
  BY <1>1, <1>3, <1>4 DEF IInv, OneWorker, PointerIsAlive, OwnSession
<1>8. ActiveHasSession'
  BY <1>1, <1>2 DEF IInv, ActiveHasSession
<1>9. Ownership' /\ SessionOfWorker'
  BY <1>1, <1>2, <1>3, <1>4, <1>5 DEF Ownership, SessionOfWorker, Uses
<1>10. LastSteps'
  <2>1. session = NoCapture => Over
    BY <1>2 DEF IInv, SessionOfWorker, TypeOK
  <2>2. \A d \in Controllers : at'[d] \in ShutdownSteps \cup {"cancel"} => Over
    BY <1>1 DEF IInv, LastSteps, ShutdownSteps
  <2>3. QED
    BY <1>1, <1>3, <1>5, <1>6, <2>1, <2>2 DEF LastSteps
<1>11. IdleIsPending'
  BY <1>1 DEF IInv, LastSteps, IdleIsPending
<1>12. FinishingIsPending'
  <2>1. \A d \in Controllers : d # c => ~Uses(d)
    BY <1>1, <1>4 DEF Uses
  <2>2. QED
    BY <1>1, <2>1 DEF IInv, FinishingIsPending, Uses, ShutdownSteps
<1>13. WorkersProgress' /\ SavesDrained'
  BY <1>1, <1>5 DEF IInv, WorkersProgress, SavesDrained, HoldingSteps
<1>14. QED
  BY <1>7, <1>8, <1>9, <1>10, <1>11, <1>12, <1>13 DEF Safe

\* The reset of the transport keeps the invariant, after a stop and in shutdown.
LEMMA ResetTransportSafe ==
  ASSUME IInv, NEW c \in Controllers, ResetTransport(c)
  PROVE  Safe'
<1> USE DEF NoCapture
<1>1. /\ \/ at[c] = "reset" /\ at'[c] = "idle"
         \/ at[c] = "shutdown reset" /\ at'[c] = "shutdown end"
      /\ session' = NoCapture
      /\ \A d \in Controllers : d # c => at'[d] = at[d]
      /\ UNCHANGED <<state, worker, alive, link, joined, hasData, held, stopping>>
  BY DEF ResetTransport, Goto, coordinator, peers, locals, IInv, TypeOK
<1>2. alive = {} \/ Over
  BY <1>1 DEF IInv, LastSteps, ShutdownSteps
<1>3. held[c] = NoCapture
  BY <1>1 DEF IInv, Ownership, HoldingSteps
<1>4. \A d \in Controllers : Uses(d)' <=> Uses(d)
  BY <1>1, <1>3 DEF Uses
<1>5. Over' <=> Over
  BY <1>1, <1>4 DEF Over
<1>6. OneWorker' /\ PointerIsAlive' /\ OwnSession'
  BY <1>1 DEF IInv, OneWorker, PointerIsAlive, OwnSession
<1>7. ActiveHasSession'
  BY <1>1, <1>2 DEF IInv, ActiveHasSession, Over
<1>8. Ownership'
  BY <1>1, <1>3, <1>4 DEF IInv, Ownership, HoldingSteps
<1>9. SessionOfWorker'
  BY <1>1, <1>2, <1>5 DEF SessionOfWorker
<1>10. LastSteps'
  BY <1>1, <1>2, <1>5 DEF IInv, LastSteps, ShutdownSteps
<1>11. IdleIsPending'
  BY <1>1, <1>2 DEF IdleIsPending, Over
<1>12. FinishingIsPending'
  BY <1>1, <1>4 DEF IInv, FinishingIsPending, ShutdownSteps
<1>13. WorkersProgress' /\ SavesDrained'
  BY <1>1 DEF IInv, WorkersProgress, SavesDrained
<1>14. QED
  BY <1>6, <1>7, <1>8, <1>9, <1>10, <1>11, <1>12, <1>13 DEF Safe

\* A failure that is recorded keeps the invariant, also when it is the failure of
\* another call than the one that uses the Worker.
LEMMA FailureSafe ==
  ASSUME IInv, NEW c \in Controllers, SetFailure(c) \/ FinishThrows(c)
  PROVE  Safe'
<1> USE DEF NoCapture
<1>1. /\ state' = "FAILED" /\ held'[c] = NoCapture
      /\ \A d \in Controllers : d # c => at'[d] = at[d] /\ held'[d] = held[d]
      /\ UNCHANGED <<worker, session, alive, link, joined, hasData, stopping>>
      /\ \/ at[c] = "fail" /\ at'[c] = "idle"
         \/ at[c] \in HoldingSteps /\ at'[c] = "cancel"
  BY DEF SetFailure, FinishThrows, FailureState, Goto, HoldingSteps, transport, peers, IInv, TypeOK
<1>2. \A d \in Controllers : Uses(d)' => Uses(d)
  BY <1>1 DEF Uses
<1>3. Over => Over'
  BY <1>1, <1>2 DEF Over
<1>4. at'[c] = "cancel" => Over'
  BY <1>1, OneUser DEF Over, Uses
<1>5. OneWorker' /\ OwnSession' /\ ActiveHasSession'
  BY <1>1 DEF IInv, OneWorker, OwnSession, ActiveHasSession
<1>6. PointerIsAlive'
  BY <1>1 DEF IInv, PointerIsAlive
<1>7. Ownership'
  <2>1. /\ at'[c] \notin HoldingSteps \cup {"destroy"}
        /\ \A d \in Controllers : Uses(d)' => worker = held[d] /\ held'[d] = held[d]
    BY <1>1, <1>2 DEF IInv, Ownership, HoldingSteps, Uses
  <2>2. QED
    BY <1>1, <2>1 DEF IInv, Ownership
<1>8. SessionOfWorker'
  BY <1>1, <1>3 DEF IInv, SessionOfWorker
<1>9. LastSteps'
  BY <1>1, <1>3, <1>4 DEF IInv, LastSteps, ShutdownSteps
<1>10. IdleIsPending' /\ FinishingIsPending'
  BY <1>1 DEF IdleIsPending, FinishingIsPending
<1>11. WorkersProgress' /\ SavesDrained'
  BY <1>1 DEF IInv, WorkersProgress, SavesDrained
<1>12. QED
  BY <1>5, <1>6, <1>7, <1>8, <1>9, <1>10, <1>11 DEF Safe

\* The late Cancel of a call that threw keeps the invariant: no capture that could
\* be started meanwhile loses its session.
LEMMA CancelAfterThrowSafe ==
  ASSUME IInv, NEW c \in Controllers, CancelAfterThrow(c)
  PROVE  Safe'
<1> USE DEF NoCapture
<1>1. /\ at[c] = "cancel" /\ at'[c] = "idle"
      /\ \A d \in Controllers : d # c => at'[d] = at[d]
      /\ UNCHANGED <<state, worker, session, alive, link, joined, hasData, held, stopping>>
  BY DEF CancelAfterThrow, Goto, coordinator, peers, locals, IInv, TypeOK
<1>2. Over /\ held[c] = NoCapture
  BY <1>1 DEF IInv, LastSteps, Ownership, HoldingSteps
<1>3. \A d \in Controllers : Uses(d)' <=> Uses(d)
  BY <1>1, <1>2 DEF Uses
<1>4. Over'
  BY <1>1, <1>2, <1>3 DEF Over
<1>5. OneWorker' /\ PointerIsAlive' /\ OwnSession'
  BY <1>1 DEF IInv, OneWorker, PointerIsAlive, OwnSession
<1>6. ActiveHasSession' /\ IdleIsPending'
  BY <1>4 DEF ActiveHasSession, IdleIsPending, Over
<1>7. Ownership'
  BY <1>1, <1>2, <1>3 DEF IInv, Ownership, HoldingSteps
<1>8. SessionOfWorker' /\ LastSteps'
  BY <1>1, <1>2, <1>4 DEF IInv, SessionOfWorker, LastSteps
<1>9. FinishingIsPending'
  BY <1>1, <1>3 DEF IInv, FinishingIsPending, ShutdownSteps
<1>10. WorkersProgress' /\ SavesDrained'
  BY <1>1 DEF IInv, WorkersProgress, SavesDrained
<1>11. QED
  BY <1>5, <1>6, <1>7, <1>8, <1>9, <1>10 DEF Safe

\* The other steps of shutdown keep the invariant.
LEMMA ShutdownSafe ==
  ASSUME IInv, NEW c \in Controllers,
         ShutdownBegins(c) \/ ShutdownProfiler(c) \/ ShutdownEnds(c) \/ ShutdownThrows(c)
  PROVE  Safe'
<1> USE DEF NoCapture
<1>1. /\ \/ /\ at[c] = "idle" /\ at'[c] = "shut down"
            /\ state = "IDLE" /\ state' = "FINISHING"
         \/ at[c] = "shut down" /\ at'[c] = "shutdown reset" /\ state' = state
         \/ at[c] = "shutdown end" /\ at'[c] = "idle" /\ state' = "FINISHED"
         \/ at[c] \in ShutdownSteps /\ at'[c] = "fail" /\ state' = state
      /\ \A d \in Controllers : d # c => at'[d] = at[d]
      /\ UNCHANGED <<worker, session, alive, link, joined, hasData, held, stopping>>
  BY DEF ShutdownBegins, ShutdownProfiler, ShutdownEnds, ShutdownThrows, Goto, coordinator, transport, peers,
     locals, IInv, TypeOK
<1>2. /\ \A d \in Controllers : ~Uses(d)
      /\ at[c] = "idle" \/ Over
  BY <1>1 DEF IInv, Ownership, LastSteps, ShutdownSteps, Over
<1>3. held[c] = NoCapture
  BY <1>1 DEF IInv, Ownership, HoldingSteps, ShutdownSteps
<1>4. \A d \in Controllers : ~Uses(d)'
  BY <1>1, <1>2, <1>3 DEF Uses
<1>5. Over'
  BY <1>1, <1>2, <1>4 DEF Over, ShutdownSteps
<1>6. OneWorker' /\ PointerIsAlive' /\ OwnSession'
  BY <1>1 DEF IInv, OneWorker, PointerIsAlive, OwnSession
<1>7. ActiveHasSession' /\ IdleIsPending'
  BY <1>5 DEF ActiveHasSession, IdleIsPending, Over
<1>8. Ownership'
  BY <1>1, <1>3, <1>4, <1>5 DEF IInv, Ownership, HoldingSteps, Over
<1>9. SessionOfWorker' /\ LastSteps'
  <2>1. state' # "IDLE"
    BY <1>5 DEF Over
  <2>2. SessionOfWorker'
    BY <1>1, <1>5 DEF IInv, SessionOfWorker
  <2>3. \A d \in Controllers : at'[d] = "reset" => at[d] = "reset"
    BY <1>1
  <2>4. LastSteps'
    BY <1>1, <1>5, <2>1, <2>3 DEF IInv, LastSteps
  <2>5. QED
    BY <2>2, <2>4
<1>10. FinishingIsPending'
  BY <1>1, <1>2 DEF IInv, FinishingIsPending, ShutdownSteps
<1>11. WorkersProgress' /\ SavesDrained'
  BY <1>1 DEF IInv, WorkersProgress, SavesDrained
<1>12. QED
  BY <1>6, <1>7, <1>8, <1>9, <1>10, <1>11 DEF Safe

\* The calls that only look, the Workers and the profiler keep the invariant.
LEMMA OthersSafe ==
  ASSUME IInv,
         \/ GetState \/ ProfilerStarts
         \/ \E g \in Captures : WorkerConnects(g) \/ WorkerGetsData(g) \/ WorkerCloses(g)
  PROVE  Safe'
<1> USE DEF NoCapture
<1>1. CASE GetState
  <2>1. /\ state = "CONFIGURED" /\ state' = "CAPTURING"
        /\ UNCHANGED <<worker, session, cancelled, alive, link, joined, hasData, at, held,
                       stopping>>
    BY <1>1 DEF GetState, Promotable, transport, peers, locals
  <2>2. ~Over /\ (\A d \in Controllers : ~Uses(d)')
    BY <2>1 DEF IInv, Ownership, Uses, Over
  <2>3. OneWorker' /\ PointerIsAlive' /\ OwnSession' /\ ActiveHasSession'
    BY <2>1 DEF IInv, OneWorker, PointerIsAlive, OwnSession, ActiveHasSession
  <2>4. Ownership' /\ SessionOfWorker'
    BY <2>1, <2>2 DEF IInv, Ownership, SessionOfWorker
  <2>5. LastSteps'
    BY <2>1, <2>2 DEF IInv, LastSteps
  <2>6. IdleIsPending' /\ FinishingIsPending' /\ WorkersProgress' /\ SavesDrained'
    BY <2>1 DEF IInv, IdleIsPending, FinishingIsPending, WorkersProgress, SavesDrained
  <2>7. QED
    BY <2>3, <2>4, <2>5, <2>6 DEF Safe
<1>2. ASSUME UNCHANGED <<state, worker, session, cancelled, alive, at, held, stopping>>
      PROVE  /\ OneWorker' /\ PointerIsAlive' /\ ActiveHasSession'
             /\ Ownership' /\ SessionOfWorker' /\ LastSteps'
             /\ IdleIsPending' /\ FinishingIsPending'
  <2>1. Over' <=> Over
    BY <1>2 DEF Over, Uses
  <2>2. OneWorker' /\ PointerIsAlive' /\ ActiveHasSession'
    BY <1>2 DEF IInv, OneWorker, PointerIsAlive, ActiveHasSession
  <2>3. Ownership'
    BY <1>2 DEF IInv, Ownership, Uses
  <2>4. SessionOfWorker' /\ LastSteps'
    BY <1>2, <2>1 DEF IInv, SessionOfWorker, LastSteps
  <2>5. IdleIsPending' /\ FinishingIsPending'
    BY <1>2 DEF IInv, IdleIsPending, FinishingIsPending, Uses
  <2>6. QED
    BY <2>2, <2>3, <2>4, <2>5
<1>3. CASE ProfilerStarts
  <2>1. UNCHANGED <<state, worker, session, cancelled, alive, link, joined, hasData, at, held,
                    stopping>>
    BY <1>3 DEF ProfilerStarts, coordinator, locals
  <2>2. OwnSession' /\ WorkersProgress' /\ SavesDrained'
    BY <2>1 DEF IInv, OwnSession, WorkersProgress, SavesDrained
  <2>3. QED
    BY <1>2, <2>1, <2>2 DEF Safe
<1>4. ASSUME NEW g \in Captures, WorkerConnects(g) PROVE Safe'
  <2>1. /\ g \in alive /\ link[g] = "joining" /\ session # NoCapture
        /\ link'[g] = "connected" /\ joined'[g] = session
        /\ \A h \in Captures : h # g => link'[h] = link[h] /\ joined'[h] = joined[h]
        /\ UNCHANGED <<state, worker, session, cancelled, alive, hasData, at, held, stopping>>
    BY <1>4 DEF WorkerConnects, coordinator, transport, locals, IInv, TypeOK
  <2>2. session = g
    BY <2>1 DEF IInv, SessionOfWorker, OneWorker
  <2>3. OwnSession'
    BY <2>1, <2>2 DEF IInv, OwnSession
  <2>4. g \notin hasData /\ hasData \subseteq Captures
    BY <2>1 DEF IInv, WorkersProgress, TypeOK, Captures
  <2>5. WorkersProgress'
    BY <2>1, <2>2, <2>4 DEF IInv, WorkersProgress
  <2>6. SavesDrained'
    BY <2>1, <2>4 DEF IInv, SavesDrained
  <2>7. QED
    BY <1>2, <2>1, <2>3, <2>5, <2>6 DEF Safe
<1>5. ASSUME NEW g \in Captures, WorkerGetsData(g) \/ WorkerCloses(g) PROVE Safe'
  <2>1. /\ link[g] = "connected"
        /\ hasData \subseteq hasData' /\ hasData' \subseteq hasData \cup {g}
        /\ link'[g] \in {"connected", "closed"}
        /\ \A h \in Captures : h # g => link'[h] = link[h]
        /\ UNCHANGED <<state, worker, session, cancelled, alive, joined, at, held, stopping>>
    BY <1>5 DEF WorkerGetsData, WorkerCloses, coordinator, transport, locals, IInv, TypeOK
  <2>2. WorkersProgress'
    BY <2>1 DEF IInv, WorkersProgress
  <2>3. hasData \subseteq Captures
    BY DEF IInv, TypeOK, Captures
  <2>4. OwnSession' /\ SavesDrained'
    BY <2>1, <2>3 DEF IInv, OwnSession, SavesDrained
  <2>5. QED
    BY <1>2, <2>1, <2>2, <2>4 DEF Safe
<1>6. QED
  BY <1>1, <1>3, <1>4, <1>5

\* Every step keeps the types.
LEMMA TypesKept ==
  ASSUME IInv, Next
  PROVE  TypeOK'
<1>0. /\ made \in 0..MaxCaptures /\ session \in 0..made
      /\ made \in Nat /\ 0 \in 0..made /\ {session} \ {0} \subseteq 1..made
  <2>1. made \in 0..MaxCaptures /\ session \in 0..made
    BY DEF IInv, TypeOK
  <2>2. QED
    BY <2>1
<1> USE DEF TypeOK, NoCapture, Captures
<1>1. ASSUME NEW c \in Controllers, NEW reuse \in BOOLEAN,
             Configure(c, reuse) \/ WorkerThrows(c, reuse)
      PROVE  TypeOK'
  <2> USE DEF Configure, WorkerThrows, MakeSession, Goto, SnapshotAtStart
  <2>1. made \in Nat /\ made' = made + 1 /\ made' \in 1..MaxCaptures
    BY <1>1 DEF IInv
  <2>2. worker' \in 0..made' /\ session' \in 0..made' /\ snapshot' \in 0..made'
    BY <1>1, <2>1 DEF IInv, coordinator
  <2>3. alive' \subseteq 1..made' /\ cancelled' \subseteq 1..made' /\ hasData' \subseteq 1..made'
    <3>1. alive' \subseteq alive \cup {made'} /\ cancelled' = cancelled /\ hasData' = hasData
      BY <1>1, <2>1 DEF peers
    <3>2. 1..made \subseteq 1..made' /\ made' \in 1..made'
      BY <2>1
    <3>3. QED
      BY <3>1, <3>2 DEF IInv
  <2>4. joined' \in [Captures -> 0..made'] /\ held' \in [Controllers -> 0..made']
    BY <1>1, <2>1 DEF IInv, peers, locals
  <2>5. at' \in [Controllers -> Steps]
    BY <1>1 DEF IInv, Steps
  <2>6. QED
    BY <1>1, <2>1, <2>2, <2>3, <2>4, <2>5 DEF IInv, States, coordinator, peers, locals
<1>2. ASSUME NEW c \in Controllers, NEW reuse \in BOOLEAN,
             ConfigureFails(c, reuse) \/ ConfigureThrows(c, reuse)
      PROVE  TypeOK'
  BY <1>2 DEF IInv, ConfigureFails, ConfigureThrows, Goto, States, Steps, coordinator,
     transport, peers, locals
<1>3. ASSUME NEW c \in Controllers, NEW save \in BOOLEAN, NEW stop \in BOOLEAN,
             FinishBegins(c, save, stop)
      PROVE  TypeOK'
  BY <1>3 DEF IInv, FinishBegins, Goto, States, Steps, FinishSteps, transport, peers
<1>4. ASSUME NEW c \in Controllers, Finishing(c) PROVE TypeOK'
  <2> USE DEF IInv, Goto, Steps, FinishSteps, ShutdownSteps, coordinator, transport, peers, locals
  <2>1. CASE FinishChecks(c) \/ RequestDisconnect(c) \/ WorkerIsDone(c) \/ FinishTimesOut(c)
    BY <2>1 DEF FinishChecks, RequestDisconnect, WorkerIsDone, FinishTimesOut
  <2>2. CASE GiveUp(c) \/ CancelAfterThrow(c)
    <3>1. cancelled' \subseteq 1..made
      BY <1>0, <2>2 DEF GiveUp, CancelAfterThrow
    <3>2. at' \in [Controllers -> Steps]
      BY <2>2 DEF GiveUp, CancelAfterThrow
    <3>3. QED
      BY <2>2, <3>1, <3>2 DEF GiveUp, CancelAfterThrow
  <2>3. CASE TakeSnapshot(c) \/ SaveCapture(c)
    <3>1. at' \in [Controllers -> Steps] /\ snapshot' \in 0..made
      BY <2>3 DEF TakeSnapshot, SaveCapture
    <3>2. QED
      BY <2>3, <3>1 DEF TakeSnapshot, SaveCapture
  <2>4. CASE FinishCompletes(c)
    <3>1. worker' \in 0..made /\ state' \in States /\ at' \in [Controllers -> Steps]
      BY <1>0, <2>4 DEF FinishCompletes, States
    <3>2. QED
      BY <2>4, <3>1 DEF FinishCompletes
  <2>5. CASE DestroyWorker(c)
    <3>1. /\ at' \in [Controllers -> Steps]
          /\ link' \in [Captures -> {"joining", "connected", "closed"}]
      BY <2>5 DEF DestroyWorker, AfterDestroy
    <3>2. held' \in [Controllers -> 0..made] /\ alive' \subseteq 1..made
      BY <1>0, <2>5 DEF DestroyWorker
    <3>3. QED
      BY <2>5, <3>1, <3>2 DEF DestroyWorker
  <2>6. CASE ResetTransport(c)
    <3>1. at' \in [Controllers -> Steps] /\ session' \in 0..made
      BY <1>0, <2>6 DEF ResetTransport
    <3>2. QED
      BY <2>6, <3>1 DEF ResetTransport
  <2>7. CASE SetFailure(c)
    <3>1. at' \in [Controllers -> Steps] /\ state' \in States
      BY <2>7 DEF SetFailure, FailureState, States
    <3>2. held' \in [Controllers -> 0..made]
      BY <1>0, <2>7 DEF SetFailure
    <3>3. QED
      BY <2>7, <3>1, <3>2 DEF SetFailure
  <2>8. QED
    BY <1>4, <2>1, <2>2, <2>3, <2>4, <2>5, <2>6, <2>7 DEF Finishing
<1>5. ASSUME NEW c \in Controllers, FinishThrows(c) PROVE TypeOK'
  <2>1. at' \in [Controllers -> Steps] /\ state' \in States
    BY <1>5 DEF IInv, FinishThrows, Goto, Steps, States
  <2>2. held' \in [Controllers -> 0..made]
    BY <1>5 DEF IInv, FinishThrows
  <2>3. QED
    BY <1>5, <2>1, <2>2 DEF IInv, FinishThrows, transport, peers
<1>6. ASSUME NEW c \in Controllers,
             \/ ShutdownBegins(c) \/ ProfilerShutdown(c) \/ ShutdownEnds(c) \/ ShutdownThrows(c)
      PROVE  TypeOK'
  BY <1>6 DEF IInv, ShutdownBegins, ProfilerShutdown, ShutdownClient, ShutdownProfiler,
     ShutdownEnds, ShutdownThrows, Goto, States, Steps, FinishSteps, ShutdownSteps, coordinator, transport, peers, locals
<1>7. CASE GetState \/ ProfilerStarts
  BY <1>7 DEF IInv, GetState, ProfilerStarts, States, coordinator, transport, peers, locals
<1>8. ASSUME NEW g \in Captures, WorkerConnects(g) \/ WorkerGetsData(g) \/ WorkerCloses(g)
      PROVE  TypeOK'
  <2>1. hasData' \subseteq 1..made
    BY <1>8 DEF IInv, WorkerConnects, WorkerGetsData, WorkerCloses
  <2>2. /\ link' \in [Captures -> {"joining", "connected", "closed"}]
        /\ joined' \in [Captures -> 0..made]
    BY <1>8 DEF IInv, WorkerConnects, WorkerGetsData, WorkerCloses
  <2>3. QED
    BY <1>8, <2>1, <2>2 DEF IInv, WorkerConnects, WorkerGetsData, WorkerCloses, coordinator,
       transport, locals
<1>9. QED
  BY <1>1, <1>2, <1>3, <1>4, <1>5, <1>6, <1>7, <1>8 DEF Next

\* Every step keeps the rest of the invariant.
LEMMA SafeKept ==
  ASSUME IInv, Next
  PROVE  Safe'
<1>1. ASSUME NEW c \in Controllers, Finishing(c) PROVE Safe'
  <2> USE DEF HoldingSteps, coordinator, transport, peers, locals
  <2>1. CASE FinishChecks(c)
    <3>1. held[c] # NoCapture
      BY <2>1 DEF FinishChecks, IInv, Ownership
    <3>2. CASE HasCapture(c)
      BY <2>1, <3>2, GoesOn DEF FinishChecks, HasCapture
    <3>3. CASE ~HasCapture(c)
      BY <2>1, <3>3, GoesOn DEF FinishChecks
    <3>4. QED
      BY <3>2, <3>3
  <2>2. CASE GiveUp(c)
    BY <2>2, GoesOn DEF GiveUp
  <2>3. CASE RequestDisconnect(c)
    <3>1. held[c] \in hasData
      BY <2>3 DEF RequestDisconnect, IInv, WorkersProgress
    <3>2. QED
      BY <2>3, <3>1, GoesOn DEF RequestDisconnect
  <2>4. CASE WorkerIsDone(c)
    <3>1. held[c] \in hasData /\ held[c] \in Captures /\ link[held[c]] # "connected"
      BY <2>4 DEF WorkerIsDone, IInv, WorkersProgress, TypeOK, Captures
    <3>2. joined[held[c]] = held[c] /\ link[held[c]] = "closed"
      BY <3>1 DEF IInv, WorkersProgress, TypeOK
    <3>3. QED
      BY <2>4, <3>1, <3>2, GoesOn DEF WorkerIsDone
  <2>5. CASE FinishTimesOut(c)
    BY <2>5, GoesOn DEF FinishTimesOut
  <2>6. CASE TakeSnapshot(c) \/ SaveCapture(c)
    <3>1. /\ held[c] \in hasData
          /\ joined[held[c]] = held[c] /\ link[held[c]] = "closed"
      BY <2>6 DEF TakeSnapshot, SaveCapture, IInv, SavesDrained
    <3>2. CASE TakeSnapshot(c)
      BY <3>1, <3>2, GoesOn DEF TakeSnapshot
    <3>3. CASE SaveCapture(c)
      BY <3>1, <3>3, GoesOn DEF SaveCapture
    <3>4. QED
      BY <2>6, <3>2, <3>3
  <2>7. QED
    BY <1>1, <2>1, <2>2, <2>3, <2>4, <2>5, <2>6, FinishCompletesSafe, DestroyWorkerSafe,
       ResetTransportSafe, FailureSafe, CancelAfterThrowSafe DEF Finishing
<1>2. ASSUME NEW c \in Controllers, ShutdownClient(c) PROVE Safe'
  <2> USE DEF HoldingSteps, coordinator, transport, locals
  <2>1. held[c] \in hasData
    BY <1>2 DEF ShutdownClient, IInv, WorkersProgress
  <2>2. QED
    BY <1>2, <2>1, GoesOn DEF ShutdownClient
<1>3. QED
  BY <1>1, <1>2, ConfigureSafe, ConfigureFailsSafe, FinishBeginsSafe, FailureSafe, ShutdownSafe,
     OthersSafe DEF Next, ProfilerShutdown

\* A process starts without captures.
LEMMA InitIInv == Init => IInv
<1> SUFFICES ASSUME Init PROVE IInv
  OBVIOUS
<1> USE DEF Init, NoCapture
<1>1. TypeOK
  <2>1. 0 \in 0..MaxCaptures /\ 0 \in 0..made
    OBVIOUS
  <2>2. /\ held \in [Controllers -> 0..made] /\ joined \in [Captures -> 0..made]
        /\ at \in [Controllers -> Steps]
    BY <2>1 DEF Steps
  <2>3. QED
    BY <2>1, <2>2 DEF TypeOK, States
<1>2. OneWorker /\ PointerIsAlive /\ OwnSession /\ ActiveHasSession
  BY DEF OneWorker, PointerIsAlive, OwnSession, ActiveHasSession
<1>3. Ownership /\ SessionOfWorker /\ LastSteps
  BY DEF Ownership, SessionOfWorker, LastSteps, Uses, HoldingSteps, ShutdownSteps
<1>4. IdleIsPending /\ FinishingIsPending /\ WorkersProgress /\ SavesDrained
  BY DEF IdleIsPending, FinishingIsPending, WorkersProgress, SavesDrained
<1>5. QED
  BY <1>1, <1>2, <1>3, <1>4 DEF IInv

\* The invariant is inductive.
LEMMA StepIInv == IInv /\ [Next]_vars => IInv'
<1> SUFFICES ASSUME IInv, [Next]_vars PROVE IInv'
  OBVIOUS
<1>1. CASE Next
  BY <1>1, TypesKept, SafeKept DEF IInv, Safe
<1>2. CASE UNCHANGED vars
  <2> USE <1>2 DEF vars, coordinator, transport, peers, locals
  <2>1. TypeOK'
    BY DEF IInv, TypeOK
  <2>2. OneWorker' /\ PointerIsAlive' /\ OwnSession' /\ ActiveHasSession'
    BY DEF IInv, OneWorker, PointerIsAlive, OwnSession, ActiveHasSession
  <2>3. Over' <=> Over
    BY DEF Over, Uses
  <2>4. Ownership' /\ SessionOfWorker' /\ LastSteps'
    BY <2>3 DEF IInv, Ownership, SessionOfWorker, LastSteps, Uses
  <2>5. IdleIsPending' /\ FinishingIsPending' /\ WorkersProgress' /\ SavesDrained'
    BY DEF IInv, IdleIsPending, FinishingIsPending, WorkersProgress, SavesDrained, Uses
  <2>6. QED
    BY <2>1, <2>2, <2>4, <2>5 DEF IInv
<1>3. QED
  BY <1>1, <1>2

\* IInv holds in every reachable state.
THEOREM Invariant == Spec => []IInv
<1>1. QED
  BY InitIInv, StepIInv, PTL DEF Spec

\* The state of the coordinator stays well formed.
THEOREM Types == Spec => []TypeOK
<1>1. IInv => TypeOK
  BY DEF IInv
<1>2. QED
  BY <1>1, Invariant, PTL

\* No two Workers exist at a time, whatever number of threads control captures,
\* and the pointer finishImpl keeps outside the mutex stays valid and is used by
\* one call only.
THEOREM WorkersAreOwned == Spec => []WorkerIsOwned
<1>1. IInv => WorkerIsOwned
  BY DEF IInv, WorkerIsOwned
<1>2. QED
  BY <1>1, Invariant, PTL

\* A Worker joins its own session only, and a capture that can be finished keeps
\* its session.
THEOREM SessionsAreKept == Spec => []SessionIsKept
<1>1. IInv => SessionIsKept
  BY DEF IInv, SessionIsKept
<1>2. QED
  BY <1>1, Invariant, PTL

\* FINISHING never stays behind without a call that ends it, whichever step of
\* finish, stop or shutdown fails or throws, and a stop leaves the process ready for
\* the next start.
THEOREM QuietSettles == Spec => []QuietIsSettled
<1>1. ASSUME IInv, \A c \in Controllers : at[c] = "idle" PROVE state # "FINISHING"
  <2>1. \A c \in Controllers : Uses(c) => at[c] # "idle"
    BY <1>1 DEF IInv, Ownership, Uses, HoldingSteps
  <2>2. QED
    BY <1>1, <2>1 DEF IInv, FinishingIsPending, ShutdownSteps
<1>2. IInv => QuietIsSettled
  BY <1>1 DEF IInv, IdleIsPending, QuietIsSettled
<1>3. QED
  BY <1>2, Invariant, PTL

\* Only captures that were received to their end are saved or dropped with OK.
THEOREM DrainedBeforeSave == Spec => []SavesDrained
<1>1. IInv => SavesDrained
  BY DEF IInv
<1>2. QED
  BY <1>1, Invariant, PTL

-----------------------------------------------------------------------------
(* One controlling thread, as docs/architecture.md asks for *)

OneController == \E c \in Controllers : Controllers = {c}

\* The states a call finds before one of its steps when nobody else makes calls.
StatesAt(step) ==
  CASE step = "idle" -> States \ {"FINISHING"}
    [] step = "fail" -> {"UNCONFIGURED", "IDLE", "FINISHING"}
    [] step = "cancel" -> {"FAILED"}
    [] step = "destroy" -> {"IDLE", "FINISHED", "DISCARDED"}
    [] step = "reset" -> {"IDLE"}
    [] OTHER -> {"FINISHING"}

Sequential ==
  \A c \in Controllers :
    /\ state \in StatesAt(at[c])
    /\ at[c] = "destroy" => (stopping[c] <=> state = "IDLE")

\* The statistics are those of the session until finish takes a snapshot of
\* them, and of the snapshot from then on.
Statistics ==
  \A c \in Controllers :
    state \notin {"UNCONFIGURED", "FAILED"} /\ at[c] # "fail" =>
      IF \/ state \in {"CONFIGURED", "CAPTURING"}
         \/ at[c] \in {"check", "give up", "drain", "wait", "abort", "snapshot"}
      THEN snapshot = NoCapture /\ session = made
      ELSE snapshot = made

SequentialInv == IInv /\ Sequential /\ Statistics

\* A call that only this thread makes finds the state as it left it.
LEMMA SequentialStep ==
  ASSUME OneController, SequentialInv, Next
  PROVE  Sequential' /\ Statistics'
<1> USE DEF NoCapture
<1>1. PICK c \in Controllers : Controllers = {c}
  BY DEF OneController
<1>2. /\ state \in StatesAt(at[c])
      /\ at[c] = "destroy" => (stopping[c] <=> state = "IDLE")
      /\ state \notin {"UNCONFIGURED", "FAILED"} /\ at[c] # "fail" =>
           IF \/ state \in {"CONFIGURED", "CAPTURING"}
              \/ at[c] \in {"check", "give up", "drain", "wait", "abort", "snapshot"}
           THEN snapshot = NoCapture /\ session = made
           ELSE snapshot = made
  BY DEF SequentialInv, Sequential, Statistics
<1>3. SUFFICES
        /\ state' \in StatesAt(at'[c])
        /\ at'[c] = "destroy" => (stopping'[c] <=> state' = "IDLE")
        /\ state' \notin {"UNCONFIGURED", "FAILED"} /\ at'[c] # "fail" =>
             IF \/ state' \in {"CONFIGURED", "CAPTURING"}
                \/ at'[c] \in {"check", "give up", "drain", "wait", "abort", "snapshot"}
             THEN snapshot' = NoCapture /\ session' = made'
             ELSE snapshot' = made'
  BY <1>1 DEF Sequential, Statistics, StatesAt
<1>4. /\ state \in States /\ at \in [Controllers -> Steps] /\ made \in Nat
      /\ stopping \in [Controllers -> BOOLEAN] /\ saving \in [Controllers -> BOOLEAN]
      /\ reusable \in BOOLEAN
  BY DEF SequentialInv, IInv, TypeOK
<1> USE <1>2, <1>4 DEF StatesAt, States, Goto, transport, coordinator, peers, locals
<1>5. ASSUME NEW reuse \in BOOLEAN, Configure(c, reuse) \/ ConfigureFails(c, reuse)
                                   \/ ConfigureThrows(c, reuse) \/ WorkerThrows(c, reuse)
      PROVE  <1>3!1
  BY <1>5 DEF Configure, ConfigureFails, ConfigureThrows, WorkerThrows, MayConfigure,
     MakeSession, SnapshotAtStart
<1>6. ASSUME NEW save \in BOOLEAN, NEW stop \in BOOLEAN, FinishBegins(c, save, stop)
      PROVE  <1>3!1
  BY <1>6 DEF FinishBegins, MayFinish
<1>7. CASE \/ FinishChecks(c) \/ GiveUp(c) \/ RequestDisconnect(c) \/ ShutdownClient(c)
           \/ WorkerIsDone(c) \/ FinishTimesOut(c)
  BY <1>7 DEF FinishChecks, GiveUp, RequestDisconnect, ShutdownClient, WorkerIsDone, FinishTimesOut
<1>8. CASE TakeSnapshot(c) \/ SaveCapture(c) \/ FinishCompletes(c)
  BY <1>8 DEF TakeSnapshot, SaveCapture, FinishCompletes
<1>9. CASE DestroyWorker(c) \/ ResetTransport(c)
  BY <1>9 DEF DestroyWorker, AfterDestroy, ResetTransport
<1>10. CASE SetFailure(c) \/ CancelAfterThrow(c) \/ FinishThrows(c)
  BY <1>10 DEF SetFailure, FailureState, CancelAfterThrow, FinishThrows
<1>11. CASE ShutdownBegins(c) \/ ShutdownProfiler(c) \/ ShutdownEnds(c) \/ ShutdownThrows(c)
  BY <1>11 DEF ShutdownBegins, ShutdownProfiler, ShutdownEnds, ShutdownThrows, ShutdownSteps
<1>12. CASE GetState \/ ProfilerStarts
  BY <1>12 DEF GetState, Promotable, ProfilerStarts
<1>13. ASSUME NEW g \in Captures, WorkerConnects(g) \/ WorkerGetsData(g) \/ WorkerCloses(g)
       PROVE  <1>3!1
  BY <1>13 DEF WorkerConnects, WorkerGetsData, WorkerCloses
<1> QED
  BY <1>1, <1>5, <1>6, <1>7, <1>8, <1>9, <1>10, <1>11, <1>12, <1>13
  DEF Next, Finishing, ProfilerShutdown

\* The library starts in the invariant of one controlling thread.
LEMMA SequentialInitHolds == Init => SequentialInv
<1>1. Init => Sequential /\ Statistics
  BY DEF Init, Sequential, Statistics, StatesAt, States
<1> QED
  BY <1>1, InitIInv DEF SequentialInv

\* With one controlling thread every step keeps that invariant.
LEMMA SequentialHolds ==
  ASSUME OneController
  PROVE  SequentialInv /\ [Next]_vars => SequentialInv'
<1> SUFFICES ASSUME SequentialInv, [Next]_vars PROVE SequentialInv'
  OBVIOUS
<1>1. IInv'
  BY StepIInv DEF SequentialInv
<1>2. CASE Next
  BY <1>1, <1>2, SequentialStep DEF SequentialInv
<1>3. CASE UNCHANGED vars
  BY <1>1, <1>3 DEF SequentialInv, Sequential, Statistics, vars, coordinator, transport, locals
<1> QED
  BY <1>2, <1>3

\* With one controlling thread get_statistics speaks of the capture that was
\* started last, before and after the transport of that capture is reset.
THEOREM StatisticsCurrent ==
  ASSUME OneController
  PROVE  Spec => []StatisticsAreCurrent
<1>1. ASSUME SequentialInv PROVE StatisticsAreCurrent
  <2> SUFFICES ASSUME state \notin {"UNCONFIGURED", "FAILED"},
                      \A c \in Controllers : at[c] # "fail"
               PROVE  StatisticsSource = made
    BY DEF StatisticsAreCurrent
  <2>1. PICK c \in Controllers : TRUE
    BY DEF OneController
  <2>2. (snapshot = NoCapture /\ session = made) \/ snapshot = made
    BY <1>1, <2>1 DEF SequentialInv, Statistics
  <2>3. made \in Nat /\ session \in 0..made
    BY <1>1 DEF SequentialInv, IInv, TypeOK
  <2> QED
    BY <2>2, <2>3 DEF StatisticsSource, NoCapture
<1>2. SequentialInv /\ [Next]_vars => SequentialInv'
  BY SequentialHolds
<1> QED
  BY <1>1, <1>2, SequentialInitHolds, PTL DEF Spec

\* With one controlling thread FINISHED, FAILED and DISCARDED are never left.
THEOREM TerminalStays ==
  ASSUME OneController
  PROVE  Spec => TerminalIsFinal
<1>1. ASSUME SequentialInv, [Next]_vars PROVE Terminal => state' = state
  <2> SUFFICES ASSUME Terminal, state' # state PROVE FALSE
    OBVIOUS
  <2>1. PICK c \in Controllers : Controllers = {c}
    BY DEF OneController
  <2>2. state \in StatesAt(at[c]) /\ state \in {"FINISHED", "FAILED", "DISCARDED"}
    BY <1>1, <2>1 DEF SequentialInv, Sequential, Terminal
  <2> USE <2>2 DEF StatesAt, coordinator
  <2>3. Next
    BY <1>1 DEF vars
  <2>4. CASE Finishing(c)
    BY <2>4 DEF Finishing, FinishChecks, GiveUp, RequestDisconnect, WorkerIsDone, FinishTimesOut, TakeSnapshot,
       SaveCapture, FinishCompletes, DestroyWorker, ResetTransport, SetFailure, FailureState,
       CancelAfterThrow
  <2>5. CASE \/ FinishThrows(c) \/ ProfilerShutdown(c) \/ ShutdownBegins(c)
             \/ ShutdownEnds(c) \/ ShutdownThrows(c)
    BY <2>5 DEF FinishThrows, ProfilerShutdown, ShutdownClient, ShutdownProfiler, ShutdownEnds,
       ShutdownThrows, ShutdownBegins
  <2>6. ASSUME NEW reuse \in BOOLEAN, NEW save \in BOOLEAN,
               \/ Configure(c, reuse) \/ ConfigureFails(c, reuse) \/ ConfigureThrows(c, reuse)
               \/ WorkerThrows(c, reuse) \/ FinishBegins(c, save, reuse)
        PROVE  FALSE
    BY <2>6 DEF Configure, ConfigureFails, ConfigureThrows, WorkerThrows, MayConfigure,
       FinishBegins, MayFinish
  <2>7. CASE GetState \/ ProfilerStarts
    BY <2>7 DEF GetState, Promotable, ProfilerStarts
  <2>8. ASSUME NEW g \in Captures, WorkerConnects(g) \/ WorkerGetsData(g) \/ WorkerCloses(g)
        PROVE  FALSE
    BY <2>8 DEF WorkerConnects, WorkerGetsData, WorkerCloses
  <2> QED
    BY <2>1, <2>3, <2>4, <2>5, <2>6, <2>7, <2>8 DEF Next
<1>2. SequentialInv /\ [Next]_vars => (Terminal => state' = state)
  BY <1>1
<1>3. SequentialInv /\ [Next]_vars => SequentialInv'
  BY SequentialHolds
<1>4. SequentialInv /\ [Next]_vars => [Terminal => state' = state]_vars
  BY <1>2
<1> QED
  BY <1>3, <1>4, SequentialInitHolds, PTL DEF Spec, TerminalIsFinal
=============================================================================
