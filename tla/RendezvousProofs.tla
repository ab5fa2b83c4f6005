--------------------------- MODULE RendezvousProofs ---------------------------
(***************************************************************************)
(* Proofs about Rendezvous, for every number of sessions.                  *)
(***************************************************************************)
EXTENDS Rendezvous, TLAPS

USE SessionsAssumption

Flags == [listening: BOOLEAN, connected: BOOLEAN, accepted: BOOLEAN, cancelled: BOOLEAN]

\* The flags of a session count its endpoints; nobody joined a session that was
\* not made yet.
FlagsCountEnds ==
  \A s \in Sessions :
    /\ serverEnds[s] = IF session[s].connected THEN 1 ELSE 0
    /\ clientEnds[s] = IF session[s].accepted THEN 1 ELSE 0
    /\ session[s].accepted => session[s].connected
    /\ session[s].connected => s <= allocated

\* A call that began under a session observes that session.
ObservesBegun == acceptor # "idle" /\ began # NoSession => observed = began

IInv ==
  /\ TypeOK
  /\ FlagsCountEnds
  /\ ObservesBegun
  /\ NoLostWakeup

\* A process starts without sessions, endpoints or calls.
LEMMA InitIInv == Init => IInv
<1> USE DEF Init, NoSession
<1>1. Init => TypeOK
  <2> SUFFICES ASSUME Init PROVE TypeOK
    OBVIOUS
  <2>1. session \in [Sessions -> Flags]
    BY DEF NewSession, Flags
  <2>2. allocated \in 0..MaxSessions /\ current \in 0..allocated
    OBVIOUS
  <2>3. observed \in 0..allocated /\ began \in 0..allocated
    OBVIOUS
  <2>4. QED
    BY <2>1, <2>2, <2>3 DEF TypeOK, Flags
<1>2. Init => FlagsCountEnds
  BY DEF FlagsCountEnds, NewSession
<1>3. Init => ObservesBegun /\ NoLostWakeup
  BY DEF ObservesBegun, NoLostWakeup
<1>4. QED
  BY <1>1, <1>2, <1>3 DEF IInv

\* The calls of the owner keep the invariant.
LEMMA OwnerIInv ==
  ASSUME IInv, Configure \/ ConfigureRefused \/ Cancel \/ Reset
  PROVE  IInv'
<1> USE DEF IInv, TypeOK, Sessions, NoSession, Threads, call, ends
<1>1. CASE Configure
  <2> USE <1>1 DEF Configure, Allocate, ListeningAtBirth, NewSession, Owes
  <2>1. TypeOK'
    <3>1. session' \in [Sessions -> Flags]
      BY DEF Flags
    <3>2. allocated' \in 0..MaxSessions /\ current' \in 0..allocated'
      OBVIOUS
    <3>3. observed' \in 0..allocated' /\ began' \in 0..allocated'
      OBVIOUS
    <3>4. QED
      BY <3>1, <3>2, <3>3 DEF Flags
  <2>2. FlagsCountEnds'
    BY DEF FlagsCountEnds
  <2>3. ObservesBegun' /\ NoLostWakeup'
    BY DEF ObservesBegun, NoLostWakeup
  <2>4. QED
    BY <2>1, <2>2, <2>3
<1>2. CASE ConfigureRefused
  BY <1>2 DEF ConfigureRefused, FlagsCountEnds, ObservesBegun, NoLostWakeup, AcceptDue,
     SessionLost, SessionCancelled, PeerReady
<1>3. CASE Cancel
  <2> USE <1>3 DEF Cancel, Owes
  <2>1. TypeOK'
    <3>1. session' \in [Sessions -> Flags]
      BY DEF Flags
    <3>2. serverEnds' \in [Sessions -> Nat] /\ clientEnds' \in [Sessions -> Nat]
      OBVIOUS
    <3>3. QED
      BY <3>1, <3>2 DEF Flags
  <2>2. FlagsCountEnds'
    BY DEF FlagsCountEnds
  <2>3. ObservesBegun' /\ NoLostWakeup'
    BY DEF ObservesBegun, NoLostWakeup
  <2>4. QED
    BY <2>1, <2>2, <2>3
<1>4. CASE Reset
  <2> USE <1>4 DEF Reset, Owes
  <2>1. TypeOK'
    <3>1. current' \in 0..allocated' /\ owed' \subseteq Threads
      OBVIOUS
    <3>2. QED
      BY <3>1
  <2>2. FlagsCountEnds'
    BY DEF FlagsCountEnds
  <2>3. ObservesBegun' /\ NoLostWakeup'
    BY DEF ObservesBegun, NoLostWakeup
  <2>4. QED
    BY <2>1, <2>2, <2>3
<1>5. QED
  BY <1>1, <1>2, <1>3, <1>4

\* The calls of the connecting thread keep the invariant.
LEMMA WorkerIInv ==
  ASSUME IInv, Connect \/ ConnectGivesUp
  PROVE  IInv'
<1> USE DEF IInv, TypeOK, Sessions, NoSession, Threads, call, ends
<1>1. CASE Connect
  <2> USE <1>1 DEF Connect, MayConnect, Owes
  <2>1. TypeOK'
    <3>1. session' \in [Sessions -> Flags]
      BY DEF Flags
    <3>2. serverEnds' \in [Sessions -> Nat] /\ clientEnds' \in [Sessions -> Nat]
      OBVIOUS
    <3>3. QED
      BY <3>1, <3>2 DEF Flags
  <2>2. FlagsCountEnds'
    BY DEF FlagsCountEnds
  <2>3. ObservesBegun' /\ NoLostWakeup'
    BY DEF ObservesBegun, NoLostWakeup
  <2>4. QED
    BY <2>1, <2>2, <2>3
<1>2. CASE ConnectGivesUp
  BY <1>2 DEF ConnectGivesUp, FlagsCountEnds, ObservesBegun, NoLostWakeup, AcceptDue,
     SessionLost, SessionCancelled, PeerReady
<1>3. QED
  BY <1>1, <1>2

\* The calls of the profiler keep the invariant.
LEMMA ProfilerIInv ==
  ASSUME IInv,
         \/ Listen \/ ListenTooEarly \/ AcceptCall
         \/ Accepting \/ AcceptDeadline \/ SpuriousWake
  PROVE  IInv'
<1> USE DEF IInv, TypeOK, Sessions, NoSession, Threads, call, ends
<1>1. CASE Listen
  <2> USE <1>1 DEF Listen, Idle, Owes
  <2>1. TypeOK'
    <3>1. session' \in [Sessions -> Flags]
      BY DEF Flags
    <3>2. serverEnds' \in [Sessions -> Nat] /\ clientEnds' \in [Sessions -> Nat]
      OBVIOUS
    <3>3. QED
      BY <3>1, <3>2 DEF Flags
  <2>2. FlagsCountEnds'
    BY DEF FlagsCountEnds
  <2>3. ObservesBegun' /\ NoLostWakeup'
    BY DEF ObservesBegun, NoLostWakeup
  <2>4. QED
    BY <2>1, <2>2, <2>3
<1>2. CASE ListenTooEarly \/ AcceptCall
  BY <1>2 DEF ListenTooEarly, AcceptCall, Idle, FlagsCountEnds, ObservesBegun, NoLostWakeup
<1>3. CASE AcceptSucceeds
  <2> USE <1>3 DEF AcceptSucceeds, PeerReady
  <2>1. TypeOK'
    <3>1. session' \in [Sessions -> Flags]
      BY DEF Flags
    <3>2. serverEnds' \in [Sessions -> Nat] /\ clientEnds' \in [Sessions -> Nat]
      OBVIOUS
    <3>3. QED
      BY <3>1, <3>2 DEF Flags
  <2>2. FlagsCountEnds'
    BY DEF FlagsCountEnds
  <2>3. ObservesBegun' /\ NoLostWakeup'
    BY DEF ObservesBegun, NoLostWakeup
  <2>4. QED
    BY <2>1, <2>2, <2>3
<1>4. CASE AcceptFails
  BY <1>4 DEF AcceptFails, FlagsCountEnds, ObservesBegun, NoLostWakeup
<1>5. CASE AcceptWaits
  BY <1>5 DEF AcceptWaits, FlagsCountEnds, ObservesBegun, NoLostWakeup, AcceptDue,
     SessionLost, SessionCancelled, PeerReady
<1>6. CASE AcceptDeadline \/ SpuriousWake
  BY <1>6 DEF AcceptDeadline, SpuriousWake, FlagsCountEnds, ObservesBegun, NoLostWakeup
<1>7. QED
  BY <1>1, <1>2, <1>3, <1>4, <1>5, <1>6 DEF Accepting

\* A notification, and a step that changes nothing, keep the invariant.
LEMMA NotifyIInv ==
  ASSUME IInv, (\E t \in Threads : NotifyAll(t)) \/ UNCHANGED vars
  PROVE  IInv'
<1> USE DEF IInv, TypeOK, Sessions, NoSession, Threads, call, ends, FlagsCountEnds,
        ObservesBegun, NoLostWakeup, AcceptDue, SessionLost, SessionCancelled, PeerReady
<1>1. CASE \E t \in Threads : NotifyAll(t)
  BY <1>1 DEF NotifyAll
<1>2. CASE UNCHANGED vars
  BY <1>2 DEF vars
<1>3. QED
  BY <1>1, <1>2

\* The invariant is one of every behaviour.
THEOREM Inductive == Spec => []IInv
<1>1. IInv /\ [Next]_vars => IInv'
  BY OwnerIInv, WorkerIInv, ProfilerIInv, NotifyIInv DEF Next
<1>2. QED
  BY InitIInv, <1>1, PTL DEF Spec

\* The types of Rendezvous hold, and gSession is always a session that was made.
THEOREM TypeCorrect == Spec => []TypeOK
BY Inductive, PTL DEF IInv

\* Connect and Accept join one server endpoint to one client endpoint per
\* session, whatever is cancelled, reset and configured in between.
THEOREM OnePeer == Spec => []OnePeerPerSide
<1>1. IInv => OnePeerPerSide
  BY DEF IInv, TypeOK, FlagsCountEnds, OnePeerPerSide
<1>2. QED
  BY Inductive, <1>1, PTL

\* A blocked Accept that could return has a notification on its way, although
\* notify_all comes after the unlock (comment at lines 49-50).
THEOREM WakeupsKept == Spec => []NoLostWakeup
BY Inductive, PTL DEF IInv

\* An endpoint is only made for the current session, not once it is cancelled
\* (Connect 181, Accept 200-204), and an Accept that began under one session
\* never joins another (Accept 195-198).
THEOREM EndpointsKeptCurrent == Spec => EndpointsAreCurrent
<1> DEFINE Empty == \A s \in Sessions :
                      session[s].cancelled \/ current # s
                        => UNCHANGED <<serverEnds[s], clientEnds[s]>>
           Kept == \A s \in Sessions :
                     clientEnds'[s] # clientEnds[s] => began \in {NoSession, s}
<1>1. IInv /\ Next => Empty /\ Kept
  <2> SUFFICES ASSUME IInv, Next PROVE Empty /\ Kept
    OBVIOUS
  <2> USE DEF IInv, TypeOK, Sessions, NoSession
  <2>1. CASE AcceptSucceeds
    <3>1. Empty
      BY <2>1 DEF AcceptSucceeds, PeerReady, SessionCancelled
    <3>2. Kept
      BY <2>1 DEF AcceptSucceeds, PeerReady, SessionLost, ObservesBegun
    <3>3. QED
      BY <3>1, <3>2
  <2>2. CASE Connect
    BY <2>2 DEF Connect, MayConnect
  <2>3. CASE ~AcceptSucceeds /\ ~Connect
    BY <2>3 DEF Next, Accepting, Configure, ConfigureRefused, Cancel, Reset,
       ConnectGivesUp, Listen, ListenTooEarly, AcceptCall, AcceptFails, AcceptWaits,
       AcceptDeadline, SpuriousWake, NotifyAll, ends
  <2>4. QED
    BY <2>1, <2>2, <2>3
<1>2. IInv /\ [Next]_vars =>
        [\A s \in Sessions :
           /\ session[s].cancelled \/ current # s => UNCHANGED <<serverEnds[s], clientEnds[s]>>
           /\ clientEnds'[s] # clientEnds[s] => began \in {NoSession, s}]_vars
  BY <1>1
<1>3. QED
  BY Inductive, <1>2, PTL DEF Spec, EndpointsAreCurrent
=============================================================================
