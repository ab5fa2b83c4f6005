------------------------------ MODULE Rendezvous ------------------------------
(***************************************************************************)
(* How the two ends of an embedded capture find each other: the process-   *)
(* global state of TracyEmbeddedTransport.cpp under gMutex (gSession,      *)
(* gListening, gError and the flags of a Session) and the calls Configure, *)
(* Listen, Connect, Accept, Cancel and Reset.                              *)
(*                                                                         *)
(* Three threads call them: the owner of the capture (Configure, Cancel,   *)
(* Reset), the Worker (Socket::Connect or ConnectBlocking, again and       *)
(* again) and the profiler (ListenSocket::Listen, then Accept in a loop);  *)
(* the loops of the last two are Tracy's.  Each lock of gMutex is one      *)
(* action.  The notification of gRendezvousChanged comes after the unlock, *)
(* so it is an action of its own: a thread in owed has changed the state   *)
(* and has yet to notify.                                                  *)
(***************************************************************************)
EXTENDS Integers

CONSTANTS MaxSessions   \* bound: how many sessions the process configures

ASSUME SessionsAssumption == MaxSessions \in Nat \ {0}

Sessions == 1..MaxSessions
NoSession == 0
Threads == {"owner", "worker", "profiler"}

VARIABLES
  current,    \* gSession: a session or NoSession
  allocated,  \* how many sessions were made; their numbers are never reused
  listening,  \* gListening
  failed,     \* gError is not empty
  session,    \* the flags of every Session object, also after it was reset
  owed,       \* threads between an unlock and their notify_all
  acceptor,   \* the profiler's Accept: "idle", "checking" (runs next) or "waiting"
  observed,   \* observedSession of that call
  expired,    \* its deadline has passed
  began,      \* gSession when that call began
  gaveUp,     \* sessions whose connector left ConnectBlocking because of gError
  serverEnds, \* how many server endpoints Connect made for a session
  clientEnds  \* how many client endpoints Accept made for a session

call == <<observed, expired, began>>
ends == <<serverEnds, clientEnds>>
vars == <<current, allocated, listening, failed, session, owed, acceptor, call, gaveUp, ends>>

NewSession(heard) ==
  [listening |-> heard, connected |-> FALSE, accepted |-> FALSE, cancelled |-> FALSE]

Init ==
  /\ current = NoSession /\ allocated = 0
  /\ listening = FALSE /\ failed = FALSE
  /\ session = [s \in Sessions |-> NewSession(FALSE)]
  /\ owed = {}
  /\ acceptor = "idle" /\ observed = NoSession /\ expired = FALSE /\ began = NoSession
  /\ gaveUp = {}
  /\ serverEnds = [s \in Sessions |-> 0]
  /\ clientEnds = [s \in Sessions |-> 0]

\* A bug: the notification is forgotten.
Owes_Forgotten(t) == UNCHANGED owed

\* The thread leaves gMutex and will notify next.
Owes(t) == owed' = owed \cup {t}

\* A bug: only a thread that waits for a session is woken.
NotifyAll_SomeOnly(t) ==
  /\ t \in owed
  /\ owed' = owed \ {t}
  /\ acceptor' = IF acceptor = "waiting" /\ observed = NoSession THEN "checking" ELSE acceptor
  /\ UNCHANGED <<current, allocated, listening, failed, session, call, gaveUp, ends>>

NotifyAll(t) ==
  /\ t \in owed
  /\ owed' = owed \ {t}
  /\ acceptor' = IF acceptor = "waiting" THEN "checking" ELSE acceptor
  /\ UNCHANGED <<current, allocated, listening, failed, session, call, gaveUp, ends>>

-----------------------------------------------------------------------------
(* The owner *)

\* A bug: a new session does not know that the profiler already listens.
ListeningAtBirth_Deaf == FALSE

\* Listen is called once in the life of the process.
ListeningAtBirth == listening

\* A bug: the number of a session is given out again.
Allocate_Again == UNCHANGED allocated

Allocate == allocated' = allocated + 1

Configure ==
  /\ "owner" \notin owed
  /\ current = NoSession
  /\ allocated < MaxSessions
  /\ Allocate
  /\ current' = allocated + 1
  /\ session' = [session EXCEPT ![allocated + 1] = NewSession(ListeningAtBirth)]
  /\ failed' = FALSE
  /\ Owes("owner")
  /\ UNCHANGED <<listening, acceptor, call, gaveUp, ends>>

\* A bad capacity, a session that is still there, or no memory for a new one.
ConfigureRefused ==
  /\ "owner" \notin owed
  /\ failed' = TRUE
  /\ UNCHANGED <<current, allocated, listening, session, owed, acceptor, call, gaveUp, ends>>

\* cancelPipe on both pipes comes between the flag and the notification.
Cancel ==
  /\ "owner" \notin owed
  /\ current # NoSession
  /\ session' = [session EXCEPT ![current].cancelled = TRUE]
  /\ Owes("owner")
  /\ UNCHANGED <<current, allocated, listening, failed, acceptor, call, gaveUp, ends>>

Reset ==
  /\ "owner" \notin owed
  /\ current' = NoSession
  /\ failed' = FALSE
  /\ Owes("owner")
  /\ UNCHANGED <<allocated, listening, session, acceptor, call, gaveUp, ends>>

-----------------------------------------------------------------------------
(* The Worker *)

MayConnect ==
  /\ current # NoSession
  /\ session[current].listening
  /\ ~session[current].cancelled
  /\ ~session[current].connected

Connect ==
  /\ "worker" \notin owed
  /\ current \notin gaveUp
  /\ MayConnect
  /\ session' = [session EXCEPT ![current].connected = TRUE]
  /\ serverEnds' = [serverEnds EXCEPT ![current] = @ + 1]
  /\ Owes("worker")
  /\ UNCHANGED <<current, allocated, listening, failed, acceptor, call, gaveUp, clientEnds>>

\* ConnectBlocking returns false when an attempt failed and gError is set.
ConnectGivesUp ==
  /\ "worker" \notin owed
  /\ current # NoSession
  /\ ~session[current].connected
  /\ failed
  /\ gaveUp' = gaveUp \cup {current}
  /\ UNCHANGED <<current, allocated, listening, failed, session, owed, acceptor, call, ends>>

-----------------------------------------------------------------------------
(* The profiler *)

Idle == acceptor = "idle" /\ "profiler" \notin owed

Listen ==
  /\ Idle
  /\ current # NoSession
  /\ ~listening /\ ~session[current].cancelled
  /\ listening' = TRUE
  /\ session' = [session EXCEPT ![current].listening = TRUE]
  /\ Owes("profiler")
  /\ UNCHANGED <<current, allocated, failed, acceptor, call, gaveUp, ends>>

ListenTooEarly ==
  /\ Idle
  /\ current = NoSession
  /\ failed' = TRUE
  /\ UNCHANGED <<current, allocated, listening, session, owed, acceptor, call, gaveUp, ends>>

\* ListenSocket::Accept is only reached after a successful Listen.
AcceptCall ==
  /\ Idle
  /\ listening
  /\ acceptor' = "checking"
  /\ observed' = current
  /\ began' = current
  /\ expired' = FALSE
  /\ UNCHANGED <<current, allocated, listening, failed, session, owed, gaveUp, ends>>

\* A bug: a call may go over to the next session.
SessionLost_Never == FALSE

\* The session of this call was reset, perhaps replaced.
SessionLost == observed # NoSession /\ current # observed

SessionCancelled == current # NoSession /\ session[current].cancelled

\* A bug: a session may be accepted again.
PeerReady_Again == current # NoSession /\ session[current].connected

PeerReady ==
  /\ current # NoSession
  /\ session[current].connected /\ ~session[current].accepted

AcceptSucceeds ==
  /\ acceptor = "checking"
  /\ ~SessionLost /\ ~SessionCancelled
  /\ PeerReady
  /\ session' = [session EXCEPT ![current].accepted = TRUE]
  /\ clientEnds' = [clientEnds EXCEPT ![current] = @ + 1]
  /\ acceptor' = "idle"
  /\ UNCHANGED <<current, allocated, listening, failed, owed, call, gaveUp, serverEnds>>

AcceptFails ==
  /\ acceptor = "checking"
  /\ SessionLost \/ SessionCancelled \/ (expired /\ ~PeerReady)
  /\ acceptor' = "idle"
  /\ UNCHANGED <<current, allocated, listening, failed, session, owed, call, gaveUp, ends>>

AcceptWaits ==
  /\ acceptor = "checking"
  /\ ~SessionLost /\ ~SessionCancelled /\ ~PeerReady
  /\ ~expired
  /\ acceptor' = "waiting"
  /\ observed' = IF observed = NoSession THEN current ELSE observed
  /\ UNCHANGED <<current, allocated, listening, failed, session, owed, expired, began,
                 gaveUp, ends>>

\* The deadline of wait_until passes.
AcceptDeadline ==
  /\ acceptor = "waiting"
  /\ acceptor' = "checking"
  /\ expired' = TRUE
  /\ UNCHANGED <<current, allocated, listening, failed, session, owed, observed, began,
                 gaveUp, ends>>

SpuriousWake ==
  /\ acceptor = "waiting"
  /\ acceptor' = "checking"
  /\ UNCHANGED <<current, allocated, listening, failed, session, owed, call, gaveUp, ends>>

-----------------------------------------------------------------------------
Accepting == AcceptSucceeds \/ AcceptFails \/ AcceptWaits

Next ==
  \/ Configure \/ ConfigureRefused \/ Cancel \/ Reset
  \/ Connect \/ ConnectGivesUp
  \/ Listen \/ ListenTooEarly \/ AcceptCall \/ Accepting \/ AcceptDeadline \/ SpuriousWake
  \/ \E t \in Threads : NotifyAll(t)

Spec == Init /\ [][Next]_vars

\* A thread that can run does: notifications are sent, and an Accept that is not
\* blocked gets on.  The deadline is given no fairness: an Accept must not need
\* it to notice a change.
FairSpec ==
  /\ Spec
  /\ \A t \in Threads : WF_vars(NotifyAll(t))
  /\ WF_vars(Accepting)

\* A Worker that keeps trying and a profiler that, once it listens, accepts in a
\* loop, as Tracy's threads do.
PeersKeepTrying == WF_vars(Connect) /\ WF_vars(AcceptCall)

-----------------------------------------------------------------------------
(* Properties *)

TypeOK ==
  /\ allocated \in 0..MaxSessions
  /\ current \in 0..allocated
  /\ listening \in BOOLEAN /\ failed \in BOOLEAN
  /\ session \in [Sessions -> [listening: BOOLEAN, connected: BOOLEAN,
                               accepted: BOOLEAN, cancelled: BOOLEAN]]
  /\ owed \subseteq Threads
  /\ acceptor \in {"idle", "checking", "waiting"}
  /\ observed \in 0..allocated /\ began \in 0..allocated
  /\ expired \in BOOLEAN
  /\ gaveUp \subseteq Sessions
  /\ serverEnds \in [Sessions -> Nat] /\ clientEnds \in [Sessions -> Nat]

\* A session joins at most one server endpoint to at most one client endpoint,
\* and a client endpoint only exists opposite a server endpoint: both sides of
\* a pipe are never shared by two Workers or two profiler connections.
OnePeerPerSide ==
  \A s \in Sessions :
    /\ clientEnds[s] <= serverEnds[s]
    /\ serverEnds[s] <= 1

\* What would let a blocked Accept return.
AcceptDue == SessionLost \/ SessionCancelled \/ PeerReady

\* A blocked Accept that could return has a notification on its way, although
\* the notifications are sent outside gMutex (comment at lines 49-50: "Using the
\* same mutex for the condition wait makes state checks atomic and prevents lost
\* wakes").
NoLostWakeup == acceptor = "waiting" /\ AcceptDue => owed # {}

\* An endpoint is only made for the current session, and not once that is
\* cancelled: nothing can send into a capture that was given up.  Nor does an
\* Accept that began under one session join another one: a session reset and
\* configured anew under a blocked profiler is left to its next call.
EndpointsAreCurrent ==
  [][\A s \in Sessions :
       /\ session[s].cancelled \/ current # s => UNCHANGED <<serverEnds[s], clientEnds[s]>>
       /\ clientEnds'[s] # clientEnds[s] => began \in {NoSession, s}]_vars

\* An Accept that saw a session returns after that session is cancelled or
\* reset, without its deadline.
AcceptNoticesTeardown ==
  (/\ acceptor # "idle"
   /\ observed # NoSession
   /\ current # observed \/ session[observed].cancelled) ~> acceptor = "idle"

\* Once the profiler listens, every session of the process gets both its
\* endpoints unless it is torn down first or its Worker reads a stale gError;
\* this covers the later sessions, for which the profiler does not call Listen
\* again.
PeersMeet ==
  PeersKeepTrying =>
    \A s \in Sessions :
      (current = s /\ listening)
        ~> (session[s].accepted \/ session[s].cancelled \/ current # s \/ s \in gaveUp)
=============================================================================
