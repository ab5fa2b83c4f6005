------------------------------ MODULE Disconnect ------------------------------
(***************************************************************************)
(* How a reusable capture ends without ending the profiler: stop asks the  *)
(* Worker to disconnect (RequestEmbeddedDisconnect), the Worker's thread   *)
(* asks the client, and the client drains its queues, sends the            *)
(* termination marker and goes on answering until the Worker has all it    *)
(* asked for.  The sources are the patches of cmake/TracyServer.cmake to   *)
(* Tracy, finishImpl and the endpoints of the embedded transport.          *)
(*                                                                         *)
(* The connection is two pipes of frames.  Each is a ByteStream, which     *)
(* Pipe implements, so a send waits for room and fails once it is closed,  *)
(* and what is in a closed one stays readable.  What is not patched of     *)
(* Tracy is external: the serving loop, the network thread and the         *)
(* handling of frames.                                                     *)
(***************************************************************************)
EXTENDS Integers, Sequences, FiniteSets

CONSTANTS
  Events,     \* what producers commit; each may make the Worker ask one question
  UpRoom,     \* how many frames the pipe to the Worker holds
  DownRoom    \* how many questions the pipe to the client holds

\* The Worker keeps room for its last question, and "disconnect" is one that is
\* not answered.
ASSUME RoomAssumption ==
  /\ UpRoom \in Nat \ {0}
  /\ DownRoom \in Nat /\ DownRoom >= 3
  /\ IsFiniteSet(Events) /\ {"disconnect", "terminate"} \cap Events = {}

VARIABLES
  owner,      \* how far the thread in stop is
  flag,       \* m_embeddedDisconnectRequested
  emitted,    \* the events that were committed
  exec,       \* what the Worker's thread does, "deciding" with m_netReadLock held
  netRead,    \* m_netRead: the frames read and not yet taken
  net,        \* the Worker's network thread: "reading", or "ended" with its last entry
  received,   \* the events in the Worker's model
  wanted,     \* the questions the Worker has yet to send
  pending,    \* those sent and not answered
  terminate,  \* m_terminate: the marker was taken
  phase,      \* which of its loops the client's thread is in
  step,       \* and where in it
  quiet,      \* the queues of this turn were empty
  queue, serial,  \* the producers' queue and the serial queue
  buffer,     \* m_buffer: what was dequeued and not committed
  symbols,    \* the questions the client's symbol thread has to answer
  up, down,   \* the pipes: frames to the Worker, questions to the client
  shut        \* the pipes that were closed, by either side

workerVars == <<exec, netRead, net, received, wanted, pending, terminate>>
clientVars == <<phase, step, quiet, queue, serial, buffer, symbols>>
vars == <<owner, flag, emitted, workerVars, clientVars, up, down, shut>>

Items == {"event", "answer"} \X Events
Frames == [items: SUBSET Items, end: BOOLEAN]

Data(items) == [items |-> items, end |-> FALSE]
Marker == [items |-> {}, end |-> TRUE]

\* What the items of a kind are about.
About(kind, items) == {e \in Events : <<kind, e>> \in items}

Init ==
  /\ owner = "capturing" /\ flag = FALSE /\ emitted = {}
  /\ exec = "checking" /\ netRead = <<>> /\ net = "reading"
  /\ received = {} /\ wanted = {} /\ pending = {} /\ terminate = FALSE
  /\ phase = "serving" /\ step = "queue" /\ quiet = TRUE
  /\ queue = {} /\ serial = {} /\ buffer = {} /\ symbols = {}
  /\ up = <<>> /\ down = <<>> /\ shut = {}

-----------------------------------------------------------------------------
(* The thread in stop. *)

\* Producers are quiet once stop has begun.
Emit(e) ==
  /\ owner = "capturing" /\ e \notin emitted
  /\ emitted' = emitted \cup {e}
  /\ \/ queue' = queue \cup {<<"event", e>>} /\ UNCHANGED serial
     \/ serial' = serial \cup {<<"event", e>>} /\ UNCHANGED queue
  /\ UNCHANGED <<owner, flag, workerVars, phase, step, quiet, buffer, symbols, up, down, shut>>

\* RequestEmbeddedDisconnect stores the flag...
Request ==
  /\ owner = "capturing"
  /\ owner' = "requesting" /\ flag' = TRUE
  /\ UNCHANGED <<emitted, workerVars, clientVars, up, down, shut>>

\* A thread that sleeps on m_netReadCv looks again.
Woken == IF exec = "waiting" THEN "checking" ELSE exec

\* ...and notifies without m_netReadLock: a Worker that has found nothing to do
\* and does not sleep yet misses it.
Notify ==
  /\ owner = "requesting"
  /\ owner' = "waiting" /\ exec' = Woken
  /\ UNCHANGED <<flag, emitted, netRead, net, received, wanted, pending, terminate,
                 clientVars, up, down, shut>>

IsConnected == exec # "ended"

Disconnected ==
  /\ owner = "waiting" /\ ~IsConnected
  /\ owner' = "ok"
  /\ UNCHANGED <<flag, emitted, workerVars, clientVars, up, down, shut>>

\* 30 seconds have passed.
Deadline ==
  /\ owner = "waiting" /\ IsConnected
  /\ owner' = "cancelling"
  /\ UNCHANGED <<flag, emitted, workerVars, clientVars, up, down, shut>>

\* Cancel closes one pipe after the other.
Cancel ==
  /\ \/ owner = "cancelling" /\ owner' = "half cancelled" /\ shut' = shut \cup {"up"}
     \/ owner = "half cancelled" /\ owner' = "error" /\ shut' = shut \cup {"down"}
  /\ UNCHANGED <<flag, emitted, workerVars, clientVars, up, down>>

-----------------------------------------------------------------------------
(* The Worker. *)

\* The network thread hands a frame over, with m_netReadLock held.
NetRead ==
  /\ net = "reading" /\ up # <<>>
  /\ exec # "deciding" /\ Len(netRead) < UpRoom
  /\ netRead' = Append(netRead, Head(up)) /\ up' = Tail(up)
  /\ exec' = Woken
  /\ UNCHANGED <<owner, flag, emitted, net, received, wanted, pending, terminate,
                 clientVars, down, shut>>

\* Read returns 0: the pipe is empty and closed.
NetEnds ==
  /\ net = "reading" /\ up = <<>> /\ "up" \in shut
  /\ exec # "deciding"
  /\ net' = "ended" /\ exec' = Woken
  /\ UNCHANGED <<owner, flag, emitted, netRead, received, wanted, pending, terminate,
                 clientVars, up, down, shut>>

\* The wait of the Worker's thread is over because of the request, which is
\* taken before any data.
TakeRequest ==
  /\ exec = "checking" /\ flag
  /\ flag' = FALSE
  /\ wanted' = wanted \cup {"disconnect"}
  /\ exec' = "asking"
  /\ UNCHANGED <<owner, emitted, netRead, net, received, pending, terminate, clientVars,
                 up, down, shut>>

\* It is over because of data: the frame is handled, and an event may be one the
\* Worker has to ask about.
TakeFrame ==
  /\ exec = "checking" /\ ~flag /\ netRead # <<>>
  /\ LET frame == Head(netRead)
     IN /\ received' = received \cup About("event", frame.items)
        /\ pending' = pending \ About("answer", frame.items)
        /\ terminate' = (terminate \/ frame.end)
        /\ \E new \in SUBSET About("event", frame.items) : wanted' = wanted \cup new
  /\ netRead' = Tail(netRead)
  /\ exec' = "asking"
  /\ UNCHANGED <<owner, flag, emitted, net, clientVars, up, down, shut>>

\* The connection is gone.
TakeEnd ==
  /\ exec = "checking" /\ ~flag /\ netRead = <<>> /\ net = "ended"
  /\ exec' = "closing"
  /\ UNCHANGED <<owner, flag, emitted, netRead, net, received, wanted, pending, terminate,
                 clientVars, up, down, shut>>

\* The condition of m_netReadCv.wait is false; then the thread sleeps.
Wait ==
  /\ \/ exec = "checking" /\ ~flag /\ netRead = <<>> /\ net # "ended" /\ exec' = "deciding"
     \/ exec = "deciding" /\ exec' = "waiting"
  /\ UNCHANGED <<owner, flag, emitted, netRead, net, received, wanted, pending, terminate,
                 clientVars, up, down, shut>>

\* Socket::GetSendBufSize, by which the Worker knows what it may send unanswered.
SendBufSize == DownRoom

MayAsk == Cardinality(pending) < SendBufSize - 1

\* Worker::Query; a closed pipe swallows the question.
Ask(q) ==
  /\ exec = "asking" /\ q \in wanted /\ MayAsk
  /\ \/ "down" \in shut /\ UNCHANGED down
     \/ "down" \notin shut /\ Len(down) < DownRoom /\ down' = Append(down, q)
  /\ wanted' = wanted \ {q} /\ pending' = pending \cup {q}
  /\ UNCHANGED <<owner, flag, emitted, exec, netRead, net, received, terminate, clientVars,
                 up, shut>>

\* The marker has come, and everything the Worker asked for.
Satisfied == terminate /\ wanted = {} /\ pending \subseteq {"disconnect"}

Asked ==
  /\ exec = "asking" /\ (wanted = {} \/ ~MayAsk)
  /\ exec' = IF Satisfied THEN "leaving" ELSE "checking"
  /\ UNCHANGED <<owner, flag, emitted, netRead, net, received, wanted, pending, terminate,
                 clientVars, up, down, shut>>

\* The last question ends the client's loop.
Leave ==
  /\ exec = "leaving"
  /\ \/ "down" \in shut /\ UNCHANGED down
     \/ "down" \notin shut /\ Len(down) < DownRoom /\ down' = Append(down, "terminate")
  /\ exec' = "closing"
  /\ UNCHANGED <<owner, flag, emitted, netRead, net, received, wanted, pending, terminate,
                 clientVars, up, shut>>

\* CloseEndpoint: the outgoing pipe, then the incoming one.
CloseServer ==
  /\ \/ exec = "closing" /\ shut' = shut \cup {"down"} /\ exec' = "half closed"
     \/ exec = "half closed" /\ shut' = shut \cup {"up"} /\ exec' = "ended"
  /\ UNCHANGED <<owner, flag, emitted, netRead, net, received, wanted, pending, terminate,
                 clientVars, up, down>>

-----------------------------------------------------------------------------
(* The client's thread.  All three loops take a turn in the same steps. *)

InLoop == phase \in {"serving", "draining", "responding"}

\* A bug of the unpatched loop: after the marker the queues are cleared.
Dequeued_Cleared(items) == IF phase = "responding" THEN {} ELSE items

\* What dequeued items become: they enter the buffer.
Dequeued(items) == items

\* Dequeue
DequeueQueue ==
  /\ InLoop /\ step = "queue"
  /\ \/ queue = {} /\ quiet' = TRUE /\ UNCHANGED <<queue, buffer>>
     \/ \E items \in SUBSET queue \ {{}} :
          /\ queue' = queue \ items /\ buffer' = buffer \cup Dequeued(items)
          /\ quiet' = FALSE
  /\ step' = "serial"
  /\ UNCHANGED <<owner, flag, emitted, workerVars, phase, serial, symbols, up, down, shut>>

\* DequeueSerial takes all there is.
DequeueSerial ==
  /\ InLoop /\ step = "serial"
  /\ serial' = {} /\ buffer' = buffer \cup Dequeued(serial)
  /\ quiet' = (quiet /\ serial = {})
  /\ step' = "questions"
  /\ UNCHANGED <<owner, flag, emitted, workerVars, phase, queue, symbols, up, down, shut>>

\* Both commit when the buffer is full, and find the connection lost.
ConnectionLost ==
  /\ InLoop /\ step \in {"queue", "serial"}
  /\ "up" \in shut /\ queue \cup serial # {}
  /\ phase' = "closing"
  /\ UNCHANGED <<owner, flag, emitted, workerVars, step, quiet, queue, serial, buffer,
                 symbols, up, down, shut>>

\* A bug of the unpatched handler: it sends the marker without draining.
FirstLoop_None == "terminating"

\* Where HandleDisconnect begins.
FirstLoop == "draining"

\* HasData, then HandleServerQuery: an answer is there at once or comes from the
\* symbol thread, a request to disconnect enters HandleDisconnect, and the
\* Worker's last question ends it.
HandleQuestion ==
  /\ InLoop /\ step = "questions" /\ down # <<>>
  /\ down' = Tail(down)
  /\ LET q == Head(down)
     IN \/ /\ q \in Events
           /\ \/ buffer' = buffer \cup {<<"answer", q>>} /\ UNCHANGED symbols
              \/ symbols' = symbols \cup {q} /\ UNCHANGED buffer
           /\ UNCHANGED <<phase, step>>
        \/ q = "disconnect" /\ phase' = FirstLoop /\ step' = "queue" /\ UNCHANGED <<buffer, symbols>>
        \/ q = "terminate" /\ phase' = "closing" /\ UNCHANGED <<step, buffer, symbols>>
  /\ UNCHANGED <<owner, flag, emitted, workerVars, quiet, queue, serial, up, shut>>

NoQuestion ==
  /\ InLoop /\ step = "questions" /\ down = <<>>
  /\ step' = "commit"
  /\ UNCHANGED <<owner, flag, emitted, workerVars, phase, quiet, queue, serial, buffer,
                 symbols, up, down, shut>>

\* Where a turn leads.  The drain is over when neither queue had anything.
Onward ==
  /\ phase' = IF phase = "draining" /\ quiet THEN "terminating" ELSE phase
  /\ step' = "queue"

\* The buffer is sent at the end of a turn; the drain goes on while it finds
\* something.
MustCommit == buffer # {} /\ (phase = "draining" => quiet)

\* A bug: a frame is put whether there is room for it or not.
Send_Full(frame) == "up" \notin shut /\ up' = Append(up, frame)

Send(frame) ==
  /\ "up" \notin shut /\ Len(up) < UpRoom
  /\ up' = Append(up, frame)

CommitData ==
  /\ InLoop /\ step = "commit" /\ MustCommit
  /\ \/ Send(Data(buffer)) /\ buffer' = {} /\ Onward
     \/ "up" \in shut /\ phase' = "closing" /\ UNCHANGED <<up, buffer, step>>
  /\ UNCHANGED <<owner, flag, emitted, workerVars, quiet, queue, serial, symbols, down, shut>>

NothingToCommit ==
  /\ InLoop /\ step = "commit" /\ ~MustCommit
  /\ Onward
  /\ UNCHANGED <<owner, flag, emitted, workerVars, quiet, queue, serial, buffer, symbols,
                 up, down, shut>>

\* The serving loop sends a frame now and then when it has none to send.
KeepAlive ==
  /\ phase = "serving" /\ step = "commit" /\ buffer = {} /\ up = <<>>
  /\ \/ Send(Data({})) /\ Onward
     \/ "up" \in shut /\ phase' = "closing" /\ UNCHANGED <<up, step>>
  /\ UNCHANGED <<owner, flag, emitted, workerVars, quiet, queue, serial, buffer, symbols,
                 down, shut>>

SendMarker ==
  /\ phase = "terminating"
  /\ \/ Send(Marker) /\ phase' = "responding"
     \/ "up" \in shut /\ phase' = "closing" /\ UNCHANGED up
  /\ step' = "queue"
  /\ UNCHANGED <<owner, flag, emitted, workerVars, quiet, queue, serial, buffer, symbols,
                 down, shut>>

CloseClient ==
  /\ \/ phase = "closing" /\ shut' = shut \cup {"up"} /\ phase' = "half closed"
     \/ phase = "half closed" /\ shut' = shut \cup {"down"} /\ phase' = "gone"
  /\ UNCHANGED <<owner, flag, emitted, workerVars, step, quiet, queue, serial, buffer,
                 symbols, up, down>>

\* The symbol thread puts a late answer into either queue.
Resolve(q) ==
  /\ q \in symbols
  /\ symbols' = symbols \ {q}
  /\ \/ queue' = queue \cup {<<"answer", q>>} /\ UNCHANGED serial
     \/ serial' = serial \cup {<<"answer", q>>} /\ UNCHANGED queue
  /\ UNCHANGED <<owner, flag, emitted, workerVars, phase, step, quiet, buffer, up, down, shut>>

-----------------------------------------------------------------------------

Stopping == Request \/ Notify \/ Disconnected \/ Cancel
Network == NetRead \/ NetEnds
Exec ==
  \/ TakeRequest \/ TakeFrame \/ TakeEnd \/ Wait
  \/ (\E q \in Events \cup {"disconnect"} : Ask(q)) \/ Asked \/ Leave \/ CloseServer
Client ==
  \/ DequeueQueue \/ DequeueSerial \/ ConnectionLost \/ HandleQuestion \/ NoQuestion
  \/ CommitData \/ NothingToCommit \/ SendMarker \/ CloseClient

\* stop has returned and the session is over.
Over ==
  /\ owner \in {"ok", "error"} /\ exec = "ended" /\ phase = "gone"
  /\ UNCHANGED vars

Next ==
  \/ \E e \in Events : Emit(e)
  \/ Stopping \/ Deadline
  \/ Network \/ Exec \/ Client \/ KeepAlive
  \/ \E q \in Events : Resolve(q)
  \/ Over

Spec == Init /\ [][Next]_vars

\* Every thread gets to run, and the serving loop, which is in and out of the
\* place where it sends it, sends its frame again and again.  Neither the
\* request nor the deadline has to come.
FairSpec ==
  /\ Spec
  /\ WF_vars(Notify \/ Disconnected \/ Cancel)
  /\ WF_vars(Network) /\ WF_vars(Exec) /\ WF_vars(Client)
  /\ SF_vars(KeepAlive)
  /\ WF_vars(\E q \in Events : Resolve(q))

-----------------------------------------------------------------------------
(* Properties *)

StopTypes ==
  /\ owner \in {"capturing", "requesting", "waiting", "cancelling", "half cancelled",
                "ok", "error"}
  /\ flag \in BOOLEAN /\ emitted \subseteq Events

WorkerTypes ==
  /\ exec \in {"checking", "deciding", "waiting", "asking", "leaving", "closing",
               "half closed", "ended"}
  /\ netRead \in Seq(Frames) /\ net \in {"reading", "ended"}
  /\ received \subseteq Events
  /\ wanted \subseteq Events \cup {"disconnect"} /\ pending \subseteq Events \cup {"disconnect"}
  /\ terminate \in BOOLEAN

ClientTypes ==
  /\ phase \in {"serving", "draining", "terminating", "responding", "closing",
                "half closed", "gone"}
  /\ step \in {"queue", "serial", "questions", "commit"} /\ quiet \in BOOLEAN
  /\ queue \subseteq Items /\ serial \subseteq Items /\ buffer \subseteq Items
  /\ symbols \subseteq Events

PipeTypes ==
  /\ up \in Seq(Frames) /\ down \in Seq(Events \cup {"disconnect", "terminate"})
  /\ shut \subseteq {"up", "down"}
  /\ Len(up) <= UpRoom /\ Len(down) <= DownRoom

TypeOK == StopTypes /\ WorkerTypes /\ ClientTypes /\ PipeTypes

\* The comment of the drain patch, "prevent the capture Worker from observing an
\* empty termination and closing early": when stop goes on to save the capture,
\* every event committed before it is in the Worker's model, and every question
\* the Worker asked was answered (docs/architecture.md:60-62).
CommittedArrive ==
  owner = "ok" => received = emitted /\ wanted = {} /\ pending \subseteq {"disconnect"}

\* A stop that was requested ends, however its deadline, the two pipes of Cancel
\* and the handshake race: with the Worker gone and, unless the deadline passed,
\* with OK and the client back from the handshake.  A notification the Worker
\* missed is made up for by the next frame, no answer is lost in the queues after
\* the marker, and nobody waits for room forever.
StopEnds ==
  owner = "requesting" ~>
    /\ exec = "ended"
    /\ owner = "error" \/ (owner = "ok" /\ phase = "gone")
=============================================================================
