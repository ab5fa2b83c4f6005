--------------------------- MODULE DisconnectProofs ---------------------------
(***************************************************************************)
(* Proofs about Disconnect, for any events and any room in the pipes.      *)
(*                                                                         *)
(* The argument: an event is in a queue, in the buffer, in a frame or in   *)
(* the model (Conserved).  Nobody speaks of the end before stop has begun  *)
(* (Untouched), so that nothing enters the queues behind the turn of the   *)
(* drain that found them empty (Drained); hence no event is behind the     *)
(* marker (MarkerIsLast), and a Worker that has the marker and its answers *)
(* has everything.  It leaves for no other reason, unless Cancel closes    *)
(* the pipes (LeavesSatisfied).                                            *)
(***************************************************************************)
EXTENDS Disconnect, TLAPS

NoEvents(items) == \A e \in Events : <<"event", e>> \notin items

\* Of a sequence of frames.
InFrames(e, frames) == \E i \in DOMAIN frames : <<"event", e>> \in frames[i].items
Ends(frames) == \E i \in DOMAIN frames : frames[i].end
Eventless(frames) == \A i \in DOMAIN frames : NoEvents(frames[i].items)
Behind(frames) ==
  \A i, j \in DOMAIN frames : i < j /\ frames[i].end => NoEvents(frames[j].items)

Cancelled == owner \in {"half cancelled", "error"}
Left == exec \in {"leaving", "closing", "half closed", "ended"}

Untouched ==
  owner = "capturing" =>
    /\ flag = FALSE /\ terminate = FALSE
    /\ "disconnect" \notin wanted
    /\ \A i \in DOMAIN down : down[i] \in Events
    /\ phase = "serving"
    /\ ~Ends(netRead) /\ ~Ends(up)
    /\ ~Left

Waiting(e) == <<"event", e>> \in queue \cup serial \cup buffer

Conserved ==
  \A e \in Events :
    e \in emitted <=> e \in received \/ InFrames(e, netRead) \/ InFrames(e, up) \/ Waiting(e)

Marked == terminate \/ Ends(netRead) \/ Ends(up)

Drained ==
  /\ phase = "draining" /\ quiet /\ step # "queue" => NoEvents(queue)
  /\ phase = "draining" /\ quiet /\ step \in {"questions", "commit"} => NoEvents(serial)
  /\ phase = "terminating" \/ Marked => NoEvents(queue) /\ NoEvents(serial) /\ NoEvents(buffer)

MarkerIsLast ==
  /\ terminate => Eventless(netRead)
  /\ terminate \/ Ends(netRead) => Eventless(up)
  /\ Behind(netRead) /\ Behind(up)

LeavesSatisfied ==
  ~Cancelled =>
    /\ \/ shut # {} \/ net = "ended" \/ phase \in {"closing", "half closed", "gone"}
       \/ \E i \in DOMAIN down : down[i] = "terminate"
       => Left
    /\ Left => Satisfied

IInv ==
  /\ TypeOK
  /\ Untouched
  /\ Conserved
  /\ Drained
  /\ MarkerIsLast
  /\ LeavesSatisfied
  /\ owner = "ok" => Left

-----------------------------------------------------------------------------
(* Frames. *)

LEMMA AppendFrame ==
  ASSUME NEW s \in Seq(Frames), NEW f \in Frames
  PROVE  /\ Append(s, f) \in Seq(Frames)
         /\ Ends(Append(s, f)) <=> Ends(s) \/ f.end
         /\ Eventless(Append(s, f)) <=> Eventless(s) /\ NoEvents(f.items)
         /\ \A e : InFrames(e, Append(s, f)) <=> InFrames(e, s) \/ <<"event", e>> \in f.items
         /\ Behind(s) /\ (Ends(s) => NoEvents(f.items)) => Behind(Append(s, f))
<1> DEFINE t == Append(s, f)
<1>1. /\ t \in Seq(Frames) /\ Len(t) = Len(s) + 1 /\ Len(s) \in Nat
      /\ DOMAIN s = 1 .. Len(s) /\ DOMAIN t = 1 .. Len(s) + 1
      /\ \A i \in 1 .. Len(s) : t[i] = s[i]
      /\ t[Len(s) + 1] = f
  OBVIOUS
<1> HIDE DEF t
<1>2. \A i \in DOMAIN t : i \in DOMAIN s \/ i = Len(s) + 1
  BY <1>1
<1>3. DOMAIN s \subseteq DOMAIN t /\ Len(s) + 1 \in DOMAIN t
  BY <1>1
<1>4. Ends(t) <=> Ends(s) \/ f.end
  BY <1>1, <1>2, <1>3 DEF Ends
<1>5. Eventless(t) <=> Eventless(s) /\ NoEvents(f.items)
  BY <1>1, <1>2, <1>3 DEF Eventless
<1>6. \A e : InFrames(e, t) <=> InFrames(e, s) \/ <<"event", e>> \in f.items
  BY <1>1, <1>2, <1>3 DEF InFrames
<1>7. ASSUME Behind(s), Ends(s) => NoEvents(f.items) PROVE Behind(t)
  BY <1>1, <1>2, <1>7 DEF Behind, Ends
<1> QED
  BY <1>1, <1>4, <1>5, <1>6, <1>7 DEF t

LEMMA TakeHead ==
  ASSUME NEW s \in Seq(Frames), s # <<>>
  PROVE  /\ Head(s) \in Frames /\ Tail(s) \in Seq(Frames) /\ Len(Tail(s)) = Len(s) - 1
         /\ Ends(s) <=> Head(s).end \/ Ends(Tail(s))
         /\ Eventless(s) <=> NoEvents(Head(s).items) /\ Eventless(Tail(s))
         /\ \A e : InFrames(e, s) <=> <<"event", e>> \in Head(s).items \/ InFrames(e, Tail(s))
         /\ Behind(s) => Behind(Tail(s)) /\ (Head(s).end => Eventless(Tail(s)))
<1> DEFINE t == Tail(s)  h == Head(s)
<1>1. /\ h \in Frames /\ t \in Seq(Frames) /\ Len(s) \in Nat /\ Len(s) >= 1
      /\ Len(t) = Len(s) - 1 /\ DOMAIN s = 1 .. Len(s) /\ DOMAIN t = 1 .. Len(s) - 1
      /\ \A i \in 1 .. Len(s) - 1 : t[i] = s[i + 1]
      /\ s[1] = h
  OBVIOUS
<1> HIDE DEF t, h
<1>2. \A i \in DOMAIN s : i = 1 \/ (i - 1 \in DOMAIN t /\ t[i - 1] = s[i])
  BY <1>1
<1>3. 1 \in DOMAIN s /\ \A i \in DOMAIN t : i + 1 \in DOMAIN s /\ s[i + 1] = t[i]
  BY <1>1
<1>4. Ends(s) <=> h.end \/ Ends(t)
  BY <1>1, <1>2, <1>3 DEF Ends
<1>5. Eventless(s) <=> NoEvents(h.items) /\ Eventless(t)
  BY <1>1, <1>2, <1>3 DEF Eventless
<1>6. \A e : InFrames(e, s) <=> <<"event", e>> \in h.items \/ InFrames(e, t)
  BY <1>1, <1>2, <1>3 DEF InFrames
<1>7. ASSUME Behind(s) PROVE Behind(t) /\ (h.end => Eventless(t))
  <2>1. \A i, j \in DOMAIN t : i < j => i + 1 < j + 1
    BY <1>1
  <2>2. \A i \in DOMAIN t : 1 < i + 1
    BY <1>1
  <2> QED
    BY <1>1, <1>3, <1>7, <2>1, <2>2 DEF Behind, Eventless
<1> QED
  BY <1>1, <1>4, <1>5, <1>6, <1>7 DEF t, h

-----------------------------------------------------------------------------
(* Types, a part of the state at a time. *)

LEMMA FrameTypes ==
  /\ Data({}) \in Frames /\ Marker \in Frames
  /\ \A items : items \subseteq Items => Data(items) \in Frames
  BY DEF Frames, Data, Marker

LEMMA ItemTypes == \A e \in Events : <<"event", e>> \in Items /\ <<"answer", e>> \in Items
  BY DEF Items

LEMMA InitTypes == Init => TypeOK
<1> SUFFICES ASSUME Init PROVE TypeOK
  OBVIOUS
<1>1. StopTypes
  BY DEF Init, StopTypes
<1>2. WorkerTypes
  <2>1. netRead \in Seq(Frames)
    BY DEF Init
  <2>2. received \subseteq Events /\ wanted \subseteq Events \cup {"disconnect"}
        /\ pending \subseteq Events \cup {"disconnect"}
    BY DEF Init
  <2>3. exec = "checking" /\ net = "reading" /\ terminate = FALSE
    BY DEF Init
  <2> QED
    BY <2>1, <2>2, <2>3 DEF WorkerTypes
<1>3. ClientTypes
  BY DEF Init, ClientTypes
<1>4. PipeTypes
  BY RoomAssumption DEF Init, PipeTypes
<1> QED
  BY <1>1, <1>2, <1>3, <1>4 DEF TypeOK

LEMMA StopTypesKept == StopTypes /\ [Next]_vars => StopTypes'
<1> SUFFICES ASSUME StopTypes, [Next]_vars PROVE StopTypes'
  OBVIOUS
<1>1. ASSUME UNCHANGED <<owner, flag, emitted>> PROVE StopTypes'
  BY <1>1 DEF StopTypes
<1>2. CASE (\E e \in Events : Emit(e)) \/ Stopping \/ Deadline
  BY <1>2 DEF Emit, Stopping, Request, Notify, Disconnected, Cancel, Deadline, StopTypes
<1>3. CASE TakeRequest
  BY <1>3 DEF TakeRequest, StopTypes
<1>4. CASE Network \/ TakeFrame \/ TakeEnd \/ Wait \/ (\E q \in Events \cup {"disconnect"} : Ask(q))
           \/ Asked \/ Leave \/ CloseServer
  BY <1>1, <1>4 DEF Network, NetRead, NetEnds, TakeFrame, TakeEnd, Wait, Ask, Asked, Leave,
                    CloseServer
<1>5. CASE Client \/ KeepAlive \/ \E q \in Events : Resolve(q)
  BY <1>1, <1>5 DEF Client, DequeueQueue, DequeueSerial, ConnectionLost, HandleQuestion,
                    NoQuestion, CommitData, NothingToCommit, SendMarker, CloseClient, KeepAlive,
                    Resolve
<1>6. CASE Over \/ UNCHANGED vars
  BY <1>1, <1>6 DEF Over, vars
<1> QED
  BY <1>2, <1>3, <1>4, <1>5, <1>6 DEF Next, Exec

LEMMA WorkerTypesKept == PipeTypes /\ WorkerTypes /\ [Next]_vars => WorkerTypes'
<1> SUFFICES ASSUME PipeTypes, WorkerTypes, [Next]_vars PROVE WorkerTypes'
  OBVIOUS
<1>1. ASSUME UNCHANGED workerVars PROVE WorkerTypes'
  BY <1>1 DEF workerVars, WorkerTypes
<1>2. CASE (\E e \in Events : Emit(e)) \/ Request \/ Disconnected \/ Cancel \/ Deadline
  BY <1>1, <1>2 DEF Emit, Request, Disconnected, Cancel, Deadline
<1>3. CASE Notify \/ NetEnds
  BY <1>3 DEF Notify, NetEnds, Woken, WorkerTypes
<1>4. CASE NetRead
  <2>1. netRead' \in Seq(Frames)
    BY <1>4, TakeHead, AppendFrame DEF NetRead, PipeTypes, WorkerTypes
  <2> QED
    BY <1>4, <2>1 DEF NetRead, Woken, WorkerTypes
<1>5. CASE TakeRequest \/ TakeEnd \/ Wait \/ Asked \/ Leave \/ CloseServer
  BY <1>5 DEF TakeRequest, TakeEnd, Wait, Asked, Leave, CloseServer, WorkerTypes
<1>6. CASE TakeFrame
  <2>1. Head(netRead) \in Frames /\ Tail(netRead) \in Seq(Frames)
    BY <1>6, TakeHead DEF TakeFrame, WorkerTypes
  <2>2. received' \subseteq Events /\ pending' \subseteq Events \cup {"disconnect"}
    BY <1>6 DEF TakeFrame, WorkerTypes, About
  <2>3. wanted' \subseteq Events \cup {"disconnect"}
    BY <1>6 DEF TakeFrame, WorkerTypes, About
  <2>4. terminate' \in BOOLEAN
    BY <1>6, <2>1 DEF TakeFrame, WorkerTypes, Frames
  <2> QED
    BY <1>6, <2>1, <2>2, <2>3, <2>4 DEF TakeFrame, WorkerTypes
<1>7. CASE \E q \in Events \cup {"disconnect"} : Ask(q)
  BY <1>7 DEF Ask, WorkerTypes
<1>8. CASE Client \/ KeepAlive \/ \E q \in Events : Resolve(q)
  BY <1>1, <1>8 DEF Client, DequeueQueue, DequeueSerial, ConnectionLost, HandleQuestion,
                    NoQuestion, CommitData, NothingToCommit, SendMarker, CloseClient, KeepAlive,
                    Resolve
<1>9. CASE Over \/ UNCHANGED vars
  BY <1>1, <1>9 DEF Over, vars
<1> QED
  BY <1>2, <1>3, <1>4, <1>5, <1>6, <1>7, <1>8, <1>9 DEF Next, Stopping, Network, Exec

LEMMA ClientTypesKept == PipeTypes /\ ClientTypes /\ [Next]_vars => ClientTypes'
<1> SUFFICES ASSUME PipeTypes, ClientTypes, [Next]_vars PROVE ClientTypes'
  OBVIOUS
<1>1. ASSUME UNCHANGED clientVars PROVE ClientTypes'
  BY <1>1 DEF clientVars, ClientTypes
<1>2. CASE (\E e \in Events : Emit(e)) \/ \E q \in Events : Resolve(q)
  BY <1>2, ItemTypes DEF Emit, Resolve, ClientTypes
<1>3. CASE Stopping \/ Deadline \/ Network \/ Exec
  BY <1>1, <1>3 DEF Stopping, Request, Notify, Disconnected, Cancel, Deadline, Network, NetRead,
                    NetEnds, Exec, TakeRequest, TakeFrame, TakeEnd, Wait, Ask, Asked, Leave,
                    CloseServer
<1>4. CASE DequeueQueue \/ DequeueSerial
  BY <1>4 DEF DequeueQueue, DequeueSerial, Dequeued, ClientTypes
<1>5. CASE ConnectionLost \/ NoQuestion \/ CloseClient
  BY <1>5 DEF ConnectionLost, NoQuestion, CloseClient, ClientTypes
<1>6. CASE HandleQuestion
  <2>1. buffer' \subseteq Items /\ symbols' \subseteq Events
    BY <1>6, ItemTypes DEF HandleQuestion, ClientTypes
  <2> QED
    BY <1>6, <2>1 DEF HandleQuestion, FirstLoop, ClientTypes
<1>7. CASE CommitData \/ NothingToCommit \/ KeepAlive \/ SendMarker
  BY <1>7 DEF CommitData, NothingToCommit, KeepAlive, SendMarker, Onward, ClientTypes
<1>8. CASE Over \/ UNCHANGED vars
  BY <1>1, <1>8 DEF Over, vars
<1> QED
  BY <1>2, <1>3, <1>4, <1>5, <1>6, <1>7, <1>8 DEF Next, Client

LEMMA SendTypes ==
  ASSUME PipeTypes, NEW f \in Frames, Send(f)
  PROVE  up' = Append(up, f) /\ up' \in Seq(Frames) /\ Len(up') <= UpRoom
<1>1. up' = Append(up, f) /\ up \in Seq(Frames) /\ Len(up) < UpRoom
  BY DEF Send, PipeTypes
<1> QED
  BY <1>1, RoomAssumption

LEMMA PipeTypesKept == ClientTypes /\ PipeTypes /\ [Next]_vars => PipeTypes'
<1> SUFFICES ASSUME ClientTypes, PipeTypes, [Next]_vars PROVE PipeTypes'
  OBVIOUS
<1>1. ASSUME UNCHANGED <<up, down, shut>> PROVE PipeTypes'
  BY <1>1 DEF PipeTypes
<1>2. ASSUME up' \in Seq(Frames), Len(up') <= UpRoom, UNCHANGED <<down, shut>> PROVE PipeTypes'
  BY <1>2 DEF PipeTypes
<1>3. CASE (\E e \in Events : Emit(e)) \/ (\E q \in Events : Resolve(q))
           \/ Request \/ Notify \/ Disconnected \/ Deadline
  BY <1>1, <1>3 DEF Emit, Resolve, Request, Notify, Disconnected, Deadline
<1>4. CASE Cancel \/ CloseServer \/ CloseClient
  BY <1>4 DEF Cancel, CloseServer, CloseClient, PipeTypes
<1>5. CASE NetRead
  <2>1. up' \in Seq(Frames) /\ Len(up') = Len(up) - 1
    BY <1>5, TakeHead DEF NetRead, PipeTypes
  <2>2. Len(up') <= UpRoom
    BY <2>1, RoomAssumption DEF PipeTypes
  <2> QED
    BY <1>2, <1>5, <2>1, <2>2 DEF NetRead
<1>6. CASE NetEnds \/ TakeRequest \/ TakeFrame \/ TakeEnd \/ Wait \/ Asked
  BY <1>1, <1>6 DEF NetEnds, TakeRequest, TakeFrame, TakeEnd, Wait, Asked
<1>7. CASE Leave \/ \E q \in Events \cup {"disconnect"} : Ask(q)
  <2>1. PICK q \in Events \cup {"disconnect", "terminate"} :
          UNCHANGED down \/ (Len(down) < DownRoom /\ down' = Append(down, q))
    BY <1>7 DEF Leave, Ask
  <2>2. down' \in Seq(Events \cup {"disconnect", "terminate"}) /\ Len(down') <= DownRoom
    BY <2>1, RoomAssumption DEF PipeTypes
  <2>3. UNCHANGED <<up, shut>>
    BY <1>7 DEF Leave, Ask
  <2> QED
    BY <2>2, <2>3 DEF PipeTypes
<1>8. CASE DequeueQueue \/ DequeueSerial \/ ConnectionLost \/ NoQuestion \/ NothingToCommit
  BY <1>1, <1>8 DEF DequeueQueue, DequeueSerial, ConnectionLost, NoQuestion, NothingToCommit
<1>9. CASE HandleQuestion
  <2>1. down # <<>> /\ down' = Tail(down) /\ UNCHANGED <<up, shut>>
    BY <1>9 DEF HandleQuestion
  <2>2. down' \in Seq(Events \cup {"disconnect", "terminate"}) /\ Len(down') <= DownRoom
    BY <2>1, RoomAssumption DEF PipeTypes
  <2> QED
    BY <2>1, <2>2 DEF PipeTypes
<1>10. CASE CommitData \/ KeepAlive \/ SendMarker
  <2>1. PICK f \in Frames : UNCHANGED up \/ Send(f)
    BY <1>10, FrameTypes DEF CommitData, KeepAlive, SendMarker, ClientTypes
  <2>2. UNCHANGED <<down, shut>>
    BY <1>10 DEF CommitData, KeepAlive, SendMarker
  <2> QED
    BY <1>1, <1>2, <2>1, <2>2, SendTypes
<1>11. CASE Over \/ UNCHANGED vars
  BY <1>1, <1>11 DEF Over, vars
<1> QED
  BY <1>3, <1>4, <1>5, <1>6, <1>7, <1>8, <1>9, <1>10, <1>11 DEF Next, Stopping, Network, Exec, Client

LEMMA StepTypes == TypeOK /\ [Next]_vars => TypeOK'
  BY StopTypesKept, WorkerTypesKept, ClientTypesKept, PipeTypesKept DEF TypeOK

\* Every variable keeps its type and no pipe more than it has room for.
THEOREM TypeCorrect == Spec => []TypeOK
  BY InitTypes, StepTypes, PTL DEF Spec

-----------------------------------------------------------------------------
(* The invariant.  What the actions do with frames comes first. *)

\* A frame goes from the pipe to the end of those read.
LEMMA ReadEffect ==
  ASSUME TypeOK, NetRead
  PROVE  /\ Ends(netRead') <=> Ends(netRead) \/ Head(up).end
         /\ Ends(up) <=> Head(up).end \/ Ends(up')
         /\ Eventless(netRead') <=> Eventless(netRead) /\ NoEvents(Head(up).items)
         /\ Eventless(up) <=> NoEvents(Head(up).items) /\ Eventless(up')
         /\ \A e : InFrames(e, netRead') <=> InFrames(e, netRead) \/ <<"event", e>> \in Head(up).items
         /\ \A e : InFrames(e, up) <=> <<"event", e>> \in Head(up).items \/ InFrames(e, up')
         /\ Behind(netRead) /\ (Ends(netRead) => NoEvents(Head(up).items)) => Behind(netRead')
         /\ Behind(up) => Behind(up') /\ (Head(up).end => Eventless(up'))
<1>1. /\ up \in Seq(Frames) /\ up # <<>> /\ netRead \in Seq(Frames)
      /\ netRead' = Append(netRead, Head(up)) /\ up' = Tail(up)
  BY DEF NetRead, TypeOK, PipeTypes, WorkerTypes
<1>2. Head(up) \in Frames
  BY <1>1, TakeHead
<1> QED
  BY <1>1, <1>2, TakeHead, AppendFrame

\* The first of those read enters the Worker's model.
LEMMA TakeEffect ==
  ASSUME TypeOK, TakeFrame
  PROVE  /\ Ends(netRead) <=> Head(netRead).end \/ Ends(netRead')
         /\ Eventless(netRead) <=> NoEvents(Head(netRead).items) /\ Eventless(netRead')
         /\ \A e : InFrames(e, netRead) <=>
                   <<"event", e>> \in Head(netRead).items \/ InFrames(e, netRead')
         /\ Behind(netRead) => Behind(netRead') /\ (Head(netRead).end => Eventless(netRead'))
         /\ terminate' = (terminate \/ Head(netRead).end)
         /\ \A e \in Events : e \in received' <=> e \in received \/ <<"event", e>> \in Head(netRead).items
<1>1. netRead \in Seq(Frames) /\ netRead # <<>> /\ netRead' = Tail(netRead)
  BY DEF TakeFrame, TypeOK, WorkerTypes
<1>2. /\ terminate' = (terminate \/ Head(netRead).end)
      /\ \A e \in Events : e \in received' <=> e \in received \/ <<"event", e>> \in Head(netRead).items
  BY DEF TakeFrame, About
<1> QED
  BY <1>1, <1>2, TakeHead

\* A frame of the client: its items are those of the buffer, or it is empty.
LEMMA SendEffect ==
  ASSUME TypeOK, NEW f \in Frames, Send(f)
  PROVE  /\ Ends(up') <=> Ends(up) \/ f.end
         /\ Eventless(up') <=> Eventless(up) /\ NoEvents(f.items)
         /\ \A e : InFrames(e, up') <=> InFrames(e, up) \/ <<"event", e>> \in f.items
         /\ Behind(up) /\ (Ends(up) => NoEvents(f.items)) => Behind(up')
  BY AppendFrame DEF Send, TypeOK, PipeTypes

LEMMA SentFrames ==
  /\ Data({}).items = {} /\ Data({}).end = FALSE
  /\ Marker.items = {} /\ Marker.end = TRUE
  /\ Data(buffer).items = buffer /\ Data(buffer).end = FALSE
  /\ TypeOK => Data(buffer) \in Frames
  BY FrameTypes DEF Data, Marker, TypeOK, ClientTypes

LEMMA UntouchedKept == IInv /\ [Next]_vars => Untouched'
<1> SUFFICES ASSUME IInv, [Next]_vars, owner' = "capturing" PROVE Untouched'
  BY DEF Untouched
<1>1. owner = "capturing" /\ UNCHANGED flag
  BY DEF IInv, TypeOK, StopTypes, Next, Emit, Stopping, Request, Notify, Disconnected, Deadline,
         Cancel, Network, NetRead, NetEnds, Exec, TakeRequest, TakeFrame, TakeEnd, Wait, Ask,
         Asked, Leave, CloseServer, Client, DequeueQueue, DequeueSerial, ConnectionLost,
         HandleQuestion, NoQuestion, CommitData, NothingToCommit, SendMarker, CloseClient,
         KeepAlive, Resolve, Over, vars, Untouched
<1>2. /\ flag = FALSE /\ terminate = FALSE /\ "disconnect" \notin wanted
      /\ \A i \in DOMAIN down : down[i] \in Events
      /\ phase = "serving" /\ ~Ends(netRead) /\ ~Ends(up) /\ ~Left
  BY <1>1 DEF IInv, Untouched
<1>3. shut = {} /\ net # "ended"
  BY <1>1, <1>2 DEF IInv, LeavesSatisfied, Cancelled
<1>5. CASE (\E e \in Events : Emit(e)) \/ \E q \in Events : Resolve(q)
  BY <1>1, <1>2, <1>5 DEF Emit, Resolve, workerVars, Untouched, Left
<1>6. CASE Stopping \/ Deadline
  BY <1>1, <1>6 DEF Stopping, Request, Notify, Disconnected, Cancel, Deadline
<1>7. CASE NetRead
  BY <1>1, <1>2, <1>7, ReadEffect DEF IInv, NetRead, Woken, clientVars, Untouched, Left
<1>8. CASE NetEnds \/ TakeRequest \/ TakeEnd \/ Leave \/ CloseServer
  BY <1>2, <1>3, <1>8 DEF NetEnds, TakeRequest, TakeEnd, Leave, CloseServer, Left
<1>9. CASE TakeFrame
  <2>1. ~terminate' /\ ~Ends(netRead')
    BY <1>2, <1>9, TakeEffect DEF IInv
  <2>2. "disconnect" \notin wanted'
    BY <1>2, <1>9, RoomAssumption DEF TakeFrame, About
  <2> QED
    BY <1>2, <1>9, <2>1, <2>2 DEF TakeFrame, clientVars, Untouched, Left
<1>10. CASE Wait \/ Asked
  BY <1>1, <1>2, <1>10 DEF Wait, Asked, Satisfied, clientVars, Untouched, Left
<1>11. ASSUME NEW q \in Events \cup {"disconnect"}, Ask(q) PROVE Untouched'
  <2>1. q \in Events
    BY <1>2, <1>11 DEF Ask
  <2>2. \A i \in DOMAIN down' : down'[i] \in Events
    BY <1>2, <1>11, <2>1 DEF Ask, IInv, TypeOK, PipeTypes
  <2> QED
    BY <1>1, <1>2, <1>11, <2>2 DEF Ask, clientVars, Untouched, Left
<1>12. CASE DequeueQueue \/ DequeueSerial \/ NoQuestion \/ NothingToCommit
  BY <1>1, <1>2, <1>12 DEF DequeueQueue, DequeueSerial, NoQuestion, NothingToCommit, Onward,
                           workerVars, Untouched, Left
<1>13. CASE ConnectionLost \/ SendMarker \/ CloseClient
  BY <1>2, <1>3, <1>13 DEF ConnectionLost, SendMarker, CloseClient
<1>14. CASE HandleQuestion
  <2>1. Head(down) \in Events /\ \A i \in DOMAIN down' : down'[i] \in Events
    BY <1>2, <1>14 DEF HandleQuestion, IInv, TypeOK, PipeTypes
  <2>2. phase' = "serving"
    BY <1>2, <1>14, <2>1, RoomAssumption DEF HandleQuestion
  <2> QED
    BY <1>2, <1>14, <2>1, <2>2 DEF HandleQuestion, workerVars, Untouched, Left
<1>15. CASE CommitData \/ KeepAlive
  <2>1. PICK f \in Frames : f.end = FALSE /\ Send(f)
    BY <1>3, <1>15, SentFrames, FrameTypes DEF CommitData, KeepAlive, IInv
  <2>2. ~Ends(up')
    BY <1>2, <2>1, SendEffect DEF IInv
  <2>3. phase' = "serving"
    BY <1>2, <1>3, <1>15 DEF CommitData, KeepAlive, Onward
  <2> QED
    BY <1>2, <1>15, <2>2, <2>3 DEF CommitData, KeepAlive, workerVars, Untouched, Left
<1>16. CASE Over \/ UNCHANGED vars
  BY <1>1, <1>2, <1>16 DEF Over, vars, workerVars, clientVars, Untouched, Left
<1> QED
  BY <1>5, <1>6, <1>7, <1>8, <1>9, <1>10, <1>11, <1>12, <1>13, <1>14, <1>15, <1>16
     DEF Next, Network, Exec, Client

LEMMA ConservedKept == IInv /\ [Next]_vars => Conserved'
<1> SUFFICES ASSUME IInv, [Next]_vars,
                    NEW e \in Events
             PROVE  (e \in emitted <=> e \in received \/ InFrames(e, netRead)
                                      \/ InFrames(e, up) \/ Waiting(e))'
  BY DEF Conserved
<1> DEFINE Here == e \in emitted <=> e \in received \/ InFrames(e, netRead)
                                   \/ InFrames(e, up) \/ Waiting(e)
<1>0. Here
  BY DEF IInv, Conserved
<1>1. ASSUME UNCHANGED <<emitted, received, netRead, up>>, (Waiting(e))' <=> Waiting(e) PROVE Here'
  BY <1>0, <1>1
<1>2. ASSUME NEW d \in Events, Emit(d) PROVE Here'
  BY <1>0, <1>2 DEF Emit, Waiting, workerVars
<1>3. ASSUME NEW q \in Events, Resolve(q) PROVE Here'
  <2>1. (Waiting(e))' <=> Waiting(e)
    BY <1>3 DEF Resolve, Waiting
  <2> QED
    BY <1>1, <1>3, <2>1 DEF Resolve, workerVars
<1>4. CASE Stopping \/ Deadline \/ NetEnds \/ TakeRequest \/ TakeEnd \/ Wait \/ Asked \/ Leave
           \/ CloseServer \/ \E q \in Events \cup {"disconnect"} : Ask(q)
  BY <1>1, <1>4 DEF Stopping, Request, Notify, Disconnected, Cancel, Deadline, NetEnds,
                    TakeRequest, TakeEnd, Wait, Ask, Asked, Leave, CloseServer, Waiting,
                    workerVars, clientVars
<1>5. CASE NetRead
  BY <1>0, <1>5, ReadEffect DEF NetRead, IInv, Waiting, clientVars
<1>6. CASE TakeFrame
  BY <1>0, <1>6, TakeEffect DEF TakeFrame, IInv, Waiting, clientVars
<1>7. CASE DequeueQueue \/ DequeueSerial
  <2>1. (Waiting(e))' <=> Waiting(e)
    BY <1>7 DEF DequeueQueue, DequeueSerial, Dequeued, Waiting
  <2> QED
    BY <1>1, <1>7, <2>1 DEF DequeueQueue, DequeueSerial, workerVars
<1>8. CASE HandleQuestion
  <2>1. (Waiting(e))' <=> Waiting(e)
    BY <1>8 DEF HandleQuestion, Waiting
  <2> QED
    BY <1>1, <1>8, <2>1 DEF HandleQuestion, workerVars
<1>9. CASE ConnectionLost \/ NoQuestion \/ NothingToCommit \/ CloseClient
  BY <1>1, <1>9 DEF ConnectionLost, NoQuestion, NothingToCommit, CloseClient, Waiting, workerVars
<1>10. CASE CommitData
  <2>1. CASE Send(Data(buffer)) /\ buffer' = {}
    <3>1. InFrames(e, up') <=> InFrames(e, up) \/ <<"event", e>> \in buffer
      BY <2>1, SendEffect, SentFrames DEF IInv
    <3> QED
      BY <1>0, <1>10, <2>1, <3>1 DEF CommitData, Waiting, workerVars
  <2>2. CASE UNCHANGED <<up, buffer>>
    BY <1>1, <1>10, <2>2 DEF CommitData, Waiting, workerVars
  <2> QED
    BY <1>10, <2>1, <2>2 DEF CommitData
<1>11. CASE KeepAlive \/ SendMarker
  <2>1. CASE UNCHANGED up
    BY <1>1, <1>11, <2>1 DEF KeepAlive, SendMarker, Waiting, workerVars
  <2>2. CASE \E f \in Frames : Send(f) /\ f.items = {}
    <3>1. InFrames(e, up') <=> InFrames(e, up)
      BY <2>2, SendEffect DEF IInv
    <3> QED
      BY <1>0, <1>11, <3>1 DEF KeepAlive, SendMarker, Waiting, workerVars
  <2> QED
    BY <1>11, <2>1, <2>2, SentFrames, FrameTypes DEF KeepAlive, SendMarker
<1>12. CASE Over \/ UNCHANGED vars
  BY <1>1, <1>12 DEF Over, vars, workerVars, clientVars, Waiting
<1> QED
  BY <1>2, <1>3, <1>4, <1>5, <1>6, <1>7, <1>8, <1>9, <1>10, <1>11, <1>12
     DEF Next, Network, Exec, Client

\* Only the client adds to what may hold a marker.
LEMMA DrainedKept == IInv /\ [Next]_vars => Drained'
<1> SUFFICES ASSUME IInv, [Next]_vars PROVE Drained'
  OBVIOUS
<1>1. Drained
  BY DEF IInv
<1>2. ASSUME UNCHANGED <<phase, step, quiet, queue, serial, buffer>>, Marked' => Marked PROVE Drained'
  BY <1>1, <1>2 DEF Drained
<1>3. ASSUME NEW e \in Events, Emit(e) PROVE Drained'
  <2>1. phase = "serving" /\ ~Marked
    BY <1>3 DEF Emit, IInv, Untouched, Marked
  <2>2. phase' = "serving" /\ ~Marked'
    BY <1>3, <2>1 DEF Emit, Marked, workerVars
  <2> QED
    BY <2>2 DEF Drained
<1>4. ASSUME NEW q \in Events, Resolve(q) PROVE Drained'
  <2>1. (NoEvents(queue) => NoEvents(queue')) /\ (NoEvents(serial) => NoEvents(serial'))
    BY <1>4 DEF Resolve, NoEvents
  <2>2. UNCHANGED <<phase, step, quiet, buffer>> /\ Marked' = Marked
    BY <1>4 DEF Resolve, Marked, workerVars
  <2> QED
    BY <1>1, <2>1, <2>2 DEF Drained
<1>5. CASE Stopping \/ Deadline \/ NetEnds \/ TakeRequest \/ TakeEnd \/ Wait \/ Asked \/ Leave
           \/ CloseServer \/ \E q \in Events \cup {"disconnect"} : Ask(q)
  BY <1>2, <1>5 DEF Stopping, Request, Notify, Disconnected, Cancel, Deadline, NetEnds,
                    TakeRequest, TakeEnd, Wait, Ask, Asked, Leave, CloseServer, Marked,
                    workerVars, clientVars
<1>6. CASE NetRead
  BY <1>2, <1>6, ReadEffect DEF NetRead, IInv, Marked, clientVars
<1>7. CASE TakeFrame
  BY <1>2, <1>7, TakeEffect DEF TakeFrame, IInv, Marked, clientVars
<1>8. CASE DequeueQueue
  <2>1. NoEvents(queue) => NoEvents(queue')
    BY <1>8 DEF DequeueQueue, NoEvents
  <2>2. NoEvents(queue) /\ NoEvents(buffer) => NoEvents(buffer')
    BY <1>8 DEF DequeueQueue, Dequeued, NoEvents
  <2>3. quiet' = TRUE => NoEvents(queue')
    BY <1>8 DEF DequeueQueue, NoEvents
  <2>4. UNCHANGED <<phase, serial>> /\ step' = "serial" /\ Marked' = Marked
    BY <1>8 DEF DequeueQueue, Marked, workerVars
  <2> QED
    BY <1>1, <2>1, <2>2, <2>3, <2>4 DEF Drained
<1>9. CASE DequeueSerial
  <2>1. NoEvents(serial')
    BY <1>9 DEF DequeueSerial, NoEvents
  <2>2. NoEvents(serial) /\ NoEvents(buffer) => NoEvents(buffer')
    BY <1>9 DEF DequeueSerial, Dequeued, NoEvents
  <2>3. step = "serial" /\ step' = "questions" /\ (quiet' => quiet) /\ UNCHANGED <<phase, queue>>
        /\ Marked' = Marked
    BY <1>9 DEF DequeueSerial, Marked, workerVars
  <2> QED
    BY <1>1, <2>1, <2>2, <2>3 DEF Drained
<1>10. CASE ConnectionLost \/ CloseClient
  <2>1. phase' \in {"closing", "half closed", "gone"} /\ UNCHANGED <<queue, serial, buffer>>
    BY <1>10 DEF ConnectionLost, CloseClient
  <2>2. UNCHANGED <<terminate, netRead, up>>
    BY <1>10 DEF ConnectionLost, CloseClient, workerVars
  <2> QED
    BY <1>1, <2>1, <2>2 DEF Drained, Marked
<1>11. CASE HandleQuestion
  <2>1. \E q : buffer' \subseteq buffer \cup {<<"answer", q>>}
    BY <1>11 DEF HandleQuestion
  <2>4. NoEvents(buffer) => NoEvents(buffer')
    BY <2>1 DEF NoEvents
  <2>2. UNCHANGED <<quiet, queue, serial>> /\ Marked' = Marked
    BY <1>11 DEF HandleQuestion, Marked, workerVars
  <2>3. UNCHANGED <<phase, step>> \/ (phase' = "draining" /\ step' = "queue") \/ phase' = "closing"
    BY <1>11 DEF HandleQuestion, FirstLoop
  <2> QED
    BY <1>1, <2>2, <2>3, <2>4 DEF Drained
<1>12. CASE NoQuestion
  BY <1>1, <1>12 DEF NoQuestion, Marked, workerVars, Drained
<1>13. CASE CommitData
  <2>1. CASE Send(Data(buffer)) /\ buffer' = {} /\ Onward
    <3>1. Marked' => Marked
      BY <1>13, <2>1, SendEffect, SentFrames DEF IInv, CommitData, Marked, workerVars
    <3>2. NoEvents(buffer') /\ UNCHANGED <<quiet, queue, serial>> /\ step' = "queue" /\ step = "commit"
      BY <1>13, <2>1 DEF CommitData, Onward, NoEvents
    <3>3. phase' = "terminating" => phase = "terminating" \/ (phase = "draining" /\ quiet)
      BY <2>1 DEF Onward
    <3> QED
      BY <1>1, <3>1, <3>2, <3>3 DEF Drained
  <2>2. CASE phase' = "closing" /\ UNCHANGED <<up, buffer, step>>
    BY <1>1, <1>13, <2>2 DEF CommitData, Marked, workerVars, Drained
  <2> QED
    BY <1>13, <2>1, <2>2 DEF CommitData
<1>14. CASE NothingToCommit
  <2>1. UNCHANGED <<quiet, queue, serial, buffer>> /\ step' = "queue" /\ step = "commit"
        /\ Marked' = Marked
    BY <1>14 DEF NothingToCommit, Onward, Marked, workerVars
  <2>2. phase' = "terminating" =>
          phase = "terminating" \/ (phase = "draining" /\ quiet /\ NoEvents(buffer))
    BY <1>14 DEF NothingToCommit, Onward, MustCommit, NoEvents
  <2> QED
    BY <1>1, <2>1, <2>2 DEF Drained
<1>15. CASE KeepAlive
  <2>1. PICK f \in Frames : f.end = FALSE /\ (UNCHANGED up \/ Send(f))
    BY <1>15, SentFrames, FrameTypes DEF KeepAlive
  <2>2. Marked' => Marked
    BY <1>15, <2>1, SendEffect DEF KeepAlive, IInv, Marked, workerVars
  <2>3. phase' \in {"serving", "closing"} /\ UNCHANGED <<queue, serial, buffer>>
    BY <1>15 DEF KeepAlive, Onward
  <2> QED
    BY <1>1, <2>2, <2>3 DEF Drained
<1>16. CASE SendMarker
  <2>1. NoEvents(queue) /\ NoEvents(serial) /\ NoEvents(buffer)
    BY <1>1, <1>16 DEF SendMarker, Drained
  <2> QED
    BY <1>16, <2>1 DEF SendMarker, Drained
<1>17. CASE Over \/ UNCHANGED vars
  BY <1>2, <1>17 DEF Over, vars, workerVars, clientVars, Marked
<1> QED
  BY <1>3, <1>4, <1>5, <1>6, <1>7, <1>8, <1>9, <1>10, <1>11, <1>12, <1>13, <1>14, <1>15, <1>16,
     <1>17 DEF Next, Network, Exec, Client

LEMMA MarkerIsLastKept == IInv /\ [Next]_vars => MarkerIsLast'
<1> SUFFICES ASSUME IInv, [Next]_vars PROVE MarkerIsLast'
  OBVIOUS
<1>1. MarkerIsLast
  BY DEF IInv
<1>2. ASSUME UNCHANGED <<terminate, netRead, up>> PROVE MarkerIsLast'
  BY <1>1, <1>2 DEF MarkerIsLast
<1>3. ASSUME NEW f \in Frames, Send(f), Marked => NoEvents(f.items), UNCHANGED <<terminate, netRead>>
      PROVE  MarkerIsLast'
  <2>1. Eventless(up') <=> Eventless(up) /\ NoEvents(f.items)
    BY <1>3, SendEffect DEF IInv
  <2>2. Behind(up')
    BY <1>1, <1>3, SendEffect DEF IInv, MarkerIsLast, Marked
  <2> QED
    BY <1>1, <1>3, <2>1, <2>2 DEF MarkerIsLast, Marked
<1>4. CASE NetRead
  <2>1. UNCHANGED terminate
    BY <1>4 DEF NetRead
  <2> QED
    BY <1>1, <1>4, <2>1, ReadEffect DEF IInv, MarkerIsLast
<1>5. CASE TakeFrame
  <2>1. UNCHANGED up
    BY <1>5 DEF TakeFrame
  <2> QED
    BY <1>1, <1>5, <2>1, TakeEffect DEF IInv, MarkerIsLast
<1>6. CASE CommitData
  <2>1. Marked => NoEvents(buffer)
    BY DEF IInv, Drained
  <2>2. UNCHANGED <<terminate, netRead>> /\ (UNCHANGED up \/ Send(Data(buffer)))
    BY <1>6 DEF CommitData, workerVars
  <2>3. Data(buffer) \in Frames /\ Data(buffer).items = buffer
    BY SentFrames DEF IInv
  <2> QED
    BY <1>2, <1>3, <2>1, <2>2, <2>3
<1>7. CASE KeepAlive \/ SendMarker
  <2>1. PICK f \in Frames : f.items = {} /\ (UNCHANGED up \/ Send(f))
    BY <1>7, SentFrames, FrameTypes DEF KeepAlive, SendMarker
  <2>2. UNCHANGED <<terminate, netRead>>
    BY <1>7 DEF KeepAlive, SendMarker, workerVars
  <2> QED
    BY <1>2, <1>3, <2>1, <2>2 DEF NoEvents
<1>8. CASE (\E e \in Events : Emit(e)) \/ (\E q \in Events : Resolve(q)) \/ Stopping \/ Deadline
  BY <1>2, <1>8 DEF Emit, Resolve, Stopping, Request, Notify, Disconnected, Cancel, Deadline,
                    workerVars
<1>9. CASE NetEnds \/ TakeRequest \/ TakeEnd \/ Wait \/ Asked \/ Leave \/ CloseServer
           \/ \E q \in Events \cup {"disconnect"} : Ask(q)
  BY <1>2, <1>9 DEF NetEnds, TakeRequest, TakeEnd, Wait, Ask, Asked, Leave, CloseServer
<1>10. CASE DequeueQueue \/ DequeueSerial \/ ConnectionLost \/ HandleQuestion \/ NoQuestion
            \/ NothingToCommit \/ CloseClient
  BY <1>2, <1>10 DEF DequeueQueue, DequeueSerial, ConnectionLost, HandleQuestion, NoQuestion,
                     NothingToCommit, CloseClient, workerVars
<1>11. CASE Over \/ UNCHANGED vars
  BY <1>2, <1>11 DEF Over, vars, workerVars
<1> QED
  BY <1>4, <1>5, <1>6, <1>7, <1>8, <1>9, <1>10, <1>11 DEF Next, Network, Exec, Client

\* Whatever closes a pipe or ends a loop, but Cancel, follows the Worker's leave.
LEMMA LeavesSatisfiedKept == IInv /\ [Next]_vars => LeavesSatisfied' /\ (owner = "ok" => Left)'
<1> SUFFICES ASSUME IInv, [Next]_vars, ~Cancelled'
             PROVE  LeavesSatisfied' /\ (owner' = "ok" => Left')
  BY DEF LeavesSatisfied, Cancelled
<1>1. ~Cancelled
  BY DEF IInv, TypeOK, StopTypes, Cancelled, Next, Emit, Stopping, Request, Notify, Disconnected,
         Deadline, Cancel, Network, NetRead, NetEnds, Exec, TakeRequest, TakeFrame, TakeEnd, Wait,
         Ask, Asked, Leave, CloseServer, Client, DequeueQueue, DequeueSerial, ConnectionLost,
         HandleQuestion, NoQuestion, CommitData, NothingToCommit, SendMarker, CloseClient,
         KeepAlive, Resolve, Over, vars
<1>2. /\ shut # {} \/ net = "ended" \/ phase \in {"closing", "half closed", "gone"} => Left
      /\ \A i \in DOMAIN down : down[i] = "terminate" => Left
      /\ Left => Satisfied
      /\ owner = "ok" => Left
  BY <1>1 DEF IInv, LeavesSatisfied
<1>5. CASE Stopping \/ Deadline
  BY <1>2, <1>5 DEF Stopping, Request, Notify, Disconnected, Cancel, Deadline, Cancelled,
                    IsConnected, Woken, LeavesSatisfied, Satisfied, Left, workerVars, clientVars
<1>6. CASE (\E e \in Events : Emit(e)) \/ \E q \in Events : Resolve(q)
  BY <1>2, <1>6 DEF Emit, Resolve, LeavesSatisfied, Satisfied, Left, workerVars
<1>7. CASE Network
  BY <1>2, <1>7 DEF Network, NetRead, NetEnds, Woken, LeavesSatisfied, Satisfied, Left, clientVars
<1>8. CASE TakeRequest \/ TakeFrame \/ TakeEnd \/ Wait
  BY <1>2, <1>8 DEF TakeRequest, TakeFrame, TakeEnd, Wait, LeavesSatisfied, Left, clientVars
<1>9. ASSUME NEW q \in Events \cup {"disconnect"}, Ask(q)
      PROVE  LeavesSatisfied' /\ (owner' = "ok" => Left')
  <2>1. ~Left /\ ~Left' /\ q # "terminate" /\ UNCHANGED <<owner, net, phase, shut>>
    BY <1>9, RoomAssumption DEF Ask, Left, clientVars
  <2>2. \A i \in DOMAIN down' : down'[i] # "terminate"
    <3>1. down \in Seq(Events \cup {"disconnect", "terminate"})
      BY DEF IInv, TypeOK, PipeTypes
    <3>2. down' = down \/ down' = Append(down, q)
      BY <1>9 DEF Ask
    <3>3. \A i \in DOMAIN down : down[i] # "terminate"
      BY <1>2, <2>1
    <3> QED
      BY <2>1, <3>1, <3>2, <3>3
  <2> QED
    BY <1>2, <2>1, <2>2 DEF LeavesSatisfied
<1>10. CASE Asked
  BY <1>2, <1>10 DEF Asked, LeavesSatisfied, Satisfied, Left, clientVars
<1>11. CASE Leave \/ CloseServer
  BY <1>2, <1>11 DEF Leave, CloseServer, LeavesSatisfied, Satisfied, Left
<1>12. CASE HandleQuestion
  <2>1. \A i \in DOMAIN down' : \E j \in DOMAIN down : down'[i] = down[j]
    BY <1>12 DEF HandleQuestion, IInv, TypeOK, PipeTypes
  <2>2. phase' = "closing" => Head(down) = "terminate" \/ phase = "closing"
    BY <1>12 DEF HandleQuestion, FirstLoop
  <2>3. down # <<>> => 1 \in DOMAIN down /\ Head(down) = down[1]
    BY DEF IInv, TypeOK, PipeTypes
  <2>4. phase' \in {"closing", "half closed", "gone"} => Left
    BY <1>2, <1>12, <2>2, <2>3 DEF HandleQuestion, FirstLoop
  <2>5. UNCHANGED <<owner, exec, wanted, pending, terminate, net, shut>>
    BY <1>12 DEF HandleQuestion, workerVars
  <2> QED
    BY <1>2, <2>1, <2>4, <2>5 DEF LeavesSatisfied, Satisfied, Left
<1>13. CASE DequeueQueue \/ DequeueSerial \/ NoQuestion \/ NothingToCommit
  BY <1>2, <1>13 DEF DequeueQueue, DequeueSerial, NoQuestion, NothingToCommit, Onward,
                     LeavesSatisfied, Satisfied, Left, workerVars
<1>14. CASE ConnectionLost \/ CloseClient
  BY <1>2, <1>14 DEF ConnectionLost, CloseClient, LeavesSatisfied, Satisfied, Left, workerVars
<1>15. CASE CommitData \/ KeepAlive \/ SendMarker
  BY <1>2, <1>15 DEF CommitData, KeepAlive, SendMarker, Onward, LeavesSatisfied, Satisfied, Left,
                     workerVars
<1>16. CASE Over \/ UNCHANGED vars
  BY <1>2, <1>16 DEF Over, vars, workerVars, clientVars, LeavesSatisfied, Satisfied, Left
<1> QED
  BY <1>5, <1>6, <1>7, <1>8, <1>9, <1>10, <1>11, <1>12, <1>13, <1>14, <1>15, <1>16
     DEF Next, Exec, Client

-----------------------------------------------------------------------------

LEMMA InitHolds == Init => IInv
<1> SUFFICES ASSUME Init PROVE IInv
  OBVIOUS
<1>1. TypeOK
  BY InitTypes
<1>2. DOMAIN netRead = {} /\ DOMAIN up = {} /\ DOMAIN down = {}
  BY DEF Init
<1>3. Untouched /\ LeavesSatisfied /\ (owner = "ok" => Left)
  BY <1>2 DEF Init, Untouched, LeavesSatisfied, Left, Ends
<1>4. Conserved
  BY <1>2 DEF Init, Conserved, InFrames, Waiting
<1>5. Drained
  BY <1>2 DEF Init, Drained, Marked, Ends
<1>6. MarkerIsLast
  BY <1>2 DEF Init, MarkerIsLast, Ends, Eventless, Behind
<1> QED
  BY <1>1, <1>3, <1>4, <1>5, <1>6 DEF IInv

LEMMA StepHolds == IInv /\ [Next]_vars => IInv'
  BY StepTypes, UntouchedKept, ConservedKept, DrainedKept, MarkerIsLastKept, LeavesSatisfiedKept
     DEF IInv

\* Behind the marker there is nothing.
LEMMA InvCommitted == IInv => CommittedArrive
<1> SUFFICES ASSUME IInv, owner = "ok" PROVE received = emitted /\ Satisfied
  BY DEF CommittedArrive, Satisfied
<1>1. Satisfied
  BY DEF IInv, LeavesSatisfied, Cancelled
<1>2. /\ Eventless(netRead) /\ Eventless(up)
      /\ NoEvents(queue) /\ NoEvents(serial) /\ NoEvents(buffer)
  BY <1>1 DEF IInv, MarkerIsLast, Drained, Marked, Satisfied
<1>3. \A e \in Events : e \in emitted <=> e \in received
  BY <1>2 DEF IInv, Conserved, Eventless, NoEvents, InFrames, Waiting
<1>4. emitted \subseteq Events /\ received \subseteq Events
  BY DEF IInv, TypeOK, StopTypes, WorkerTypes
<1> QED
  BY <1>1, <1>3, <1>4

\* For any events and any room in the pipes: when stop goes on to save, all that
\* was committed is in the Worker's model and all its questions are answered.
THEOREM AllArrive == Spec => []CommittedArrive
  BY InitHolds, StepHolds, InvCommitted, PTL DEF Spec
=============================================================================
