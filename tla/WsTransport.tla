----------------------------- MODULE WsTransport -----------------------------
(***************************************************************************)
(* One connection of Esp32Transport: the ws-transport thread (ws_thread),  *)
(* the bounded queue of write jobs towards it, and the event channel back  *)
(* to the client, whose read loop may itself be waiting for a write.       *)
(*                                                                         *)
(* pc is the thread's position:                                            *)
(*   connect -> greet -> top -> drain (-> write) -> forward -> read -> top *)
(* and, on the way out, drop (release data_rx) -> bye (Disconnected).      *)
(***************************************************************************)
EXTENDS Naturals, Sequences, SequencesExt

CONSTANTS
    Tasks,     \* client futures that call Transport::send
    Reader,    \* the one of them that also receives the events
    QueueCap,  \* SEND_QUEUE_CAP: 1 without PSRAM, 64 with it
    EventCap,  \* event channel: 1 without PSRAM, no limit with it
    MaxSends,  \* bound: accepted sends
    MaxFrames  \* bound: binary frames the server sends

ASSUME TransportAssumption ==
    /\ Reader \in Tasks
    /\ QueueCap \in Nat \ {0} /\ EventCap \in Nat \ {0}
    /\ MaxSends \in Nat /\ MaxFrames \in Nat

VARIABLES
    pc,
    queue,      \* data_rx: ids of the jobs waiting for the thread
    accepting,  \* data_rx is alive
    job,        \* the job being written, or 0
    shutdown,   \* the shared flag
    pending,    \* pending_event: a frame the full channel refused, or <<>>
    events,     \* the event channel
    receiving,  \* the client still holds event_rx
    awaiting,   \* per task, the job whose completion it awaits, or 0
    \* history: jobs accepted, written and acknowledged; frames read;
    \* events the client took; a frame write stopped part way
    sent, wire, acked, frames, taken, torn

position == <<pc, job>>
outgoing == <<queue, accepting, awaiting, sent, acked>>
incoming == <<pending, events, receiving, frames, taken>>
vars     == <<position, outgoing, incoming, shutdown, wire, torn>>

Connected    == [kind |-> "connected", n |-> 0]
Disconnected == [kind |-> "disconnected", n |-> 0]
Data(n)      == [kind |-> "data", n |-> n]
Events       == {Connected, Disconnected} \cup {Data(n) : n \in 1..MaxFrames}

TypeOK ==
    /\ pc \in {"connect", "greet", "early", "top", "drain", "write",
               "forward", "read", "drop", "bye", "exited"}
    /\ queue \in BoundedSeq(1..MaxSends, QueueCap)
    /\ job \in 0..MaxSends /\ (job # 0 <=> pc = "write")
    /\ accepting \in BOOLEAN /\ shutdown \in BOOLEAN
    /\ receiving \in BOOLEAN /\ torn \in BOOLEAN
    /\ pending \in BoundedSeq(Events, 1)
    /\ events \in BoundedSeq(Events, EventCap)
    /\ awaiting \in [Tasks -> 0..MaxSends]
    /\ sent \in 0..MaxSends /\ frames \in 0..MaxFrames
    /\ wire \in BoundedSeq(1..MaxSends, MaxSends)
    /\ acked \subseteq 1..MaxSends
    /\ taken \in BoundedSeq(Events, MaxFrames + 2)

Init ==
    /\ pc = "connect" /\ job = 0
    /\ queue = <<>> /\ accepting = TRUE /\ awaiting = [t \in Tasks |-> 0]
    /\ pending = <<>> /\ events = <<>> /\ receiving = TRUE
    /\ shutdown = FALSE /\ torn = FALSE
    /\ sent = 0 /\ wire = <<>> /\ acked = {} /\ frames = 0 /\ taken = <<>>

-----------------------------------------------------------------------------
(* The client.  A task whose send is refused (queue full, thread gone) has *)
(* its error at once and nothing changes.                                  *)

(* Transport::send: try_send, then await the completion.                   *)
Send(t) ==
    /\ awaiting[t] = 0
    /\ accepting /\ Len(queue) < QueueCap
    /\ sent < MaxSends
    /\ sent' = sent + 1
    /\ queue' = Append(queue, sent')
    /\ awaiting' = [awaiting EXCEPT ![t] = sent']
    /\ UNCHANGED <<position, accepting, acked, incoming, shutdown, wire, torn>>

(* The future is dropped; its job is not.                                  *)
Cancel(t) ==
    /\ awaiting[t] # 0
    /\ awaiting' = [awaiting EXCEPT ![t] = 0]
    /\ UNCHANGED <<position, queue, accepting, sent, acked, incoming, shutdown, wire, torn>>

(* disconnect(), or the last handle is dropped.                            *)
Disconnect ==
    /\ ~shutdown
    /\ shutdown' = TRUE
    /\ UNCHANGED <<position, outgoing, incoming, wire, torn>>

(* The read loop takes an event unless handling the last one awaits a send. *)
TakeEvent ==
    /\ receiving /\ events # <<>> /\ awaiting[Reader] = 0
    /\ taken' = Append(taken, Head(events))
    /\ events' = Tail(events)
    /\ UNCHANGED <<position, outgoing, pending, receiving, frames, shutdown, wire, torn>>

DropReceiver ==
    /\ receiving
    /\ receiving' = FALSE /\ events' = <<>>
    /\ UNCHANGED <<position, outgoing, pending, frames, taken, shutdown, wire, torn>>

-----------------------------------------------------------------------------
(* The thread.                                                             *)

Goto(next) == pc' = next /\ UNCHANGED job

(* send_blocking: waits for room; a closed channel swallows the event.     *)
SendBlocking(event) ==
    \/ receiving /\ Len(events) < EventCap /\ events' = Append(events, event)
    \/ ~receiving /\ UNCHANGED events

(* The completion senders of these jobs are dropped: their awaits fail.    *)
Abandon(jobs) ==
    awaiting' = [t \in Tasks |-> IF awaiting[t] \in jobs THEN 0 ELSE awaiting[t]]

ReleaseQueue ==
    /\ accepting' = FALSE /\ queue' = <<>>
    /\ Abandon(ToSet(queue))
    /\ UNCHANGED <<sent, acked>>

(* URL, TCP, TLS and upgrade each have a timeout or fail at once.          *)
ConnectOk ==
    /\ pc = "connect"
    /\ Goto("greet")
    /\ UNCHANGED <<outgoing, incoming, shutdown, wire, torn>>

ConnectFails ==
    /\ pc = "connect"
    /\ Goto("early")
    /\ UNCHANGED <<outgoing, incoming, shutdown, wire, torn>>

Greet ==
    /\ pc = "greet"
    /\ SendBlocking(Connected)
    /\ Goto("top")
    /\ UNCHANGED <<outgoing, pending, receiving, frames, taken, shutdown, wire, torn>>

(* On shutdown a close frame is tried, whose outcome is ignored.           *)
CheckShutdown ==
    /\ pc = "top"
    /\ Goto(IF shutdown THEN "drop" ELSE "drain")
    /\ UNCHANGED <<outgoing, incoming, shutdown, wire, torn>>

Drained ==
    /\ pc = "drain" /\ queue = <<>>
    /\ Goto("forward")
    /\ UNCHANGED <<outgoing, incoming, shutdown, wire, torn>>

(* Faulty variant: a job nobody awaits any more is not worth writing.      *)
TakeJobIfAwaited ==
    /\ pc = "drain" /\ queue # <<>>
    /\ queue' = Tail(queue)
    /\ IF \E t \in Tasks : awaiting[t] = Head(queue)
       THEN job' = Head(queue) /\ pc' = "write"
       ELSE UNCHANGED position
    /\ UNCHANGED <<accepting, awaiting, sent, acked, incoming, shutdown, wire, torn>>

TakeJob ==
    /\ pc = "drain" /\ queue # <<>>
    /\ job' = Head(queue) /\ queue' = Tail(queue)
    /\ pc' = "write"
    /\ UNCHANGED <<accepting, awaiting, sent, acked, incoming, shutdown, wire, torn>>

(* WriteJob::perform: write, release the data, then complete.              *)
WriteOk ==
    /\ pc = "write"
    /\ wire' = Append(wire, job)
    /\ acked' = acked \cup {awaiting[t] : t \in {u \in Tasks : awaiting[u] = job}}
    /\ Abandon({job})
    /\ job' = 0 /\ pc' = "drain"
    /\ UNCHANGED <<queue, accepting, sent, incoming, shutdown, torn>>

(* An error or the write timeout, part of the frame possibly sent.         *)
WriteFails ==
    /\ pc = "write"
    /\ torn' = TRUE
    /\ Abandon({job})
    /\ job' = 0 /\ pc' = "drop"
    /\ UNCHANGED <<queue, accepting, sent, acked, incoming, shutdown, wire>>

(* Faulty variant: waits for room, as send_blocking would.                 *)
ForwardBlocking ==
    /\ pc = "forward"
    /\ pending = <<>> \/ ~receiving \/ Len(events) < EventCap
    /\ events' = IF receiving THEN events \o pending ELSE events
    /\ pending' = <<>>
    /\ Goto(IF pending = <<>> \/ receiving THEN "read" ELSE "drop")
    /\ UNCHANGED <<outgoing, receiving, frames, taken, shutdown, wire, torn>>

(* forward_pending: Ready, Blocked (keep the frame, service writes first)  *)
(* or Closed.                                                              *)
Forward ==
    /\ pc = "forward"
    /\ \/ /\ pending = <<>>
          /\ Goto("read")
          /\ UNCHANGED <<pending, events>>
       \/ /\ pending # <<>> /\ receiving /\ Len(events) < EventCap
          /\ events' = events \o pending /\ pending' = <<>>
          /\ Goto("read")
       \/ /\ pending # <<>> /\ receiving /\ Len(events) = EventCap
          /\ Goto("top")
          /\ UNCHANGED <<pending, events>>
       \/ /\ pending # <<>> /\ ~receiving
          /\ pending' = <<>>
          /\ Goto("drop")
          /\ UNCHANGED events
    /\ UNCHANGED <<outgoing, receiving, frames, taken, shutdown, wire, torn>>

(* read_frame's outcomes.  A binary frame: *)
ReadData ==
    /\ pc = "read" /\ frames < MaxFrames
    /\ frames' = frames + 1
    /\ pending' = <<Data(frames')>>
    /\ Goto("top")
    /\ UNCHANGED <<outgoing, events, receiving, taken, shutdown, wire, torn>>

(* nothing within the read timeout, a pong, a text, or a ping whose answer *)
(* went out;                                                               *)
ReadNothing ==
    /\ pc = "read"
    /\ Goto("top")
    /\ UNCHANGED <<outgoing, incoming, shutdown, wire, torn>>

(* a ping whose answer failed part way, which is ignored;                  *)
PongFails ==
    /\ pc = "read"
    /\ torn' = TRUE
    /\ Goto("top")
    /\ UNCHANGED <<outgoing, incoming, shutdown, wire>>

(* a close frame or a read error.                                          *)
ReadEnds ==
    /\ pc = "read"
    /\ Goto("drop")
    /\ UNCHANGED <<outgoing, incoming, shutdown, wire, torn>>

(* Faulty variant: data_rx lives until the thread returns.                 *)
DropNothing ==
    /\ pc = "drop"
    /\ pending' = <<>>
    /\ Goto("bye")
    /\ UNCHANGED <<outgoing, events, receiving, frames, taken, shutdown, wire, torn>>

(* Release the queue before anything that may block on the client.         *)
Drop ==
    /\ pc = "drop"
    /\ ReleaseQueue
    /\ pending' = <<>>
    /\ Goto("bye")
    /\ UNCHANGED <<events, receiving, frames, taken, shutdown, wire, torn>>

(* Faulty variant: the last event goes only where there is room.           *)
ByeIfRoom ==
    /\ pc \in {"bye", "early"}
    /\ events' = IF receiving /\ Len(events) < EventCap THEN Append(events, Disconnected) ELSE events
    /\ ReleaseQueue
    /\ Goto("exited")
    /\ UNCHANGED <<pending, receiving, frames, taken, shutdown, wire, torn>>

(* Announce the end and return, which releases the queue if it is still    *)
(* there: a connection that failed early has not dropped it.               *)
Bye ==
    /\ pc \in {"bye", "early"}
    /\ SendBlocking(Disconnected)
    /\ ReleaseQueue
    /\ Goto("exited")
    /\ UNCHANGED <<pending, receiving, frames, taken, shutdown, wire, torn>>

Client ==
    \/ \E t \in Tasks : Send(t) \/ Cancel(t)
    \/ Disconnect \/ TakeEvent \/ DropReceiver

Thread ==
    \/ ConnectOk \/ ConnectFails \/ Greet
    \/ CheckShutdown \/ Drained \/ TakeJob \/ WriteOk \/ WriteFails \/ Forward
    \/ ReadData \/ ReadNothing \/ PongFails \/ ReadEnds
    \/ Drop \/ Bye

(* The connection is over for good.                                        *)
Over == pc = "exited" /\ shutdown /\ UNCHANGED vars

Next == Client \/ Thread \/ Over

Spec == Init /\ [][Next]_vars

(* Every call of the thread has a timeout or returns at once; the client's *)
(* read loop goes on taking events unless it waits for a write itself.     *)
FairSpec == Spec /\ WF_vars(Thread) /\ WF_vars(TakeEvent)

-----------------------------------------------------------------------------
(* The thread, its queues and its backpressure implement two ordered       *)
(* lines.  Frames go out in the order they were accepted with none left    *)
(* out, even when the future that sent one was dropped (a skipped frame's  *)
(* Noise counter would make every later one undecipherable); send returns  *)
(* Ok only for a frame that was written; the client sees Connected first,  *)
(* the server's frames in order, none lost or repeated while the channel   *)
(* was full, and nothing after Disconnected.                               *)
Line == INSTANCE Connection

IsAConnection == Line!Spec

(* A client that still listens is told of the end before the thread goes,  *)
(* so it always reconnects.  Every variable is typed and every queue       *)
(* within its bound.                                                       *)
EndIsTold ==
    /\ TypeOK
    /\ pc = "exited" /\ receiving =>
           Disconnected \in ToSet(taken \o events)

(* Every accepted send returns, also when the client's read loop is the    *)
(* one that waits and the event channel is full.                           *)
SendsResolve == \A t \in Tasks : awaiting[t] # 0 ~> awaiting[t] = 0

(* disconnect ends the thread, whatever it is doing and whoever waits.     *)
DisconnectEnds == shutdown ~> pc = "exited"

(* ws_thread's comment on the write timeout: "With it a stalled write      *)
(* fails, the send-error path emits `Disconnected`, and the thread exits": *)
(* no frame is written after one that stopped part way.                    *)
NothingAfterTorn == [][torn => wire' = wire]_vars
=============================================================================
