-------------------------- MODULE WsTransportProofs --------------------------
(***************************************************************************)
(* Proofs about WsTransport for every set of tasks, every capacity of the  *)
(* two queues and any number of sends and frames: a listening client is    *)
(* told of the end, and the thread with its queues implements the two      *)
(* ordered lines of Connection.                                            *)
(*                                                                         *)
(* The invariant has a half for each direction; a step that only moves the *)
(* thread keeps both.                                                      *)
(***************************************************************************)
EXTENDS WsTransport, SequenceTheorems, TLAPS

(* Where the thread is: it may still write; it has not announced itself;   *)
(* it is in its loop.                                                      *)
Serving == pc \in {"connect", "greet", "top", "drain", "write", "forward", "read"}
Early   == pc \in {"connect", "greet", "early"}
Looping == pc \in {"top", "drain", "write", "forward", "read"}

OutTypes ==
    /\ pc \in {"connect", "greet", "early", "top", "drain", "write",
               "forward", "read", "drop", "bye", "exited"}
    /\ queue \in Seq(1..MaxSends) /\ Len(queue) <= QueueCap
    /\ job \in 0..MaxSends /\ (job # 0 <=> pc = "write")
    /\ awaiting \in [Tasks -> 0..MaxSends]
    /\ sent \in 0..MaxSends
    /\ wire \in Seq(1..MaxSends) /\ Len(wire) <= sent
    /\ acked \subseteq 1..MaxSends

(* The jobs the thread has taken, whether or not the last is written.      *)
Begun == Len(wire) + (IF job = 0 THEN 0 ELSE 1)

(* Accepted frames are written, being written or queued, in this order and *)
(* none missing, as long as the thread may write.                          *)
JobsInOrder ==
    /\ job # 0 => job = Len(wire) + 1
    /\ Serving => /\ sent = Begun + Len(queue)
                  /\ \A i \in 1..Len(queue) : queue[i] = Begun + i

OutInv == OutTypes /\ JobsInOrder

InTypes ==
    /\ pending \in Seq(Events) /\ Len(pending) <= 1
    /\ events \in Seq(Events) /\ Len(events) <= EventCap
    /\ frames \in 0..MaxFrames
    /\ taken \in Seq(Events) /\ Len(taken) <= MaxFrames + 2

(* What a listening client was given or will find in the channel.          *)
Stream == taken \o events

(* The i-th event but for the end, and how many there are of those.        *)
Item(i) == IF i = 1 THEN Connected ELSE Data(i - 1)
Regular == IF pc = "exited" THEN Len(Stream) - 1 ELSE Len(Stream)

(* The stream is Connected, then the frames in order and none missing but  *)
(* the pending one, and ends with Disconnected once the thread is gone.    *)
EventsInOrder ==
    receiving =>
        /\ \A i \in 1..Regular : Stream[i] = Item(i)
        /\ Regular <= frames + 1
        /\ pc = "exited" => Len(Stream) > 0 /\ Stream[Len(Stream)] = Disconnected
        /\ Early => Len(Stream) = 0 /\ pending = <<>> /\ frames = 0
        /\ Looping => /\ Len(Stream) > 0 /\ Len(Stream) = frames + 1 - Len(pending)
                      /\ pending # <<>> => pending = <<Data(frames)>>
        /\ pc = "read" => pending = <<>>

InInv == InTypes /\ EventsInOrder

Flags == /\ accepting \in BOOLEAN /\ shutdown \in BOOLEAN
         /\ receiving \in BOOLEAN /\ torn \in BOOLEAN

LineInv == OutInv /\ InInv /\ Flags

-----------------------------------------------------------------------------
(* Facts about events and sequences.                                       *)

(* The kinds of events, and that they differ.                              *)
LEMMA EventKinds ==
    /\ Connected \in Events /\ Disconnected \in Events
    /\ \A n \in 1..MaxFrames : Data(n) \in Events
    /\ Connected # Disconnected
    /\ \A n : Data(n) # Disconnected
BY DEF Connected, Disconnected, Data, Events

(* A bounded sequence is a sequence that is not too long.                  *)
LEMMA BoundedIsShort ==
    ASSUME NEW S, NEW n \in Nat, NEW s \in Seq(S), Len(s) <= n
    PROVE  s \in BoundedSeq(S, n)
<1>1. Len(s) \in 0..n /\ s \in [1..Len(s) -> S]
  BY LenProperties
<1>2. QED BY <1>1 DEF BoundedSeq, SeqOf

(* Handing the first event of the channel over leaves the stream as it is. *)
LEMMA HandOverKeepsStream ==
    ASSUME NEW S, NEW s \in Seq(S), NEW t \in Seq(S), t # <<>>
    PROVE  Append(s, Head(t)) \o Tail(t) = s \o t
<1>1. Head(t) \in S /\ Tail(t) \in Seq(S) /\ Len(Tail(t)) = Len(t) - 1
      /\ \A i \in 1..Len(Tail(t)) : Tail(t)[i] = t[i + 1]
  BY HeadTailProperties
<1>2. /\ Append(s, Head(t)) \in Seq(S) /\ Len(Append(s, Head(t))) = Len(s) + 1
      /\ \A i \in 1..Len(s) : Append(s, Head(t))[i] = s[i]
      /\ Append(s, Head(t))[Len(s) + 1] = Head(t)
  BY <1>1, AppendProperties
<1> DEFINE u == Append(s, Head(t)) \o Tail(t)
<1>3. /\ u \in Seq(S) /\ Len(u) = Len(s) + 1 + Len(t) - 1
      /\ \A i \in 1..(Len(s) + 1 + Len(Tail(t))) :
             u[i] = IF i <= Len(s) + 1 THEN Append(s, Head(t))[i] ELSE Tail(t)[i - (Len(s) + 1)]
  BY <1>1, <1>2, ConcatProperties
<1>4. /\ s \o t \in Seq(S) /\ Len(s \o t) = Len(s) + Len(t)
      /\ \A i \in 1..(Len(s) + Len(t)) : (s \o t)[i] = IF i <= Len(s) THEN s[i] ELSE t[i - Len(s)]
  BY ConcatProperties
<1>5. Len(t) \in Nat \ {0} /\ Len(s) \in Nat /\ Head(t) = t[1]
  BY EmptySeq
<1>6. ASSUME NEW i \in 1..Len(u) PROVE u[i] = (s \o t)[i]
  <2>1. CASE i <= Len(s)
    BY <1>1, <1>2, <1>3, <1>4, <1>5, <2>1
  <2>2. CASE i = Len(s) + 1
    BY <1>1, <1>2, <1>3, <1>4, <1>5, <2>2
  <2>3. CASE i > Len(s) + 1
    <3>1. i - (Len(s) + 1) \in 1..Len(Tail(t))
      BY <1>1, <1>3, <1>5, <2>3
    <3>2. Tail(t)[i - (Len(s) + 1)] = t[i - Len(s)]
      BY <1>1, <1>5, <3>1
    <3>3. QED BY <1>1, <1>3, <1>4, <1>5, <2>3, <3>2
  <2>4. QED BY <1>3, <1>5, <2>1, <2>2, <2>3
<1>7. Len(u) = Len(s \o t)
  BY <1>3, <1>4, <1>5
<1>8. QED BY <1>3, <1>4, <1>6, <1>7, SeqEqual

(* Room in the channel is room at the end of the stream.                   *)
LEMMA AppendExtendsStream ==
    ASSUME NEW S, NEW s \in Seq(S), NEW t \in Seq(S), NEW e \in S
    PROVE  /\ s \o t \in Seq(S) /\ Len(s \o t) = Len(s) + Len(t)
           /\ Len(s \o Append(t, e)) = Len(s \o t) + 1
           /\ \A i \in 1..Len(s \o t) : (s \o Append(t, e))[i] = (s \o t)[i]
           /\ (s \o Append(t, e))[Len(s \o t) + 1] = e
<1>1. /\ Append(t, e) \in Seq(S) /\ Len(Append(t, e)) = Len(t) + 1
      /\ \A i \in 1..Len(t) : Append(t, e)[i] = t[i]
      /\ Append(t, e)[Len(t) + 1] = e
  BY AppendProperties
<1>2. /\ s \o t \in Seq(S) /\ Len(s \o t) = Len(s) + Len(t)
      /\ \A i \in 1..(Len(s) + Len(t)) : (s \o t)[i] = IF i <= Len(s) THEN s[i] ELSE t[i - Len(s)]
  BY ConcatProperties
<1>3. /\ Len(s \o Append(t, e)) = Len(s) + Len(t) + 1
      /\ \A i \in 1..(Len(s) + Len(Append(t, e))) :
             (s \o Append(t, e))[i] = IF i <= Len(s) THEN s[i] ELSE Append(t, e)[i - Len(s)]
  BY <1>1, ConcatProperties
<1>4. Len(s) \in Nat /\ Len(t) \in Nat
  BY LenProperties
<1>5. ASSUME NEW i \in 1..Len(s \o t) PROVE (s \o Append(t, e))[i] = (s \o t)[i]
  <2>1. CASE i <= Len(s)
    BY <1>1, <1>2, <1>3, <1>4, <2>1
  <2>2. CASE i > Len(s)
    <3>1. i - Len(s) \in 1..Len(t)
      BY <1>2, <1>4, <2>2
    <3>2. Append(t, e)[i - Len(s)] = t[i - Len(s)]
      BY <1>1, <3>1
    <3>3. QED BY <1>1, <1>2, <1>3, <1>4, <2>2, <3>2
  <2>3. QED BY <1>2, <1>4, <2>1, <2>2
<1>6. (s \o Append(t, e))[Len(s) + Len(t) + 1] = e
  BY <1>1, <1>3, <1>4
<1>7. QED BY <1>2, <1>3, <1>5, <1>6

-----------------------------------------------------------------------------
(* Steps that leave one direction alone.                                   *)

(* The thread moves, but not to or from writing, nor back to serving.      *)
LEMMA OutUntouched ==
    ASSUME OutInv, UNCHANGED <<queue, awaiting, sent, acked, wire, job>>,
           pc' \in {"connect", "greet", "early", "top", "drain", "write",
                    "forward", "read", "drop", "bye", "exited"},
           pc' = "write" <=> pc = "write", Serving' => Serving
    PROVE  OutInv'
<1>1. OutTypes'
  BY DEF OutInv, OutTypes
<1>2. JobsInOrder'
  BY DEF OutInv, JobsInOrder, Begun
<1>3. QED BY <1>1, <1>2 DEF OutInv

(* The thread moves, but starts neither its loop nor a read, nor exits.    *)
LEMMA InUntouched ==
    ASSUME InInv, UNCHANGED incoming, Early' => Early, Looping' => Looping,
           pc' = "exited" <=> pc = "exited", pc' = "read" => pc = "read"
    PROVE  InInv'
<1>1. InTypes'
  BY DEF InInv, InTypes, incoming
<1>2. Stream' = Stream /\ Regular' = Regular
  BY DEF Stream, Regular, incoming
<1>3. EventsInOrder'
  BY <1>2 DEF InInv, EventsInOrder, incoming
<1>4. QED BY <1>1, <1>3 DEF InInv

(* A step that touches neither the frames sent nor those received.         *)
LEMMA MoveKeeps ==
    ASSUME LineInv,
           Disconnect \/ ConnectOk \/ ConnectFails \/ CheckShutdown \/ Drained
               \/ ReadNothing \/ PongFails \/ ReadEnds
    PROVE  LineInv'
<1> USE DEF LineInv, Disconnect, ConnectOk, ConnectFails, CheckShutdown, Drained,
            ReadNothing, PongFails, ReadEnds, Goto, position, outgoing
<1>1. OutInv'
  <2>1. pc \in {"connect", "greet", "early", "top", "drain", "write",
                "forward", "read", "drop", "bye", "exited"}
    BY DEF OutInv, OutTypes
  <2>2. QED BY <2>1, OutUntouched DEF Serving
<1>2. InInv'
  BY InUntouched DEF Early, Looping
<1>3. Flags'
  <2>1. {shutdown, torn}' \subseteq BOOLEAN
    BY Zenon DEF Flags
  <2>2. QED BY <2>1 DEF Flags, incoming
<1>4. QED BY <1>1, <1>2, <1>3

-----------------------------------------------------------------------------
(* Frames sent.                                                            *)

(* A frame is accepted behind all the others.                              *)
LEMMA SendKeeps ==
    ASSUME LineInv, NEW t \in Tasks, Send(t)
    PROVE  LineInv'
<1> USE TransportAssumption DEF LineInv, Send, position
<1>1. /\ queue \in Seq(1..MaxSends) /\ sent' = sent + 1 /\ sent' \in 1..MaxSends
      /\ queue' = Append(queue, sent')
  BY DEF OutInv, OutTypes
<1>2. /\ queue' \in Seq(1..MaxSends) /\ Len(queue') = Len(queue) + 1
      /\ \A i \in 1..Len(queue) : queue'[i] = queue[i]
      /\ queue'[Len(queue) + 1] = sent'
  BY <1>1, AppendProperties
<1>3. OutTypes'
  BY <1>1, <1>2 DEF OutInv, OutTypes
<1>4. JobsInOrder'
  <2>1. Begun \in Nat /\ Len(queue) \in Nat /\ Begun' = Begun
    BY <1>1, LenProperties DEF Begun
  <2>2. /\ Serving' = Serving /\ UNCHANGED <<job, wire>>
        /\ Serving => sent = Begun + Len(queue) /\ \A i \in 1..Len(queue) : queue[i] = Begun + i
    BY DEF OutInv, JobsInOrder, Serving
  <2>3. ASSUME Serving, NEW i \in 1..Len(queue') PROVE queue'[i] = Begun' + i
    <3>1. CASE i \in 1..Len(queue)
      BY <1>2, <2>1, <2>2, <2>3, <3>1
    <3>2. CASE i = Len(queue) + 1
      BY <1>1, <1>2, <2>1, <2>2, <2>3, <3>2
    <3>3. QED BY <1>2, <2>1, <3>1, <3>2
  <2>4. Serving => sent' = Begun' + Len(queue')
    BY <1>1, <1>2, <2>1, <2>2
  <2>5. job' # 0 => job' = Len(wire') + 1
    BY <2>2 DEF OutInv, JobsInOrder
  <2>6. QED BY <2>2, <2>3, <2>4, <2>5 DEF JobsInOrder
<1>5. InInv'
  BY InUntouched DEF Early, Looping
<1>6. Flags'
  BY DEF Flags, incoming
<1>7. QED BY <1>3, <1>4, <1>5, <1>6 DEF OutInv

(* A dropped future leaves its job where it is.                            *)
LEMMA CancelKeeps ==
    ASSUME LineInv, NEW t \in Tasks, Cancel(t)
    PROVE  LineInv'
<1> USE TransportAssumption DEF LineInv, Cancel, position
<1>1. OutTypes'
  BY DEF OutInv, OutTypes
<1>2. JobsInOrder'
  BY DEF OutInv, JobsInOrder, Begun, Serving
<1>3. InInv'
  BY InUntouched DEF Early, Looping
<1>4. Flags'
  BY DEF Flags, incoming
<1>5. QED BY <1>1, <1>2, <1>3, <1>4 DEF OutInv

(* The thread takes the frame after the last one written.                  *)
LEMMA TakeJobKeeps ==
    ASSUME LineInv, TakeJob
    PROVE  LineInv'
<1> USE DEF LineInv, TakeJob
<1>1. queue \in Seq(1..MaxSends) /\ queue # <<>> /\ job = 0 /\ Serving
  BY DEF OutInv, OutTypes, Serving
<1>2. /\ Head(queue) \in 1..MaxSends /\ Head(queue) = queue[1]
      /\ Tail(queue) \in Seq(1..MaxSends) /\ Len(Tail(queue)) = Len(queue) - 1
      /\ \A i \in 1..Len(Tail(queue)) : Tail(queue)[i] = queue[i + 1]
      /\ Len(queue) \in Nat \ {0}
  <2>1. Len(queue) \in Nat \ {0} /\ Head(queue) = queue[1]
    BY <1>1, EmptySeq
  <2>2. QED BY <1>1, <2>1, HeadTailProperties
<1>3. OutTypes'
  <2>1. job' \in 1..MaxSends /\ pc' = "write"
    BY <1>2
  <2>2. queue' \in Seq(1..MaxSends) /\ Len(queue') <= QueueCap
    BY <1>2, TransportAssumption DEF OutInv, OutTypes
  <2>3. QED BY <2>1, <2>2 DEF OutInv, OutTypes
<1>4. JobsInOrder'
  BY <1>1, <1>2 DEF OutInv, OutTypes, JobsInOrder, Begun
<1>5. InInv'
  BY InUntouched DEF Early, Looping
<1>6. Flags'
  BY DEF Flags, incoming
<1>7. QED BY <1>3, <1>4, <1>5, <1>6 DEF OutInv

(* A frame is on the wire.                                                 *)
LEMMA WriteOkKeeps ==
    ASSUME LineInv, WriteOk
    PROVE  LineInv'
<1> USE TransportAssumption DEF LineInv, WriteOk, Abandon
<1>1. wire \in Seq(1..MaxSends) /\ job \in 1..MaxSends /\ Serving
  BY DEF OutInv, OutTypes, Serving
<1>2. wire' \in Seq(1..MaxSends) /\ Len(wire') = Len(wire) + 1
  BY <1>1, AppendProperties
<1>3. Len(wire) \in Nat /\ Len(wire) < sent
  BY <1>1, LenProperties DEF OutInv, JobsInOrder, Begun
<1>4. OutTypes'
  <2>1. awaiting' \in [Tasks -> 0..MaxSends]
    BY DEF OutInv, OutTypes
  <2>2. acked' \subseteq acked \cup {job}
    OBVIOUS
  <2>3. acked' \subseteq 1..MaxSends
    BY <1>1, <2>2 DEF OutInv, OutTypes
  <2>4. sent' = sent /\ Len(wire') <= sent
    BY <1>2, <1>3 DEF OutInv, OutTypes
  <2>5. QED BY <1>2, <2>1, <2>3, <2>4 DEF OutInv, OutTypes
<1>5. JobsInOrder'
  <2>1. job # 0 /\ job' = 0 /\ sent' = sent /\ queue' = queue
    BY <1>1
  <2>2. Begun' = Begun
    BY <1>2, <1>3, <2>1 DEF Begun
  <2>3. /\ sent = Begun + Len(queue)
        /\ \A i \in 1..Len(queue) : queue[i] = Begun + i
    BY <1>1 DEF OutInv, JobsInOrder
  <2> HIDE DEF WriteOk, LineInv
  <2>4. QED BY <2>1, <2>2, <2>3 DEF JobsInOrder
<1>6. InInv'
  BY InUntouched DEF Early, Looping
<1>7. Flags'
  BY DEF Flags, incoming
<1>8. QED BY <1>4, <1>5, <1>6, <1>7 DEF OutInv

(* A write that fails is the last.                                         *)
LEMMA WriteFailsKeeps ==
    ASSUME LineInv, WriteFails
    PROVE  LineInv'
<1> USE TransportAssumption DEF LineInv, WriteFails, Abandon
<1>1. OutTypes'
  BY DEF OutInv, OutTypes
<1>2. JobsInOrder'
  BY DEF JobsInOrder, Serving
<1>3. InInv'
  BY InUntouched DEF Early, Looping
<1>4. Flags'
  <2>1. torn' \in BOOLEAN
    BY Zenon
  <2>2. QED BY <2>1 DEF Flags, incoming
<1>5. QED BY <1>1, <1>2, <1>3, <1>4 DEF OutInv

(* Releasing the queue fails the waiting sends; nothing is written after.  *)
LEMMA ReleaseQueueKeeps ==
    ASSUME OutInv, ReleaseQueue, UNCHANGED <<wire, job>>,
           pc # "write", pc' \in {"bye", "exited"}
    PROVE  OutInv'
<1> USE TransportAssumption DEF OutInv, ReleaseQueue, Abandon
<1>1. OutTypes'
  BY EmptySeq DEF OutTypes
<1>2. JobsInOrder'
  BY DEF JobsInOrder, Serving, OutTypes
<1>3. QED BY <1>1, <1>2

-----------------------------------------------------------------------------
(* Frames received.                                                        *)

(* The stream is a sequence as long as its two parts.                      *)
LEMMA StreamTypes ==
    ASSUME InInv
    PROVE  /\ Stream \in Seq(Events) /\ Len(Stream) \in Nat
           /\ Len(Stream) = Len(taken) + Len(events)
           /\ Len(taken) \in Nat /\ Len(events) \in Nat /\ frames \in Nat
BY ConcatProperties, LenProperties DEF Stream, InInv, InTypes

(* send_blocking adds its event to a listening client's stream.            *)
LEMMA SendBlockingExtends ==
    ASSUME InInv, NEW e \in Events, SendBlocking(e), UNCHANGED <<taken, receiving>>
    PROVE  /\ events' \in Seq(Events) /\ Len(events') <= EventCap
           /\ receiving => /\ Len(Stream') = Len(Stream) + 1
                           /\ \A i \in 1..Len(Stream) : Stream'[i] = Stream[i]
                           /\ Stream'[Len(Stream) + 1] = e
<1>1. taken \in Seq(Events) /\ events \in Seq(Events)
  BY DEF InInv, InTypes
<1>2. CASE receiving /\ Len(events) < EventCap /\ events' = Append(events, e)
  <2>1. events' \in Seq(Events) /\ Len(events') = Len(events) + 1
    BY <1>1, <1>2, AppendProperties
  <2>2. Len(events') <= EventCap
    BY <1>1, <1>2, <2>1, LenProperties, TransportAssumption
  <2>3. QED BY <1>1, <1>2, <2>1, <2>2, AppendExtendsStream DEF Stream
<1>3. CASE ~receiving /\ events' = events
  BY <1>3 DEF InInv, InTypes
<1>4. QED BY <1>2, <1>3 DEF SendBlocking

(* The client takes the next event of its stream.                          *)
LEMMA TakeEventKeeps ==
    ASSUME LineInv, TakeEvent
    PROVE  LineInv'
<1> USE DEF LineInv, TakeEvent, position, outgoing
<1>1. taken \in Seq(Events) /\ events \in Seq(Events) /\ events # <<>>
  BY DEF InInv, InTypes
<1>2. Stream' = Stream
  BY <1>1, HandOverKeepsStream DEF Stream
<1>3. Regular' = Regular
  BY <1>2 DEF Regular
<1>4. InTypes'
  <2>1. /\ Head(events) \in Events /\ Tail(events) \in Seq(Events)
        /\ Len(Tail(events)) = Len(events) - 1 /\ Len(events) \in Nat \ {0}
    BY <1>1, HeadTailProperties, EmptySeq
  <2>2. Append(taken, Head(events)) \in Seq(Events)
        /\ Len(Append(taken, Head(events))) = Len(taken) + 1
    BY <1>1, <2>1, AppendProperties
  <2>3. Len(taken) + 1 <= frames + 2
    BY <2>1, StreamTypes DEF InInv, EventsInOrder, Regular
  <2>4. QED BY <2>1, <2>2, <2>3, TransportAssumption DEF InInv, InTypes
<1>5. EventsInOrder'
  BY <1>2, <1>3 DEF InInv, EventsInOrder, Early, Looping
<1>6. OutInv'
  BY OutUntouched DEF Serving, OutInv, OutTypes
<1>7. Flags'
  BY DEF Flags
<1>8. QED BY <1>4, <1>5, <1>6, <1>7 DEF InInv

(* A client that no longer listens.                                        *)
LEMMA DropReceiverKeeps ==
    ASSUME LineInv, DropReceiver
    PROVE  LineInv'
<1> USE TransportAssumption DEF LineInv, DropReceiver, position, outgoing
<1>1. InTypes'
  BY EmptySeq DEF InInv, InTypes
<1>2. EventsInOrder'
  BY DEF EventsInOrder
<1>3. OutInv'
  BY OutUntouched DEF Serving, OutInv, OutTypes
<1>4. Flags'
  <2>1. receiving' \in BOOLEAN
    BY Zenon
  <2>2. QED BY <2>1 DEF Flags
<1>5. QED BY <1>1, <1>2, <1>3, <1>4 DEF InInv

(* Connected is the first event.                                           *)
LEMMA GreetKeeps ==
    ASSUME LineInv, Greet
    PROVE  LineInv'
<1> USE DEF LineInv, Greet, Goto, outgoing
<1>1. InTypes'
  BY EventKinds, SendBlockingExtends DEF InInv, InTypes
<1>2. EventsInOrder'
  <2> SUFFICES ASSUME receiving PROVE EventsInOrder'
    BY DEF EventsInOrder
  <2>1. Len(Stream) = 0 /\ pending' = <<>> /\ frames' = 0
    BY DEF InInv, EventsInOrder, Early
  <2>2. Len(Stream') = 1 /\ Stream'[1] = Connected /\ Regular' = 1
    BY <2>1, EventKinds, SendBlockingExtends DEF Regular
  <2>3. QED BY <2>1, <2>2 DEF EventsInOrder, Item, Early
<1>3. OutInv'
  BY OutUntouched DEF Serving
<1>4. Flags'
  BY DEF Flags
<1>5. QED BY <1>1, <1>2, <1>3, <1>4 DEF InInv

(* The pending frame goes to the channel, stays, or has nobody to go to.   *)
LEMMA ForwardKeeps ==
    ASSUME LineInv, Forward
    PROVE  LineInv'
<1> USE DEF LineInv, Forward, Goto, outgoing
<1>1. OutInv'
  BY OutUntouched DEF Serving
<1>2. Flags'
  BY DEF Flags
<1>3. pc = "forward" /\ UNCHANGED <<receiving, frames, taken>>
  OBVIOUS
<1>4. CASE /\ UNCHANGED <<pending, events>> /\ pc' \in {"read", "top"}
           /\ pc' = "read" => pending = <<>>
  <2>1. Stream' = Stream /\ Regular' = Regular
    BY <1>3, <1>4 DEF Stream, Regular
  <2>2. InTypes'
    BY <1>3, <1>4 DEF InInv, InTypes
  <2>3. EventsInOrder'
    BY <1>3, <1>4, <2>1 DEF InInv, EventsInOrder, Early, Looping
  <2>4. QED BY <1>1, <1>2, <2>2, <2>3 DEF InInv
<1>5. CASE pending # <<>> /\ receiving /\ Len(events) < EventCap
           /\ events' = events \o pending /\ pending' = <<>> /\ pc' = "read"
  <2>1. pending = <<Data(frames)>> /\ frames \in 1..MaxFrames
    <3>1. /\ pending = <<Data(frames)>> /\ Len(Stream) > 0
          /\ Len(Stream) = frames + 1 - Len(pending)
      BY <1>3, <1>5 DEF InInv, EventsInOrder, Looping
    <3>2. Len(pending) = 1
      BY <3>1
    <3>3. QED BY <3>1, <3>2, StreamTypes DEF InInv, InTypes
  <2>2. events' = Append(events, Data(frames)) /\ Data(frames) \in Events
    BY <1>5, <2>1, EventKinds, AppendIsConcat DEF InInv, InTypes
  <2>3. SendBlocking(Data(frames))
    BY <1>5, <2>2 DEF SendBlocking
  <2>4. /\ events' \in Seq(Events) /\ Len(events') <= EventCap
        /\ Len(Stream') = Len(Stream) + 1 /\ Stream'[Len(Stream) + 1] = Data(frames)
        /\ \A i \in 1..Len(Stream) : Stream'[i] = Stream[i]
    BY <1>3, <1>5, <2>2, <2>3, SendBlockingExtends
  <2>5. InTypes'
    BY <1>3, <1>5, <2>4, EmptySeq DEF InInv, InTypes
  <2>6. Len(Stream) = frames /\ Regular' = frames + 1 /\ Regular = frames
    BY <1>3, <1>5, <2>1, <2>4, StreamTypes DEF InInv, EventsInOrder, Looping, Regular
  <2>7. \A i \in 1..Regular' : Stream'[i] = Item(i)
    BY <1>3, <1>5, <2>1, <2>4, <2>6 DEF InInv, EventsInOrder, Item
  <2>8. EventsInOrder'
    BY <1>3, <1>5, <2>1, <2>4, <2>6, <2>7 DEF EventsInOrder, Early, Item
  <2>9. QED BY <1>1, <1>2, <2>5, <2>8 DEF InInv
<1>6. CASE ~receiving /\ pending' = <<>> /\ UNCHANGED events
  <2>1. InTypes'
    BY <1>3, <1>6, EmptySeq DEF InInv, InTypes
  <2>2. EventsInOrder'
    BY <1>3, <1>6 DEF EventsInOrder
  <2>3. QED BY <1>1, <1>2, <2>1, <2>2 DEF InInv
<1>7. QED BY <1>4, <1>5, <1>6

(* A frame is read only when the last one has been passed on.              *)
LEMMA ReadDataKeeps ==
    ASSUME LineInv, ReadData
    PROVE  LineInv'
<1> USE TransportAssumption DEF LineInv, ReadData, Goto, outgoing
<1>1. frames' = frames + 1 /\ frames' \in 1..MaxFrames /\ pending' = <<Data(frames')>>
  BY DEF InInv, InTypes
<1>2. InTypes'
  BY <1>1, EventKinds DEF InInv, InTypes
<1>3. Stream' = Stream /\ Regular' = Regular
  BY DEF Stream, Regular
<1>4. EventsInOrder'
  <2> SUFFICES ASSUME receiving PROVE EventsInOrder'
    BY DEF EventsInOrder
  <2>1. /\ Len(Stream) > 0 /\ Len(Stream) = frames + 1 /\ Regular = Len(Stream)
        /\ \A i \in 1..Regular : Stream[i] = Item(i)
    BY StreamTypes, EmptySeq DEF InInv, EventsInOrder, Looping, Regular
  <2>2. Len(pending') = 1 /\ frames \in Nat
    BY <1>1, StreamTypes
  <2>3. pc' = "top" /\ Len(Stream') = frames' + 1 - Len(pending')
    BY <1>1, <1>3, <2>1, <2>2
  <2>4. \A i \in 1..Regular' : Stream'[i] = Item(i)
    BY <1>3, <2>1
  <2>5. Regular' <= frames' + 1
    BY <1>1, <1>3, <2>1, <2>2
  <2>6. QED BY <1>1, <1>3, <2>1, <2>3, <2>4, <2>5 DEF EventsInOrder, Early
<1>5. OutInv'
  BY OutUntouched DEF Serving
<1>6. Flags'
  BY DEF Flags
<1>7. QED BY <1>2, <1>4, <1>5, <1>6 DEF InInv

(* On its way out the thread gives up a frame it could not pass on.        *)
LEMMA DropKeeps ==
    ASSUME LineInv, Drop
    PROVE  LineInv'
<1> USE DEF LineInv, Drop, Goto
<1>1. InTypes'
  BY EmptySeq DEF InInv, InTypes
<1>2. Stream' = Stream /\ Regular' = Regular
  BY DEF Stream, Regular
<1>3. EventsInOrder'
  BY <1>2 DEF InInv, EventsInOrder, Early, Looping
<1>4. OutInv'
  BY ReleaseQueueKeeps
<1>5. Flags'
  <2>1. accepting' \in BOOLEAN
    BY Zenon DEF ReleaseQueue
  <2>2. QED BY <2>1 DEF Flags
<1>6. QED BY <1>1, <1>3, <1>4, <1>5 DEF InInv

(* Disconnected is the last event.                                         *)
LEMMA ByeKeeps ==
    ASSUME LineInv, Bye
    PROVE  LineInv'
<1> USE DEF LineInv, Bye, Goto
<1>1. InTypes'
  BY EventKinds, SendBlockingExtends DEF InInv, InTypes
<1>2. EventsInOrder'
  <2> SUFFICES ASSUME receiving PROVE EventsInOrder'
    BY DEF EventsInOrder
  <2>1. /\ Len(Stream') = Len(Stream) + 1 /\ Stream'[Len(Stream) + 1] = Disconnected
        /\ \A i \in 1..Len(Stream) : Stream'[i] = Stream[i]
    BY EventKinds, SendBlockingExtends
  <2>2. Regular = Len(Stream) /\ Regular' = Len(Stream) /\ Len(Stream) \in Nat
    BY <2>1, StreamTypes DEF Regular
  <2>3. QED BY <2>1, <2>2 DEF InInv, EventsInOrder, Early, Looping
<1>3. OutInv'
  BY ReleaseQueueKeeps
<1>4. Flags'
  <2>1. accepting' \in BOOLEAN
    BY Zenon DEF ReleaseQueue
  <2>2. QED BY <2>1 DEF Flags
<1>5. QED BY <1>1, <1>2, <1>3, <1>4 DEF InInv

-----------------------------------------------------------------------------
(* A step that changes nothing.                                            *)
LEMMA StutterKeeps ==
    ASSUME LineInv, UNCHANGED vars
    PROVE  LineInv'
<1> USE DEF LineInv, vars, position, outgoing
<1>1. OutInv'
  BY OutUntouched DEF OutInv, OutTypes, Serving
<1>2. InInv'
  BY InUntouched DEF Early, Looping
<1>3. Flags'
  BY DEF Flags, incoming
<1>4. QED BY <1>1, <1>2, <1>3

(* LineInv, the inductive invariant, holds in every reachable state of the *)
(* thread, its queues and its client.                                      *)
THEOREM LineInvariance == Spec => []LineInv
<1>1. Init => LineInv
  <2> SUFFICES ASSUME Init PROVE LineInv
    OBVIOUS
  <2>1. OutInv
    BY TransportAssumption, EmptySeq DEF Init, OutInv, OutTypes, JobsInOrder, Begun
  <2>2. InTypes
    BY TransportAssumption, EmptySeq DEF Init, InTypes
  <2>3. Stream = <<>> /\ Regular = 0
    BY DEF Stream, Init, Regular
  <2>4. EventsInOrder
    BY <2>3 DEF Init, EventsInOrder, Looping
  <2>5. Flags
    BY Zenon DEF Init, Flags
  <2>6. QED BY <2>1, <2>2, <2>4, <2>5 DEF LineInv, InInv
<1>2. LineInv /\ [Next]_vars => LineInv'
  <2> SUFFICES ASSUME LineInv, [Next]_vars PROVE LineInv'
    OBVIOUS
  <2>1. CASE UNCHANGED vars
    BY <2>1, StutterKeeps
  <2>2. CASE Client
    BY <2>2, SendKeeps, CancelKeeps, MoveKeeps, TakeEventKeeps, DropReceiverKeeps DEF Client
  <2>3. CASE Thread
    BY <2>3, MoveKeeps, GreetKeeps, TakeJobKeeps, WriteOkKeeps, WriteFailsKeeps,
       ForwardKeeps, ReadDataKeeps, DropKeeps, ByeKeeps DEF Thread
  <2>4. QED BY <2>1, <2>2, <2>3 DEF Next, Over
<1>3. QED BY <1>1, <1>2, PTL DEF Spec

(* The queues stay within their bounds, and a client that still listens    *)
(* when the thread is gone has been told so or finds it in the channel     *)
(* (transport.rs, ws_thread).                                              *)
THEOREM ListenersAreTold == Spec => []EndIsTold
<1>1. LineInv => TypeOK
  <2> SUFFICES ASSUME LineInv PROVE TypeOK
    OBVIOUS
  <2>1. queue \in BoundedSeq(1..MaxSends, QueueCap) /\ events \in BoundedSeq(Events, EventCap)
    BY BoundedIsShort, TransportAssumption DEF LineInv, OutInv, OutTypes, InInv, InTypes
  <2>2. pending \in BoundedSeq(Events, 1) /\ taken \in BoundedSeq(Events, MaxFrames + 2)
    BY BoundedIsShort, TransportAssumption DEF LineInv, InInv, InTypes
  <2>3. wire \in BoundedSeq(1..MaxSends, MaxSends)
    <3>1. wire \in Seq(1..MaxSends) /\ Len(wire) <= MaxSends
      BY LenProperties, TransportAssumption DEF LineInv, OutInv, OutTypes
    <3>2. QED BY <3>1, BoundedIsShort, TransportAssumption
  <2>4. QED BY <2>1, <2>2, <2>3 DEF LineInv, OutInv, OutTypes, InInv, InTypes, Flags, TypeOK
<1>2. LineInv /\ pc = "exited" /\ receiving => Disconnected \in ToSet(Stream)
  <2> SUFFICES ASSUME LineInv, pc = "exited", receiving PROVE Disconnected \in ToSet(Stream)
    OBVIOUS
  <2>1. Len(Stream) > 0 /\ Stream[Len(Stream)] = Disconnected
    BY DEF LineInv, InInv, EventsInOrder
  <2>2. Len(Stream) \in DOMAIN Stream
    BY <2>1, StreamTypes, LenProperties DEF LineInv
  <2>3. QED BY <2>1, <2>2 DEF ToSet
<1>3. LineInv => EndIsTold
  BY <1>1, <1>2 DEF Stream, EndIsTold
<1>4. QED BY <1>3, LineInvariance, PTL

-----------------------------------------------------------------------------
(* The refinement.                                                         *)

(* The next event of the stream is one that is due.                        *)
LEMMA TakeEventHandsOver ==
    ASSUME LineInv, TakeEvent
    PROVE  Line!HandOver
<1> DEFINE k == Len(taken)
<1>1. /\ taken \in Seq(Events) /\ events \in Seq(Events) /\ events # <<>> /\ receiving
      /\ taken' = Append(taken, Head(events))
  BY DEF LineInv, InInv, InTypes, TakeEvent
<1>2. /\ Len(Stream) = k + Len(events) /\ k \in Nat /\ Len(events) \in Nat \ {0}
      /\ Stream[k + 1] = Head(events) /\ \A i \in 1..k : Stream[i] = taken[i]
  <2>1. Len(events) \in Nat \ {0} /\ Head(events) = events[1] /\ k \in Nat
    BY <1>1, EmptySeq
  <2>2. QED BY <1>1, <2>1, ConcatProperties DEF Stream
<1>3. /\ Regular \in {Len(Stream) - 1, Len(Stream)} /\ Regular <= frames + 1
      /\ \A i \in 1..Regular : Stream[i] = Item(i)
      /\ Regular = Len(Stream) - 1 => Stream[Len(Stream)] = Disconnected
  BY <1>1, <1>2 DEF LineInv, InInv, EventsInOrder, Regular
<1>4. frames \in Nat
  BY DEF LineInv, InInv, InTypes
<1>5. Head(events) \in Line!Due
  <2>1. CASE taken = <<>>
    <3>1. k = 0
      BY <2>1
    <3>2. Head(events) \in {Connected, Disconnected}
      BY <1>2, <1>3, <3>1 DEF Item
    <3>3. QED BY <2>1, <3>2 DEF Line!Due, Line!Connected, Line!Disconnected, Connected, Disconnected
  <2>2. CASE taken # <<>>
    <3>1. k > 0
      BY <1>1, <2>2, EmptySeq
    <3>2. k \in 1..Regular /\ taken[k] = Item(k)
      BY <1>2, <1>3, <3>1
    <3>3. taken[k] # Disconnected
      BY <3>1, <3>2, EventKinds DEF Item
    <3>4. \/ Head(events) = Disconnected
          \/ k <= frames /\ Head(events) = Data(k)
      BY <1>2, <1>3, <1>4, <3>1 DEF Item
    <3>5. QED BY <2>2, <3>3, <3>4 DEF Line!Due, Line!Disconnected, Line!Data, Disconnected, Data
  <2>3. QED BY <2>1, <2>2
<1>6. UNCHANGED <<sent, wire, acked, frames>>
  BY DEF TakeEvent, outgoing
<1>7. QED BY <1>1, <1>5, <1>6 DEF Line!HandOver

(* The frame written is the next in line, acknowledged if it is awaited.   *)
LEMMA WriteOkTransmits ==
    ASSUME LineInv, WriteOk
    PROVE  Line!Transmit
<1>1. job = Len(wire) + 1 /\ Len(wire) < sent
  <2>1. job # 0 /\ Serving /\ Len(wire) \in Nat /\ Len(queue) \in Nat
    BY LenProperties DEF LineInv, OutInv, OutTypes, WriteOk, Serving
  <2>2. QED BY <2>1 DEF LineInv, OutInv, OutTypes, JobsInOrder, Begun
<1>2. acked' \in {acked, acked \cup {job}}
  <2>1. CASE \E u \in Tasks : awaiting[u] = job
    BY <2>1 DEF WriteOk
  <2>2. CASE \A u \in Tasks : awaiting[u] # job
    BY <2>2 DEF WriteOk
  <2>3. QED BY <2>1, <2>2
<1>3. wire' = Append(wire, job) /\ UNCHANGED <<sent, frames, taken>>
  BY DEF WriteOk, incoming
<1>4. QED BY <1>1, <1>2, <1>3 DEF Line!Transmit

(* Every step is one of Connection's, or invisible to it.                  *)
LEMMA StepSimulates == LineInv /\ [Next]_vars => [Line!Next]_(Line!vars)
<1> SUFFICES ASSUME LineInv, [Next]_vars
             PROVE  Line!Next \/ UNCHANGED Line!vars
  OBVIOUS
<1> USE DEF Line!vars, position, outgoing, incoming
<1>1. CASE UNCHANGED vars \/ Over
  BY <1>1 DEF vars, Over
<1>2. ASSUME NEW t \in Tasks, Send(t) PROVE Line!Next
  BY <1>2 DEF Send, Line!Next, Line!Accept
<1>3. CASE \E t \in Tasks : Cancel(t)
  BY <1>3 DEF Cancel
<1>4. CASE TakeEvent
  BY <1>4, TakeEventHandsOver DEF Line!Next
<1>5. CASE WriteOk
  BY <1>5, WriteOkTransmits DEF Line!Next
<1>6. CASE ReadData
  BY <1>6 DEF ReadData, Line!Next, Line!Arrive
<1>7. CASE Disconnect \/ DropReceiver \/ ConnectOk \/ ConnectFails \/ Greet
  BY <1>7 DEF Disconnect, DropReceiver, ConnectOk, ConnectFails, Greet
<1>8. CASE CheckShutdown \/ Drained \/ TakeJob \/ WriteFails \/ Forward
  BY <1>8 DEF CheckShutdown, Drained, TakeJob, WriteFails, Forward
<1>9. CASE ReadNothing \/ PongFails \/ ReadEnds
  BY <1>9 DEF ReadNothing, PongFails, ReadEnds
<1>10. CASE Drop \/ Bye
  BY <1>10 DEF Drop, Bye, ReleaseQueue
<1>11. QED BY <1>1, <1>2, <1>3, <1>4, <1>5, <1>6, <1>7, <1>8, <1>9, <1>10
           DEF Next, Client, Thread

(* The socket thread, its queues and its backpressure implement Connection *)
(* for any capacities: frames go out in the order they were accepted, none *)
(* left out, and events arrive in order, none lost or repeated             *)
(* (transport.rs, ws_thread and forward_pending).                          *)
THEOREM TransportIsAConnection == Spec => IsAConnection
<1>1. Init => Line!Init
  BY DEF Init, Line!Init
<1>2. QED BY <1>1, StepSimulates, LineInvariance, PTL DEF Spec, IsAConnection, Line!Spec
=============================================================================
