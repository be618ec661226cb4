------------------------------ MODULE WsReader ------------------------------
(***************************************************************************)
(* WsClient: the HTTP upgrade and the resumable WebSocket frame reader.    *)
(* The server answers the upgrade and sends frames; the socket hands all   *)
(* that over in pieces of any size, with timeouts between any two bytes,   *)
(* so a read for the answer may take frames along; the reader must find    *)
(* the frames again.                                                       *)
(*                                                                         *)
(* Bytes are stream positions, counted from the end of the answer's head.  *)
(* A payload is where it starts, so a reader that lost its place delivers  *)
(* the wrong bytes visibly.                                                *)
(***************************************************************************)
EXTENDS Integers, Sequences, SequencesExt

CONSTANTS
    Responses,     \* the heads a server may answer the upgrade with
    MaxHandshake,  \* MAX_HANDSHAKE_BYTES
    Chunk,         \* bytes a handshake read may take, 256 in the code
    Frames,        \* the frames a server may send
    MaxFrame,      \* Limits::max_frame_size
    MaxMessage,    \* Limits::max_message_size
    MaxControl,    \* MAX_CONTROL_PAYLOAD, 125 in the code
    MaxScript      \* bound: frames the server sends

Opcodes == {"continuation", "text", "binary", "close", "ping", "pong", "reserved"}

(* enc is the header's size, 2, 4 or 10 bytes: the code takes any length   *)
(* in any of them.  odd: a reserved bit or the mask bit is set.            *)
FrameType == [op : Opcodes, fin : BOOLEAN, enc : {2, 4, 10}, len : Nat, odd : BOOLEAN]

(* The answer's head: its size up to the blank line, its status line and   *)
(* its headers of note, in order, each with the value the upgrade calls    *)
(* for or with another.                                                    *)
HeaderNames  == {"upgrade", "connection", "sec-websocket-accept"}
ResponseType == [size : Nat \ {0}, status : {"101", "other", "malformed"},
                 headers : Seq([name : HeaderNames, fits : BOOLEAN])]

ASSUME ReaderAssumption ==
    /\ Responses \subseteq ResponseType
    /\ {MaxHandshake, Chunk} \subseteq Nat \ {0}
    /\ Frames \subseteq FrameType
    /\ {MaxFrame, MaxMessage, MaxControl, MaxScript} \subseteq Nat

VARIABLES
    head,        \* the head of the server's answer
    buffered,    \* bytes read for the answer; then those left over, pending
    script,      \* the frames the server has begun to send, and where
    at,          \* bytes the reader has taken from the stream
    header_len,  \* header bytes accumulated
    incoming,    \* the frame whose payload is arriving, if any
    partial,     \* the fragments of the message being reassembled
    out,         \* messages handed to the caller
    status       \* "upgrading", "open", "refused" (protocol error), "broken" (stream error)

upgrade == <<head, buffered>>
vars    == <<upgrade, script, at, header_len, incoming, partial, out, status>>

NoFrame   == [op |-> "none", fin |-> FALSE, start |-> 0, len |-> 0, filled |-> 0]
NoPartial == [op |-> "none", parts |-> <<>>, len |-> 0]
Part      == [start : Nat, len : Nat]

(* A frame in the stream: its first byte, and the data before it.          *)
Sent == [op : Opcodes, fin : BOOLEAN, enc : {2, 4, 10}, len : Nat, odd : BOOLEAN,
         start : Nat, before : Nat]

TypeOK ==
    /\ script \in Seq(Sent) /\ Len(script) <= MaxScript
    /\ head \in Responses /\ buffered \in Nat
    /\ at \in Nat /\ header_len \in 0..10
    /\ incoming # NoFrame => header_len = 0
    /\ incoming = NoFrame \/ incoming.filled \in 0..incoming.len
    /\ partial.parts \in Seq(Part) /\ partial.len \in Nat
    /\ status \in {"upgrading", "open", "refused", "broken"}

Init ==
    /\ script = <<>> /\ at = 0 /\ header_len = 0
    /\ incoming = NoFrame /\ partial = NoPartial
    /\ out = <<>>
    /\ head \in Responses /\ buffered = 0 /\ status = "upgrading"

-----------------------------------------------------------------------------
(* The stream.                                                             *)

IsControl(f)   == f.op \in {"close", "ping", "pong"}
EndOf(f)       == f.start + f.enc + f.len
Payload(f)     == [start |-> f.start + f.enc, len |-> f.len]
EndOfStream(s) == IF s = <<>> THEN 0 ELSE EndOf(Last(s))
DataSent(s)    == IF s = <<>> THEN 0
                  ELSE Last(s).before + (IF IsControl(Last(s)) THEN 0 ELSE Last(s).len)

Placed(f, s) == [op |-> f.op, fin |-> f.fin, enc |-> f.enc, len |-> f.len, odd |-> f.odd,
                 start |-> EndOfStream(s), before |-> DataSent(s)]

(* The server begins another frame once the reader needs it, or right      *)
(* behind its answer, as far as one read may take it along.                *)
ServerSends(f) ==
    /\ \/ status = "open" /\ incoming = NoFrame /\ at = EndOfStream(script)
       \/ status = "upgrading" /\ EndOfStream(script) < Chunk
    /\ Len(script) < MaxScript
    /\ script' = Append(script, Placed(f, script))
    /\ UNCHANGED <<upgrade, at, header_len, incoming, partial, out, status>>

(* The frame whose header the reader believes it is reading, odd garbage   *)
(* if no frame starts there.                                               *)
Garbage == [op |-> "reserved", fin |-> TRUE, enc |-> 2, len |-> 0, odd |-> TRUE]
Decoded ==
    LET here == {i \in 1..Len(script) : script[i].start = at - header_len}
    IN  IF here = {} THEN Garbage ELSE script[CHOOSE i \in here : TRUE]

-----------------------------------------------------------------------------
(* connect: the request is out, the answer arrives in pieces.              *)

(* verify_upgrade: the last header of each name counts.                    *)
Upgraded(r) ==
    /\ r.status = "101"
    /\ \A name \in HeaderNames :
          LET named == SelectSeq(r.headers, LAMBDA h : h.name = name)
          IN  named # <<>> /\ Last(named).fits

(* No blank line yet: read on, taking along what follows it.               *)
HandshakeRead(n) ==
    /\ status = "upgrading" /\ buffered < head.size
    /\ buffered < MaxHandshake
    /\ n \in 1..Chunk /\ buffered + n <= head.size + EndOfStream(script)
    /\ buffered' = buffered + n
    /\ UNCHANGED <<head, script, at, header_len, incoming, partial, out, status>>

HandshakeTooLarge ==
    /\ status = "upgrading" /\ buffered < head.size
    /\ buffered >= MaxHandshake
    /\ status' = "refused"
    /\ UNCHANGED <<upgrade, script, at, header_len, incoming, partial, out>>

(* Faulty variant: what followed the blank line goes with the answer.      *)
HandshakeDoneClean ==
    /\ status = "upgrading" /\ buffered >= head.size
    /\ status' = IF Upgraded(head) THEN "open" ELSE "refused"
    /\ at' = at + buffered - head.size
    /\ buffered' = 0
    /\ UNCHANGED <<head, script, header_len, incoming, partial, out>>

(* What followed the blank line is the start of the first frame.           *)
HandshakeDone ==
    /\ status = "upgrading" /\ buffered >= head.size
    /\ status' = IF Upgraded(head) THEN "open" ELSE "refused"
    /\ buffered' = buffered - head.size
    /\ UNCHANGED <<head, script, at, header_len, incoming, partial, out>>

-----------------------------------------------------------------------------
(* fill: what the handshake left over first, then the stream.              *)
Fill(n, wanted) ==
    /\ n \in 1..wanted
    /\ IF buffered > 0 THEN n = Min({buffered, wanted}) /\ buffered' = buffered - n
                       ELSE at + n <= EndOfStream(script) /\ UNCHANGED buffered
    /\ at' = at + n

(* read_header.                                                            *)

(* Header bytes wanted next: two, then what the second one calls for.      *)
HeaderWanted == (IF header_len < 2 THEN 2 ELSE Decoded.enc) - header_len

HeaderComplete(n) == header_len + n >= 2 /\ header_len + n = Decoded.enc

(* What a header is refused for, given the bytes held of a message.        *)
RefusedIf(f, held) ==
    \/ f.odd \/ f.op = "reserved"
    \/ IsControl(f) /\ (~f.fin \/ f.len > MaxControl)
    \/ /\ f.op = "continuation"
       /\ partial = NoPartial \/ held + f.len > MaxMessage \/ f.len > MaxFrame
    \/ /\ f.op \in {"text", "binary"}
       /\ partial # NoPartial \/ f.len > MaxFrame \/ (~f.fin /\ f.len > MaxMessage)

(* Faulty variant: a fragment is measured alone.                           *)
RefusedAlone(f) == RefusedIf(f, 0)

(* All of it before anything is allocated.                                 *)
Refused(f) == RefusedIf(f, partial.len)

(* fill: some of the wanted bytes arrive.  The mask and the reserved bits  *)
(* are judged after two bytes, the rest once the header is complete.       *)
ReadHeader(n) ==
    /\ status = "open" /\ incoming = NoFrame
    /\ Fill(n, HeaderWanted)
    /\ \/ /\ ~HeaderComplete(n) /\ ~(Decoded.odd /\ header_len + n = 2)
          /\ header_len' = header_len + n
          /\ UNCHANGED <<incoming, status>>
       \/ /\ HeaderComplete(n) /\ ~Refused(Decoded)
          /\ header_len' = 0
          /\ incoming' = [op |-> Decoded.op, fin |-> Decoded.fin, start |-> at',
                          len |-> Decoded.len, filled |-> 0]
          /\ UNCHANGED status
       \/ /\ \/ Decoded.odd /\ header_len + n = 2 /\ header_len' = 2
             \/ ~Decoded.odd /\ HeaderComplete(n) /\ Refused(Decoded) /\ header_len' = 0
          /\ status' = "refused"
          /\ UNCHANGED incoming
    /\ UNCHANGED <<head, script, partial, out>>

(* fill_into.                                                              *)
ReadPayload(n) ==
    /\ status = "open" /\ incoming # NoFrame
    /\ Fill(n, incoming.len - incoming.filled)
    /\ incoming' = [incoming EXCEPT !.filled = @ + n]
    /\ UNCHANGED <<head, script, header_len, partial, out, status>>

(* Faulty variant: the next call starts its header afresh.                 *)
ReadBlocksAfresh ==
    /\ status = "open" /\ header_len < 2
    /\ header_len' = 0
    /\ UNCHANGED <<upgrade, script, at, incoming, partial, out, status>>

(* The read timeout between any two bytes: read_frame returns None and     *)
(* keeps everything.                                                       *)
ReadBlocks ==
    /\ status = "open" /\ buffered = 0
    /\ UNCHANGED vars

(* A stream error or its end, and in the handshake its deadline too.       *)
ReadFails ==
    /\ status = "upgrading" \/ (status = "open" /\ buffered = 0)
    /\ status' = "broken"
    /\ UNCHANGED <<upgrade, script, at, header_len, incoming, partial, out>>

-----------------------------------------------------------------------------
(* dispatch.                                                               *)

Deliver(op, parts) == out' = Append(out, [op |-> op, parts |-> parts])

ThisPart == [start |-> incoming.start, len |-> incoming.len]

(* A payload of close is empty, or a code and a reason: one byte is        *)
(* neither.  (A reason that is not UTF-8 is refused alike.)                *)
DispatchControl ==
    /\ IsControl(incoming)
    /\ \/ /\ ~(incoming.op = "close" /\ incoming.len = 1)
          /\ Deliver(incoming.op, <<ThisPart>>)
          /\ UNCHANGED status
       \/ /\ incoming.op = "close" /\ incoming.len > 0
          /\ status' = "refused"
          /\ UNCHANGED out
    /\ UNCHANGED partial

DispatchData ==
    /\ incoming.op \in {"text", "binary"}
    /\ IF incoming.fin
       THEN Deliver(incoming.op, <<ThisPart>>) /\ UNCHANGED partial
       ELSE /\ partial' = [op |-> incoming.op, parts |-> <<ThisPart>>, len |-> incoming.len]
            /\ UNCHANGED out
    /\ UNCHANGED status

(* The message keeps its first frame's opcode.                             *)
DispatchContinuation ==
    /\ incoming.op = "continuation"
    /\ LET parts == Append(partial.parts, ThisPart)
       IN  IF incoming.fin
           THEN Deliver(partial.op, parts) /\ partial' = NoPartial
           ELSE /\ partial' = [op |-> partial.op, parts |-> parts,
                               len |-> partial.len + incoming.len]
                /\ UNCHANGED out
    /\ UNCHANGED status

Dispatch ==
    /\ status = "open" /\ incoming # NoFrame /\ incoming.filled = incoming.len
    /\ incoming' = NoFrame
    /\ DispatchControl \/ DispatchData \/ DispatchContinuation
    /\ UNCHANGED <<upgrade, script, at, header_len>>

(* The caller stops reading.                                               *)
Ended == status \in {"refused", "broken"} /\ UNCHANGED vars

Next ==
    \/ \E f \in Frames : ServerSends(f)
    \/ \E n \in 1..Chunk : HandshakeRead(n)
    \/ HandshakeTooLarge \/ HandshakeDone
    \/ \E n \in 1..10 : ReadHeader(n)
    \/ \E n \in 1..incoming.len : ReadPayload(n)
    \/ ReadBlocks \/ ReadFails \/ Dispatch \/ Ended

Spec == Init /\ [][Next]_vars

-----------------------------------------------------------------------------
(* Reference: what the protocol says of the frames s, without a reader.    *)

(* Payload q continues the message of payload p: only control frames come  *)
(* between the two.                                                        *)
Follows(s, p, q) ==
    \E a, b \in 1..Len(s) :
        /\ a < b /\ p = Payload(s[a]) /\ q = Payload(s[b])
        /\ ~IsControl(s[a]) /\ ~s[a].fin /\ s[b].op = "continuation"
        /\ \A c \in (a + 1)..(b - 1) : IsControl(s[c])

(* m is the message that frame x completes: from a first frame, of which   *)
(* it has the opcode, by one continuation after the other, to frame x.     *)
Spells(s, m, x) ==
    /\ s[x].fin
    /\ m.parts # <<>> /\ Last(m.parts) = Payload(s[x])
    /\ \E a \in 1..x : /\ m.parts[1] = Payload(s[a])
                       /\ s[a].op = m.op /\ m.op # "continuation"
    /\ \A j \in 1..(Len(m.parts) - 1) : Follows(s, m.parts[j], m.parts[j + 1])

(* A data message is open before frame x.                                  *)
InMessage(s, x) ==
    \E a \in 1..(x - 1) : /\ ~IsControl(s[a]) /\ ~s[a].fin
                          /\ \A c \in (a + 1)..(x - 1) : IsControl(s[c])

(* Frame a begins the data message that frame x is in.                     *)
Begins(s, a, x) ==
    /\ s[a].op \in {"text", "binary"}
    /\ \A c \in (a + 1)..x : s[c].op \notin {"text", "binary"}

Legal(s, x) ==
    LET f == s[x] IN
    /\ ~f.odd /\ f.op # "reserved"
    /\ IsControl(f) => f.fin /\ f.len <= MaxControl /\ (f.op = "close" => f.len # 1)
    /\ ~IsControl(f) =>
          /\ InMessage(s, x) <=> f.op = "continuation"
          /\ f.len <= MaxFrame
          /\ (InMessage(s, x) \/ ~f.fin) =>
               \A a \in 1..x : Begins(s, a, x) => f.before + f.len - s[a].before <= MaxMessage

(* However the bytes are cut, frames taken along with the handshake's      *)
(* answer included, the caller gets exactly the messages the frames spell, *)
(* from exactly their bytes, in the order they complete and none left out, *)
(* control frames inside fragmented messages among them.                   *)
MessagesAreExact ==
    /\ \A k \in 1..Len(out) : \E x \in 1..Len(script) : Spells(script, out[k], x)
    /\ \A k \in 1..(Len(out) - 1) : Last(out[k].parts).start < Last(out[k + 1].parts).start
    /\ \A x \in 1..Len(script) : script[x].fin /\ EndOf(script[x]) < at =>
          \E k \in 1..Len(out) : Spells(script, out[k], x)

(* No frame is refused but an illegal one (a close's reason aside), no     *)
(* illegal one is ever passed over, and a genuine upgrade of a fair size   *)
(* is never refused, whatever followed it at once.                         *)
RefusesExactlyIllegal ==
    /\ status = "refused" /\ ~Upgraded(head) => at = 0 /\ out = <<>>
    /\ status = "refused" /\ Upgraded(head) /\ head.size <= MaxHandshake =>
          \E x \in 1..Len(script) :
             /\ script[x].start < at /\ at <= EndOf(script[x])
             /\ script[x].op # "close" => ~Legal(script, x)
    /\ \A x \in 1..Len(script) : EndOf(script[x]) < at => Legal(script, x)

(* What a server can make the reader hold is bounded by the limits, in the *)
(* handshake, before a payload arrives and across fragments; every         *)
(* variable is typed.                                                      *)
MemoryIsBounded ==
    /\ TypeOK
    /\ buffered < MaxHandshake + Chunk
    /\ incoming.len <= IF IsControl(incoming) THEN MaxControl ELSE MaxFrame
    /\ partial.len <= MaxMessage
    /\ incoming.op = "continuation" => partial.len + incoming.len <= MaxMessage
=============================================================================
