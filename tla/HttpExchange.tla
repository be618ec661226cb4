---------------------------- MODULE HttpExchange ----------------------------
(***************************************************************************)
(* One request of EspHttpClient (http_client.rs, http_chunked.rs):         *)
(* execute, which buffers the whole response, or execute_streaming, whose  *)
(* caller reads the body as it arrives.  The server sends what it likes,   *)
(* in pieces of any size, and may go quiet or close at any byte.           *)
(*                                                                         *)
(* Bytes are stream positions, so a reader that lost its place hands over  *)
(* the wrong bytes visibly.  A response is a head and a script of items,   *)
(* an item being one chunk (size line, data, CRLF), the last chunk's size  *)
(* line, a trailer line, the blank line, or plain body bytes.              *)
(***************************************************************************)
EXTENDS Integers, Sequences, SequencesExt

CONSTANTS
    Requests,  \* the requests a caller may make
    Heads,     \* the response heads a server may send
    Items,     \* what may follow a head
    MaxHead,   \* MAX_RESPONSE_HEADER_BYTES
    MaxTotal,  \* MAX_RESPONSE_BODY_BYTES, head included
    MaxMeta,   \* MAX_METADATA_BYTES, http_chunked.rs
    Piece,     \* bytes one read of the socket asks for
    MaxItems   \* bound: items the server sends

(* heap: enough is free; url: its scheme; legal: method, target, host and  *)
(* headers; own: a Content-Length among the headers (-1: none); body: its  *)
(* length (-1: none); addrs: addresses the host resolves to.               *)
RequestType == [streaming : BOOLEAN, heap : BOOLEAN, url : {"tls", "tcp", "bad"},
                legal : BOOLEAN, own : Int, body : Int, addrs : Nat]

(* te and cl: the values of its Transfer-Encoding and Content-Length       *)
(* fields; a cl of -1 does not parse.                                      *)
HeadType == [len : Nat \ {0}, status : BOOLEAN, te : Seq({"chunked", "other"}),
             cl : Seq(Nat \cup {-1})]

(* line: the metadata line's bytes; n: the data's; good: a CRLF after the  *)
(* data, or a trailer with a colon.  A chunk of no data is one whose size  *)
(* is not a u64 in hex.                                                    *)
Chunk    == [kind : {"chunk"}, line : Nat \ {0}, n : Nat, good : BOOLEAN]
Line     == [kind : {"last", "blank"}, line : Nat \ {0}, n : {0}, good : {TRUE}]
Trailer  == [kind : {"trailer"}, line : Nat \ {0}, n : {0}, good : BOOLEAN]
Raw      == [kind : {"raw"}, line : {0}, n : Nat, good : {TRUE}]
ItemType == Chunk \cup Line \cup Trailer \cup Raw

ASSUME HttpAssumption ==
    /\ Requests \subseteq RequestType /\ Heads \subseteq HeadType /\ Items \subseteq ItemType
    /\ {MaxHead, MaxTotal, MaxMeta, Piece, MaxItems} \subseteq Nat \ {0}

VARIABLES
    req, head, script,  \* what is asked and what the server answers, and where
    dialled,            \* addresses tried
    announced,          \* the lengths the written request announces
    phase,              \* where the client is
    got, closed,        \* bytes read from the socket; the peer closed after them
    at,                 \* bytes consumed of those
    remaining, budget,  \* ExactLengthReader's and ChunkedReader's counters
    body,               \* the body bytes read
    outcome,            \* "none", "ok" or "error"
    fault               \* history: a local refusal, a failure or a timeout

asked    == <<req, dialled, announced>>
socket   == <<got, closed>>
reader   == <<at, remaining, budget, body>>
httpVars == <<asked, head, script, phase, socket, reader, outcome, fault>>

Phases == {"admit", "connect", "write", "receive", "head", "parse", "exact",
           "close", "size", "data", "crlf", "trailers", "over"}

(* An item in the stream, with the place of its first byte.                *)
SentItem == [kind : {"chunk", "last", "trailer", "blank", "raw"},
             line : Nat, n : Nat, good : BOOLEAN, start : Nat]

(* connect_stream: TLS dials once, plain TCP each address in turn.         *)
Candidates == IF req.url = "tls" THEN 1 ELSE req.addrs

HttpTypeOK ==
    /\ req \in Requests /\ head \in Heads
    /\ script \in Seq(SentItem) /\ Len(script) <= MaxItems
    /\ dialled \in 0..Candidates /\ announced \in Seq(Nat)
    /\ phase \in Phases /\ got \in Nat /\ at \in 0..got /\ closed \in BOOLEAN
    /\ remaining \in Nat /\ budget \in Nat
    /\ outcome \in {"none", "ok", "error"} /\ (outcome = "none" <=> phase # "over")
    /\ fault \in BOOLEAN

HttpInit ==
    /\ req \in Requests /\ head \in Heads /\ script = <<>>
    /\ dialled = 0 /\ announced = <<>>
    /\ phase = "admit" /\ got = 0 /\ closed = FALSE
    /\ at = 0 /\ remaining = 0 /\ budget = 0 /\ body = <<>>
    /\ outcome = "none" /\ fault = FALSE

Fails(because) == phase' = "over" /\ outcome' = "error" /\ fault' = (fault \/ because)
Goto(next)     == phase' = next /\ UNCHANGED <<outcome, fault>>
Succeeds       == phase' = "over" /\ outcome' = "ok" /\ UNCHANGED fault

-----------------------------------------------------------------------------
(* The request.                                                            *)

(* build_raw_request: a body's own length replaces the caller's.  A        *)
(* streaming request sends no body.                                        *)
SendsBody == req.body >= 0 /\ ~req.streaming
Lengths   == IF SendsBody THEN <<req.body>>
             ELSE IF req.own >= 0 THEN <<req.own>> ELSE <<>>

(* The free heap (for a buffered fetch), parse_url, build_raw_request.     *)
Admissible == (req.heap \/ req.streaming) /\ req.url # "bad" /\ req.legal

AdmitRequest ==
    /\ phase = "admit"
    /\ IF Admissible THEN Goto("connect") ELSE Fails(TRUE)
    /\ UNCHANGED <<asked, head, script, socket, reader>>

(* A connection is refused, or setting its timeouts fails.                 *)
Dial ==
    /\ phase = "connect" /\ dialled < Candidates
    /\ dialled' = dialled + 1
    /\ \/ Goto("write")
       \/ dialled' < Candidates /\ Goto("connect")
       \/ Fails(TRUE)
    /\ UNCHANGED <<req, announced, head, script, socket, reader>>

NoAddress ==
    /\ phase = "connect" /\ Candidates = 0
    /\ Fails(TRUE)
    /\ UNCHANGED <<asked, head, script, socket, reader>>

(* write_all of the head and the body, then flush.                         *)
Write ==
    /\ phase = "write"
    /\ \/ /\ announced' = Lengths
          /\ Goto(IF req.streaming THEN "head" ELSE "receive")
       \/ Fails(TRUE) /\ UNCHANGED announced
    /\ UNCHANGED <<req, dialled, head, script, socket, reader>>

-----------------------------------------------------------------------------
(* The server and the socket.                                              *)

EndOf(i)        == i.start + i.line + i.n + (IF i.kind = "chunk" /\ i.n > 0 THEN 2 ELSE 0)
StreamEnd(b, s) == IF s = <<>> THEN b ELSE EndOf(Last(s))
EndOfStream     == StreamEnd(head.len, script)

Placed(i, start) == [kind |-> i.kind, line |-> i.line, n |-> i.n, good |-> i.good,
                     start |-> start]

Ambiguous == \/ Len(head.te) > 1 \/ Len(head.cl) > 1
             \/ head.te # <<>> /\ head.cl # <<>>
             \/ "other" \in ToSet(head.te) \/ -1 \in ToSet(head.cl)

(* parse_body_framing, as the phase that reads such a body.                *)
Framing == IF Ambiguous THEN "refused"
           ELSE IF head.te # <<>> THEN "size"
           ELSE IF head.cl # <<>> THEN "exact" ELSE "close"

(* The server is at most one item ahead of the client.                     *)
ServerSends(i) ==
    /\ phase \notin {"admit", "connect", "write", "over"} /\ ~closed
    /\ Len(script) < MaxItems /\ (script # <<>> => got >= Last(script).start)
    /\ i.kind = "raw" <=> Framing # "size"
    /\ script' = Append(script, Placed(i, EndOfStream))
    /\ UNCHANGED <<asked, head, phase, socket, reader, outcome, fault>>

(* Orderly at the end of what it sent, or cut with bytes still on the way. *)
PeerCloses ==
    /\ phase \notin {"admit", "connect", "write", "over"} /\ ~closed
    /\ closed' = TRUE
    /\ UNCHANGED <<asked, head, script, phase, got, reader, outcome, fault>>

Arrives(n) ==
    /\ ~closed /\ n \in 1..Piece /\ got + n <= EndOfStream
    /\ got' = got + n /\ UNCHANGED closed

-----------------------------------------------------------------------------
(* Reading.                                                                *)

(* The item whose first byte the reader has come to, garbage otherwise.    *)
Garbage == [kind |-> "raw", line |-> 1, n |-> 0, good |-> FALSE]
Here    ==
    LET starts == {k \in 1..Len(script) : script[k].start = at}
    IN  IF starts = {} THEN Garbage ELSE script[CHOOSE k \in starts : TRUE]

(* Bytes a line takes out of the stream when it may have `limit`.          *)
LineTakes(limit) == IF Here.line <= limit THEN Here.line ELSE limit

(* The bytes the reader goes on with are not there.                        *)
Starved ==
    \/ phase \in {"receive", "head"}
    \/ phase \in {"exact", "data", "close"} /\ got < at + 1
    \/ phase = "crlf" /\ got < at + 2
    \/ phase = "size" /\ got < at + LineTakes(MaxMeta)
    \/ phase = "trailers" /\ got < at + LineTakes(budget)

(* The socket yields bytes to a body reader that needs them.               *)
Pull(n) ==
    /\ phase \in {"exact", "close", "size", "data", "crlf", "trailers"} /\ Starved
    /\ Arrives(n)
    /\ UNCHANGED <<asked, head, script, phase, reader, outcome, fault>>

(* Faulty variant: a timeout is waited out again.                          *)
QuietIsWaitedOut == Starved /\ ~closed /\ phase # "over" /\ UNCHANGED httpVars

(* HTTP_IO_TIMEOUT, or a socket error.                                     *)
ReadFails ==
    /\ Starved /\ ~closed /\ phase \notin {"admit", "connect", "write", "parse", "over"}
    /\ Fails(TRUE)
    /\ UNCHANGED <<asked, head, script, socket, reader>>

(* do_request's loop.                                                      *)
Receive(n) ==
    /\ phase = "receive"
    /\ Arrives(n)
    /\ IF got' > MaxTotal THEN Fails(FALSE) ELSE Goto("receive")
    /\ UNCHANGED <<asked, head, script, reader>>

(* Its end, and parse_http_response's search for the head.                 *)
Received ==
    /\ phase = "receive" /\ closed
    /\ IF got >= head.len THEN Goto("parse") ELSE Fails(FALSE)
    /\ UNCHANGED <<asked, head, script, socket, reader>>

(* do_streaming_request's loop: the delimiter first, then the limit.       *)
ReadHead(n) ==
    /\ phase = "head"
    /\ Arrives(n)
    /\ IF got' >= head.len THEN Goto("parse")
       ELSE IF got' > MaxHead THEN Fails(FALSE) ELSE Goto("head")
    /\ UNCHANGED <<asked, head, script, reader>>

HeadCut ==
    /\ phase = "head" /\ closed
    /\ Fails(FALSE)
    /\ UNCHANGED <<asked, head, script, socket, reader>>

(* The body starts at a position behind the head.                          *)
ParseFrom(start) ==
    /\ phase = "parse"
    /\ at' = start
    /\ IF ~head.status \/ Framing = "refused" THEN Fails(FALSE) ELSE Goto(Framing)
    /\ remaining' = IF Framing = "exact" THEN head.cl[1] ELSE 0
    /\ UNCHANGED <<asked, head, script, socket, budget, body>>

(* Faulty variant: what was read past the head is thrown away with it.     *)
ParseDropsOverflow == ParseFrom(got)

(* parse_status_code, parse_body_framing, and the bytes read past the head *)
(* put back in front of the stream.                                        *)
ParseHead == ParseFrom(head.len)

Deliver(n) == /\ at' = at + n
              /\ body' = body \o [i \in 1..n |-> at + i]

Available == got - at

(* ExactLengthReader::read, and a buffered body of declared length.        *)
ReadExact(n) ==
    /\ phase = "exact" /\ n \in 1..Available /\ n <= remaining
    /\ Deliver(n)
    /\ remaining' = remaining - n
    /\ UNCHANGED <<asked, head, script, phase, socket, budget, outcome, fault>>

ExactEnds ==
    /\ phase = "exact" /\ remaining = 0
    /\ Succeeds
    /\ UNCHANGED <<asked, head, script, socket, reader>>

(* The stream ends inside a body of known extent.                          *)
BodyCut ==
    /\ \/ phase = "exact" /\ remaining > 0
       \/ phase \in {"size", "data", "crlf", "trailers"}
    /\ Starved /\ closed
    /\ Fails(FALSE)
    /\ UNCHANGED <<asked, head, script, socket, reader>>

ReadToClose ==
    /\ phase = "close"
    /\ \/ Available > 0 /\ Deliver(Available) /\ Goto("close")
       \/ Available = 0 /\ closed /\ Succeeds /\ UNCHANGED <<at, body>>
    /\ UNCHANGED <<asked, head, script, socket, remaining, budget>>

(* ChunkedReader::read, one step per thing it may wait for.                *)
ReadSize ==
    /\ phase = "size" /\ ~Starved
    /\ at' = at + LineTakes(MaxMeta)
    /\ \/ /\ Here.kind = "chunk" /\ Here.n > 0 /\ Here.line <= MaxMeta
          /\ remaining' = Here.n
          /\ Goto("data") /\ UNCHANGED budget
       \/ /\ Here.kind = "last" /\ Here.line <= MaxMeta
          /\ budget' = MaxMeta
          /\ Goto("trailers") /\ UNCHANGED remaining
       \/ /\ \/ Here.kind \notin {"chunk", "last"} \/ Here.line > MaxMeta
             \/ Here.kind = "chunk" /\ Here.n = 0
          /\ Fails(FALSE) /\ UNCHANGED <<remaining, budget>>
    /\ UNCHANGED <<asked, head, script, socket, body>>

ReadData(n) ==
    /\ phase = "data" /\ n \in 1..Available /\ n <= remaining
    /\ Deliver(n)
    /\ remaining' = remaining - n
    /\ Goto(IF remaining' = 0 THEN "crlf" ELSE "data")
    /\ UNCHANGED <<asked, head, script, socket, budget>>

(* Two bytes that are the CRLF of the chunk that ends there, or not.       *)
ReadCrlf ==
    /\ phase = "crlf" /\ ~Starved
    /\ at' = at + 2
    /\ IF \E k \in 1..Len(script) :
              script[k].kind = "chunk" /\ script[k].good /\ EndOf(script[k]) = at + 2
       THEN Goto("size") ELSE Fails(FALSE)
    /\ UNCHANGED <<asked, head, script, socket, remaining, budget, body>>

TrailerLeaves(left) ==
    /\ phase = "trailers" /\ ~Starved
    /\ at' = at + LineTakes(budget)
    /\ IF Here.line > budget THEN Fails(FALSE)
       ELSE \/ Here.kind = "blank" /\ Succeeds
            \/ Here.kind = "trailer" /\ Here.good /\ Goto("trailers")
            \/ Here.kind # "blank" /\ ~(Here.kind = "trailer" /\ Here.good) /\ Fails(FALSE)
    /\ budget' = left
    /\ UNCHANGED <<asked, head, script, socket, remaining, body>>

(* Faulty variant: every trailer has the whole limit.                      *)
ReadTrailerEach == TrailerLeaves(budget)

ReadTrailer == TrailerLeaves(budget - LineTakes(budget))

Over == phase = "over" /\ UNCHANGED httpVars

Client ==
    \/ AdmitRequest \/ Dial \/ NoAddress \/ Write
    \/ Received \/ HeadCut \/ ParseHead \/ ReadFails
    \/ ExactEnds \/ BodyCut \/ ReadToClose \/ ReadSize \/ ReadCrlf \/ ReadTrailer
    \/ \E n \in 1..Piece : \/ Receive(n) \/ ReadHead(n) \/ Pull(n) \/ ReadExact(n) \/ ReadData(n)

Server == PeerCloses \/ \E i \in Items : ServerSends(i)

HttpNext == Client \/ Server \/ Over

(* Every call of the client returns: the socket has a timeout.  Nothing    *)
(* makes the server send, or close.                                        *)
HttpSpec == HttpInit /\ [][HttpNext]_httpVars /\ WF_httpVars(Client)

-----------------------------------------------------------------------------
(* Reference: what the response says, without a reader.                    *)

(* Item k of s comes after the last chunk.                                 *)
After(s, k) == \E l \in 1..(k - 1) : s[l].kind = "last"

(* The byte at position p is data of a chunk.                              *)
InChunk(s, p) ==
    \E k \in 1..Len(s) : /\ s[k].kind = "chunk" /\ ~After(s, k)
                         /\ s[k].start + s[k].line < p
                         /\ p <= s[k].start + s[k].line + s[k].n

(* The byte at position p is one of the body.                              *)
IsBody(p) ==
    \/ Framing = "exact" /\ head.len < p /\ p <= head.len + head.cl[1]
    \/ Framing = "close" /\ head.len < p /\ p <= got
    \/ Framing = "size" /\ InChunk(script, p)

(* Item k may stand where it does: chunks, one last, trailers, blank.      *)
Legal(s, k) ==
    /\ s[k].kind \in {"chunk", "last"} <=> ~After(s, k)
    /\ s[k].good /\ (s[k].kind = "chunk" => s[k].n > 0)
    /\ s[k].line <= MaxMeta

(* The trailers leave room for the blank line, or end with it.             *)
TrailersFit(b, s) ==
    \A l \in 1..Len(s) : s[l].kind = "last" /\ ~After(s, l) =>
        LET used == StreamEnd(b, s) - EndOf(s[l])
        IN  used < MaxMeta \/ (used = MaxMeta /\ Last(s).kind = "blank")

(* The server's answer is one the client must take.                        *)
Acceptable ==
    /\ head.status /\ ~Ambiguous
    /\ req.streaming => head.len <= MaxHead
    /\ ~req.streaming => got <= MaxTotal
    /\ Framing = "size" => /\ TrailersFit(head.len, script)
                           /\ \A k \in 1..Len(script) : Legal(script, k)

(* The client has been given all of it.                                    *)
Complete ==
    \/ Framing = "exact" /\ got >= head.len + head.cl[1]
    \/ Framing = "close" /\ got >= head.len /\ closed
    \/ /\ Framing = "size"
       /\ \E k \in 1..Len(script) : script[k].kind = "blank" /\ got >= EndOf(script[k])

(* A request that succeeds announced its body's length once and handed     *)
(* over exactly the response's body: no byte of a cut, stalled, ambiguous  *)
(* or over-read response is lost or added, and none of those is a success. *)
(* One that fails has a cause: a local refusal, every address dead, a      *)
(* failed or timed-out call, a response cut short, or one that breaks the  *)
(* rules or a limit.  A complete answer is taken however it is cut into    *)
(* pieces, and a streamed one without waiting for the close.               *)
OutcomeIsExact ==
    /\ ToSet(body) = {p \in 1..at : IsBody(p)}
    /\ \A i \in 1..(Len(body) - 1) : body[i] < body[i + 1]
    /\ outcome = "ok" =>
          /\ head.status /\ ~Ambiguous /\ Complete
          /\ \A p \in 1..EndOfStream : IsBody(p) => p <= at
          /\ SendsBody => announced = <<req.body>>
          /\ Framing = "size" => \A k \in 1..Len(script) : script[k].start < at => Legal(script, k)
    /\ outcome = "error" => fault \/ (closed /\ ~Complete) \/ ~Acceptable

(* What a server can make the client hold is bounded: the head, the        *)
(* buffered response, and a chunked body's trailers taken together.  Every *)
(* variable is typed.                                                      *)
MemoryIsBounded ==
    /\ HttpTypeOK
    /\ phase = "head" => got <= MaxHead
    /\ phase = "parse" /\ req.streaming => got <= MaxHead + Piece
    /\ phase = "receive" => got <= MaxTotal
    /\ phase = "trailers" => \E l \in 1..Len(script) :
          script[l].kind = "last" /\ EndOf(script[l]) <= at /\ at - EndOf(script[l]) <= MaxMeta

(* Every request ends, with a server that stays silent for ever too.       *)
RequestsEnd == <>(outcome # "none")
=============================================================================
