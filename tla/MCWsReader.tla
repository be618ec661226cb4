----------------------------- MODULE MCWsReader -----------------------------
(* WsReader for TLC, with frames on both sides of every limit.             *)
EXTENDS WsReader

Whole(op, enc, len)   == [op |-> op, fin |-> TRUE, enc |-> enc, len |-> len, odd |-> FALSE]
Fragment(op, enc, len) == [Whole(op, enc, len) EXCEPT !.fin = FALSE]

ServerFrames ==
    {Whole("binary", 2, 0), Whole("binary", 4, 2), Whole("binary", 10, 3), Whole("text", 2, 1)}
    \cup {Fragment("binary", 2, 2), Fragment("text", 2, 0), Fragment("binary", 2, 3)}
    \cup {Fragment("continuation", 2, 1), Whole("continuation", 4, 1),
          Whole("continuation", 2, 2), Fragment("continuation", 2, 0)}
    \cup {Whole("ping", 2, 1), Whole("ping", 4, 2), Fragment("pong", 2, 0),
          Whole("close", 2, 0), Whole("close", 2, 1)}
    \cup {Whole("reserved", 2, 0), [Whole("binary", 4, 0) EXCEPT !.odd = TRUE]}

(* Answers on both sides of the size limit, with a header that is not the  *)
(* last of its name, and with one missing.                                 *)
Answer(size, code, headers) == [size |-> size, status |-> code, headers |-> headers]
Header(name, fits) == [name |-> name, fits |-> fits]
Proper == <<Header("upgrade", TRUE), Header("connection", TRUE), Header("sec-websocket-accept", TRUE)>>
ServerResponses ==
    {Answer(3, "101", Proper), Answer(6, "101", Proper), Answer(3, "other", Proper),
     Answer(4, "101", <<Header("upgrade", FALSE)>> \o Proper),
     Answer(4, "101", Append(Proper, Header("sec-websocket-accept", FALSE))),
     Answer(2, "101", Tail(Proper))}
=============================================================================
