--------------------------- MODULE MCWsTransport ---------------------------
(* Small instances of WsTransport.                                         *)
EXTENDS WsTransport
=============================================================================
