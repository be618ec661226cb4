--------------------------- MODULE MCHttpExchange ---------------------------
(* HttpExchange for TLC, with responses on both sides of every limit.      *)
EXTENDS HttpExchange

Get(streaming, url) == [streaming |-> streaming, heap |-> TRUE, url |-> url, legal |-> TRUE,
                        own |-> -1, body |-> -1, addrs |-> 2]

ClientRequests ==
    {[Get(FALSE, "tls") EXCEPT !.own = 2, !.body = 1],
     [Get(TRUE, "tcp") EXCEPT !.heap = FALSE, !.own = 0, !.body = 1],
     [Get(FALSE, "tls") EXCEPT !.heap = FALSE], [Get(TRUE, "tcp") EXCEPT !.addrs = 0],
     Get(FALSE, "bad"), [Get(TRUE, "tls") EXCEPT !.legal = FALSE]}

Head200(len, te, cl) == [len |-> len, status |-> TRUE, te |-> te, cl |-> cl]

ServerHeads ==
    {Head200(2, <<>>, <<>>), Head200(3, <<>>, <<0>>), Head200(2, <<>>, <<3>>),
     Head200(3, <<"chunked">>, <<>>), Head200(4, <<>>, <<1>>), Head200(5, <<>>, <<>>),
     Head200(2, <<"chunked">>, <<2>>), Head200(2, <<"chunked", "chunked">>, <<>>),
     Head200(2, <<"other">>, <<>>), Head200(2, <<>>, <<1, 1>>), Head200(2, <<>>, <<-1>>),
     [Head200(2, <<>>, <<>>) EXCEPT !.status = FALSE]}

Item(kind, line, n) == [kind |-> kind, line |-> line, n |-> n, good |-> TRUE]

ServerItems ==
    {Item("raw", 0, 2), Item("chunk", 3, 1), Item("chunk", 6, 2), Item("chunk", 7, 1),
     Item("last", 3, 0), Item("trailer", 4, 0), Item("trailer", 6, 0), Item("blank", 2, 0)}
    \cup {[Item("chunk", 3, 0) EXCEPT !.good = FALSE],
          [Item("chunk", 3, 1) EXCEPT !.good = FALSE],
          [Item("trailer", 3, 0) EXCEPT !.good = FALSE]}
=============================================================================
