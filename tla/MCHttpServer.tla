---------------------------- MODULE MCHttpServer ----------------------------
(* Two clients of the server of lab 02, and a directory of two files.      *)
EXTENDS HttpServer

MCFiles == [index |-> <<"a", "b", "c">>, note |-> <<"d">>]

Host == [name |-> "Host", value |-> [first |-> 0, last |-> 0]]
RangeOf(first, last) == [name |-> "Range", value |-> [first |-> first, last |-> last]]

MCRequests ==
    {[url |-> "index", headers |-> h] :
        h \in {<<Host>>, <<RangeOf(1, 2), Host>>, <<Host, RangeOf(1, Open)>>,
               <<RangeOf(0, 0), RangeOf(1, 1)>>,
               <<RangeOf(2, 4)>>, <<RangeOf(2, 0)>>, <<RangeOf(-1, Open)>>}}
    \cup {[url |-> "lost", headers |-> <<RangeOf(0, 0)>>]}
=============================================================================
