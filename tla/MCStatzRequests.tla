-------------------------- MODULE MCStatzRequests ---------------------------
(* An instance of StatzRequests for TLC. *)
EXTENDS StatzRequests

CONSTANTS s1, s2

Consumers(name, leader) == [name |-> name, leader |-> leader, origin |-> NoServer]

Streams(name, leader, consumers) ==
    [name |-> name, leader |-> leader, origin |-> NoServer, consumers |-> consumers]

\* No stream; x alone or with a consumer, led by itself or elsewhere, or by nobody;
\* x and y in either order.
SomeDetails ==
    {<<>>,
     <<Streams("x", s1, <<Consumers("c", s2)>>)>>,
     <<Streams("x", s2, <<Consumers("d", s1)>>)>>,
     <<Streams("y", NoServer, <<>>), Streams("x", s1, <<Consumers("d", s1), Consumers("c", s1)>>)>>}

Expectations == {-1, 2}
=============================================================================
