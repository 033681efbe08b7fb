------------------------------ MODULE MCWSHub -------------------------------
EXTENDS WSHub, TLC

\* A symbol and a name the server does not know.
MCRequests == {[named |-> TRUE, symbols |-> Symbols \cup {Blank}]}

\* A client that turns a type on, and one that turns a type and a symbol off.
MCActions == {[op |-> "subscribe", types |-> {"source_status"}, symbols |-> {}],
              [op |-> "unsubscribe", types |-> {"heartbeat"}, symbols |-> Symbols]}

Connections == Permutations(Clients)
=============================================================================
