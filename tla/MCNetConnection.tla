------------------------- MODULE MCNetConnection -------------------------
(* Small instances of NetConnection for TLC.                                 *)
EXTENDS NetConnection

\* Who talks: the client until its sequence numbers wrap, or the server a little.
MCOneWay == [client |-> 7, server |-> 0]
MCServerTalks == [client |-> 0, server |-> 2]

\* Packets on their way: two to the server, which can be reordered; or as many
\* as two messages from the server can lead to.
MCTwoToServer == [client |-> 1, server |-> 2]
MCThreeEach == [client |-> 3, server |-> 3]
==========================================================================
