------------------------- MODULE ReliableChannel -------------------------
(* What CNetConnection promises for chunks with NET_CHUNKFLAG_VITAL: each end *)
(* hands its chunks over one by one, and the other end gets each of them     *)
(* once, in the order in which they were handed over.                        *)
EXTENDS Naturals, Sequences

CONSTANT End          \* the two ends of the connection

VARIABLES sent,       \* how many chunks each end has handed over
          got         \* the chunks each end has received, by their number

vars == <<sent, got>>

Init == /\ sent = [e \in End |-> 0]
        /\ got = [e \in End |-> <<>>]

Send(e) == /\ sent' = [sent EXCEPT ![e] = @ + 1]
           /\ UNCHANGED got

\* Only the chunk that follows the last one received can be received.
Receive(e) == /\ \E peer \in End \ {e}: Len(got[e]) < sent[peer]
              /\ got' = [got EXCEPT ![e] = Append(@, Len(@) + 1)]
              /\ UNCHANGED sent

\* A new connection starts with nothing sent and nothing received.
Restart == /\ sent' = [e \in End |-> 0]
           /\ got' = [e \in End |-> <<>>]

Next == \/ \E e \in End: Send(e) \/ Receive(e)
        \/ Restart

Spec == Init /\ [][Next]_vars
==========================================================================
