-------------------------- MODULE NetConnection --------------------------
(* CNetConnection (network_conn.cpp) at both ends of an established          *)
(* connection, the unpacking of its chunks (CNetRecvUnpacker::FetchChunk in  *)
(* network.cpp) and the network between the ends, which loses, duplicates    *)
(* and reorders packets.  A client whose connection timed out can come back  *)
(* in another slot and move its new connection into the old slot             *)
(* (CNetServer::SetTimedOut).                                                *)
(*                                                                           *)
(* Only vital chunks are modelled: the others take no part in the sequence.  *)
(* A chunk is its sequence number and a ghost, the number of the message it  *)
(* carries; Foreign stands for any content that is not of this connection.   *)
EXTENDS Integers, Sequences, FiniteSets

CONSTANTS MaxSequence,   \* NET_MAX_SEQUENCE
          PacketSize,    \* how many chunks fit in m_aChunkData
          BufferSize,    \* how many chunks fit in m_Buffer
          Window,        \* bound: chunks an end sends beyond m_PeerAck
          MaxSent,       \* bound: messages each end sends in a connection
          MaxPackets,    \* bound: packets on their way to each end
          MaxReconnects, \* bound: how often the client comes back
          MaxReuses      \* bound: how often a freed slot gets a new client

End == {"client", "server"}
Peer(e) == IF e = "client" THEN "server" ELSE "client"
Half == MaxSequence \div 2
Foreign == 0

ASSUME ConnectionAssumption ==
    /\ MaxSequence \in Nat \ {0} /\ PacketSize \in Nat \ {0}
    /\ BufferSize \in Nat /\ Window \in Nat
    /\ MaxSent \in [End -> Nat]
    /\ MaxPackets \in [End -> Nat] /\ MaxReconnects \in Nat /\ MaxReuses \in Nat

VARIABLES state,       \* m_State, "online" or "error"
          sequence,    \* m_Sequence, of the last chunk queued
          ack,         \* m_Ack, of the last chunk received
          peerAck,     \* m_PeerAck, the last valid m_Ack of the peer
          buffer,      \* m_Buffer, the chunks kept to be sent again
          construct,   \* m_Construct, the packet under construction
          inbox,       \* chunks the m_RecvUnpacker has still to unpack
          net,         \* the packets on their way
          sent, got,   \* ghosts: messages handed over, messages received
          parked,      \* the timed out slot of a client that came back
          freed,       \* whether the slot the client came back in is free
          borrowed,    \* messages of m_Buffer stored in the freed slot
          reconnects, reuses

endVars == <<state, sequence, ack, peerAck, buffer, construct, inbox>>
slotVars == <<parked, freed, borrowed, reconnects, reuses>>
vars == <<endVars, net, sent, got, slotVars>>

Chunk == [seq: 0..MaxSequence - 1, id: Nat]
Construct == [chunks: Seq(Chunk), resend: BOOLEAN]
Packet == [to: End, ack: 0..MaxSequence - 1, chunks: Seq(Chunk), resend: BOOLEAN, after: Nat]
Nothing == [chunks |-> <<>>, resend |-> FALSE]

Each(value) == [e \in End |-> value]

\* Both ends have just come online.
Init == /\ state = Each("online")
        /\ sequence = Each(0) /\ ack = Each(0) /\ peerAck = Each(0)
        /\ buffer = Each(<<>>) /\ construct = Each(Nothing) /\ inbox = Each(<<>>)
        /\ net = {}
        /\ sent = Each(0) /\ got = Each(<<>>)
        /\ parked = {} /\ freed = FALSE /\ borrowed = {}
        /\ reconnects = 0 /\ reuses = 0

--------------------------------------------------------------------------
(* Sequence numbers. *)

NextSeq(seq) == (seq + 1) % MaxSequence

\* Whether seq is one of the numbers up to ack, half the circle back.
IsSeqInBackroom(seq, a) ==
    LET bottom == a - Half
    IN  IF bottom < 0 THEN seq <= a \/ seq >= bottom + MaxSequence
                      ELSE bottom <= seq /\ seq <= a

\* Feed's check of the ack of a packet, from m_PeerAck round to m_Sequence.
AckValidStrict(e, a) ==
    IF sequence[e] >= peerAck[e] THEN peerAck[e] <= a /\ a < sequence[e]
                                 ELSE peerAck[e] <= a \/ a < sequence[e]
AckValid(e, a) ==
    IF sequence[e] >= peerAck[e] THEN peerAck[e] <= a /\ a <= sequence[e]
                                 ELSE peerAck[e] <= a \/ a <= sequence[e]

\* AckChunks drops chunks from the front of m_Buffer up to the first one that is
\* not acknowledged by a.
Acked(b, a) == {i \in 1..Len(b): \A k \in 1..i: IsSeqInBackroom(b[k].seq, a)}
AfterAckAll(b, a) == IF Acked(b, a) = {} THEN b ELSE <<>>
AfterAckOneMore(b, a) == SubSeq(b, Cardinality(Acked(b, NextSeq(a))) + 1, Len(b))
AfterAck(b, a) == SubSeq(b, Cardinality(Acked(b, a)) + 1, Len(b))

--------------------------------------------------------------------------
(* The network takes some of the packets sent and loses the others; it loses *)
(* them all while MaxPackets[e] packets are on their way to e.               *)

Fits(packets) == \A e \in End: Cardinality({p \in packets: p.to = e}) <= MaxPackets[e]

\* No packet is so late that half of the sequence numbers were used since.
Fresh(p) ==
    /\ Len(got[Peer(p.to)]) - p.after <= Half
    /\ \A i \in 1..Len(p.chunks): Len(got[p.to]) - p.chunks[i].id <= Half

Transmit(packets, onTheirWay) ==
    \E taken \in SUBSET packets:
        /\ net' = {p \in onTheirWay: Fresh(p)} \cup taken
        /\ Fits(net')

PacketOf(e, c) == [to |-> Peer(e), ack |-> ack[e], chunks |-> c.chunks, resend |-> c.resend,
                   after |-> Len(got[e])]

--------------------------------------------------------------------------
(* QueueChunkEx for each of the chunks in more: a chunk that does not fit is *)
(* put in the next packet, after the Flush of the one under construction.    *)

Queued(e, more) == construct[e].chunks \o more
FullPackets(e, more) == IF more = <<>> THEN 0 ELSE (Len(Queued(e, more)) - 1) \div PacketSize
Slice(s, j) == SubSeq(s, ((j - 1) * PacketSize) + 1, j * PacketSize)

Flushed(e, more) == {PacketOf(e, [chunks |-> Slice(Queued(e, more), j),
                                  resend |-> construct[e].resend /\ j = 1]):
                        j \in 1..FullPackets(e, more)}
Remaining(e, more) ==
    LET n == FullPackets(e, more)
    IN  [chunks |-> SubSeq(Queued(e, more), (n * PacketSize) + 1, Len(Queued(e, more))),
         resend |-> construct[e].resend /\ n = 0]

\* Flush does nothing for a packet without chunks and flags.
Flush(e, c) == IF c = Nothing THEN {} ELSE {PacketOf(e, c)}

\* Queues the chunks, and flushes if asked to.
Queue(e, more, flush, onTheirWay) ==
    LET rest == Remaining(e, more)
    IN  /\ construct' = [construct EXCEPT ![e] = IF flush THEN Nothing ELSE rest]
        /\ Transmit(Flushed(e, more) \cup (IF flush THEN Flush(e, rest) ELSE {}), onTheirWay)

--------------------------------------------------------------------------
(* CNetClient::Send and CNetServer::Send of a vital chunk.  Without room in  *)
(* m_Buffer the chunk is sent, not kept, and the server does not flush.      *)

Send(e) ==
    LET chunk == [seq |-> NextSeq(sequence[e]), id |-> sent[e] + 1]
        kept == Len(buffer[e]) < BufferSize
    IN  /\ state[e] = "online"
        /\ sent[e] < MaxSent[e]
        /\ (sequence[e] - peerAck[e]) % MaxSequence < Window
        /\ sequence' = [sequence EXCEPT ![e] = chunk.seq]
        /\ sent' = [sent EXCEPT ![e] = @ + 1]
        /\ buffer' = [buffer EXCEPT ![e] = IF kept THEN Append(@, chunk) ELSE @]
        /\ \E flush \in {FALSE, kept \/ e = "client"}: Queue(e, <<chunk>>, flush, net)
        /\ UNCHANGED <<state, ack, peerAck, inbox, got, slotVars>>

\* QueueChunk counts a chunk that QueueChunkEx then refuses.
SendRefused(e) ==
    /\ state[e] = "error"
    /\ sequence' = [sequence EXCEPT ![e] = NextSeq(@)]
    /\ UNCHANGED <<state, ack, peerAck, buffer, construct, inbox, net, sent, got, slotVars>>

--------------------------------------------------------------------------
(* CNetConnection::Update, in its outcomes: the connection is given up,      *)
(* because nothing came in or the oldest chunk was not acknowledged, or the  *)
(* oldest chunk is sent again when it is due, the packet is flushed after    *)
(* half a second and a keepalive sent after a second without packets.        *)

UpdateWith(e, due, flush, keepalive) ==
    LET more == IF due THEN SubSeq(buffer[e], 1, 1) ELSE <<>>
    IN  /\ state[e] = "online" /\ inbox[e] = <<>>
        /\ due => buffer[e] # <<>>
        /\ flush => FullPackets(e, more) = 0
        /\ IF keepalive
           THEN /\ flush /\ Remaining(e, more) = Nothing
                /\ Transmit({PacketOf(e, Nothing)}, net)
                /\ UNCHANGED construct
           ELSE Queue(e, more, flush, net)
        /\ UNCHANGED <<state, sequence, ack, peerAck, buffer, inbox, sent, got, slotVars>>

Update(e) == \E due, flush, keepalive \in BOOLEAN: UpdateWith(e, due, flush, keepalive)

TimeOut(e) ==
    /\ state[e] = "online" /\ inbox[e] = <<>>
    /\ reconnects < MaxReconnects /\ parked = {}
    /\ state' = [state EXCEPT ![e] = "error"]
    /\ UNCHANGED <<sequence, ack, peerAck, buffer, construct, inbox, net, sent, got, slotVars>>

--------------------------------------------------------------------------
(* Recv: a packet is fed to the connection once the chunks of the one before *)
(* it are unpacked; the network may deliver it again.                        *)

Arrives(e, p) ==
    /\ p.to = e /\ Fresh(p)
    /\ state[e] = "online" /\ inbox[e] = <<>>

Feed(e, p) ==
    /\ Arrives(e, p)
    /\ AckValid(e, p.ack)
    /\ peerAck' = [peerAck EXCEPT ![e] = p.ack]
    /\ \E again \in BOOLEAN:
          Queue(e, IF p.resend THEN buffer[e] ELSE <<>>, FALSE, IF again THEN net ELSE net \ {p})
    /\ buffer' = [buffer EXCEPT ![e] = AfterAck(@, p.ack)]
    /\ inbox' = [inbox EXCEPT ![e] = p.chunks]
    /\ UNCHANGED <<state, sequence, ack, sent, got, slotVars>>

FeedRefused(e, p) ==
    /\ Arrives(e, p)
    /\ ~AckValid(e, p.ack)
    /\ net' = net \ {p}
    /\ UNCHANGED <<endVars, sent, got, slotVars>>

\* FetchChunk with the next chunk of the packet.
InSequenceNewer(e, chunk) == ~IsSeqInBackroom(chunk.seq, ack[e])
InSequenceRepeated(e, chunk) == chunk.seq \in {ack[e], NextSeq(ack[e])}
InSequence(e, chunk) == chunk.seq = NextSeq(ack[e])

FetchChunk(e) ==
    /\ inbox[e] # <<>>
    /\ InSequence(e, Head(inbox[e]))
    /\ ack' = [ack EXCEPT ![e] = Head(inbox[e]).seq]
    /\ got' = [got EXCEPT ![e] = Append(@, Head(inbox[e]).id)]
    /\ inbox' = [inbox EXCEPT ![e] = Tail(@)]
    /\ UNCHANGED <<state, sequence, peerAck, buffer, construct, net, sent, slotVars>>

\* A chunk out of sequence is skipped; if it is not an old one a resend is asked for.
SkipChunk(e) ==
    /\ inbox[e] # <<>>
    /\ ~InSequence(e, Head(inbox[e]))
    /\ construct' = [construct EXCEPT ![e].resend =
                        @ \/ ~IsSeqInBackroom(Head(inbox[e]).seq, ack[e])]
    /\ inbox' = [inbox EXCEPT ![e] = Tail(@)]
    /\ UNCHANGED <<state, sequence, ack, peerAck, buffer, net, sent, got, slotVars>>

--------------------------------------------------------------------------
(* Timeout protection.  The slot that timed out stays, with its m_PeerAck    *)
(* and m_Construct, while the client comes back in another slot; with the    *)
(* timeout code the new connection is moved into the old slot.               *)

Disown(c) == [c EXCEPT !.chunks = [i \in 1..Len(@) |-> [@[i] EXCEPT !.id = Foreign]]]

Reconnect ==
    /\ state["server"] = "error"
    /\ reconnects' = reconnects + 1
    /\ parked' = {[peerAck |-> peerAck["server"], construct |-> Disown(construct["server"])]}
    /\ state' = Each("online")
    /\ sequence' = Each(0) /\ ack' = Each(0) /\ peerAck' = Each(0)
    /\ buffer' = Each(<<>>) /\ construct' = Each(Nothing) /\ inbox' = Each(<<>>)
    /\ net' = {}
    /\ sent' = Each(0) /\ got' = Each(<<>>)
    /\ freed' = FALSE /\ borrowed' = {}
    /\ UNCHANGED reuses

\* m_pData of the moved chunks still points into the slot that is freed.
TakeOver ==
    /\ state["server"] = "online"
    /\ \E old \in parked:
          /\ peerAck' = [peerAck EXCEPT !["server"] = old.peerAck]
          /\ construct' = [construct EXCEPT !["server"] = old.construct]
    /\ parked' = {}
    /\ inbox' = [inbox EXCEPT !["server"] = <<>>]
    /\ freed' = TRUE
    /\ borrowed' = {buffer["server"][i].id: i \in 1..Len(buffer["server"])}
    /\ UNCHANGED <<state, sequence, ack, buffer, net, sent, got, reconnects, reuses>>

\* The freed slot gets a new client, whose chunks are stored over the old ones.
ReuseSlot ==
    /\ reuses < MaxReuses
    /\ freed
    /\ reuses' = reuses + 1
    /\ buffer' = [buffer EXCEPT !["server"] =
          [i \in 1..Len(@) |-> IF @[i].id \in borrowed THEN [@[i] EXCEPT !.id = Foreign] ELSE @[i]]]
    /\ freed' = FALSE /\ borrowed' = {}
    /\ UNCHANGED <<state, sequence, ack, peerAck, construct, inbox, net, sent, got, parked, reconnects>>

--------------------------------------------------------------------------
Next == \/ \E e \in End: \/ Send(e) \/ SendRefused(e)
                         \/ Update(e) \/ TimeOut(e)
                         \/ FetchChunk(e) \/ SkipChunk(e)
                         \/ \E p \in net: Feed(e, p) \/ FeedRefused(e, p)
        \/ Reconnect \/ TakeOver \/ ReuseSlot

Spec == Init /\ [][Next]_vars

\* The timers of Update go off again and again: the oldest chunk that is not
\* acknowledged is queued again, and what is queued is flushed, or a keepalive
\* sent.  A chunk, or an ack, that is sent again and again is taken by the network
\* at some time, and what is on its way again and again arrives.
Has(p, n) == \E i \in 1..Len(p.chunks): p.chunks[i].id = n
ResendDue(e) == \E flush \in BOOLEAN: UpdateWith(e, TRUE, flush, FALSE)
ChunkLeaves(e, n) == /\ \E due, flush \in BOOLEAN: UpdateWith(e, due, flush, FALSE)
                     /\ \E p \in net': p.to = Peer(e) /\ Has(p, n)
AckLeaves(e) == /\ \E keepalive \in BOOLEAN: UpdateWith(e, FALSE, TRUE, keepalive)
                /\ PacketOf(e, construct[e]) \in net'
ChunkArrives(e, n) == \E p \in net: Has(p, n) /\ Feed(e, p)
AckArrives(e) == \E p \in net: p.ack = ack[Peer(e)] /\ Feed(e, p)

FairSpec ==
    /\ Spec
    /\ \A e \in End: /\ SF_vars(ResendDue(e))
                     /\ \A n \in 1..MaxSent[e]: SF_vars(ChunkLeaves(e, n)) /\ SF_vars(ChunkArrives(Peer(e), n))
                     /\ SF_vars(AckLeaves(e)) /\ SF_vars(AckArrives(e))
                     /\ WF_vars(FetchChunk(e) \/ SkipChunk(e))

--------------------------------------------------------------------------
\* Types of the variables.
TypeOK ==
    /\ state \in [End -> {"online", "error"}]
    /\ sequence \in [End -> 0..MaxSequence - 1]
    /\ ack \in [End -> 0..MaxSequence - 1]
    /\ peerAck \in [End -> 0..MaxSequence - 1]
    /\ buffer \in [End -> Seq(Chunk)]
    /\ construct \in [End -> Construct]
    /\ inbox \in [End -> Seq(Chunk)]
    /\ net \subseteq Packet
    /\ sent \in [End -> Nat]
    /\ got \in [End -> Seq(Nat)]
    /\ parked \subseteq [peerAck: 0..MaxSequence - 1, construct: Construct]
    /\ freed \in BOOLEAN /\ borrowed \subseteq Nat
    /\ reconnects \in 0..MaxReconnects /\ reuses \in 0..MaxReuses

Channel == INSTANCE ReliableChannel

\* Whatever the network loses, repeats or reorders, the messages of an end are
\* received once and in order (FetchChunk, Feed, QueueChunkEx).
ImplementsChannel == Channel!Spec

\* AckChunks gives a chunk up only when the peer has it: the chunk an end waits
\* for is still in the m_Buffer of the other, as long as that never was full.
AwaitedChunkIsKept ==
    \A e \in End: Len(got[e]) < sent[Peer(e)] =>
        \E i \in 1..Len(buffer[Peer(e)]): buffer[Peer(e)][i].id = Len(got[e]) + 1

\* What e has received are the first messages of the connection, in order.
InOrderAt(e) == \A i \in 1..Len(got[e]): got[e][i] = i

\* While an end is online Feed's check (network_conn.cpp:329) never refuses the ack
\* of a peer which has received nothing but the chunks of this connection: otherwise its
\* packets, with their resend requests, are dropped.
CurrentAckIsValid ==
    \A e \in End: state[e] = "online" /\ InOrderAt(Peer(e)) => AckValid(e, ack[Peer(e)])

\* A connection moved by SetTimedOut sends the chunks it kept as they were
\* (network_conn.cpp:584, copy resend buffer).  No run checks this, since the
\* code does not keep it, see the README.
ResendBufferIntact ==
    \A e \in End: \A i \in 1..Len(buffer[e]): buffer[e][i].id # Foreign

\* What FetchChunk takes as in sequence is the next message of the connection
\* (network.cpp:77), also after SetTimedOut.  Nor is this kept.
InOrder == \A e \in End: InOrderAt(e)

\* Every message handed over is received at last, when the timers of Update run
\* and the network does not lose a chunk for ever.
EveryMessageArrives ==
    \A e \in End: \A n \in 1..MaxSent[Peer(e)]: sent[Peer(e)] >= n ~> Len(got[e]) >= n

==========================================================================
