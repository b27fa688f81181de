------------------------------- MODULE SrtLink -------------------------------
(***************************************************************************)
(* An SRT stream from a sender to a receiver over UDP, both as in          *)
(* src/srt/SrtTransport.cpp: SrtTransport keeps what it sent in a          *)
(* PacketSendQueue, answers loss reports with the packets it still has and *)
(* with drop requests for the others; SrtTransport on the other side puts  *)
(* packets in order (SrtRecvQueue) and sends ACK and NAK, which it does    *)
(* only when something comes in: it has no timer for them.                 *)
(*                                                                         *)
(* The network loses, reorders and repeats data, and loses and reorders    *)
(* reports.  The handshake is over.  Packets are named by index, and the   *)
(* cache of sent packets, consecutive ones always, by its oldest.          *)
(***************************************************************************)
EXTENDS SrtRecvQueue

CONSTANTS
    SendLateDrop,   \* PacketSendQueue::TLPKTDrop()
    MaxLosses,      \* bound: how many messages the network loses
    MaxReports      \* bound: reports of a kind under way at a time

ASSUME LinkAssumption ==
    /\ SendLateDrop \in BOOLEAN
    /\ MaxLosses \in Nat /\ MaxReports \in Nat

VARIABLES
    oldest,         \* the first packet of _pkt_cache, sent when it is empty
    acked,          \* history: packets before this one left it for an ACK
    lastAck,        \* _last_ack_pkt_seq of the receiver
    data,           \* data packets under way
    requests,       \* drop requests under way, <<first, last>>
    acks,           \* ACKs under way: the number they name
    naks,           \* NAKs under way: their lists, as sets of <<first, second>>
    losses          \* messages lost so far

senderVars == <<oldest, acked, sent>>
networkVars == <<data, requests, acks, naks, losses>>
linkVars == <<recvVars, oldest, acked, lastAck, networkVars>>

Packets == First .. MaxSent
Cached == oldest .. sent - 1

LinkTypeOK ==
    /\ RecvTypeOK
    /\ oldest \in First .. sent
    /\ acked \in First .. oldest
    /\ lastAck \in 0 .. MaxSeq
    /\ data \subseteq Packets
    /\ requests \subseteq Packets \X Packets
    /\ acks \subseteq 0 .. MaxSeq
    /\ \A list \in naks : list \subseteq (0 .. MaxSeq + 1) \X (0 .. MaxSeq)
    /\ losses \in 0 .. MaxLosses

LinkInit ==
    /\ RecvInit
    /\ oldest = First
    /\ acked = First
    /\ lastAck = SeqOf(First)
    /\ data = {}
    /\ requests = {}
    /\ acks = {}
    /\ naks = {}
    /\ losses = 0

-----------------------------------------------------------------------------
(* The sender. *)

\* Where the cache may begin once packet p was put at its end: no more than
\* _pkt_cap packets, and, if late packets are dropped, any part of what came
\* before p, as the time stamps have it.
Trimmed(p) ==
    LET low == IF p - oldest >= Cap THEN p - Cap + 1 ELSE oldest
    IN  IF SendLateDrop THEN low .. p ELSE {low}

\* onSendTSData -> sendDataPacket: to the network first, then to the cache.
SendData ==
    /\ sent < MaxSent
    /\ sent' = sent + 1
    /\ data' = data \cup {sent}
    /\ oldest' \in Trimmed(sent)
    /\ UNCHANGED <<queueVars, acked, lastAck, requests, acks, naks, losses>>

\* Mutant of Acknowledged: the packet the ACK names goes, too.
AcknowledgedThrough(seq) ==
    LET hit == {p \in Cached : SeqOf(p) = seq}
    IN  IF hit = {} THEN oldest ELSE Min(hit) + 1

\* PacketSendQueue::drop: everything before the packet with that number, if
\* it is there; nothing otherwise, so also when all were received.
Acknowledged(seq) ==
    LET hit == {p \in Cached : SeqOf(p) = seq}
    IN  IF hit = {} THEN oldest ELSE Min(hit)

\* handleACK (the ACKACK it sends is for the receiver's round-trip estimate).
HandleACK(seq) ==
    /\ seq \in acks
    /\ acks' = acks \ {seq}
    /\ oldest' = Acknowledged(seq)
    /\ acked' = IF Acknowledged(seq) > oldest THEN oldest' ELSE acked
    /\ UNCHANGED <<recvVars, lastAck, data, requests, naks, losses>>

\* findPacketBySeq: from the packet numbered first to the one numbered last,
\* or to the end of the cache; nothing if the first is not there.
FindPackets(first, last) ==
    {p \in Cached : \E b \in Cached :
        /\ SeqOf(b) = first /\ b <= p
        /\ \A e \in b .. p - 1 : SeqOf(e) # last}

\* Mutant of Refused: what was not there is passed over in silence.
RefusedNone(list) == {}

\* The ranges of a report whose first packet the cache has no more.
Refused(list) == {range \in list : FindPackets(range[1], range[2] - 1) = {}}

\* handleNAK: send again what is there; a range whose first packet is gone is
\* given up as a whole.
HandleNAK(list) ==
    /\ list \in naks
    /\ naks' = naks \ {list}
    /\ data' = data \cup UNION {FindPackets(r[1], r[2] - 1) : r \in list}
    /\ requests' = requests \cup {<<r[1], r[2] - 1>> : r \in Refused(list)}
    /\ UNCHANGED <<recvVars, oldest, acked, lastAck, acks, losses>>

-----------------------------------------------------------------------------
(* The receiver. *)

\* getLostSeq: the runs of empty slots that a filled one follows.  The loop
\* ends before it begins when the ring is full (_start = _end).
LostSeq ==
    LET range == {d \in Slots : d < (end - start + Cap) % Cap}
        missing(d) == buf[(start + d) % Cap] = Empty
        first == {d \in range : missing(d) /\ (d = 0 \/ ~missing(d - 1))}
        last == {d \in range : missing(d) /\ d + 1 \in range /\ ~missing(d + 1)}
        gaps == {g \in first \X last : g[1] <= g[2] /\ \A m \in g[1] .. g[2] : missing(m)}
    IN  IF size <= 0 \/ ExpectedSize = size THEN {}
        ELSE {<<expected + g[1], (expected + g[2] + 1) % (MaxSeq + 1)>> : g \in gaps}

\* checkAndSendAckNak: each of the two tickers may have run out or not.  An
\* ACK is sent only when the expected number has changed since the last.
ReportBack(nakDue, ackDue) ==
    /\ naks' = IF nakDue THEN naks \cup ({LostSeq'} \ {{}}) ELSE naks
    /\ acks' = IF ackDue /\ lastAck # expected' THEN acks \cup {expected'} ELSE acks
    /\ lastAck' = IF ackDue THEN expected' ELSE lastAck

RoomFor(nakDue, ackDue) ==
    /\ nakDue => Cardinality(naks) < MaxReports
    /\ ackDue => Cardinality(acks) < MaxReports

\* inputSockData with data; the network may deliver the packet again.
ReceiveData(p, again, nakDue, ackDue) ==
    /\ p \in data
    /\ RoomFor(nakDue, ackDue)
    /\ data' = IF again THEN data ELSE data \ {p}
    /\ InputPacket(p)
    /\ ReportBack(nakDue, ackDue)
    /\ UNCHANGED <<sent, oldest, acked, requests, losses>>

\* handleDropReq.
HandleDropReq(range, nakDue, ackDue) ==
    /\ range \in requests
    /\ RoomFor(nakDue, ackDue)
    /\ requests' = requests \ {range}
    /\ \/ Drop(range[2])
       \/ /\ ~Droppable(range[2])
          /\ given' = {}
          /\ UNCHANGED <<expected, start, end, size, buf, passed>>
    /\ ReportBack(nakDue, ackDue)
    /\ UNCHANGED <<sent, oldest, acked, data, losses>>

\* A keepalive of the peer, or any other control packet: reports are due.
HandleKeepalive(nakDue, ackDue) ==
    /\ RoomFor(nakDue, ackDue)
    /\ given' = {}
    /\ UNCHANGED <<expected, start, end, size, buf, passed>>
    /\ ReportBack(nakDue, ackDue)
    /\ UNCHANGED <<sent, oldest, acked, data, requests, losses>>
-----------------------------------------------------------------------------
(* The network loses a message. *)
Lose ==
    /\ losses < MaxLosses
    /\ losses' = losses + 1
    /\ \/ \E p \in data : data' = data \ {p} /\ UNCHANGED <<requests, acks, naks>>
       \/ \E r \in requests : requests' = requests \ {r} /\ UNCHANGED <<data, acks, naks>>
       \/ \E a \in acks : acks' = acks \ {a} /\ UNCHANGED <<data, requests, naks>>
       \/ \E n \in naks : naks' = naks \ {n} /\ UNCHANGED <<data, requests, acks>>
    /\ UNCHANGED <<recvVars, oldest, acked, lastAck>>

LinkNext ==
    \/ SendData
    \/ \E seq \in acks : HandleACK(seq)
    \/ \E list \in naks : HandleNAK(list)
    \/ \E nakDue, ackDue \in BOOLEAN :
          \/ \E p \in data, again \in BOOLEAN : ReceiveData(p, again, nakDue, ackDue)
          \/ \E range \in requests : HandleDropReq(range, nakDue, ackDue)
          \/ HandleKeepalive(nakDue, ackDue)
    \/ Lose

\* Nothing stays under way for ever: it arrives, or is one of the few that get
\* lost.  The peer's keepalives go on, and the NAK ticker runs out between them.
\* New data is not assumed.
LinkFairness ==
    /\ \A p \in Packets : []<>(p \notin data)
    /\ []<>(requests = {}) /\ []<>(acks = {}) /\ []<>(naks = {})
    /\ WF_linkVars(\E ackDue \in BOOLEAN : HandleKeepalive(TRUE, ackDue))

LinkSpec == LinkInit /\ [][LinkNext]_linkVars /\ LinkFairness

-----------------------------------------------------------------------------
\* What left the send queue because of an ACK was handed on or given up by the
\* receiver, however late the ACK arrives and whatever came after it: the
\* sender never drops a packet that can still be asked for.
AckedIsPassed == acked <= First + passed

\* A missing packet that the ring waits for is passed in the end: sent again,
\* or given up by a drop request, although data, reports, drop requests and
\* their answers get lost on the way.  A full ring reports nothing and waits
\* for new data.
GapsClose ==
    \A p \in Packets :
        (p = First + passed /\ buf[start] = Empty /\ size > 0 /\ start # end)
            ~> (p < First + passed \/ start = end)
=============================================================================
