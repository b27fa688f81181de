---------------------------- MODULE SrtRecvQueue ----------------------------
(***************************************************************************)
(* PacketRecvQueue (src/srt/PacketQueue.cpp): the ring in which an SRT     *)
(* receiver puts packets back in order.  Slot _start belongs to the        *)
(* expected sequence number, and each slot after it to the next number.    *)
(* Packets are named by the index at which the peer sent them; index p     *)
(* carries the sequence number p % (MaxSeq + 1).  The queue's callers, the *)
(* handlers of data and drop requests, are in SrtLink.                     *)
(***************************************************************************)
EXTENDS Integers, FiniteSets, FiniteSetsExt

CONSTANTS
    MaxSeq,         \* MAX_SEQ, 2^31 - 1 in the code
    Cap,            \* _pkt_cap
    TooLateDrop,    \* TLPKTDrop(): what the handshake's flags agreed on
    First,          \* index of the first packet: _init_seq_number
    MaxSent         \* bound: the peer stops at this index

ASSUME RecvAssumption ==
    /\ MaxSeq \in Nat /\ Cap \in Nat \ {0, 1} /\ 4 * Cap < MaxSeq
    /\ TooLateDrop \in BOOLEAN
    /\ First \in Nat /\ MaxSent \in Nat

VARIABLES
    expected,       \* _pkt_expected_seq
    start, end,     \* _start, _end
    size,           \* _size
    buf,            \* _pkt_buf
    given,          \* packets the step handed to the caller
    passed,         \* history: slots _start has moved over
    sent            \* the index the peer sends next

queueVars == <<expected, start, end, size, buf, given, passed>>
recvVars == <<queueVars, sent>>

Slots == 0 .. Cap - 1
Empty == -1
SeqOf(p) == p % (MaxSeq + 1)
Half == MaxSeq \div 2
Filled(b) == {i \in Slots : b[i] # Empty}

\* The ring's fields as one value, so that the code's steps can be composed.
Ring(e, s, n, c, b, g, k) ==
    [expected |-> e, start |-> s, end |-> n, size |-> c, buf |-> b,
     given |-> g, passed |-> k]
Now == Ring(expected, start, end, size, buf, {}, passed)
Become(q) ==
    /\ expected' = q.expected
    /\ start' = q.start
    /\ end' = q.end
    /\ size' = q.size
    /\ buf' = q.buf
    /\ given' = q.given
    /\ passed' = q.passed

RecvTypeOK ==
    /\ expected \in 0 .. MaxSeq
    /\ start \in Slots /\ end \in Slots
    /\ size \in 0 .. Cap
    /\ buf \in [Slots -> Nat \cup {Empty}]
    /\ given \subseteq Nat
    /\ passed \in Nat
    /\ sent \in Nat

RecvInit ==
    /\ expected = SeqOf(First)
    /\ start = 0
    /\ end = 0
    /\ size = 0
    /\ buf = [i \in Slots |-> Empty]
    /\ given = {}
    /\ passed = 0
    /\ sent = First

\* Mutant of Pass: what is handed out stays in the ring.
PassKeeping(q, k) ==
    [q EXCEPT !.expected = (@ + k) % (MaxSeq + 1), !.start = (@ + k) % Cap,
              !.passed = @ + k,
              !.given = @ \cup ({q.buf[i] : i \in Slots} \ {Empty})]

\* Move _start over k slots, handing out what is in them.
Pass(q, k) ==
    LET slots == {(q.start + d) % Cap : d \in 0 .. k - 1}
    IN  Ring((q.expected + k) % (MaxSeq + 1), (q.start + k) % Cap, q.end,
             q.size - Cardinality(slots \cap Filled(q.buf)),
             [i \in Slots |-> IF i \in slots THEN Empty ELSE q.buf[i]],
             q.given \cup {q.buf[i] : i \in slots \cap Filled(q.buf)},
             q.passed + k)

\* inputPacket, first loop: a ring whose range has come round to its start
\* gives up its oldest slot.
MakeRoom(q) == IF q.size > 0 /\ q.start = q.end THEN Pass(q, 1) ELSE q

\* insertToCycleBuf: a slot is filled once; _end moves past a new last slot.
Insert(q, p, diff) ==
    LET pos == (q.start + diff) % Cap
        beyond == IF q.start <= q.end THEN pos >= q.end \/ pos < q.start
                                      ELSE q.end <= pos /\ pos < q.start
    IN  IF q.buf[pos] # Empty THEN q
        ELSE [q EXCEPT !.size = @ + 1, !.buf[pos] = p,
                       !.end = IF beyond THEN (pos + 1) % Cap ELSE @]

\* tryInsertPkt: how far ahead of the expected number the packet is, as a
\* set that is empty when the packet is refused.  Over the wrap the code's
\* distance is one short (MAX_SEQ - diff).
Distance(q, p) ==
    LET seq == SeqOf(p)
        ahead == seq - q.expected
    IN  {d \in Slots : \/ ahead >= 0 /\ ahead < Half /\ d = ahead
                       \/ ahead < 0 /\ -ahead >= Half /\ d = MaxSeq + ahead}

TryInsert(q, p) ==
    IF Distance(q, p) = {} THEN q
    ELSE Insert(q, p, CHOOSE d \in Distance(q, p) : TRUE)

\* inputPacket, second loop: hand out what follows without a gap.
Ready(q) ==
    Max({k \in 0 .. Cap : \A d \in 0 .. k - 1 : q.buf[(q.start + d) % Cap] # Empty})
PopReady(q) == Pass(q, Ready(q))

\* How far _start may move before the ring is empty: past its last packet.
Span(q) ==
    IF q.size <= 0 THEN 0
    ELSE 1 + Max({d \in Slots : q.buf[(q.start + d) % Cap] # Empty})

\* inputPacket, third loop: while timeLatency() exceeds the latency, pass one
\* more slot.  timeLatency() uses getFirst(), which runs off its end without
\* a return whenever the ring holds a packet, so the value compared is
\* undefined: the loop may stop after any slot, and stops when it is empty.
DropLate(q) == IF TooLateDrop THEN {Pass(q, k) : k \in 0 .. Span(q)} ELSE {q}

InputPacket(p) ==
    \E q \in DropLate(PopReady(TryInsert(MakeRoom(Now), p))) : Become(q)

\* getLast(): the slot before _end.
Last == buf[(end + Cap - 1) % Cap]

\* getExpectedSize(): from the expected number to the last packet.  Over the
\* wrap it is one short.
ExpectedSize ==
    LET last == SeqOf(Last)
    IN  IF size <= 0 THEN 0
        ELSE IF last >= expected
             THEN IF last - expected >= Half
                  THEN MaxSeq - expected + expected + 1
                  ELSE last - expected + 1
             ELSE IF expected - last >= Half
                  THEN MaxSeq - expected + last + 1
                  ELSE 1

\* isSeqCycle(_pkt_expected_seq, last).
Cycle(last) == last - expected > Half \/ expected - last > Half

\* drop(): how many slots lead up to last.  Over the wrap it is one short.
DropCount(last) ==
    IF Cycle(last) THEN MaxSeq - expected + last + 1 ELSE last - expected + 1

\* drop() returns early when last is behind, or beyond the ring's packets.
Droppable(last) ==
    /\ last >= expected <=> ~Cycle(last)
    /\ DropCount(last) <= ExpectedSize

Drop(last) ==
    /\ Droppable(last)
    /\ LET q == [Pass(Now, DropCount(last)) EXCEPT
                    !.expected = (last + 1) % (MaxSeq + 1)]
       IN  Become([q EXCEPT !.end = IF q.size <= 0 THEN q.start ELSE @])

-----------------------------------------------------------------------------
\* The ring is an in-order buffer: nothing goes out twice or out of order,
\* nothing that is held is passed over.
Buffer == INSTANCE InOrderBuffer WITH
    Base <- First, base <- First + passed, held <- {buf[i] : i \in Filled(buf)}
ImplementsBuffer == Buffer!Spec
=============================================================================
