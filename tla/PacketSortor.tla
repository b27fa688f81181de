---------------------------- MODULE PacketSortor ----------------------------
(***************************************************************************)
(* PacketSortor (src/src/Rtsp/RtpReceiver.h): puts the RTP packets of one  *)
(* stream back in order.  Its sequence numbers wrap at SeqSpan; to say what *)
(* order means, each packet also carries the index at which its sender     *)
(* sent it, which the code never sees.  The template's parameters are the  *)
(* module's constants: SEQ holds SeqSpan values, kMax and kMin bound the    *)
(* cache.                                                                  *)
(***************************************************************************)
EXTENDS Integers, FiniteSets, SequencesExt

CONSTANTS
    SeqSpan,         \* std::numeric_limits<SEQ>::max() + 1
    KMax, KMin,     \* bounds of _max_sort_size
    Starts,         \* indexes the sender may begin with
    MaxSent,        \* bound: the sender stops at this index
    Window,         \* bound: a packet is overtaken by fewer than this many
    MaxFlight,      \* bound: packets under way at a time
    Jumps,          \* by how much a restarted sender's numbers jump ahead
    Repeats         \* packets that the network may deliver again

ASSUME SortorAssumption ==
    /\ SeqSpan \in Nat \ {0} /\ KMax \in Nat /\ KMin \in Nat \ {0}
    /\ KMin <= KMax
    /\ 2 * KMax < SeqSpan
    /\ Starts \subseteq Nat /\ MaxSent \in Nat
    /\ Jumps \subseteq Nat /\ Window \in Nat \ {0} /\ MaxFlight \in Nat /\ Repeats \subseteq Nat

VARIABLES
    inited,         \* _is_inited
    next,           \* _next_seq_out
    maxSort,        \* _max_sort_size
    cycles,         \* _seq_cycle_count
    cache,          \* _pkt_cache_map: sequence number -> packet (its index)
    out,            \* packets the step gave to _cb, in order
    high,           \* history: the highest index given to _cb so far
    sent,           \* the sender's next index
    flight          \* packets on their way

sorter == <<inited, next, maxSort, cycles, cache>>
network == <<sent, flight>>
sortVars == <<sorter, out, high, network>>

Seqs == 0 .. SeqSpan - 1
Half == (SeqSpan - 1) \div 2
Size(c) == Cardinality(DOMAIN c)
Least(c) == CHOOSE q \in DOMAIN c : \A r \in DOMAIN c : q <= r
Ascending(S) ==
    [i \in 1 .. Cardinality(S) |-> CHOOSE q \in S : Cardinality({r \in S : r <= q}) = i]
Without(c, S) == [q \in DOMAIN c \ S |-> c[q]]

SortTypeOK ==
    /\ inited \in BOOLEAN
    /\ next \in Seqs
    /\ maxSort \in KMin .. KMax
    /\ cycles \in Nat
    /\ DOMAIN cache \subseteq Seqs
    /\ \A q \in DOMAIN cache : cache[q] \in Nat
    /\ out \in Seq(Nat)
    /\ high \in Nat \cup {-1}
    /\ sent \in Nat
    /\ flight \subseteq Nat

SortInit ==
    /\ inited = FALSE
    /\ next = 0
    /\ maxSort = KMin
    /\ cycles = 0
    /\ cache = <<>>
    /\ out = <<>>
    /\ high = -1
    /\ sent \in Starts
    /\ flight = {}

\* Mutant of Behind: the filter is off.
BehindNever(q, n) == FALSE

\* sortPacket's filters against the next number to be put out: a number just
\* behind it, or one so far ahead that it can only be from before a wrap.
Behind(q, n) == q < n /\ n < q + KMax
FarAhead(q, n) == q >= n /\ n # 0 /\ q - n > Half

\* Mutant of SortSize: the upper bound is left out.
SortSizeUncapped(c) == KMin + Size(c)

\* setSortSize().
SortSize(c) == IF KMin + Size(c) > KMax THEN KMax ELSE KMin + Size(c)

\* The cached numbers that follow on n without a gap, if n is the first.
Run(c, n) == {q \in DOMAIN c : n = Least(c) /\ n .. q \subseteq DOMAIN c}

\* What leaves the cache c when packets go out (or are thrown away).
Emit(c, seqs, n, wrapped) ==
    /\ out' = [i \in DOMAIN seqs |-> c[seqs[i]]]
    /\ cache' = Without(c, Range(seqs))
    /\ next' = n
    /\ cycles' = cycles + wrapped
    /\ maxSort' = SortSize(cache')

\* tryPopPacket(), the first loop: everything that is in order goes out.
PopRun(c, n) ==
    LET run == Run(c, n)
    IN  /\ run # {}
        /\ Emit(c, Ascending(run), (n + Cardinality(run)) % SeqSpan, 0)

\* popPacket() of a cache that has grown too large.  Its first number either
\* comes next (the packets between were lost), or belongs to the next cycle
\* (give out what is left of this one, once the cache is full enough), or is
\* behind what was put out and is thrown away.
PopOverflow(c, n) ==
    LET first == Least(c)
        left == {q \in DOMAIN c : q > (n - Size(c)) % SeqSpan}
    IN  /\ Run(c, n) = {}
        /\ Size(c) > maxSort
        /\ \/ /\ first >= n
              /\ Emit(c, <<first>>, (first + 1) % SeqSpan, 0)
           \/ /\ n - first > Half
              /\ Size(c) < 2 * KMin
              /\ Emit(c, <<>>, n, 0)
           \/ /\ n - first > Half
              /\ Size(c) >= 2 * KMin
              /\ Emit(c, Append(Ascending(left), first), (first + 1) % SeqSpan, 1)
           \/ /\ first < n
              /\ n - first <= Half
              /\ out' = <<>>
              /\ cache' = Without(c, {first})
              /\ maxSort' = SortSize(cache')
              /\ next' = n
              /\ UNCHANGED cycles

Hold(c, n) ==
    /\ Run(c, n) = {}
    /\ Size(c) <= maxSort
    /\ cache' = c
    /\ next' = n
    /\ out' = <<>>
    /\ UNCHANGED <<maxSort, cycles>>

\* sortPacket(seq, packet).
SortPacket(p) ==
    LET q == p % SeqSpan
        n == IF ~inited /\ next = 0 THEN q ELSE next
        c == IF q \in DOMAIN cache THEN cache
             ELSE [r \in DOMAIN cache \cup {q} |-> IF r = q THEN p ELSE cache[r]]
    IN  /\ inited' = (inited \/ next = 0)
        /\ IF Behind(q, n) \/ FarAhead(q, n)
           THEN /\ next' = n
                /\ out' = <<>>
                /\ UNCHANGED <<maxSort, cycles, cache>>
           ELSE PopRun(c, n) \/ PopOverflow(c, n) \/ Hold(c, n)
        /\ high' = Max(Range(out') \cup {high})

-----------------------------------------------------------------------------
(* The stream and the network that carries it. *)

Transmit ==
    /\ sent < MaxSent
    /\ Cardinality(flight) < MaxFlight
    /\ \A p \in flight : sent - p < Window
    /\ flight' = flight \cup {sent}
    /\ sent' = sent + 1
    /\ out' = <<>>
    /\ UNCHANGED <<sorter, high>>

\* The sender is replaced (RtpTrack::inputRtp accepts another ssrc and leaves
\* the sorting state as it is): its numbers go on from somewhere else.
Restart(j) ==
    /\ flight = {}
    /\ sent + j < MaxSent
    /\ sent' = sent + j
    /\ out' = <<>>
    /\ UNCHANGED <<sorter, high, flight>>

Lose(p) ==
    /\ p \in flight
    /\ flight' = flight \ {p}
    /\ out' = <<>>
    /\ UNCHANGED <<sorter, high, sent>>

Arrive(p) ==
    /\ p \in flight
    /\ flight' \in {flight \ {p}} \cup (IF p \in Repeats THEN {flight} ELSE {})
    /\ SortPacket(p)
    /\ UNCHANGED sent

\* clear(), between two sessions: nothing of the old one is under way.
\* _is_inited keeps its value.
Clear ==
    /\ flight = {}
    /\ inited
    /\ cycles' = 0
    /\ cache' = <<>>
    /\ next' = 0
    /\ maxSort' = KMin
    /\ out' = <<>>
    /\ UNCHANGED <<inited, high, network>>

SortNext ==
    \/ Transmit
    \/ \E p \in flight : Lose(p) \/ Arrive(p)
    \/ \E j \in Jumps : Restart(j)
    \/ Clear

SortSpec == SortInit /\ [][SortNext]_sortVars

-----------------------------------------------------------------------------
\* However packets are lost and overtaken, the cache stays within its bound:
\* a gap holds back at most so many packets.
CacheBounded == Size(cache) <= Max({KMax, 2 * KMin - 1})

\* What goes out is in the order it was sent, across steps and within one,
\* and nothing goes out twice ("sort ... and filter duplicates"): of all that
\* Repeats lets the network deliver again.
SortsInOrder ==
    [][\A i, j \in DOMAIN out' :
          /\ i < j => out'[i] < out'[j]
          /\ out'[i] > high]_sortVars
=============================================================================
