---------------------------- MODULE OnDemandMuxer ----------------------------
(***************************************************************************)
(* A muxer that works on demand (rtsp_demand, rtmp_demand, ts_demand,      *)
(* fmp4_demand): RtspMediaSourceMuxer and its sisters, each one over a     *)
(* media source with a PacketCache and a ring that keeps the last GOP.     *)
(*                                                                         *)
(* Frames are numbered as they are sent.  A frame passes the gate of the   *)
(* source (MultiMediaSourceMuxer::isEnabled), may wait in the merger of    *)
(* the muxer until the next one, is put together with others in the        *)
(* PacketCache, and is written to the ring, which gives it to those who    *)
(* watch and keeps it for those who come.  Players attach and detach on    *)
(* their own threads; the count of them is posted to the owner's poller,   *)
(* which switches the muxer on and off and marks its caches for clearing   *)
(* at the next frame.                                                      *)
(***************************************************************************)
EXTENDS Integers, Sequences, FiniteSets, SequencesExt

CONSTANTS Players,
          MaxFrames,    \* frames the source sends
          GopLen,       \* every so many frames a key frame
          CacheCap,     \* packets the policy lets the PacketCache gather
          RingCap,      \* frames the ring keeps for those who come
          Immediate,    \* PacketCache flushes each packet (no merged writing)
          MaxCounts     \* counts on their way to the poller

ASSUME OnDemandAssumption ==
  /\ MaxFrames \in Nat /\ GopLen \in Nat \ {0} /\ CacheCap \in Nat \ {0}
  /\ RingCap \in Nat \ {0} /\ MaxCounts \in Nat \ {0} /\ Immediate \in BOOLEAN

VARIABLES sent,      \* number of the last frame sent
          isEnable,  \* _is_enable of the MultiMediaSourceMuxer: its last verdict
          others,    \* somebody else (another protocol, a recorder) wants frames
          enabled,   \* _enabled
          clearing,  \* _clear_cache
          flow,      \* held: the merger; cache, keyPos: the PacketCache; gop: the ring
          viewing,   \* players attached to the ring
          counts,    \* reported numbers of readers, and by whom, not yet handled
          got,       \* what a player has been given since he attached
          since      \* frames sent when the last count of a player was handled
vars == <<sent, isEnable, others, enabled, clearing, flow, viewing, counts, got, since>>

Frames == 1..MaxFrames
Key(n) == n % GopLen = 1 \/ GopLen = 1

OnDemandTypeOK ==
  /\ sent \in 0..MaxFrames
  /\ {isEnable, others, enabled, clearing} \subseteq BOOLEAN
  /\ flow.held \in {0} \cup Frames /\ flow.keyPos \in BOOLEAN
  /\ flow.cache \in Seq(Frames) /\ flow.gop \in Seq(Frames)
  /\ viewing \subseteq Players
  /\ \A i \in DOMAIN counts : counts[i].who \in Players /\ counts[i].size \in Nat
  /\ got \in [Players -> Seq(Frames)]
  /\ since \in [Players -> 0..MaxFrames]

------------------------------------------------------------------------------
(***************************************************************************)
(* The way of a frame.  `f' is the flow, and `out' what the ring has given *)
(* out in this step.                                                       *)
(***************************************************************************)

\* RingBuffer::write: a batch with a key frame begins a new GOP; without one
\* in the cache there is nothing worth keeping; a GOP too long is given up.
Kept(gop, batch, key) ==
  LET all == IF key THEN batch ELSE IF gop = <<>> THEN <<>> ELSE gop \o batch
  IN  IF Len(all) > RingCap THEN <<>> ELSE all

FlushKeeps(f) ==         \* broken variant: the cache is not replaced
  IF f.cache = <<>> THEN f
  ELSE [f EXCEPT !.gop = Kept(f.gop, f.cache, f.keyPos), !.keyPos = FALSE,
                 !.out = @ \o f.cache]

\* PacketCache::flush with onFlush of the media source.
Flush(f) ==
  IF f.cache = <<>> THEN f
  ELSE [f EXCEPT !.gop = Kept(f.gop, f.cache, f.keyPos), !.keyPos = FALSE,
                 !.out = @ \o f.cache, !.cache = <<>>]

\* PacketCache::inputPacket.  A key frame is the first of its batch; else the
\* policy goes by time stamps: `due' is its verdict.
InputPacket(f, n, due) ==
  LET ahead == IF ~Immediate /\ (Key(n) \/ due \/ Len(f.cache) >= CacheCap)
               THEN Flush(f) ELSE f
      put   == [ahead EXCEPT !.cache = Append(@, n), !.keyPos = @ \/ Key(n)]
  IN  IF Immediate THEN Flush(put) ELSE put

\* The muxer gives out a frame when the next one shows that it is complete.
Merge(f, n, due) ==
  LET next == [f EXCEPT !.held = n]
  IN  IF f.held = 0 THEN next ELSE InputPacket(next, f.held, due)

\* clearCache of the media source: PacketCache and ring, but not the key flag
\* and not the frame in the merger.
ClearCache(f) == [f EXCEPT !.cache = <<>>, !.gop = <<>>]

\* isEnabled of the muxer: as long as the cache is to be cleared, frames are
\* wanted, too.
MuxerEnabledOnly == enabled                      \* broken: does not wait for the clearing
MuxerEnabled == clearing \/ enabled

\* MultiMediaSourceMuxer::isEnabled: a yes holds for a while without looking.
IsEnabledSeldom(elapsed) == IF ~elapsed THEN isEnable ELSE others \/ MuxerEnabled  \* broken: a no holds, too
IsEnabled(elapsed) == (isEnable /\ ~elapsed) \/ others \/ MuxerEnabled

\* inputFrame of the muxer.
InputFrame(n, due) ==
  LET ready == IF clearing THEN ClearCache(flow) ELSE flow
      done  == IF enabled THEN Merge(ready, n, due) ELSE ready
  IN  /\ clearing' = FALSE
      /\ flow' = [done EXCEPT !.out = <<>>]
      /\ got' = [p \in Players |-> IF p \in viewing THEN got[p] \o done.out ELSE got[p]]

\* The source sends a frame; it is demuxed if somebody wants it.
SendFrame ==
  /\ sent < MaxFrames
  /\ sent' = sent + 1
  /\ \E elapsed, due \in BOOLEAN :
       /\ isEnable' = IsEnabled(elapsed)
       /\ IF isEnable' THEN InputFrame(sent + 1, due) ELSE UNCHANGED <<clearing, flow, got>>
  /\ UNCHANGED <<others, enabled, viewing, counts, since>>

\* Another protocol gains its first viewer, or loses its last.
OthersChange ==
  /\ others' = ~others
  /\ UNCHANGED <<sent, isEnable, enabled, clearing, flow, viewing, counts, got, since>>

------------------------------------------------------------------------------
(***************************************************************************)
(* Players and their count                                                 *)
(***************************************************************************)

Post(p, size) == counts' = Append(counts, [who |-> p, size |-> size])

\* RingBuffer::attach: the player is given what the ring keeps.
AttachReader(p) ==
  /\ p \notin viewing /\ Len(counts) < MaxCounts
  /\ viewing' = viewing \cup {p}
  /\ got' = [got EXCEPT ![p] = flow.gop]
  /\ Post(p, Cardinality(viewing'))
  /\ UNCHANGED <<sent, isEnable, others, enabled, clearing, flow, since>>

DetachReader(p) ==
  /\ p \in viewing /\ Len(counts) < MaxCounts
  /\ viewing' = viewing \ {p}
  /\ got' = [got EXCEPT ![p] = <<>>]
  /\ Post(p, Cardinality(viewing'))
  /\ UNCHANGED <<sent, isEnable, others, enabled, clearing, flow, since>>

\* onReaderChanged, on the owner's poller.
Switch(size) ==
  /\ enabled' = (size > 0)
  /\ clearing' = (clearing \/ size = 0)

MuxerReaderChanged ==
  /\ counts # <<>>
  /\ Switch(Head(counts).size)
  /\ counts' = Tail(counts)
  /\ since' = [since EXCEPT ![Head(counts).who] = sent]
  /\ UNCHANGED <<sent, isEnable, others, flow, viewing, got>>

------------------------------------------------------------------------------

\* On from the start: the tracks have just become ready, nobody watches.
OnDemandInit ==
  /\ sent = 0 /\ isEnable = TRUE /\ others = FALSE
  /\ enabled = TRUE /\ clearing = FALSE
  /\ flow = [held |-> 0, cache |-> <<>>, keyPos |-> FALSE, gop |-> <<>>, out |-> <<>>]
  /\ viewing = {} /\ counts = <<>>
  /\ got = [p \in Players |-> <<>>]
  /\ since = [p \in Players |-> 0]

OnDemandNext ==
  \/ SendFrame
  \/ OthersChange
  \/ MuxerReaderChanged
  \/ \E p \in Players : AttachReader(p) \/ DetachReader(p)

OnDemandSpec == OnDemandInit /\ [][OnDemandNext]_vars

------------------------------------------------------------------------------

Increasing(s) == \A i, j \in DOMAIN s : i < j => s[i] < s[j]

\* What a player who comes now is given, at once and next.
Waiting == flow.gop \o flow.cache \o (IF flow.held = 0 THEN <<>> ELSE <<flow.held>>)

\* What waits for a player who comes ends at the last frame sent and has no
\* hole, so that the picture does not jump: whatever was cached before the
\* muxer was off is gone by then (clearCache, RtspMediaSourceMuxer.h:62).  The
\* one exception is the frame that the merger held when the muxer went off.
CacheIsCurrent ==
  \A i \in 2..Len(Waiting) : Waiting[i] = sent - (Len(Waiting) - i)

\* A player is given no frame twice and none after a later one, though he gets
\* the ring's GOP at once and the rest batch by batch (PacketCache.h:53).
GivenInOrder == \A p \in Players : Increasing(got[p])

Settled(p) == p \in viewing /\ \A i \in DOMAIN counts : counts[i].who # p

\* Once the poller has handled the count that a viewer's coming caused, he is
\* given every frame from there on, at most one merged frame and one cache
\* behind the source: no order of counts, clearing and the gate's stale verdict
\* keeps the muxer off or loses a frame (RtspMediaSourceMuxer.h:53, 61;
\* MultiMediaSourceMuxer.cpp:440).
NothingMissed ==
  \A p \in Players : Settled(p) =>
    LET new == {n \in ToSet(got[p]) : n > since[p]}
    IN  /\ new = (since[p] + 1) .. (since[p] + Cardinality(new))
        /\ sent - since[p] > CacheCap + 1 => since[p] + Cardinality(new) >= sent - (CacheCap + 1)

==============================================================================
