----------------------------- MODULE MediaSink -----------------------------
(***************************************************************************)
(* MediaSink (src/src/Common/MediaSink.cpp) and the muxers behind it       *)
(* (MultiMediaSourceMuxer).  A source adds tracks and inputs frames; the   *)
(* sink holds the frames back until it knows the tracks, then names the    *)
(* tracks to the muxers and lets the frames through.  One thread runs all  *)
(* of it: what is hard is the order in which sources make their calls.     *)
(* A frame is its number, modulo FrameSpan, among those of its type that   *)
(* the sink took in.                                                       *)
(***************************************************************************)
EXTENDS Integers, FiniteSets, SequencesExt

CONSTANTS
    AudioChoices,       \* values _enable_audio may have been set to
    MuteChoices,        \* values _add_mute_audio may have been set to
    MaxUnready,         \* General::kUnreadyFrameCache
    FrameSpan,          \* bound: frames are numbered modulo this
    MaxAdds,            \* bound: calls of addTrack
    MaxResets           \* bound: calls of resetTracks

ASSUME SinkAssumption ==
    /\ AudioChoices \subseteq BOOLEAN /\ MuteChoices \subseteq BOOLEAN
    /\ MaxUnready \in Nat /\ FrameSpan \in Nat /\ FrameSpan > MaxUnready + 2
    /\ MaxAdds \in Nat /\ MaxResets \in Nat

VARIABLES
    enableAudio, addMute,   \* _enable_audio, _add_mute_audio
    allReady,               \* _all_track_ready
    maxTracks,              \* _max_track_size
    tracks,                 \* _track_map: type -> what is known of its track
    pending,                \* _track_ready_callback
    age,                    \* _ticker: 0, 1 past kWaitAddTrackMS, 2 past kWaitTrackReadyMS
    unread,                 \* _frame_unread
    mute,                   \* _mute_audio_maker is there
    announced,              \* the tracks the muxers were given
    out,                    \* frames the step gave to onTrackFrame, by type
    silence,                \* whether it gave made-up audio frames, too
    frame,                  \* the source's next frame of each type
    last,                   \* history: the last frame of each type given out
    adds, resets            \* bounds

config == <<enableAudio, addMute>>
sink == <<allReady, maxTracks, tracks, pending, unread, mute>>
history == <<announced, last>>
bounds == <<adds, resets>>
sinkVars == <<config, sink, age, history, out, silence, frame, bounds>>

Types == {"video", "audio"}
Frames == 0 .. FrameSpan - 1
Track == [got : BOOLEAN, ready : BOOLEAN, made : BOOLEAN]
Succ(f) == (f + 1) % FrameSpan
None == -1
NoFrames == [t \in Types |-> <<>>]

SinkTypeOK ==
    /\ enableAudio \in BOOLEAN /\ addMute \in BOOLEAN
    /\ allReady \in BOOLEAN
    /\ maxTracks \in 0 .. 2
    /\ DOMAIN tracks \subseteq Types /\ Range(tracks) \subseteq Track
    /\ pending \subseteq DOMAIN tracks
    /\ age \in 0 .. 2
    /\ \A t \in Types : unread[t] \in Seq(Frames) /\ Len(unread[t]) <= MaxUnready + 1
    /\ mute \in BOOLEAN
    /\ announced \subseteq Types
    /\ out \in [Types -> Seq(Frames)]
    /\ silence \in BOOLEAN
    /\ frame \in [Types -> Frames]
    /\ last \in [Types -> Frames \cup {None}]
    /\ adds \in 0 .. MaxAdds /\ resets \in 0 .. MaxResets

SinkInit ==
    /\ enableAudio \in AudioChoices
    /\ addMute \in MuteChoices
    /\ allReady = FALSE
    /\ maxTracks = 2
    /\ tracks = <<>>
    /\ pending = {}
    /\ age = 0
    /\ unread = NoFrames
    /\ mute = FALSE
    /\ announced = {}
    /\ out = NoFrames
    /\ silence = FALSE
    /\ frame = [t \in Types |-> 0]
    /\ last = [t \in Types |-> None]
    /\ adds = 0
    /\ resets = 0

-----------------------------------------------------------------------------
\* onTrackFrame(): the frames go to every muxer, those of a type in order.
Deliver(fs) ==
    /\ out' = fs
    /\ last' = [t \in Types |-> IF fs[t] = <<>> THEN last[t] ELSE Last(fs[t])]

\* The made-up audio runs on video frames: each may bring one or none.
MayBeSilence(types, m) ==
    silence' \in IF m /\ "video" \in types THEN BOOLEAN ELSE {FALSE}

NoneOut == out' = NoFrames /\ silence' = FALSE

\* onTrackReady(): the muxers get a track.
NameTracks(types) == announced' = announced \cup types

\* Mutant of Kept: tracks that are not ready stay.
KeptAll(ts, left) == DOMAIN ts

\* emitAllTrackReady(): of the tracks that are there, those that stay.
Kept(ts, left) ==
    IF left = {} THEN DOMAIN ts
    ELSE {t \in DOMAIN ts : ts[t].got /\ ts[t].ready}

\* addMuteAudioTrack(): whether made-up audio takes the place of a track.
Mutes(kept) == addMute /\ enableAudio /\ "audio" \notin kept

\* The cached frames, if their type has a track now.  They go out type after
\* type; which type is first is the order of a hash map and left out.
Replayed(u, types) == [t \in Types |-> IF t \in types THEN u[t] ELSE <<>>]

\* emitAllTrackReady(), given the tracks, the pending ones and the cache.
EmitAllTrackReady(ts, left, u, named, types) ==
    LET kept == Kept(ts, left)
        made == Mutes(kept)
        now == kept \cup (IF made THEN {"audio"} ELSE {})
    IN  /\ pending' = {}
        /\ IF kept = {}
           THEN /\ tracks' = <<>>
                /\ unread' = u
                /\ NameTracks(named)
                /\ Deliver(NoFrames)
                /\ MayBeSilence(types, mute)
                /\ UNCHANGED <<allReady, mute>>
           ELSE /\ tracks' = [t \in now |-> IF t \in kept THEN ts[t] ELSE
                                 [got |-> TRUE, ready |-> TRUE, made |-> TRUE]]
                /\ mute' = (mute \/ made)
                /\ NameTracks(named \cup (now \ kept))
                /\ allReady' = TRUE
                /\ Deliver(Replayed(u, now))
                /\ MayBeSilence(types \cup {t \in now : u[t] # <<>>}, mute')
                /\ unread' = NoFrames

\* Mutant of Complete: nothing ends the wait for a track that does not come.
CompleteWhenReady(ts, left, max) == left = {} /\ Cardinality(DOMAIN ts) = max

\* checkTrackIfReady(), before all tracks were ready: whether to wait on.
Complete(ts, left, max) ==
    \/ age = 2
    \/ left = {} /\ Cardinality(DOMAIN ts) = max
    \/ left = {} /\ Cardinality(DOMAIN ts) = 1 /\ age = 1

CheckTrackIfReady(ts, u, types, max) ==
    LET named == {t \in pending : ts[t].ready}
        left == pending \ named
    IN  IF Complete(ts, left, max)
        THEN EmitAllTrackReady(ts, left, u, named, types)
        ELSE /\ tracks' = ts
             /\ pending' = left
             /\ unread' = u
             /\ NameTracks(named)
             /\ Deliver(NoFrames)
             /\ MayBeSilence(types, mute)
             /\ UNCHANGED <<allReady, mute>>

-----------------------------------------------------------------------------
(* The source's calls. *)

\* addTrack(): the track may know all it needs already (an SDP's sps).
AddTrack(t, ready) ==
    /\ adds < MaxAdds
    /\ adds' = adds + 1
    /\ maxTracks' = IF enableAudio THEN maxTracks ELSE 1
    /\ IF (~enableAudio /\ t = "audio") \/ allReady
       THEN UNCHANGED <<tracks, pending, age>>
       ELSE /\ tracks' = [s \in DOMAIN tracks \cup {t} |->
                            IF s = t THEN [got |-> FALSE, ready |-> ready, made |-> FALSE]
                            ELSE tracks[s]]
            /\ pending' = pending \cup {t}
            /\ age' = 0
    /\ NoneOut
    /\ UNCHANGED <<config, allReady, unread, mute, history, frame, resets>>

AddTrackCompleted ==
    /\ maxTracks' = Cardinality(DOMAIN tracks)
    /\ IF allReady
       THEN NoneOut /\ UNCHANGED <<allReady, tracks, pending, unread, mute, history>>
       ELSE CheckTrackIfReady(tracks, unread, {}, maxTracks')
    /\ UNCHANGED <<config, age, frame, bounds>>

\* Mutant of CacheFrame: a full cache refuses new frames.
CacheFirst(t) ==
    [unread EXCEPT ![t] = IF Len(@) > MaxUnready THEN @ ELSE Append(@, frame[t])]

\* The delegate of a track whose sink is not ready yet.
CacheFrame(t) ==
    [unread EXCEPT ![t] =
        IF Len(@) > MaxUnready THEN <<frame[t]>> ELSE Append(@, frame[t])]

\* inputFrame(): a frame of a track may be the one that makes it ready.
InputFrame(t) ==
    /\ t \in DOMAIN tracks
    /\ frame' = [frame EXCEPT ![t] = Succ(@)]
    /\ \E r \in {tracks[t].ready, TRUE} :
         LET ts == [tracks EXCEPT ![t] = [@ EXCEPT !.got = TRUE, !.ready = r]]
         IN  IF allReady
             THEN /\ tracks' = ts
                  /\ Deliver([NoFrames EXCEPT ![t] = <<frame[t]>>])
                  /\ MayBeSilence({t}, mute)
                  /\ UNCHANGED <<allReady, pending, unread, mute, announced>>
             ELSE CheckTrackIfReady(ts, CacheFrame(t), {t}, maxTracks)
    /\ UNCHANGED <<config, maxTracks, age, bounds>>

\* resetTracks() of the muxers.
MuxersReset ==
    /\ announced' = {}
    /\ last' = [t \in Types |-> None]

\* resetTracks(), which leaves the made-up audio alone.
ResetTracks ==
    /\ resets < MaxResets
    /\ resets' = resets + 1
    /\ allReady' = FALSE
    /\ tracks' = <<>>
    /\ pending' = {}
    /\ age' = 0
    /\ maxTracks' = 2
    /\ unread' = NoFrames
    /\ MuxersReset
    /\ NoneOut
    /\ UNCHANGED <<config, mute, frame, adds>>

Tick ==
    /\ age < 2
    /\ age' = age + 1
    /\ NoneOut
    /\ UNCHANGED <<config, sink, history, frame, bounds>>

SinkNext ==
    \/ \E t \in Types, ready \in BOOLEAN : AddTrack(t, ready)
    \/ AddTrackCompleted
    \/ \E t \in Types : InputFrame(t)
    \/ ResetTracks
    \/ Tick

\* Time passes, and a source that has a track goes on sending frames of it.
SinkSpec ==
    /\ SinkInit
    /\ [][SinkNext]_sinkVars
    /\ WF_sinkVars(Tick)
    /\ \A t \in Types : WF_sinkVars(InputFrame(t))

-----------------------------------------------------------------------------
\* The muxers get the frames of a track without a hole and without a repeat,
\* from the cache or directly.
FramesContiguous ==
    [][\A t \in Types :
         \A i \in DOMAIN out'[t] :
           LET before == IF i = 1 THEN last[t] ELSE out'[t][i - 1]
           IN  before # None => out'[t][i] = Succ(before)]_sinkVars

\* No muxer gets a frame of a track it was not given before.
NamedFirst == [][\A t \in Types : out'[t] # <<>> => t \in announced']_sinkVars

\* A track does not keep its stream waiting for ever: the sink becomes ready
\* with it or drops it.
TracksSettle ==
    \A t \in Types : t \in DOMAIN tracks ~> allReady \/ t \notin DOMAIN tracks
=============================================================================
