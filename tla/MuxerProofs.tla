---------------------------- MODULE MuxerProofs ----------------------------
(***************************************************************************)
(* Theorems about the way from a source's frames to an HLS player: the     *)
(* sink that holds frames until the tracks are known (MediaSink), and the  *)
(* recorder, its folder and a player of it (HlsMaker, HlsPlayer, HlsLink), *)
(* for caches, lists and streams of any size.                              *)
(***************************************************************************)
EXTENDS MediaSink, HlsLink, SequenceTheorems, FiniteSetTheorems,
        WellFoundedInduction, TLAPS

(***************************************************************************)
(* The sink.  A frame that is given out follows the last one of its type,  *)
(* because what is cached runs up to the source's next frame, and nothing  *)
(* is cached once frames go out directly.                                  *)
(***************************************************************************)

\* A cache holds frames without a hole, up to the one that comes before f.
Run(s, f) ==
    /\ s \in Seq(Frames)
    /\ \A i \in 1 .. Len(s) - 1 : s[i + 1] = Succ(s[i])
    /\ s # <<>> => Succ(s[Len(s)]) = f

\* Frames are cached until the sink is ready and then given out directly: the
\* last one that went out is the one before the source's next.
CachesRun == \A t \in Types : Run(unread[t], frame[t]) /\ Len(unread[t]) <= MaxUnready + 1
LastIsBefore == \A t \in Types : last[t] # None => allReady /\ Succ(last[t]) = frame[t]
ReadyHasAll == allReady => unread = NoFrames /\ pending = {}
Named == DOMAIN tracks \ pending \subseteq announced

\* A track map.
Tracked(ts) == DOMAIN ts \subseteq Types /\ \A t \in DOMAIN ts : ts[t] \in Track

FlagsOK ==
    /\ enableAudio \in BOOLEAN /\ addMute \in BOOLEAN /\ allReady \in BOOLEAN
    /\ mute \in BOOLEAN /\ silence \in BOOLEAN
BoundsOK == maxTracks \in 0 .. 2 /\ age \in 0 .. 2 /\ adds \in 0 .. MaxAdds /\ resets \in 0 .. MaxResets
FramesOK ==
    /\ out \in [Types -> Seq(Frames)] /\ frame \in [Types -> Frames]
    /\ last \in [Types -> Frames \cup {None}]
    /\ unread \in [Types -> Seq(Frames)]
TracksOK == Tracked(tracks) /\ pending \subseteq DOMAIN tracks /\ announced \subseteq Types

SinkInv ==
    /\ FlagsOK /\ BoundsOK /\ FramesOK /\ TracksOK
    /\ CachesRun /\ LastIsBefore /\ ReadyHasAll /\ Named

\* What goes out follows what went out before, and is of a track that is named.
Contiguous ==
    \A t \in Types : \A i \in DOMAIN out'[t] :
        LET before == IF i = 1 THEN last[t] ELSE out'[t][i - 1]
        IN  before # None => out'[t][i] = Succ(before)
OfNamed == \A t \in Types : out'[t] # <<>> => t \in announced'

-----------------------------------------------------------------------------
LEMMA Spans ==
  /\ FrameSpan \in Nat /\ FrameSpan > 2 /\ MaxUnready \in Nat
  /\ 0 \in Frames /\ None \notin Frames
  /\ \A f \in Frames : Succ(f) \in Frames
<1>1. FrameSpan \in Nat /\ FrameSpan > 2 /\ MaxUnready \in Nat
  BY SinkAssumption
<1>2. \A f \in Frames : Succ(f) \in Frames
  BY <1>1 DEF Frames, Succ
<1> QED
  BY <1>1, <1>2 DEF Frames, None

LEMMA EmptyRuns ==
  /\ NoFrames \in [Types -> Seq(Frames)]
  /\ \A t \in Types : NoFrames[t] = <<>>
  /\ \A f : Run(<<>>, f) /\ Len(<<>>) <= MaxUnready + 1
<1>1. NoFrames \in [Types -> Seq(Frames)] /\ \A t \in Types : NoFrames[t] = <<>>
  BY DEF NoFrames
<1>2. \A f : Run(<<>>, f)
  BY DEF Run
<1>3. Len(<<>>) <= MaxUnready + 1
  BY Spans
<1> QED
  BY <1>1, <1>2, <1>3

\* One frame more, or a new start with it: in the cache still nothing is missing.
LEMMA CacheRuns ==
  ASSUME NEW s, NEW f \in Frames, Run(s, f), Len(s) <= MaxUnready + 1,
         NEW c, c = IF Len(s) > MaxUnready THEN <<f>> ELSE Append(s, f)
  PROVE  Run(c, Succ(f)) /\ Len(c) <= MaxUnready + 1
<1>1. s \in Seq(Frames) /\ Len(s) \in Nat
  BY DEF Run
<1>2. Run(<<f>>, Succ(f)) /\ Len(<<f>>) <= MaxUnready + 1
  BY Spans DEF Run
<1>3. ASSUME ~(Len(s) > MaxUnready)
      PROVE  Run(Append(s, f), Succ(f)) /\ Len(Append(s, f)) <= MaxUnready + 1
  <2> DEFINE n == Append(s, f)
  <2>1. n \in Seq(Frames) /\ Len(n) = Len(s) + 1 /\ n[Len(s) + 1] = f /\ \A i \in 1 .. Len(s) : n[i] = s[i]
    BY <1>1
  <2> HIDE DEF n
  <2>3. ASSUME NEW i \in 1 .. Len(n) - 1 PROVE n[i + 1] = Succ(n[i])
    <3>1. CASE i = Len(s)
      <4>1. s # <<>>
        BY <1>1, <2>1, <2>3, <3>1
      <4> QED
        BY <1>1, <2>1, <2>3, <3>1, <4>1 DEF Run
    <3>2. CASE i # Len(s)
      <4>1. i \in 1 .. Len(s) - 1 /\ i + 1 \in 1 .. Len(s) /\ i \in 1 .. Len(s)
        BY <1>1, <2>1, <2>3, <3>2
      <4> QED
        BY <2>1, <4>1 DEF Run
    <3> QED
      BY <3>1, <3>2
  <2>4. Succ(n[Len(n)]) = Succ(f)
    BY <2>1
  <2>5. Run(n, Succ(f))
    BY <2>1, <2>3, <2>4 DEF Run
  <2>6. Len(n) <= MaxUnready + 1
    BY <1>1, <1>3, <2>1, Spans
  <2> QED
    BY <2>5, <2>6 DEF n
<1> QED
  BY <1>2, <1>3

\* Giving out frames without a hole, of each type those after its last one.
LEMMA DeliverRuns ==
  ASSUME FramesOK, NEW fs \in [Types -> Seq(Frames)], Deliver(fs),
         \A t \in Types : \A i \in 1 .. Len(fs[t]) - 1 : fs[t][i + 1] = Succ(fs[t][i]),
         \A t \in Types : fs[t] # <<>> /\ last[t] # None => fs[t][1] = Succ(last[t])
  PROVE  /\ out' = fs /\ last' \in [Types -> Frames \cup {None}] /\ Contiguous
         /\ \A t \in Types : last'[t] = IF fs[t] = <<>> THEN last[t] ELSE fs[t][Len(fs[t])]
<1>1. out' = fs /\ last' = [t \in Types |-> IF fs[t] = <<>> THEN last[t] ELSE Last(fs[t])]
  BY DEF Deliver
<1>2. \A t \in Types : last'[t] = IF fs[t] = <<>> THEN last[t] ELSE fs[t][Len(fs[t])]
  BY <1>1 DEF Last
<1>3. \A t \in Types : fs[t] # <<>> => fs[t][Len(fs[t])] \in Frames
  OBVIOUS
<1>4. \A t \in Types : last'[t] \in Frames \cup {None}
  BY <1>2, <1>3 DEF FramesOK
<1>5. last' \in [Types -> Frames \cup {None}]
  BY <1>1, <1>4
<1>6. Contiguous
  <2> SUFFICES ASSUME NEW t \in Types, NEW i \in DOMAIN fs[t]
               PROVE  LET before == IF i = 1 THEN last[t] ELSE fs[t][i - 1]
                      IN  before # None => fs[t][i] = Succ(before)
    BY <1>1 DEF Contiguous
  <2>1. fs[t] \in Seq(Frames) /\ i \in 1 .. Len(fs[t]) /\ fs[t] # <<>>
    OBVIOUS
  <2>2. CASE i = 1
    BY <2>1, <2>2
  <2>3. CASE i # 1
    <3> DEFINE j == i - 1
    <3>1. j \in 1 .. Len(fs[t]) - 1 /\ j + 1 = i
      BY <2>1, <2>3
    <3>2. fs[t][j + 1] = Succ(fs[t][j])
      BY <3>1
    <3> QED
      BY <2>3, <3>1, <3>2
  <2> QED
    BY <2>2, <2>3
<1> QED
  BY <1>1, <1>2, <1>5, <1>6

LEMMA DeliverNothing ==
  ASSUME FramesOK, out' = NoFrames
  PROVE  Contiguous /\ OfNamed /\ out' \in [Types -> Seq(Frames)]
<1>1. \A t \in Types : out'[t] = <<>>
  BY EmptyRuns
<1> QED
  BY <1>1, EmptyRuns DEF Contiguous, OfNamed

LEMMA DeliversNothing ==
  ASSUME FramesOK, Deliver(NoFrames)
  PROVE  Contiguous /\ OfNamed /\ out' \in [Types -> Seq(Frames)] /\ last' = last
<1>1. out' = NoFrames /\ last' = [t \in Types |-> IF NoFrames[t] = <<>> THEN last[t] ELSE Last(NoFrames[t])]
  BY DEF Deliver
<1>2. last' = [t \in Types |-> last[t]]
  BY <1>1, EmptyRuns
<1>3. last' = last
  BY <1>2 DEF FramesOK
<1> QED
  BY <1>1, <1>3, DeliverNothing

-----------------------------------------------------------------------------
\* What a call leaves behind, apart from its flags and bounds.
Result ==
    /\ allReady' \in BOOLEAN /\ mute' \in BOOLEAN /\ silence' \in BOOLEAN
    /\ TracksOK' /\ FramesOK' /\ CachesRun' /\ LastIsBefore' /\ ReadyHasAll' /\ Named'
    /\ Contiguous /\ OfNamed

LEMMA SilenceType ==
  ASSUME NEW types, NEW m, MayBeSilence(types, m)
  PROVE  silence' \in BOOLEAN
BY DEF MayBeSilence

\* The sink waits on, or gives up: it names tracks, and keeps its caches.
LEMMA WaitsOn ==
  ASSUME SinkInv, ~allReady, frame' \in [Types -> Frames],
         NEW ts, Tracked(ts), NEW u \in [Types -> Seq(Frames)],
         \A t \in Types : Run(u[t], frame'[t]) /\ Len(u[t]) <= MaxUnready + 1,
         NEW left \in SUBSET DOMAIN ts, NEW named, named \subseteq DOMAIN ts,
         DOMAIN ts \ left \subseteq announced \cup named,
         tracks' = ts, pending' = left, unread' = u, NameTracks(named), Deliver(NoFrames),
         UNCHANGED <<allReady, mute>>, silence' \in BOOLEAN
  PROVE  Result
<1>1. Contiguous /\ OfNamed /\ out' \in [Types -> Seq(Frames)] /\ last' = last
  BY DeliversNothing DEF SinkInv
<1>2. \A t \in Types : last[t] = None
  BY DEF SinkInv, LastIsBefore
<1>3. TracksOK' /\ Named'
  BY DEF SinkInv, TracksOK, Tracked, Named, NameTracks
<1>4. FramesOK'
  BY <1>1 DEF SinkInv, FramesOK
<1>5. CachesRun' /\ LastIsBefore' /\ ReadyHasAll'
  BY <1>1, <1>2 DEF CachesRun, LastIsBefore, ReadyHasAll
<1> QED
  BY <1>1, <1>3, <1>4, <1>5 DEF Result, SinkInv, FlagsOK

\* The sink becomes ready: the caches of its tracks go out, after their names.
LEMMA GetsReady ==
  ASSUME SinkInv, ~allReady, frame' \in [Types -> Frames],
         NEW u \in [Types -> Seq(Frames)],
         \A t \in Types : Run(u[t], frame'[t]) /\ Len(u[t]) <= MaxUnready + 1,
         Tracked(tracks'), pending' = {}, NEW names, names \subseteq Types, NameTracks(names),
         DOMAIN tracks' \subseteq announced \cup names,
         Deliver(Replayed(u, DOMAIN tracks')), unread' = NoFrames, allReady' = TRUE,
         mute' \in BOOLEAN, silence' \in BOOLEAN
  PROVE  Result
<1> DEFINE fs == Replayed(u, DOMAIN tracks')
<1>1. /\ fs \in [Types -> Seq(Frames)]
      /\ \A t \in Types : fs[t] = IF t \in DOMAIN tracks' THEN u[t] ELSE <<>>
  BY DEF Replayed
<1> HIDE DEF fs
<1>2. \A t \in Types : last[t] = None
  BY DEF SinkInv, LastIsBefore
<1>3. \A t \in Types : Run(fs[t], frame'[t])
  BY <1>1, EmptyRuns
<1>4. /\ out' = fs /\ last' \in [Types -> Frames \cup {None}] /\ Contiguous
      /\ \A t \in Types : last'[t] = IF fs[t] = <<>> THEN last[t] ELSE fs[t][Len(fs[t])]
  <2>1. Deliver(fs)
    BY DEF fs
  <2>2. \A t \in Types : \A i \in 1 .. Len(fs[t]) - 1 : fs[t][i + 1] = Succ(fs[t][i])
    BY <1>3 DEF Run
  <2> QED
    BY <1>1, <1>2, <2>1, <2>2, DeliverRuns DEF SinkInv
<1>5. announced' = announced \cup names
  BY DEF NameTracks
<1>6. OfNamed
  BY <1>1, <1>4, <1>5 DEF OfNamed
<1>7. TracksOK' /\ Named'
  BY <1>5 DEF SinkInv, TracksOK, Tracked, Named
<1>8. FramesOK'
  BY <1>1, <1>4, EmptyRuns DEF FramesOK
<1>9. CachesRun' /\ ReadyHasAll'
  BY EmptyRuns DEF CachesRun, ReadyHasAll
<1>10. LastIsBefore'
  <2> SUFFICES ASSUME NEW t \in Types, last'[t] # None
               PROVE  Succ(last'[t]) = frame'[t]
    BY DEF LastIsBefore
  <2>1. fs[t] # <<>> /\ last'[t] = fs[t][Len(fs[t])]
    BY <1>2, <1>4
  <2> QED
    BY <1>3, <2>1 DEF Run
<1> QED
  BY <1>4, <1>6, <1>7, <1>8, <1>9, <1>10 DEF Result

LEMMA CheckKeeps ==
  ASSUME SinkInv, ~allReady, frame' \in [Types -> Frames],
         NEW ts, Tracked(ts), DOMAIN ts = DOMAIN tracks, NEW u \in [Types -> Seq(Frames)],
         \A t \in Types : Run(u[t], frame'[t]) /\ Len(u[t]) <= MaxUnready + 1,
         NEW types, NEW max, CheckTrackIfReady(ts, u, types, max)
  PROVE  Result
<1> DEFINE named == {t \in pending : ts[t].ready}
           left == pending \ named
           kept == Kept(ts, left)
           muted == Mutes(kept)
           now == kept \cup (IF muted THEN {"audio"} ELSE {})
<1>1. /\ pending \subseteq DOMAIN ts /\ named \subseteq DOMAIN ts /\ left \in SUBSET DOMAIN ts
      /\ DOMAIN ts \ left \subseteq announced \cup named /\ DOMAIN ts \subseteq Types
      /\ announced \subseteq Types
  BY DEF SinkInv, TracksOK, Named, Tracked
<1>2. kept \subseteq DOMAIN ts \ left
  <2>1. \A t \in left : ~ts[t].ready
    OBVIOUS
  <2> QED
    BY <2>1 DEF Kept
<1>3. CASE ~Complete(ts, left, max)
  <2>1. /\ tracks' = ts /\ pending' = left /\ unread' = u /\ NameTracks(named) /\ Deliver(NoFrames)
        /\ MayBeSilence(types, mute) /\ UNCHANGED <<allReady, mute>>
    BY <1>3 DEF CheckTrackIfReady
  <2> HIDE DEF left, named
  <2> QED
    BY <1>1, <2>1, WaitsOn, SilenceType
<1>4. CASE Complete(ts, left, max) /\ kept = {}
  <2>1. /\ tracks' = <<>> /\ pending' = {} /\ unread' = u /\ NameTracks(named) /\ Deliver(NoFrames)
        /\ MayBeSilence(types, mute) /\ UNCHANGED <<allReady, mute>>
    BY <1>4 DEF CheckTrackIfReady, EmitAllTrackReady
  <2>2. Tracked(<<>>) /\ DOMAIN <<>> = {}
    BY DEF Tracked
  <2>3. silence' \in BOOLEAN
    BY <2>1, SilenceType
  <2> HIDE DEF left, named
  <2>4. Contiguous /\ OfNamed /\ out' \in [Types -> Seq(Frames)] /\ last' = last
    BY <2>1, DeliversNothing DEF SinkInv
  <2>5. TracksOK' /\ Named'
    <3>1. announced' \subseteq Types
      BY <1>1, <2>1 DEF NameTracks
    <3> QED
      BY <2>1, <2>2, <3>1 DEF TracksOK, Named
  <2>6. FramesOK'
    BY <2>1, <2>4 DEF SinkInv, FramesOK
  <2>7. CachesRun' /\ LastIsBefore' /\ ReadyHasAll'
    BY <2>1, <2>4 DEF SinkInv, CachesRun, LastIsBefore, ReadyHasAll
  <2> QED
    BY <2>1, <2>3, <2>4, <2>5, <2>6, <2>7 DEF Result, SinkInv, FlagsOK
<1>5. CASE Complete(ts, left, max) /\ kept # {}
  <2> DEFINE m == [got |-> TRUE, ready |-> TRUE, made |-> TRUE]
             names == named \cup (now \ kept)
             voiced == types \cup {t \in now : u[t] # <<>>}
  <2>1. /\ tracks' = [t \in now |-> IF t \in kept THEN ts[t] ELSE m] /\ pending' = {}
        /\ unread' = NoFrames /\ NameTracks(names) /\ Deliver(Replayed(u, now)) /\ allReady' = TRUE
        /\ mute' = (mute \/ muted) /\ MayBeSilence(voiced, mute')
    BY <1>5 DEF CheckTrackIfReady, EmitAllTrackReady
  <2>2. now \subseteq Types /\ DOMAIN tracks' = now
    BY <1>1, <1>2, <2>1 DEF Types
  <2>3. Tracked(tracks')
    <3>1. m \in Track
      BY DEF Track
    <3>2. \A t \in kept : ts[t] \in Track
      BY <1>2 DEF Tracked
    <3> HIDE DEF m, kept, now
    <3>3. \A t \in now : tracks'[t] \in Track
      BY <2>1, <3>1, <3>2
    <3> QED
      BY <2>2, <3>3 DEF Tracked
  <2>4. names \subseteq Types /\ now \subseteq announced \cup names
    BY <1>1, <1>2, <2>2
  <2>5. mute' \in BOOLEAN
    <3>1. muted \in BOOLEAN
      BY DEF Mutes, SinkInv, FlagsOK
    <3>2. mute \in BOOLEAN
      BY DEF SinkInv, FlagsOK
    <3> HIDE DEF muted
    <3>3. (mute \/ muted) \in BOOLEAN
      BY <3>1, <3>2
    <3> QED
      BY <2>1, <3>3
  <2>6. silence' \in BOOLEAN
    BY <2>1, SilenceType
  <2> HIDE DEF names, now
  <2> QED
    BY <2>1, <2>2, <2>3, <2>4, <2>5, <2>6, GetsReady
<1> QED
  BY <1>3, <1>4, <1>5

-----------------------------------------------------------------------------
(* The steps. *)

LEMMA AddTrackKeeps ==
  ASSUME SinkInv, NEW t \in Types, NEW ready \in BOOLEAN, AddTrack(t, ready)
  PROVE  SinkInv' /\ Contiguous /\ OfNamed
<1>1. /\ UNCHANGED <<enableAudio, addMute, allReady, unread, mute, announced, last, frame, resets>>
      /\ out' = NoFrames /\ silence' = FALSE /\ adds < MaxAdds /\ adds' = adds + 1
      /\ maxTracks' = IF enableAudio THEN maxTracks ELSE 1
  BY DEF AddTrack, config, history, NoneOut
<1>2. Contiguous /\ OfNamed /\ out' \in [Types -> Seq(Frames)]
  BY <1>1, DeliverNothing DEF SinkInv
<1>3. FlagsOK' /\ FramesOK'
  BY <1>1, <1>2 DEF SinkInv, FlagsOK, FramesOK
<1>4. BoundsOK'
  <2>1. age' \in {age, 0}
    BY DEF AddTrack
  <2> QED
    BY <1>1, <2>1, SinkAssumption DEF SinkInv, BoundsOK
<1>5. CachesRun' /\ LastIsBefore'
  BY <1>1 DEF SinkInv, CachesRun, LastIsBefore
<1>6. TracksOK' /\ Named' /\ ReadyHasAll'
  <2>1. CASE UNCHANGED <<tracks, pending>>
    BY <1>1, <2>1 DEF SinkInv, TracksOK, Tracked, Named, ReadyHasAll
  <2>2. CASE ~allReady /\ pending' = pending \cup {t}
             /\ tracks' = [s \in DOMAIN tracks \cup {t} |->
                            IF s = t THEN [got |-> FALSE, ready |-> ready, made |-> FALSE]
                            ELSE tracks[s]]
    <3>1. [got |-> FALSE, ready |-> ready, made |-> FALSE] \in Track
      BY DEF Track
    <3>2. DOMAIN tracks' = DOMAIN tracks \cup {t} /\ \A s \in DOMAIN tracks' : tracks'[s] \in Track
      BY <2>2, <3>1 DEF SinkInv, TracksOK, Tracked
    <3> QED
      BY <1>1, <2>2, <3>2 DEF SinkInv, TracksOK, Tracked, Named, ReadyHasAll
  <2> QED
    BY <2>1, <2>2 DEF AddTrack
<1> QED
  BY <1>2, <1>3, <1>4, <1>5, <1>6 DEF SinkInv

LEMMA ResultKeeps ==
  ASSUME SinkInv, Result, BoundsOK', UNCHANGED config
  PROVE  SinkInv' /\ Contiguous /\ OfNamed
BY DEF SinkInv, Result, FlagsOK, config

LEMMA AddTrackCompletedKeeps ==
  ASSUME SinkInv, AddTrackCompleted
  PROVE  SinkInv' /\ Contiguous /\ OfNamed
<1>1. UNCHANGED <<enableAudio, addMute, age, frame, adds, resets>> /\ maxTracks' = Cardinality(DOMAIN tracks)
  BY DEF AddTrackCompleted, config, bounds
<1>2. BoundsOK'
  <2>1. IsFiniteSet(Types) /\ Cardinality(Types) = 2
    <3>1. Types = {"video"} \cup {"audio"}
      BY DEF Types
    <3>2. IsFiniteSet({"video"}) /\ Cardinality({"video"}) = 1
      BY FS_Singleton
    <3>3. IsFiniteSet({"video"} \cup {"audio"}) /\ Cardinality({"video"} \cup {"audio"}) = 1 + 1
      BY <3>2, FS_AddElement
    <3> QED
      BY <3>1, <3>3
  <2>2. DOMAIN tracks \in SUBSET Types
    BY DEF SinkInv, TracksOK, Tracked
  <2>3. Cardinality(DOMAIN tracks) \in 0 .. 2
    BY <2>1, <2>2, FS_Subset, FS_CardinalityType
  <2> QED
    BY <1>1, <2>3 DEF SinkInv, BoundsOK
<1>3. CASE allReady
  <2>1. /\ out' = NoFrames /\ silence' = FALSE
        /\ UNCHANGED <<allReady, tracks, pending, unread, mute, announced, last>>
    BY <1>3 DEF AddTrackCompleted, NoneOut, history
  <2>2. Contiguous /\ OfNamed /\ out' \in [Types -> Seq(Frames)]
    BY <2>1, DeliverNothing DEF SinkInv
  <2>3. FlagsOK' /\ FramesOK' /\ TracksOK'
    BY <1>1, <2>1, <2>2 DEF SinkInv, FlagsOK, FramesOK, TracksOK, Tracked
  <2>4. CachesRun' /\ LastIsBefore' /\ ReadyHasAll' /\ Named'
    BY <1>1, <2>1 DEF SinkInv, CachesRun, LastIsBefore, ReadyHasAll, Named
  <2> QED
    BY <1>2, <2>2, <2>3, <2>4 DEF SinkInv
<1>4. CASE ~allReady
  <2>1. CheckTrackIfReady(tracks, unread, {}, maxTracks')
    BY <1>4 DEF AddTrackCompleted
  <2>2. /\ Tracked(tracks) /\ unread \in [Types -> Seq(Frames)] /\ frame' \in [Types -> Frames]
        /\ \A t \in Types : Run(unread[t], frame'[t]) /\ Len(unread[t]) <= MaxUnready + 1
    BY <1>1 DEF SinkInv, TracksOK, FramesOK, CachesRun
  <2>3. Result
    BY <1>4, <2>1, <2>2, CheckKeeps
  <2> QED
    BY <1>1, <1>2, <2>3, ResultKeeps DEF config
<1> QED
  BY <1>3, <1>4

LEMMA InputFrameKeeps ==
  ASSUME SinkInv, NEW t \in Types, InputFrame(t)
  PROVE  SinkInv' /\ Contiguous /\ OfNamed
<1>1. /\ t \in DOMAIN tracks /\ UNCHANGED <<enableAudio, addMute, maxTracks, age, adds, resets>>
      /\ frame' = [frame EXCEPT ![t] = Succ(@)]
  BY DEF InputFrame, config, bounds
<1>2. BoundsOK'
  BY <1>1 DEF SinkInv, BoundsOK
<1>3. /\ frame' \in [Types -> Frames] /\ frame[t] \in Frames /\ frame'[t] = Succ(frame[t])
      /\ \A s \in Types \ {t} : frame'[s] = frame[s]
  BY <1>1, Spans DEF SinkInv, FramesOK
<1> DEFINE anew(r) == [tracks EXCEPT ![t] = [@ EXCEPT !.got = TRUE, !.ready = r]]
<1>4. PICK r \in {tracks[t].ready, TRUE} :
        IF allReady
        THEN /\ tracks' = anew(r)
             /\ Deliver([NoFrames EXCEPT ![t] = <<frame[t]>>])
             /\ MayBeSilence({t}, mute)
             /\ UNCHANGED <<allReady, pending, unread, mute, announced>>
        ELSE CheckTrackIfReady(anew(r), CacheFrame(t), {t}, maxTracks)
  BY DEF InputFrame
<1> DEFINE ts == anew(r)
<1>5. DOMAIN ts = DOMAIN tracks /\ Tracked(ts)
  <2>1. \A s \in DOMAIN tracks : tracks[s] \in Track
    BY DEF SinkInv, TracksOK, Tracked
  <2>2. [tracks[t] EXCEPT !.got = TRUE, !.ready = r] \in Track
    BY <1>1, <1>4, <2>1 DEF Track
  <2>3. \A s \in DOMAIN tracks : ts[s] \in Track
    BY <2>1, <2>2
  <2> QED
    BY <2>3 DEF SinkInv, TracksOK, Tracked
<1> HIDE DEF ts
<1>6. CASE allReady
  <2> DEFINE fs == [NoFrames EXCEPT ![t] = <<frame[t]>>]
  <2>1. /\ fs \in [Types -> Seq(Frames)] /\ fs[t] = <<frame[t]>>
        /\ \A s \in Types \ {t} : fs[s] = <<>>
    BY <1>3, EmptyRuns
  <2>2. /\ tracks' = ts /\ Deliver(fs) /\ MayBeSilence({t}, mute)
        /\ UNCHANGED <<allReady, pending, unread, mute, announced>>
    BY <1>4, <1>6 DEF ts
  <2> HIDE DEF fs
  <2>3. \A s \in Types : last[s] # None => Succ(last[s]) = frame[s]
    BY DEF SinkInv, LastIsBefore
  <2>4. /\ out' = fs /\ last' \in [Types -> Frames \cup {None}] /\ Contiguous
        /\ \A s \in Types : last'[s] = IF fs[s] = <<>> THEN last[s] ELSE fs[s][Len(fs[s])]
    <3>1. \A s \in Types : \A i \in 1 .. Len(fs[s]) - 1 : fs[s][i + 1] = Succ(fs[s][i])
      BY <2>1
    <3>2. \A s \in Types : fs[s] # <<>> /\ last[s] # None => fs[s][1] = Succ(last[s])
      BY <2>1, <2>3
    <3> QED
      BY <2>1, <2>2, <3>1, <3>2, DeliverRuns DEF SinkInv
  <2>5. last'[t] = frame[t] /\ \A s \in Types \ {t} : last'[s] = last[s]
    <3>1. <<frame[t]>> # <<>> /\ Len(<<frame[t]>>) = 1 /\ <<frame[t]>>[1] = frame[t]
      OBVIOUS
    <3>2. last'[t] = fs[t][Len(fs[t])]
      BY <2>1, <2>4, <3>1
    <3> QED
      BY <2>1, <2>4, <3>1, <3>2
  <2>6. t \in announced
    BY <1>1, <1>6 DEF SinkInv, ReadyHasAll, Named
  <2>7. OfNamed
    BY <2>1, <2>2, <2>4, <2>6 DEF OfNamed
  <2>8. FlagsOK'
    BY <1>1, <2>2, SilenceType DEF SinkInv, FlagsOK
  <2>9. FramesOK' /\ TracksOK' /\ Named'
    BY <1>3, <1>5, <2>1, <2>2, <2>4 DEF SinkInv, FramesOK, TracksOK, Tracked, Named
  <2>10. LastIsBefore'
    BY <1>3, <1>6, <2>2, <2>3, <2>5 DEF LastIsBefore
  <2>11. ReadyHasAll' /\ unread' = NoFrames
    BY <1>6, <2>2 DEF SinkInv, ReadyHasAll
  <2>12. CachesRun'
    BY <2>11, EmptyRuns DEF CachesRun
  <2> QED
    BY <1>2, <2>4, <2>7, <2>8, <2>9, <2>10, <2>11, <2>12 DEF SinkInv
<1>7. CASE ~allReady
  <2> DEFINE n == IF Len(unread[t]) > MaxUnready THEN <<frame[t]>> ELSE Append(unread[t], frame[t])
  <2>1. Run(n, frame'[t]) /\ Len(n) <= MaxUnready + 1 /\ n \in Seq(Frames)
    <3>1. Run(unread[t], frame[t]) /\ Len(unread[t]) <= MaxUnready + 1
      BY DEF SinkInv, CachesRun
    <3> HIDE DEF n
    <3>2. n = IF Len(unread[t]) > MaxUnready THEN <<frame[t]>> ELSE Append(unread[t], frame[t])
      BY DEF n
    <3>3. Run(n, Succ(frame[t])) /\ Len(n) <= MaxUnready + 1
      BY <1>3, <3>1, <3>2, CacheRuns
    <3> QED
      BY <1>3, <3>3 DEF Run
  <2>2. CacheFrame(t) = [unread EXCEPT ![t] = n]
    BY DEF CacheFrame
  <2> HIDE DEF n
  <2>3. /\ CacheFrame(t) \in [Types -> Seq(Frames)] /\ CacheFrame(t)[t] = n
        /\ \A s \in Types \ {t} : CacheFrame(t)[s] = unread[s]
    BY <2>1, <2>2 DEF SinkInv, FramesOK
  <2>4. \A s \in Types : Run(CacheFrame(t)[s], frame'[s]) /\ Len(CacheFrame(t)[s]) <= MaxUnready + 1
    <3> SUFFICES ASSUME NEW s \in Types
                 PROVE  Run(CacheFrame(t)[s], frame'[s]) /\ Len(CacheFrame(t)[s]) <= MaxUnready + 1
      OBVIOUS
    <3>1. CASE s = t
      BY <2>1, <2>3, <3>1
    <3>2. CASE s # t
      BY <1>3, <2>3, <3>2 DEF SinkInv, CachesRun
    <3> QED
      BY <3>1, <3>2
  <2>5. CheckTrackIfReady(ts, CacheFrame(t), {t}, maxTracks)
    BY <1>4, <1>7 DEF ts
  <2>6. Result
    BY <1>3, <1>5, <1>7, <2>3, <2>4, <2>5, CheckKeeps
  <2> QED
    BY <1>1, <1>2, <2>6, ResultKeeps DEF config
<1> QED
  BY <1>6, <1>7

LEMMA ResetTracksKeeps ==
  ASSUME SinkInv, ResetTracks
  PROVE  SinkInv' /\ Contiguous /\ OfNamed
<1>1. /\ UNCHANGED <<enableAudio, addMute, mute, frame, adds>> /\ resets' = resets + 1 /\ resets < MaxResets
      /\ allReady' = FALSE /\ tracks' = <<>> /\ pending' = {} /\ age' = 0 /\ maxTracks' = 2
      /\ unread' = NoFrames /\ announced' = {} /\ last' = [t \in Types |-> None]
      /\ out' = NoFrames /\ silence' = FALSE
  BY DEF ResetTracks, MuxersReset, NoneOut, config
<1>2. Contiguous /\ OfNamed /\ out' \in [Types -> Seq(Frames)]
  BY <1>1, DeliverNothing DEF SinkInv
<1>3. Tracked(<<>>) /\ DOMAIN <<>> = {}
  BY DEF Tracked
<1>4. FlagsOK' /\ BoundsOK' /\ TracksOK' /\ Named' /\ ReadyHasAll'
  <2>1. FlagsOK'
    BY <1>1, <1>3 DEF SinkInv, FlagsOK
  <2>2. BoundsOK'
    BY <1>1, <1>3, SinkAssumption DEF SinkInv, BoundsOK
  <2>3. TracksOK' /\ Named' /\ ReadyHasAll'
    BY <1>1, <1>3 DEF SinkInv, TracksOK, Named, ReadyHasAll
  <2> QED
    BY <2>1, <2>2, <2>3
<1>5. FramesOK' /\ CachesRun' /\ LastIsBefore'
  BY <1>1, <1>2, EmptyRuns DEF SinkInv, FramesOK, CachesRun, LastIsBefore
<1> QED
  BY <1>2, <1>4, <1>5 DEF SinkInv

LEMMA TickKeeps ==
  ASSUME SinkInv, Tick
  PROVE  SinkInv' /\ Contiguous /\ OfNamed
<1>1. /\ UNCHANGED <<enableAudio, addMute, allReady, maxTracks, tracks, pending, unread, mute,
                     announced, last, frame, adds, resets>>
      /\ age < 2 /\ age' = age + 1 /\ out' = NoFrames /\ silence' = FALSE
  BY DEF Tick, NoneOut, config, sink, history, bounds
<1>2. Contiguous /\ OfNamed /\ out' \in [Types -> Seq(Frames)]
  BY <1>1, DeliverNothing DEF SinkInv
<1>3. FlagsOK' /\ BoundsOK' /\ TracksOK' /\ Named' /\ ReadyHasAll'
  <2>1. FlagsOK'
    BY <1>1 DEF SinkInv, FlagsOK
  <2>2. BoundsOK'
    BY <1>1 DEF SinkInv, BoundsOK
  <2>3. TracksOK' /\ Named' /\ ReadyHasAll'
    BY <1>1 DEF SinkInv, TracksOK, Tracked, Named, ReadyHasAll
  <2> QED
    BY <2>1, <2>2, <2>3
<1>4. FramesOK' /\ CachesRun' /\ LastIsBefore'
  BY <1>1, <1>2 DEF SinkInv, FramesOK, CachesRun, LastIsBefore
<1> QED
  BY <1>2, <1>3, <1>4 DEF SinkInv

LEMMA SinkStep ==
  ASSUME SinkInv, SinkNext
  PROVE  SinkInv' /\ Contiguous /\ OfNamed
BY AddTrackKeeps, AddTrackCompletedKeeps, InputFrameKeeps, ResetTracksKeeps, TickKeeps DEF SinkNext

LEMMA SinkStart == ASSUME SinkInit PROVE SinkInv
<1>1. /\ enableAudio \in BOOLEAN /\ addMute \in BOOLEAN /\ allReady = FALSE /\ maxTracks = 2
      /\ tracks = <<>> /\ pending = {} /\ age = 0 /\ unread = NoFrames /\ mute = FALSE
      /\ announced = {} /\ out = NoFrames /\ silence = FALSE /\ frame = [t \in Types |-> 0]
      /\ last = [t \in Types |-> None] /\ adds = 0 /\ resets = 0
  BY SinkAssumption DEF SinkInit
<1>2. Tracked(<<>>) /\ DOMAIN <<>> = {}
  BY DEF Tracked
<1>3. FlagsOK /\ BoundsOK /\ TracksOK /\ Named /\ ReadyHasAll
  <2>1. FlagsOK
    BY <1>1, <1>2 DEF FlagsOK
  <2>2. BoundsOK
    BY <1>1, <1>2, SinkAssumption DEF BoundsOK
  <2>3. TracksOK /\ Named /\ ReadyHasAll
    BY <1>1, <1>2 DEF TracksOK, Named, ReadyHasAll
  <2> QED
    BY <2>1, <2>2, <2>3
<1>4. FramesOK /\ CachesRun /\ LastIsBefore
  BY <1>1, EmptyRuns, Spans DEF FramesOK, CachesRun, LastIsBefore
<1> QED
  BY <1>3, <1>4 DEF SinkInv

LEMMA SinkInvariance == SinkSpec => []SinkInv
<1>1. SinkInv /\ UNCHANGED sinkVars => SinkInv'
  <2> SUFFICES ASSUME SinkInv, UNCHANGED sinkVars PROVE SinkInv'
    OBVIOUS
  <2>1. UNCHANGED <<enableAudio, addMute, allReady, maxTracks, tracks, pending, unread, mute, age,
                    announced, last, out, silence, frame, adds, resets>>
    BY DEF sinkVars, config, sink, history, bounds
  <2>2. FlagsOK' /\ BoundsOK' /\ FramesOK' /\ TracksOK'
    BY <2>1 DEF SinkInv, FlagsOK, BoundsOK, FramesOK, TracksOK, Tracked
  <2>3. CachesRun' /\ LastIsBefore' /\ ReadyHasAll' /\ Named'
    BY <2>1 DEF SinkInv, CachesRun, LastIsBefore, ReadyHasAll, Named
  <2> QED
    BY <2>2, <2>3 DEF SinkInv
<1>2. SinkInit => SinkInv
  BY SinkStart
<1>3. SinkInv /\ [SinkNext]_sinkVars => SinkInv'
  BY <1>1, SinkStep
<1> QED
  BY <1>2, <1>3, PTL DEF SinkSpec

\* The types of what the sink keeps: no cache is longer than its limit.
THEOREM SinkTypeCorrect == SinkSpec => []SinkTypeOK
<1>1. SinkInv => SinkTypeOK
  <2> SUFFICES ASSUME SinkInv PROVE SinkTypeOK
    OBVIOUS
  <2>1. Range(tracks) \subseteq Track
    BY DEF SinkInv, TracksOK, Tracked, Range
  <2>2. \A t \in Types : unread[t] \in Seq(Frames) /\ Len(unread[t]) <= MaxUnready + 1
    BY DEF SinkInv, FramesOK, CachesRun
  <2> QED
    BY <2>1, <2>2 DEF SinkInv, SinkTypeOK, FlagsOK, BoundsOK, FramesOK, TracksOK, Tracked
<1> QED
  BY <1>1, SinkInvariance, PTL

\* The muxers get no frame of a track they have not been given.
THEOREM SinkNamesFirst == SinkSpec => NamedFirst
<1>1. SinkInv /\ SinkNext => OfNamed
  BY SinkStep
<1> QED
  BY <1>1, SinkInvariance, PTL DEF SinkSpec, NamedFirst, OfNamed

\* The muxers get the frames of a track without a hole and without a repeat,
\* wherever they waited.
THEOREM SinkLosesNothing == SinkSpec => FramesContiguous
<1>1. SinkInv /\ SinkNext => Contiguous
  BY SinkStep
<1> QED
  BY <1>1, SinkInvariance, PTL DEF SinkSpec, FramesContiguous, Contiguous
-----------------------------------------------------------------------------
(***************************************************************************)
(* Of a recorder that any player plays, for any number of segments,        *)
(* retained ones and recorders: what the folder holds, what the index      *)
(* names, and what the player fetches.                                     *)
(***************************************************************************)

\* How many segments a list shows when n have been closed.
Shown(n) == IF n > SegNumber THEN SegNumber ELSE n

\* A list that ends with segment newest and leaves none out.
RunUpTo(list, newest) == \A i \in 1..Len(list) : list[i] = newest - Len(list) + i

\* The segment under way is the last one made; a recorder that is gone has
\* nothing; tasks that delete the folder are of earlier recorders.
Numbers ==
  /\ maker.fileIndex <= made
  /\ maker.open # 0 => maker.open = made /\ maker.fileIndex > 0
  /\ ~alive => maker = NewMaker /\ ~inMemory
  /\ deletions <= gen /\ (alive => deletions < gen)

\* The maker's list is of the latest closed segments.
Lists ==
  /\ maker.open = 0 => /\ Len(maker.segs) = Shown(maker.fileIndex)
                       /\ RunUpTo(maker.segs, made)
  /\ maker.open # 0 => /\ Len(maker.segs) = Shown(maker.fileIndex - 1)
                       /\ RunUpTo(maker.segs, made - 1)

MakerInv ==
  /\ HlsMakerTypeOK
  /\ Numbers
  /\ Lists
  /\ FolderIsWindow
  /\ SequenceNamesFirst

-----------------------------------------------------------------------------
\* The list that is written when a segment is closed.
LEMMA ListedRun ==
  ASSUME MakerInv, maker.open # 0
  PROVE  /\ Listed \in Seq(Segments)
         /\ Len(Listed) = Shown(maker.fileIndex)
         /\ RunUpTo(Listed, made)
         /\ Len(Listed) \in 1..SegNumber
<1> DEFINE all == Append(maker.segs, maker.open)
           len == Len(maker.segs)
<1>1. /\ maker.segs \in Seq(Segments) /\ maker.open \in Segments
      /\ maker.fileIndex \in Nat /\ maker.fileIndex > 0
      /\ made \in Nat /\ maker.open = made
  BY DEF MakerInv, HlsMakerTypeOK, Numbers, Segments
<1>2. /\ len \in Nat /\ len = Shown(maker.fileIndex - 1)
      /\ \A i \in 1..len : maker.segs[i] = made - 1 - len + i
  <2>1. len \in Nat
    BY <1>1
  <2>2. len = Shown(maker.fileIndex - 1) /\ RunUpTo(maker.segs, made - 1)
    BY DEF MakerInv, Lists
  <2> QED
    BY <2>1, <2>2 DEF RunUpTo
<1>n. SegNumber \in Nat /\ SegNumber > 0
  BY HlsAssumption
<1> HIDE DEF len
<1>3. /\ all \in Seq(Segments) /\ Len(all) = len + 1
      /\ \A i \in 1..len : all[i] = maker.segs[i]
      /\ all[len + 1] = made
  BY <1>1, <1>2 DEF len
<1> HIDE DEF all
<1>4. \A i \in 1..len + 1 : all[i] = made - (len + 1) + i
  <2> TAKE i \in 1..len + 1
  <2>1. CASE i \in 1..len
    BY <1>1, <1>2, <1>3, <2>1
  <2>2. CASE i = len + 1
    BY <1>1, <1>2, <1>3, <2>2
  <2> QED
    BY <1>2, <2>1, <2>2
<1>5. CASE maker.fileIndex > SegNumber
  <2>1. Listed = Tail(all)
    BY <1>5 DEF Listed, all
  <2>4. len = SegNumber
    BY <1>1, <1>2, <1>n, <1>5 DEF Shown
  <2>2. /\ Tail(all) \in Seq(Segments) /\ Len(Tail(all)) = SegNumber
        /\ \A i \in 1..SegNumber : Tail(all)[i] = all[i + 1]
    BY <1>3, <1>n, <2>4
  <2>3. \A i \in 1..SegNumber : Tail(all)[i] = made - SegNumber + i
    BY <1>1, <1>4, <1>n, <2>4, <2>2
  <2> QED
    BY <1>n, <1>5, <2>1, <2>2, <2>3 DEF Shown, RunUpTo
<1>6. CASE ~(maker.fileIndex > SegNumber)
  <2>1. Listed = all
    BY <1>6 DEF Listed, all
  <2>2. len + 1 = maker.fileIndex
    BY <1>1, <1>2, <1>n, <1>6 DEF Shown
  <2> QED
    BY <1>1, <1>3, <1>4, <1>n, <1>6, <2>1, <2>2 DEF Shown, RunUpTo
<1> QED
  BY <1>5, <1>6

-----------------------------------------------------------------------------
(* What the steps of the recorder leave.  In each of them the numbers and the *)
(* lists are plain arithmetic; the folder is compared segment by segment.     *)

\* The bounds of the numbers.
LEMMA Bounds ==
  ASSUME MakerInv
  PROVE  /\ SegNumber \in Nat /\ SegNumber > 0 /\ SegRetain \in Nat
         /\ made \in Nat /\ made <= MaxSegs /\ MaxSegs \in Nat
         /\ maker.fileIndex \in Nat /\ maker.fileIndex <= made
         /\ maker.open # 0 => maker.open = made /\ maker.fileIndex > 0
  BY HlsAssumption DEF MakerInv, HlsMakerTypeOK, Numbers

\* What a closed segment leaves to see: the folder as it should be once the
\* segment counts as closed, and an index that begins with its number.
LEMMA Closed ==
  ASSUME MakerInv, alive, maker.open # 0, NEW eof \in BOOLEAN
  PROVE  /\ Flushed(eof).segs = Listed
         /\ Flushed(eof).index = [seq |-> IndexOf(Listed, eof).seq, segs |-> Listed, eof |-> eof]
         /\ Flushed(eof).inFile = TRUE /\ Flushed(eof).inMemory = TRUE
         /\ Flushed(eof).registered = TRUE
         /\ IndexOf(Listed, eof).seq \in 0..MaxSegs
         /\ Segment(IndexOf(Listed, eof).seq) = Listed[1]
         /\ Flushed(eof).disk \subseteq disk
         /\ \A s \in Segments :
              LET left == /\ s > made - maker.fileIndex /\ s <= made
                          /\ s >= made - SegNumber - SegRetain + 1
              IN  /\ s \in Flushed(eof).disk => left
                  /\ left /\ ~struck => s \in Flushed(eof).disk
<1>1. Flushed(eof) = [segs |-> Listed, disk |-> disk \ OldSegments, index |-> IndexOf(Listed, eof),
                      inFile |-> TRUE, inMemory |-> TRUE, registered |-> TRUE]
  BY DEF Flushed
<1>2. /\ Flushed(eof).segs = Listed /\ Flushed(eof).index = IndexOf(Listed, eof)
      /\ Flushed(eof).inFile = TRUE /\ Flushed(eof).inMemory = TRUE
      /\ Flushed(eof).registered = TRUE
      /\ Flushed(eof).disk = disk \ OldSegments
  BY <1>1
<1>3. IndexOf(Listed, eof) = [seq |-> IndexOf(Listed, eof).seq, segs |-> Listed, eof |-> eof]
  BY DEF IndexOf
<1>4. /\ IndexOf(Listed, eof).seq \in 0..MaxSegs
      /\ Segment(IndexOf(Listed, eof).seq) = Listed[1]
  <2>1. IndexOf(Listed, eof).seq =
          IF maker.fileIndex > SegNumber THEN maker.fileIndex - SegNumber ELSE 0
    BY DEF IndexOf
  <2>2. Listed[1] = made - Shown(maker.fileIndex) + 1
    BY Bounds, ListedRun DEF RunUpTo
  <2> QED
    BY <2>1, <2>2, Bounds DEF Segment, Shown
<1>5. \A s \in Segments : s \in disk =>
        /\ s > made - maker.fileIndex /\ s <= made
        /\ s >= made - SegNumber - SegRetain
  BY Bounds DEF MakerInv, FolderIsWindow, Window
<1>6. \A s \in Segments :
        /\ ~struck /\ s > made - maker.fileIndex /\ s <= made
        /\ s >= made - SegNumber - SegRetain
        => s \in disk
  BY Bounds DEF MakerInv, FolderIsWindow, Window
<1>7. \A s \in Segments : s \in OldSegments <=>
        maker.fileIndex > SegNumber + SegRetain /\ s = made - SegNumber - SegRetain
  BY Bounds DEF OldSegments, Segment
<1>8. \A s \in Segments : s \in Nat
  BY DEF Segments
<1> QED
  BY <1>2, <1>3, <1>4, <1>5, <1>6, <1>7, <1>8, Bounds

\* The same, whether or not a segment was open: what is left is of type, the
\* list is of the latest closed segments, the index agrees with itself.
LEMMA Left ==
  ASSUME MakerInv, alive, NEW eof \in BOOLEAN
  PROVE  LET f == Flushed(eof) IN
         /\ f.segs \in Seq(Segments) /\ f.disk \subseteq Segments
         /\ f.index \in [seq : 0..MaxSegs, segs : Seq(Segments), eof : BOOLEAN]
         /\ f.inFile \in BOOLEAN /\ f.inMemory \in BOOLEAN /\ f.registered \in BOOLEAN
         /\ Len(f.segs) = Shown(maker.fileIndex) /\ RunUpTo(f.segs, made)
         /\ f.inMemory => /\ Len(f.index.segs) \in 1..SegNumber
                          /\ f.index.segs[1] = Segment(f.index.seq)
                          /\ \A i \in 2..Len(f.index.segs) :
                               f.index.segs[i] = f.index.segs[i - 1] + 1
         /\ \A s \in Segments :
              LET left == /\ s > made - maker.fileIndex /\ s <= made
                          /\ s >= made - SegNumber - SegRetain + 1
              IN  /\ s \in f.disk => left
                  /\ left /\ ~struck => s \in f.disk
<1> DEFINE f == Flushed(eof)
<1>1. CASE maker.open = 0
  <2>1. /\ f.segs = maker.segs /\ f.disk = disk /\ f.index = index
        /\ f.inFile = inFile /\ f.inMemory = inMemory /\ f.registered = src.registered
    BY <1>1 DEF Flushed
  <2>2. /\ maker.segs \in Seq(Segments) /\ disk \subseteq Segments
        /\ index \in [seq : 0..MaxSegs, segs : Seq(Segments), eof : BOOLEAN]
        /\ inFile \in BOOLEAN /\ inMemory \in BOOLEAN /\ src.registered \in BOOLEAN
    BY DEF MakerInv, HlsMakerTypeOK
  <2>3. Len(maker.segs) = Shown(maker.fileIndex) /\ RunUpTo(maker.segs, made)
    BY <1>1 DEF MakerInv, Lists
  <2>4. inMemory => /\ Len(index.segs) \in 1..SegNumber
                    /\ index.segs[1] = Segment(index.seq)
                    /\ \A i \in 2..Len(index.segs) : index.segs[i] = index.segs[i - 1] + 1
    BY DEF MakerInv, SequenceNamesFirst
  <2>5. \A s \in Segments :
          LET left == /\ s > made - maker.fileIndex /\ s <= made
                      /\ s >= made - SegNumber - SegRetain + 1
          IN  /\ s \in disk => left
              /\ left /\ ~struck => s \in disk
    BY <1>1, Bounds DEF MakerInv, FolderIsWindow, Window
  <2> QED
    BY <2>1, <2>2, <2>3, <2>4, <2>5
<1>2. CASE maker.open # 0
  <2>5. /\ f.segs = Listed
        /\ f.index = [seq |-> IndexOf(Listed, eof).seq, segs |-> Listed, eof |-> eof]
        /\ f.inFile = TRUE /\ f.inMemory = TRUE /\ f.registered = TRUE
        /\ IndexOf(Listed, eof).seq \in 0..MaxSegs
        /\ f.disk \subseteq disk
    BY <1>2, Closed
  <2>6. /\ Listed \in Seq(Segments) /\ Len(Listed) = Shown(maker.fileIndex)
        /\ RunUpTo(Listed, made)
    BY <1>2, ListedRun
  <2>1. /\ f.segs \in Seq(Segments) /\ Len(f.segs) = Shown(maker.fileIndex) /\ RunUpTo(f.segs, made)
        /\ f.index.segs = Listed /\ f.index.seq = IndexOf(Listed, eof).seq
    BY <2>5, <2>6
  <2>2. /\ f.disk \subseteq Segments
        /\ f.index \in [seq : 0..MaxSegs, segs : Seq(Segments), eof : BOOLEAN]
        /\ f.inFile \in BOOLEAN /\ f.inMemory \in BOOLEAN /\ f.registered \in BOOLEAN
    <3>1. disk \subseteq Segments
      BY DEF MakerInv, HlsMakerTypeOK
    <3>2. f.index \in [seq : 0..MaxSegs, segs : Seq(Segments), eof : BOOLEAN]
      <4> HIDE DEF f
      <4> QED
        BY <2>5, <2>6
    <3> QED
      BY <2>5, <3>1, <3>2
  <2>3. /\ Len(Listed) \in 1..SegNumber /\ Listed[1] = Segment(IndexOf(Listed, eof).seq)
    BY <1>2, Closed, ListedRun
  <2>4. \A i \in 2..Len(Listed) : Listed[i] = Listed[i - 1] + 1
    <3> TAKE i \in 2..Len(Listed)
    <3>1. Len(Listed) \in Nat /\ made \in Nat /\ i \in 1..Len(Listed) /\ i - 1 \in 1..Len(Listed)
      BY <1>2, ListedRun, Bounds
    <3>2. Listed[i] = made - Len(Listed) + i /\ Listed[i - 1] = made - Len(Listed) + (i - 1)
      BY <1>2, ListedRun, <3>1 DEF RunUpTo
    <3> QED
      BY <3>1, <3>2
  <2> QED
    BY <1>2, Closed, <2>1, <2>2, <2>3, <2>4
<1> QED
  BY <1>1, <1>2

LEMMA NewSegmentInv == ASSUME MakerInv, NewSegment PROVE MakerInv'
<1> DEFINE f == Flushed(FALSE)
<1>1. /\ alive /\ made < MaxSegs /\ made' = made + 1
      /\ maker' = [maker EXCEPT !.segs = f.segs, !.open = made + 1, !.fileIndex = @ + 1]
      /\ disk' = f.disk \cup {made + 1}
      /\ index' = f.index /\ inFile' = f.inFile /\ inMemory' = f.inMemory
      /\ src' = [src EXCEPT !.registered = f.registered]
      /\ gen' = gen /\ alive' = alive /\ deletions' = deletions /\ struck' = struck
  BY DEF NewSegment, Working, Keep, Flushed
<1>2. HlsMakerTypeOK /\ Numbers
  BY DEF MakerInv
<1>3. /\ f.segs \in Seq(Segments) /\ f.disk \subseteq Segments
      /\ f.index \in [seq : 0..MaxSegs, segs : Seq(Segments), eof : BOOLEAN]
      /\ f.inFile \in BOOLEAN /\ f.inMemory \in BOOLEAN /\ f.registered \in BOOLEAN
      /\ Len(f.segs) = Shown(maker.fileIndex) /\ RunUpTo(f.segs, made)
      /\ f.inMemory => /\ Len(f.index.segs) \in 1..SegNumber
                       /\ f.index.segs[1] = Segment(f.index.seq)
                       /\ \A i \in 2..Len(f.index.segs) :
                            f.index.segs[i] = f.index.segs[i - 1] + 1
      /\ \A s \in Segments :
           LET left == /\ s > made - maker.fileIndex /\ s <= made
                       /\ s >= made - SegNumber - SegRetain + 1
           IN  /\ s \in f.disk => left
               /\ left /\ ~struck => s \in f.disk
  BY <1>1, Left
<1> HIDE DEF f
<1>4. /\ maker'.segs = f.segs /\ maker'.open = made + 1
      /\ maker'.fileIndex = maker.fileIndex + 1
      /\ maker'.enabled = maker.enabled /\ maker'.clearing = maker.clearing
  BY <1>1, <1>2 DEF HlsMakerTypeOK
<1>5. HlsMakerTypeOK'
  <2>1. maker' \in [fileIndex : 0..MaxSegs, open : 0..MaxSegs, segs : Seq(Segments),
                    enabled : BOOLEAN, clearing : BOOLEAN]
    <3>1. maker \in [fileIndex : 0..MaxSegs, open : 0..MaxSegs, segs : Seq(Segments),
                     enabled : BOOLEAN, clearing : BOOLEAN]
      BY <1>2 DEF HlsMakerTypeOK
    <3>2. made + 1 \in 0..MaxSegs /\ maker.fileIndex + 1 \in 0..MaxSegs
      BY <1>1, Bounds
    <3> QED
      BY <1>1, <1>3, <3>1, <3>2
  <2>2. disk' \subseteq Segments /\ made' \in 0..MaxSegs
    BY <1>1, <1>3, Bounds DEF Segments
  <2>3. src' \in [registered : BOOLEAN, counted : BOOLEAN]
    BY <1>1, <1>2, <1>3 DEF HlsMakerTypeOK
  <2> QED
    BY <1>1, <1>2, <1>3, <2>1, <2>2, <2>3 DEF HlsMakerTypeOK, Segments
<1>6. Numbers'
  BY <1>1, <1>2, <1>4, Bounds DEF Numbers
<1>7. Lists'
  BY <1>1, <1>3, <1>4, Bounds DEF Lists
<1>8. FolderIsWindow'
  <2>1. \A s \in Segments : s \in Window' <=>
          /\ s > made - maker.fileIndex /\ s <= made + 1
          /\ s >= made - SegNumber - SegRetain + 1
    BY <1>1, <1>4, Bounds DEF Window, Segments
  <2>2. \A s \in Segments : s = made + 1 => s \in Window'
    BY <2>1, Bounds
  <2>3. disk' \subseteq Segments /\ Window' \subseteq Segments
    BY <1>5 DEF HlsMakerTypeOK, Window
  <2>4. \A s \in Segments : s \in disk' => s \in Window'
    BY <1>1, <1>3, <2>1, <2>2, Bounds DEF Segments
  <2>5. ~struck => \A s \in Segments : s \in Window' => s \in disk'
    BY <1>1, <1>3, <2>1, Bounds DEF Segments
  <2>6. disk' \subseteq Window'
    BY <2>3, <2>4
  <2>7. ~struck => disk' = Window'
    BY <2>3, <2>5, <2>6
  <2> QED
    BY <1>1, <2>6, <2>7 DEF FolderIsWindow
<1>9. SequenceNamesFirst'
  <2>1. Segment(index.seq)' = made - maker.fileIndex + f.index.seq + 1
    <3>1. f.index.seq \in Nat
      BY <1>3, Bounds
    <3>2. Segment(index.seq)' = made' - maker'.fileIndex + index'.seq + 1
      BY DEF Segment
    <3> QED
      BY <1>1, <1>4, <3>1, <3>2, Bounds
  <2>2. Segment(f.index.seq) = made - maker.fileIndex + f.index.seq + 1
    BY DEF Segment
  <2> QED
    BY <1>1, <1>3, <2>1, <2>2 DEF SequenceNamesFirst
<1> QED
  BY <1>5, <1>6, <1>7, <1>8, <1>9 DEF MakerInv

LEMMA EndSegmentInv == ASSUME MakerInv, EndSegment PROVE MakerInv'
<1> DEFINE f == Flushed(FALSE)
<1>1. /\ alive /\ made' = made
      /\ maker' = [maker EXCEPT !.segs = f.segs, !.open = 0]
      /\ disk' = f.disk /\ index' = f.index /\ inFile' = f.inFile /\ inMemory' = f.inMemory
      /\ src' = [src EXCEPT !.registered = f.registered]
      /\ gen' = gen /\ alive' = alive /\ deletions' = deletions /\ struck' = struck
  BY DEF EndSegment, Keep
<1>2. HlsMakerTypeOK /\ Numbers
  BY DEF MakerInv
<1>3. /\ f.segs \in Seq(Segments) /\ f.disk \subseteq Segments
      /\ f.index \in [seq : 0..MaxSegs, segs : Seq(Segments), eof : BOOLEAN]
      /\ f.inFile \in BOOLEAN /\ f.inMemory \in BOOLEAN /\ f.registered \in BOOLEAN
      /\ Len(f.segs) = Shown(maker.fileIndex) /\ RunUpTo(f.segs, made)
      /\ f.inMemory => /\ Len(f.index.segs) \in 1..SegNumber
                       /\ f.index.segs[1] = Segment(f.index.seq)
                       /\ \A i \in 2..Len(f.index.segs) :
                            f.index.segs[i] = f.index.segs[i - 1] + 1
      /\ \A s \in Segments :
           LET left == /\ s > made - maker.fileIndex /\ s <= made
                       /\ s >= made - SegNumber - SegRetain + 1
           IN  /\ s \in f.disk => left
               /\ left /\ ~struck => s \in f.disk
  BY <1>1, Left
<1> HIDE DEF f
<1>4. /\ maker'.segs = f.segs /\ maker'.open = 0 /\ maker'.fileIndex = maker.fileIndex
  BY <1>1, <1>2 DEF HlsMakerTypeOK
<1>5. HlsMakerTypeOK'
  <2>1. maker' \in [fileIndex : 0..MaxSegs, open : 0..MaxSegs, segs : Seq(Segments),
                    enabled : BOOLEAN, clearing : BOOLEAN]
    <3>1. maker \in [fileIndex : 0..MaxSegs, open : 0..MaxSegs, segs : Seq(Segments),
                     enabled : BOOLEAN, clearing : BOOLEAN]
      BY <1>2 DEF HlsMakerTypeOK
    <3>2. 0 \in 0..MaxSegs
      BY Bounds
    <3> QED
      BY <1>1, <1>3, <3>1, <3>2
  <2>3. src' \in [registered : BOOLEAN, counted : BOOLEAN]
    BY <1>1, <1>2, <1>3 DEF HlsMakerTypeOK
  <2> QED
    BY <1>1, <1>2, <1>3, <2>1, <2>3 DEF HlsMakerTypeOK, Segments
<1>6. Numbers'
  BY <1>1, <1>2, <1>4, Bounds DEF Numbers
<1>7. Lists'
  BY <1>1, <1>3, <1>4, Bounds DEF Lists
<1>8. FolderIsWindow'
  <2>1. \A s \in Segments : s \in Window' <=>
          /\ s > made - maker.fileIndex /\ s <= made
          /\ s >= made - SegNumber - SegRetain + 1
    BY <1>1, <1>4, Bounds DEF Window, Segments
  <2>2. disk' \subseteq Segments /\ Window' \subseteq Segments
    BY <1>5 DEF HlsMakerTypeOK, Window
  <2>3. disk' \subseteq Window'
    BY <1>1, <1>3, <2>1, <2>2
  <2>4. ~struck => disk' = Window'
    BY <1>1, <1>3, <2>1, <2>2, <2>3
  <2> QED
    BY <1>1, <2>3, <2>4 DEF FolderIsWindow
<1>9. SequenceNamesFirst'
  <2>1. Segment(index.seq)' = Segment(f.index.seq)
    BY <1>1, <1>4 DEF Segment
  <2> QED
    BY <1>1, <1>3, <2>1 DEF SequenceNamesFirst
<1> QED
  BY <1>5, <1>6, <1>7, <1>8, <1>9 DEF MakerInv

LEMMA EmptyMaker ==
  ASSUME HlsAssumption
  PROVE  /\ NewMaker \in [fileIndex : 0..MaxSegs, open : 0..MaxSegs, segs : Seq(Segments),
                          enabled : BOOLEAN, clearing : BOOLEAN]
         /\ NewMaker.fileIndex = 0 /\ NewMaker.open = 0 /\ NewMaker.segs = <<>>
         /\ NoIndex \in [seq : 0..MaxSegs, segs : Seq(Segments), eof : BOOLEAN]
  BY DEF NewMaker, NoIndex, HlsAssumption

\* A step after which a recorder has nothing, in a folder that is empty.
LEMMA EmptyInv ==
  ASSUME HlsMakerTypeOK', Numbers', maker'.fileIndex = 0, maker'.open = 0, maker'.segs = <<>>,
         disk' = {}, ~inMemory'
  PROVE  MakerInv'
<1>1. Lists'
  BY HlsAssumption DEF Lists, Shown, RunUpTo
<1>2. Window' = {}
  BY DEF Window, Segments, HlsMakerTypeOK
<1>3. FolderIsWindow'
  BY <1>2 DEF FolderIsWindow
<1>4. SequenceNamesFirst'
  BY DEF SequenceNamesFirst
<1> QED
  BY <1>1, <1>3, <1>4 DEF MakerInv

LEMMA ClearCacheInv == ASSUME MakerInv, ClearCache PROVE MakerInv'
<1>1. HlsMakerTypeOK /\ Numbers
  BY DEF MakerInv
<1>2. /\ maker'.fileIndex = 0 /\ maker'.open = 0 /\ maker'.segs = <<>>
      /\ maker' \in [fileIndex : 0..MaxSegs, open : 0..MaxSegs, segs : Seq(Segments),
                     enabled : BOOLEAN, clearing : BOOLEAN]
      /\ index' \in [seq : 0..MaxSegs, segs : Seq(Segments), eof : BOOLEAN]
  <2>1. maker.enabled \in BOOLEAN
    BY <1>1 DEF HlsMakerTypeOK
  <2> QED
    BY <2>1, EmptyMaker, HlsAssumption DEF ClearCache
<1>3. src' \in [registered : BOOLEAN, counted : BOOLEAN]
  BY <1>1 DEF HlsMakerTypeOK, ClearCache
<1>4. HlsMakerTypeOK'
  BY <1>1, <1>2, <1>3 DEF HlsMakerTypeOK, ClearCache, Segments
<1>5. Numbers'
  BY <1>1, <1>2 DEF Numbers, ClearCache, HlsMakerTypeOK
<1> QED
  BY <1>2, <1>4, <1>5, EmptyInv DEF ClearCache

LEMMA StopInv == ASSUME MakerInv, Stop PROVE MakerInv'
<1> DEFINE f == Flushed(TRUE)
<1>1. /\ alive /\ alive' = FALSE /\ maker' = NewMaker /\ inMemory' = FALSE
      /\ disk' = f.disk /\ index' = f.index /\ inFile' = f.inFile
      /\ src' = [registered |-> FALSE, counted |-> FALSE]
      /\ deletions' = deletions + 1
      /\ gen' = gen /\ made' = made /\ struck' = struck
  BY DEF Stop
<1>2. /\ f.disk \subseteq Segments /\ f.inFile \in BOOLEAN
      /\ f.index \in [seq : 0..MaxSegs, segs : Seq(Segments), eof : BOOLEAN]
  BY <1>1, Left
<1> HIDE DEF f
<1>3. HlsMakerTypeOK /\ Numbers
  BY DEF MakerInv
<1>4. deletions' \in 0..MaxGen /\ deletions' <= gen /\ deletions' > 0
  BY <1>1, <1>3, HlsAssumption DEF HlsMakerTypeOK, Numbers
<1>5. HlsMakerTypeOK'
  BY <1>1, <1>2, <1>3, <1>4, EmptyMaker, HlsAssumption DEF HlsMakerTypeOK, Segments
<1>6. Numbers'
  BY <1>1, <1>3, <1>4, EmptyMaker, HlsAssumption, Bounds DEF Numbers
<1>7. Lists'
  BY <1>1, EmptyMaker, HlsAssumption DEF Lists, Shown, RunUpTo
<1>8. FolderIsWindow' /\ SequenceNamesFirst'
  BY <1>1, <1>4 DEF FolderIsWindow, SequenceNamesFirst
<1> QED
  BY <1>5, <1>6, <1>7, <1>8 DEF MakerInv

LEMMA StartInv == ASSUME MakerInv, Start PROVE MakerInv'
<1>1. HlsMakerTypeOK /\ Numbers
  BY DEF MakerInv
<1>2. maker = NewMaker /\ maker' = NewMaker /\ ~alive
  BY <1>1 DEF Numbers, Start
<1>3. HlsMakerTypeOK'
  <2>1. gen' \in 1..MaxGen
    BY <1>1, HlsAssumption DEF HlsMakerTypeOK, Start
  <2>2. /\ alive' = TRUE /\ disk' = {} /\ index' = NoIndex /\ inFile' = FALSE /\ struck' = FALSE
        /\ maker' = maker /\ src' = src /\ made' = made /\ inMemory' = inMemory
        /\ deletions' = deletions
    BY DEF Start
  <2> QED
    BY <1>1, <1>2, <2>1, <2>2, EmptyMaker, HlsAssumption DEF HlsMakerTypeOK
<1>4. Numbers'
  BY <1>1, <1>2, EmptyMaker, HlsAssumption DEF Numbers, Start, HlsMakerTypeOK
<1>5. disk' = {} /\ ~inMemory'
  BY <1>1, <1>2 DEF Start, Numbers
<1> QED
  BY <1>2, <1>3, <1>4, <1>5, EmptyInv, EmptyMaker, HlsAssumption

LEMMA DeleteFolderInv == ASSUME MakerInv, DeleteFolder PROVE MakerInv'
<1>1. HlsMakerTypeOK /\ Numbers /\ Lists /\ SequenceNamesFirst
  BY DEF MakerInv
<1>2. /\ deletions' \in 0..MaxGen /\ deletions > 0 /\ deletions' = deletions - 1
      /\ deletions' <= gen /\ (alive => deletions' < gen)
  BY <1>1, HlsAssumption DEF DeleteFolder, HlsMakerTypeOK, Numbers
<1>3. HlsMakerTypeOK'
  BY <1>1, <1>2 DEF DeleteFolder, HlsMakerTypeOK, Segments
<1>4. Numbers' /\ Lists' /\ SequenceNamesFirst'
  BY <1>1, <1>2 DEF DeleteFolder, Numbers, Lists, SequenceNamesFirst, Segment
<1>5. FolderIsWindow'
  BY DEF DeleteFolder, FolderIsWindow
<1> QED
  BY <1>3, <1>4, <1>5 DEF MakerInv

LEMMA ReaderChangedInv ==
  ASSUME MakerInv, NEW counted \in BOOLEAN, ReaderChanged(counted)
  PROVE  MakerInv'
<1>1. HlsMakerTypeOK /\ Numbers /\ Lists /\ FolderIsWindow /\ SequenceNamesFirst
  BY DEF MakerInv
<1>2. /\ alive /\ alive' = alive /\ gen' = gen /\ made' = made /\ disk' = disk
      /\ index' = index /\ inFile' = inFile /\ inMemory' = inMemory
      /\ deletions' = deletions /\ struck' = struck
      /\ src' = [src EXCEPT !.counted = counted]
      /\ maker' = [maker EXCEPT !.enabled = counted \/ ~Demand,
                                !.clearing = @ \/ (~counted /\ Demand)]
  BY DEF ReaderChanged, Switch
<1>3. /\ maker' \in [fileIndex : 0..MaxSegs, open : 0..MaxSegs, segs : Seq(Segments),
                     enabled : BOOLEAN, clearing : BOOLEAN]
      /\ maker'.fileIndex = maker.fileIndex /\ maker'.open = maker.open
      /\ maker'.segs = maker.segs
  BY <1>1, <1>2, HlsAssumption DEF HlsMakerTypeOK
<1>4. HlsMakerTypeOK'
  BY <1>1, <1>2, <1>3 DEF HlsMakerTypeOK, Segments
<1>5. Numbers' /\ Lists'
  BY <1>1, <1>2, <1>3 DEF Numbers, Lists
<1>6. FolderIsWindow' /\ SequenceNamesFirst'
  BY <1>1, <1>2, <1>3 DEF FolderIsWindow, Window, SequenceNamesFirst, Segment
<1> QED
  BY <1>4, <1>5, <1>6 DEF MakerInv

-----------------------------------------------------------------------------
LEMMA MakerInitInv == ASSUME MakerInit PROVE MakerInv
<1>1. HlsMakerTypeOK
  <2>1. gen \in 1..MaxGen /\ made \in 0..MaxSegs /\ deletions \in 0..MaxGen
    BY HlsAssumption DEF MakerInit
  <2>2. src \in [registered : BOOLEAN, counted : BOOLEAN]
    BY DEF MakerInit
  <2>3. {alive, inFile, inMemory, struck} \subseteq BOOLEAN /\ disk \subseteq Segments
    BY DEF MakerInit
  <2>4. maker = NewMaker /\ index = NoIndex
    BY DEF MakerInit
  <2> QED
    BY <2>1, <2>2, <2>3, <2>4, EmptyMaker, HlsAssumption DEF HlsMakerTypeOK
<1>2. Numbers /\ Lists
  BY EmptyMaker, HlsAssumption DEF MakerInit, Numbers, Lists, Shown, RunUpTo
<1>3. FolderIsWindow
  <2>1. Window = {}
    BY EmptyMaker, HlsAssumption DEF MakerInit, Window, Segments
  <2> QED
    BY <2>1 DEF MakerInit, FolderIsWindow
<1> QED
  BY <1>1, <1>2, <1>3 DEF MakerInit, MakerInv, SequenceNamesFirst

\* Whoever takes the step, the recorder or what plays it.
CookieOK == cookie \in [found : 0..MaxGen, attached : BOOLEAN]

LEMMA MakerStepInv ==
  ASSUME MakerInv, CookieOK, [LinkNext]_vars
  PROVE  MakerInv'
<1>1. CASE UNCHANGED makerVars
  BY <1>1 DEF makerVars, MakerInv, HlsMakerTypeOK, Numbers, Lists, FolderIsWindow, Window,
              SequenceNamesFirst, Segment
<1>2. CASE Report
  BY <1>2, ReaderChangedInv DEF Report, CookieOK
<1>3. CASE MakerStep
  BY <1>3, NewSegmentInv, EndSegmentInv, ClearCacheInv, StopInv, StartInv, DeleteFolderInv
     DEF MakerStep
<1>4. ASSUME Answer \/ CookieExpires \/ IndexArrives \/ IndexFails \/ PlayerStep \/ UNCHANGED vars
      PROVE  UNCHANGED makerVars
  BY <1>4 DEF Answer, CookieExpires, IndexArrives, IndexFails, PlayerStep, vars
<1> QED
  BY <1>1, <1>2, <1>3, <1>4 DEF LinkNext

LEMMA CookieStep ==
  ASSUME MakerInv, CookieOK, [LinkNext]_vars
  PROVE  CookieOK'
<1>1. gen \in 0..MaxGen
  BY HlsAssumption DEF MakerInv, HlsMakerTypeOK
<1>2. NoCookie \in [found : 0..MaxGen, attached : BOOLEAN]
  BY HlsAssumption DEF NoCookie
<1>3. CASE Answer
  <2>1. cookie' = cookie \/ cookie' = [found |-> gen, attached |-> TRUE]
    BY <1>3 DEF Answer
  <2>2. [found |-> gen, attached |-> TRUE] \in [found : 0..MaxGen, attached : BOOLEAN]
    BY <1>1
  <2>3. cookie \in [found : 0..MaxGen, attached : BOOLEAN]
    BY DEF CookieOK
  <2> QED
    BY <2>1, <2>2, <2>3 DEF CookieOK
<1>4. CASE CookieExpires
  BY <1>2, <1>4 DEF CookieExpires, CookieOK
<1>5. CASE MakerStep
  BY <1>5 DEF MakerStep, CookieOK, linkVars
<1>6. CASE Report \/ IndexArrives \/ IndexFails \/ PlayerStep \/ UNCHANGED vars
  BY <1>6 DEF Report, IndexArrives, IndexFails, PlayerStep, vars, linkVars, CookieOK
<1> QED
  BY <1>3, <1>4, <1>5, <1>6 DEF LinkNext

LEMMA HlsInvariance == LinkSpec => [](MakerInv /\ CookieOK)
<1>1. LinkInit => MakerInv /\ CookieOK
  BY MakerInitInv, HlsAssumption DEF LinkInit, CookieOK, NoCookie
<1>2. MakerInv /\ CookieOK /\ [LinkNext]_vars => (MakerInv /\ CookieOK)'
  BY MakerStepInv, CookieStep
<1> QED
  BY <1>1, <1>2, PTL DEF LinkSpec

\* The state of the recorders has its type, for any number of them.
THEOREM HlsMakerTypeCorrect == LinkSpec => []HlsMakerTypeOK
  BY HlsInvariance, PTL DEF MakerInv

\* The folder holds the segments that the latest index and the retained ones
\* before it name, and no others, until the task of an earlier recorder
\* deletes it; and what a recorder leaves, a task will delete
\* (HlsMaker::delOldSegment, HlsMakerImp::clearCache).
THEOREM HlsFolderIsWindow == LinkSpec => []FolderIsWindow
  BY HlsInvariance, PTL DEF MakerInv

\* The number in an index is that of its first segment, and the others follow
\* without a gap (HlsMaker::makeIndexFile).
THEOREM HlsSequenceNamesFirst == LinkSpec => []SequenceNamesFirst
  BY HlsInvariance, PTL DEF MakerInv

-----------------------------------------------------------------------------
(* Lists that rise, as those of segments do. *)

Rising(s) == \A i, j \in 1..Len(s) : i < j => s[i] < s[j]

\* The principle of the least number, in the form in which it can be cited.
LEMMA LeastNumber ==
  ASSUME NEW T, T \subseteq Nat, T # {}
  PROVE  \E n \in T : \A m \in T : n <= m
<1> DEFINE R == OpToRel(<, Nat)
<1>1. IsWellFoundedOn(R, Nat)
  BY NatLessThanWellFounded
<1> HIDE DEF R
<1>2. PICK n \in T : \A m \in T : ~ (<<m, n>> \in R)
  BY <1>1, WFMin
<1>3. \A m \in T : ~(m < n)
  <2> SUFFICES ASSUME NEW m \in T, m < n PROVE FALSE
    OBVIOUS
  <2>1. <<m, n>> \in Nat \X Nat /\ <<m, n>>[1] = m /\ <<m, n>>[2] = n
    OBVIOUS
  <2>2. <<m, n>> \in R
    BY <2>1 DEF R, OpToRel
  <2> QED
    BY <1>2, <2>2
<1> QED
  BY <1>3

\* Whole numbers that rise do so by one at least.
LEMMA RisingSpread ==
  ASSUME NEW s \in Seq(Int), Rising(s),
         NEW i \in 1..Len(s), NEW j \in 1..Len(s), i <= j
  PROVE  s[j] - s[i] >= j - i
<1> DEFINE Bad == {k \in Nat : k \in i..Len(s) /\ ~(s[k] - s[i] >= k - i)}
<1>0. Len(s) \in Nat /\ \A k \in 1..Len(s) : s[k] \in Int
  OBVIOUS
<1>1. ASSUME NEW k \in Bad, \A m \in Bad : k <= m
      PROVE  FALSE
  <2>1. k \in Nat /\ k \in i..Len(s) /\ ~(s[k] - s[i] >= k - i)
    BY <1>1
  <2>2. k # i /\ s[i] \in Int /\ s[k] \in Int /\ k \in 1..Len(s)
    BY <1>0, <2>1
  <2>3. k - 1 \in Nat /\ k - 1 \in i..Len(s) /\ k - 1 \in 1..Len(s) /\ ~(k <= k - 1)
    BY <1>0, <2>1, <2>2
  <2>4. k - 1 \notin Bad
    BY <1>1, <2>3
  <2>5. s[k - 1] - s[i] >= (k - 1) - i
    BY <2>3, <2>4
  <2>6. s[k - 1] < s[k] /\ s[k - 1] \in Int
    BY <1>0, <2>2, <2>3 DEF Rising
  <2> QED
    BY <2>1, <2>2, <2>5, <2>6
<1> HIDE DEF Bad
<1>2. Bad = {}
  <2>1. Bad \subseteq Nat
    BY DEF Bad
  <2> QED
    BY <1>1, <2>1, LeastNumber
<1>3. j \in Nat /\ j \in i..Len(s)
  BY <1>0
<1> QED
  BY <1>2, <1>3 DEF Bad

LEMMA SegmentsAreNumbers ==
  ASSUME NEW s \in Seq(Segments)
  PROVE  /\ Len(s) \in Nat /\ DOMAIN s = 1..Len(s)
         /\ \A i \in 1..Len(s) : s[i] \in Segments /\ s[i] \in Int /\ 1 <= s[i] /\ s[i] <= MaxSegs
<1>1. \A n \in Segments : n \in Int /\ 1 <= n /\ n <= MaxSegs
  BY HlsAssumption DEF Segments
<1>2. Len(s) \in Nat /\ DOMAIN s = 1..Len(s) /\ \A i \in 1..Len(s) : s[i] \in Segments
  OBVIOUS
<1> QED
  BY <1>1, <1>2

LEMMA ConcatRises ==
  ASSUME NEW s \in Seq(Segments), NEW t \in Seq(Segments), Rising(s), Rising(t), NEW top \in Int,
         \A i \in 1..Len(s) : s[i] <= top, \A i \in 1..Len(t) : t[i] > top
  PROVE  /\ s \o t \in Seq(Segments) /\ Rising(s \o t) /\ Len(s \o t) = Len(s) + Len(t)
         /\ \A i \in 1..Len(s) : (s \o t)[i] = s[i]
         /\ \A i \in 1..Len(t) : (s \o t)[Len(s) + i] = t[i]
         /\ \A i \in 1..Len(s \o t) :
              (i \in 1..Len(s) /\ (s \o t)[i] = s[i]) \/ (i - Len(s) \in 1..Len(t) /\ (s \o t)[i] = t[i - Len(s)])
<1> DEFINE c == s \o t
<1>1. /\ c \in Seq(Segments) /\ Len(c) = Len(s) + Len(t) /\ Len(s) \in Nat /\ Len(t) \in Nat
      /\ \A i \in 1..Len(s) : c[i] = s[i]
      /\ \A i \in 1..Len(t) : c[Len(s) + i] = t[i]
  OBVIOUS
<1>2. \A i \in 1..Len(c) : (i \in 1..Len(s) /\ c[i] = s[i]) \/ (i - Len(s) \in 1..Len(t) /\ c[i] = t[i - Len(s)])
  <2> SUFFICES ASSUME NEW i \in 1..Len(c), i \notin 1..Len(s)
               PROVE  i - Len(s) \in 1..Len(t) /\ c[i] = t[i - Len(s)]
    BY <1>1
  <2>1. i - Len(s) \in 1..Len(t) /\ i = Len(s) + (i - Len(s))
    BY <1>1
  <2> QED
    BY <1>1, <2>1
<1>3. \A i \in 1..Len(s) : s[i] \in Int
  BY SegmentsAreNumbers
<1>4. \A i \in 1..Len(t) : t[i] \in Int
  BY SegmentsAreNumbers
<1> HIDE DEF c
<1>5. ASSUME NEW i \in 1..Len(c), NEW j \in 1..Len(c), i < j
      PROVE  c[i] < c[j]
  <2>1. CASE i \in 1..Len(s) /\ j \in 1..Len(s)
    BY <1>1, <1>5, <2>1 DEF Rising
  <2>2. CASE i \in 1..Len(s) /\ j - Len(s) \in 1..Len(t) /\ c[j] = t[j - Len(s)]
    <3>1. c[i] = s[i] /\ s[i] <= top /\ s[i] \in Int
      BY <1>1, <1>3, <2>2
    <3>2. t[j - Len(s)] > top /\ t[j - Len(s)] \in Int
      BY <1>4, <2>2
    <3> QED
      BY <2>2, <3>1, <3>2
  <2>3. CASE i - Len(s) \in 1..Len(t) /\ c[i] = t[i - Len(s)] /\ j - Len(s) \in 1..Len(t) /\ c[j] = t[j - Len(s)]
    BY <1>1, <1>5, <2>3 DEF Rising
  <2>4. CASE i - Len(s) \in 1..Len(t) /\ j \in 1..Len(s)
    BY <1>1, <1>5, <2>4
  <2> QED
    BY <1>1, <1>2, <2>1, <2>2, <2>3, <2>4
<1> QED
  BY <1>1, <1>2, <1>5 DEF c, Rising

LEMMA TailRises ==
  ASSUME NEW s \in Seq(Segments), s # <<>>, Rising(s)
  PROVE  /\ Head(s) = s[1] /\ Head(s) \in Segments /\ 1 \in 1..Len(s)
         /\ Tail(s) \in Seq(Segments) /\ Rising(Tail(s)) /\ Len(Tail(s)) = Len(s) - 1
         /\ \A i \in 1..Len(Tail(s)) : i + 1 \in 1..Len(s) /\ Tail(s)[i] = s[i + 1] /\ Head(s) < Tail(s)[i]
<1> DEFINE t == Tail(s)
<1>1. /\ Head(s) = s[1] /\ Head(s) \in Segments /\ 1 \in 1..Len(s) /\ Len(s) \in Nat
      /\ t \in Seq(Segments) /\ Len(t) = Len(s) - 1
      /\ \A i \in 1..Len(t) : t[i] = s[i + 1]
  OBVIOUS
<1> HIDE DEF t
<1>2. \A i \in 1..Len(t) : i + 1 \in 1..Len(s) /\ 1 < i + 1
  BY <1>1
<1>3. \A i \in 1..Len(t) : Head(s) < t[i]
  BY <1>1, <1>2 DEF Rising
<1>4. Rising(t)
  BY <1>1, <1>2 DEF Rising
<1> QED
  BY <1>1, <1>2, <1>3, <1>4 DEF t

-----------------------------------------------------------------------------
(* The player.  An index that was fetched is a run of numbers, and those that
   follow begin and end no earlier: this is why a list of twice the length of
   the index is enough to know what has been seen. *)

\* The latest segment the player has seen, and the latest that is closed.
Top == IF cached = <<>> THEN 0 ELSE cached[Len(cached)]
LastClosed == IF maker.open = 0 THEN made ELSE made - 1

Seen(list) ==
  \A i \in 1..Len(list) : list[i] <= Top => \E j \in 1..Len(cached) : cached[j] = list[i]

PlayerTyped ==
  /\ phase \in {"idle", "trying", "playing", "over"}
  /\ segList \in Seq(Segments) /\ cached \in Seq(Segments)
  /\ busy \in 0..MaxSegs /\ latest \in 0..MaxSegs

\* Who does not play has nothing to do.
Quiet == phase # "playing" => busy = 0 /\ timers = {} /\ segList = <<>>

\* What is to be fetched has been seen, and comes after what has been fetched.
ListsRise ==
  /\ Rising(segList) /\ Rising(cached)
  /\ \A i \in 1..Len(segList) : latest < segList[i] /\ segList[i] <= Top
  /\ phase # "over" => latest <= Top

\* The index of a recorder is what it would list now, and ends with the latest
\* closed segment even when the recorder has gone.
IndexRuns ==
  /\ index.segs \in Seq(Segments)
  /\ alive => maker.segs = index.segs
  /\ RunUpTo(index.segs, LastClosed)
  /\ inFile => index.segs # <<>>
  /\ Top <= LastClosed
  /\ Seen(index.segs)

\* An index on its way is older than the present one, and not older than the
\* one before.
ReplyRuns ==
  reply.kind = "found" =>
    LET segs == reply.index.segs
    IN  /\ segs \in Seq(Segments) /\ segs # <<>>
        /\ RunUpTo(segs, segs[Len(segs)]) /\ segs[Len(segs)] <= LastClosed
        /\ Top <= segs[Len(segs)]
        /\ \A i \in 1..Len(index.segs) : segs[1] <= index.segs[i]
        /\ Seen(segs)

PlayerInv == PlayerTyped /\ Quiet /\ NeverIdle /\ ListsRise /\ IndexRuns /\ ReplyRuns

-----------------------------------------------------------------------------
\* What the recorder lists next is what the index names, less its first, and
\* the segment just closed.
LEMMA ListedNext ==
  ASSUME MakerInv, PlayerInv, alive, maker.open # 0
  PROVE  /\ Listed \in Seq(Segments) /\ Listed # <<>> /\ RunUpTo(Listed, made)
         /\ Listed[Len(Listed)] = made
         /\ \A i \in 1..Len(Listed) : Listed[i] = made \/ \E j \in 1..Len(index.segs) : index.segs[j] = Listed[i]
<1> DEFINE n == Len(Listed)
           k == Len(index.segs)
<1>1. /\ Listed \in Seq(Segments) /\ n = Shown(maker.fileIndex)
      /\ RunUpTo(Listed, made) /\ n \in 1..SegNumber
  BY ListedRun
<1>2. /\ SegNumber \in Nat /\ made \in Nat /\ maker.fileIndex \in Nat /\ maker.fileIndex > 0
  BY Bounds DEF MakerInv, Numbers
<1>3. /\ index.segs \in Seq(Segments) /\ maker.segs = index.segs
      /\ RunUpTo(index.segs, made - 1)
  BY DEF PlayerInv, IndexRuns, LastClosed
<1>4. k = Shown(maker.fileIndex - 1) /\ k \in Nat
  BY <1>3 DEF MakerInv, Lists
<1>5. n <= k + 1
  BY <1>1, <1>2, <1>4 DEF Shown
<1>6. \A i \in 1..n : Listed[i] = made - n + i
  BY <1>1 DEF RunUpTo
<1>7. \A j \in 1..k : index.segs[j] = (made - 1) - k + j
  BY <1>3 DEF RunUpTo
<1>8. ASSUME NEW i \in 1..n, Listed[i] # made
      PROVE  \E j \in 1..k : index.segs[j] = Listed[i]
  <2> DEFINE j == i - n + 1 + k
  <2>1. i # n
    BY <1>1, <1>2, <1>6, <1>8
  <2>2. j \in 1..k
    BY <1>1, <1>4, <1>5, <2>1
  <2>3. index.segs[j] = (made - 1) - k + j
    BY <1>7, <2>2
  <2>4. Listed[i] = made - n + i
    BY <1>6
  <2>5. index.segs[j] = Listed[i]
    BY <1>1, <1>2, <1>4, <2>3, <2>4
  <2> HIDE DEF j
  <2> QED
    BY <2>2, <2>5
<1>9. Listed # <<>> /\ Listed[n] = made
  BY <1>1, <1>2, <1>6
<1> QED
  BY <1>1, <1>8, <1>9

\* What a step of the recorder does to the index, and to an answer that waits
\* for one.
LEMMA MakerEffect ==
  ASSUME MakerInv, PlayerInv, MakerStep
  PROVE  /\ \/ index.segs' = index.segs /\ LastClosed' = LastClosed
            \/ index.segs' = <<>> /\ LastClosed' >= LastClosed
            \/ index.segs' = Listed /\ LastClosed' = made /\ alive /\ maker.open # 0
         /\ \/ reply' = reply
            \/ /\ alive /\ maker.open # 0 /\ LastClosed' = made
               /\ reply'.kind = "found" /\ reply'.index.segs = Listed
               /\ index.segs' \in {<<>>, Listed}
         /\ alive' => maker'.segs = index'.segs
         /\ inFile' => index'.segs # <<>>
<1> USE DEF LastClosed
<1>1. /\ SegNumber \in Nat /\ made \in Nat /\ maker.open \in Nat
      /\ (maker.open # 0 => maker.open = made)
      /\ (~alive => maker = NewMaker)
      /\ (alive => maker.segs = index.segs) /\ (inFile => index.segs # <<>>)
  BY Bounds DEF MakerInv, Numbers, PlayerInv, IndexRuns, HlsMakerTypeOK
<1>2. maker \in [fileIndex : 0..MaxSegs, open : 0..MaxSegs, segs : Seq(Segments),
                 enabled : BOOLEAN, clearing : BOOLEAN]
  BY DEF MakerInv, HlsMakerTypeOK
<1>3. ASSUME NEW eof \in BOOLEAN, alive, maker.open # 0
      PROVE  Flushed(eof).segs = Listed /\ Flushed(eof).index.segs = Listed
  <2>1. Flushed(eof).index = [seq |-> IndexOf(Listed, eof).seq, segs |-> Listed, eof |-> eof]
    BY <1>3, Closed
  <2>2. Flushed(eof).segs = Listed
    BY <1>3, Closed
  <2>3. Flushed(eof).index.segs = Listed
    BY <2>1
  <2> QED
    BY <2>2, <2>3
<1>4. ASSUME NEW eof \in BOOLEAN, maker.open = 0
      PROVE  Flushed(eof).segs = maker.segs /\ Flushed(eof).index = index /\ Flushed(eof).inFile = inFile
  BY <1>4 DEF Flushed
<1>5. ASSUME alive, maker.open # 0
      PROVE  Listed # <<>>
  BY <1>5, ListedNext
<1>6. /\ NewMaker.open = 0 /\ NewMaker.segs = <<>> /\ NoIndex.segs = <<>>
      /\ [NewMaker EXCEPT !.enabled = maker.enabled].open = 0
      /\ [NewMaker EXCEPT !.enabled = maker.enabled].segs = <<>>
  BY DEF NewMaker, NoIndex
<1>7. ASSUME NEW i, maker.open # 0, reply' = Waiting(i)
      PROVE  reply' = reply \/ (reply'.kind = "found" /\ reply'.index = i)
  BY <1>7 DEF Waiting, Found
<1>10. CASE NewSegment /\ reply' = (IF maker.open # 0 THEN Waiting(index') ELSE reply)
  <2> DEFINE f == Flushed(FALSE)
  <2>1. /\ alive /\ made' = made + 1 /\ index' = f.index /\ inFile' = f.inFile
        /\ maker' = [maker EXCEPT !.segs = f.segs, !.open = made + 1, !.fileIndex = @ + 1]
    BY <1>10 DEF NewSegment, Working, Keep
  <2>2. maker'.segs = f.segs /\ maker'.open = made + 1
    BY <1>2, <2>1
  <2> HIDE DEF f
  <2>3. CASE maker.open = 0
    <3>1. f.segs = maker.segs /\ f.index = index /\ f.inFile = inFile
      BY <2>3, <1>4 DEF f
    <3>2. reply' = reply
      BY <1>10, <2>3
    <3> QED
      BY <1>1, <2>1, <2>2, <2>3, <3>1, <3>2
  <2>4. CASE maker.open # 0
    <3>1. f.segs = Listed /\ f.index.segs = Listed /\ Listed # <<>>
      BY <2>1, <2>4, <1>3, <1>5 DEF f
    <3>2. reply' = reply \/ (reply'.kind = "found" /\ reply'.index = index')
      BY <1>7, <1>10, <2>4
    <3> QED
      BY <1>1, <2>1, <2>2, <2>4, <3>1, <3>2
  <2> QED
    BY <2>3, <2>4
<1>11. CASE EndSegment /\ reply' = (IF maker.open # 0 THEN Waiting(index') ELSE reply)
  <2> DEFINE f == Flushed(FALSE)
  <2>1. /\ alive /\ maker.open # 0 /\ made' = made /\ index' = f.index /\ inFile' = f.inFile
        /\ maker' = [maker EXCEPT !.segs = f.segs, !.open = 0]
    BY <1>11 DEF EndSegment, Keep
  <2>2. maker'.segs = f.segs /\ maker'.open = 0
    BY <1>2, <2>1
  <2> HIDE DEF f
  <2>3. f.segs = Listed /\ f.index.segs = Listed /\ Listed # <<>>
    BY <2>1, <1>3, <1>5 DEF f
  <2>4. reply' = reply \/ (reply'.kind = "found" /\ reply'.index = index')
    BY <1>7, <1>11, <2>1
  <2> QED
    BY <1>1, <2>1, <2>2, <2>3, <2>4
<1>12. CASE ClearCache /\ reply' = (IF maker.open # 0 THEN Waiting(LastBeforeClearing.index) ELSE reply)
  <2>1. /\ alive /\ made' = made /\ index' = NoIndex /\ inFile' = FALSE
        /\ maker' = [NewMaker EXCEPT !.enabled = maker.enabled]
    BY <1>12 DEF ClearCache
  <2>2. maker'.segs = <<>> /\ maker'.open = 0 /\ index'.segs = <<>>
    BY <1>6, <2>1
  <2>3. CASE maker.open = 0
    BY <1>1, <1>12, <2>1, <2>2, <2>3
  <2>4. CASE maker.open # 0
    <3>1. LastBeforeClearing.index.segs = Listed
      BY <2>1, <2>4, <1>3 DEF LastBeforeClearing
    <3>2. reply' = reply \/ (reply'.kind = "found" /\ reply'.index = LastBeforeClearing.index)
      BY <1>7, <1>12, <2>4
    <3> QED
      BY <1>1, <2>1, <2>2, <2>4, <3>1, <3>2
  <2> QED
    BY <2>3, <2>4
<1>13. CASE Stop /\ reply' = (IF maker.open # 0 THEN Waiting(index') ELSE reply)
  <2> DEFINE f == Flushed(TRUE)
  <2>1. /\ alive /\ alive' = FALSE /\ made' = made /\ index' = f.index /\ inFile' = f.inFile
        /\ maker' = NewMaker
    BY <1>13 DEF Stop
  <2>2. maker'.segs = <<>> /\ maker'.open = 0
    BY <1>6, <2>1
  <2> HIDE DEF f
  <2>3. CASE maker.open = 0
    <3>1. f.index = index /\ f.inFile = inFile
      BY <2>3, <1>4 DEF f
    <3> QED
      BY <1>1, <1>13, <2>1, <2>2, <2>3, <3>1
  <2>4. CASE maker.open # 0
    <3>1. f.index.segs = Listed /\ Listed # <<>>
      BY <2>1, <2>4, <1>3, <1>5 DEF f
    <3>2. reply' = reply \/ (reply'.kind = "found" /\ reply'.index = index')
      BY <1>7, <1>13, <2>4
    <3> QED
      BY <1>1, <2>1, <2>2, <2>4, <3>1, <3>2
  <2> QED
    BY <2>3, <2>4
<1>14. CASE Start /\ reply' = reply
  <2>1. /\ maker' = maker /\ made' = made /\ index' = NoIndex /\ inFile' = FALSE /\ maker = NewMaker
    BY <1>1, <1>14 DEF Start
  <2> QED
    BY <1>1, <1>6, <1>14, <2>1
<1>15. CASE DeleteFolder /\ reply' = reply
  BY <1>1, <1>15 DEF DeleteFolder
<1> QED
  BY <1>10, <1>11, <1>12, <1>13, <1>14, <1>15 DEF MakerStep, linkVars

LEMMA TopBounds ==
  ASSUME PlayerTyped, Rising(cached)
  PROVE  /\ Top \in 0..MaxSegs /\ \A j \in 1..Len(cached) : cached[j] <= Top
<1>1. cached \in Seq(Segments) /\ MaxSegs \in Nat /\ Len(cached) \in Nat
  BY HlsAssumption DEF PlayerTyped
<1>2. \A j \in 1..Len(cached) : cached[j] \in 1..MaxSegs
  BY <1>1 DEF Segments
<1>3. CASE cached = <<>>
  BY <1>1, <1>3 DEF Top
<1>4. CASE cached # <<>>
  <2>1. Len(cached) \in 1..Len(cached) /\ Top = cached[Len(cached)]
    BY <1>1, <1>4 DEF Top
  <2> QED
    BY <1>1, <1>2, <2>1 DEF Rising
<1> QED
  BY <1>3, <1>4

\* What Listed names has been seen as far as what the index names has.
LEMMA ListedSeen ==
  ASSUME MakerInv, PlayerInv, alive, maker.open # 0
  PROVE  /\ LastClosed = made - 1 /\ made \in Nat /\ Top <= made - 1 /\ Top \in Int
         /\ Seen(Listed)
<1>1. LastClosed = made - 1 /\ made \in Nat
  BY Bounds DEF LastClosed
<1>2. Top <= LastClosed /\ Seen(index.segs)
  BY DEF PlayerInv, IndexRuns
<1>3. Top \in Int
  BY TopBounds DEF PlayerInv, ListsRise
<1>4. ASSUME NEW i \in 1..Len(Listed), Listed[i] <= Top
      PROVE  \E j \in 1..Len(cached) : cached[j] = Listed[i]
  <2>1. Listed[i] # made
    BY <1>1, <1>2, <1>3, <1>4
  <2>2. PICK j \in 1..Len(index.segs) : index.segs[j] = Listed[i]
    BY <2>1, ListedNext
  <2> QED
    BY <1>2, <1>4, <2>2 DEF Seen
<1> QED
  BY <1>1, <1>2, <1>3, <1>4 DEF Seen

LEMMA MakerKeepsPlayer ==
  ASSUME MakerInv, PlayerInv, MakerStep
  PROVE  PlayerInv'
<1>1. /\ UNCHANGED playerVars
      /\ PlayerTyped /\ Quiet /\ NeverIdle /\ ListsRise /\ IndexRuns /\ ReplyRuns
  BY DEF MakerStep, PlayerInv
<1>2. PlayerTyped' /\ Quiet' /\ NeverIdle' /\ ListsRise' /\ Top' = Top
  BY <1>1 DEF playerVars, PlayerTyped, Quiet, NeverIdle, ListsRise, Top, Rising
<1>3. \A list : Seen(list) => Seen(list)'
  BY <1>1, <1>2 DEF Seen, playerVars
<1>4. LastClosed \in Int /\ LastClosed' \in Int /\ LastClosed <= LastClosed' /\ Top <= LastClosed'
  <2>1. LastClosed \in Int /\ Top <= LastClosed /\ made \in Int
    BY <1>1, Bounds DEF LastClosed, IndexRuns
  <2>2. Top \in Int
    BY <1>1, TopBounds DEF ListsRise
  <2>3. alive /\ maker.open # 0 => LastClosed = made - 1
    BY DEF LastClosed
  <2>4. LastClosed' \in Int
    <3>1. made' \in Int
      <4>1. made' = made \/ made' = made + 1
        BY DEF MakerStep, NewSegment, EndSegment, ClearCache, Stop, Start, DeleteFolder
      <4> QED
        BY <4>1, Bounds
    <3> QED
      BY <3>1 DEF LastClosed
  <2> QED
    BY <2>1, <2>2, <2>3, <2>4, MakerEffect
<1>5. IndexRuns'
  <2>1. (alive => maker.segs = index.segs)' /\ (inFile => index.segs # <<>>)'
    BY MakerEffect
  <2>2. CASE index.segs' = index.segs /\ LastClosed' = LastClosed
    BY <1>1, <1>3, <1>4, <2>1, <2>2, <1>2 DEF IndexRuns, RunUpTo
  <2>3. CASE index.segs' = <<>>
    BY <1>2, <1>4, <2>1, <2>3 DEF IndexRuns, RunUpTo, Seen
  <2>4. CASE index.segs' = Listed /\ LastClosed' = made /\ alive /\ maker.open # 0
    <3>1. Listed \in Seq(Segments) /\ RunUpTo(Listed, made)
      BY <2>4, ListedNext
    <3>2. Seen(index.segs)'
      BY <1>1, <1>2, <2>4, ListedSeen DEF Seen, playerVars
    <3>3. RunUpTo(index.segs, LastClosed)'
      BY <2>4, <3>1 DEF RunUpTo
    <3> QED
      BY <1>2, <1>4, <2>1, <2>4, <3>1, <3>2, <3>3 DEF IndexRuns
  <2> QED
    BY <2>2, <2>3, <2>4, MakerEffect
<1>6. ASSUME reply'.kind = "found", reply' = reply
      PROVE  ReplyRuns'
  <2> DEFINE segs == reply.index.segs
  <2>1. /\ segs \in Seq(Segments) /\ segs # <<>>
        /\ RunUpTo(segs, segs[Len(segs)]) /\ segs[Len(segs)] <= LastClosed
        /\ Top <= segs[Len(segs)]
        /\ \A i \in 1..Len(index.segs) : segs[1] <= index.segs[i]
        /\ Seen(segs)
    BY <1>1, <1>6 DEF ReplyRuns
  <2> HIDE DEF segs
  <2>2. segs[Len(segs)] \in Int /\ segs[1] \in Int /\ segs[1] <= segs[Len(segs)]
    <3>1. Len(segs) \in Nat /\ 1 \in 1..Len(segs) /\ Len(segs) \in 1..Len(segs)
      BY <2>1
    <3>2. segs[Len(segs)] \in Segments /\ segs[1] = segs[Len(segs)] - Len(segs) + 1
      BY <2>1, <3>1 DEF RunUpTo
    <3> QED
      BY <3>1, <3>2, HlsAssumption DEF Segments
  <2>3. \A i \in 1..Len(index.segs)' : segs[1] <= index.segs'[i]
    <3>1. CASE index.segs' = Listed /\ alive /\ maker.open # 0
      <4>1. segs[1] <= made
        BY <2>1, <2>2, <3>1, ListedSeen
      <4>2. \A i \in 1..Len(Listed) : segs[1] <= Listed[i]
        BY <2>1, <3>1, <4>1, ListedNext
      <4> QED
        BY <3>1, <4>2
    <3> QED
      BY <2>1, <3>1, MakerEffect
  <2>4. RunUpTo(segs, segs[Len(segs)])' /\ (segs[Len(segs)] <= LastClosed)' /\ segs' = segs
    BY <1>4, <1>6, <2>1, <2>2 DEF segs, RunUpTo
  <2>5. Seen(segs)'
    BY <1>3, <2>1, <2>4 DEF Seen
  <2> QED
    BY <1>2, <2>1, <2>3, <2>4, <2>5 DEF ReplyRuns, segs
<1>7. ASSUME alive, maker.open # 0, LastClosed' = made, reply'.index.segs = Listed,
             index.segs' \in {<<>>, Listed}
      PROVE  ReplyRuns'
  <2>1. /\ Listed \in Seq(Segments) /\ Listed # <<>> /\ RunUpTo(Listed, made)
        /\ Listed[Len(Listed)] = made
    BY <1>7, ListedNext
  <2>2. /\ Top \in Int /\ made \in Nat /\ Top <= made /\ Seen(Listed)
    BY <1>7, ListedSeen
  <2>3. Seen(reply.index.segs)'
    BY <1>1, <1>2, <1>7, <2>2 DEF Seen, playerVars
  <2>4. \A i \in 1..Len(Listed) : Listed[1] <= Listed[i]
    BY <2>1, <2>2 DEF RunUpTo
  <2>5. \A i \in 1..Len(index.segs)' : Listed[1] <= index.segs'[i]
    BY <1>7, <2>4
  <2>6. RunUpTo(reply.index.segs, reply.index.segs[Len(reply.index.segs)])'
    BY <1>7, <2>1 DEF RunUpTo
  <2>7. (reply.index.segs[Len(reply.index.segs)] <= LastClosed /\ Top <= reply.index.segs[Len(reply.index.segs)])'
    BY <1>2, <1>7, <2>1, <2>2
  <2> QED
    BY <1>2, <1>7, <2>1, <2>3, <2>5, <2>6, <2>7 DEF ReplyRuns
<1>8. ReplyRuns'
  <2>1. CASE reply'.kind # "found"
    BY <2>1 DEF ReplyRuns
  <2>2. CASE reply'.kind = "found"
    BY <1>6, <1>7, <2>2, MakerEffect
  <2> QED
    BY <2>1, <2>2
<1> QED
  BY <1>2, <1>5, <1>8 DEF PlayerInv

LEMMA RunEnds ==
  ASSUME NEW list \in Seq(Segments), list # <<>>, NEW newest \in Int, RunUpTo(list, newest)
  PROVE  /\ list[Len(list)] = newest /\ RunUpTo(list, list[Len(list)])
         /\ \A i \in 1..Len(list) : list[1] <= list[i] /\ list[i] <= newest
<1>1. Len(list) \in Nat /\ 1 \in 1..Len(list) /\ Len(list) \in 1..Len(list)
  OBVIOUS
<1>2. \A i \in 1..Len(list) : list[i] = newest - Len(list) + i
  BY DEF RunUpTo
<1>3. list[Len(list)] = newest
  BY <1>1, <1>2
<1> QED
  BY <1>1, <1>2, <1>3 DEF RunUpTo

LEMMA AnswerKeepsPlayer ==
  ASSUME MakerInv, PlayerInv, Answer
  PROVE  PlayerInv'
<1>1. /\ UNCHANGED makerVars /\ UNCHANGED playerVars
      /\ PlayerTyped /\ Quiet /\ NeverIdle /\ ListsRise /\ IndexRuns
  BY DEF Answer, PlayerInv
<1>2. PlayerTyped' /\ Quiet' /\ NeverIdle' /\ ListsRise' /\ IndexRuns'
  BY <1>1 DEF playerVars, makerVars, PlayerTyped, Quiet, NeverIdle, ListsRise, Top, Rising, IndexRuns,
              LastClosed, Seen, RunUpTo
<1>3. ReplyRuns'
  <2>1. CASE reply'.kind # "found"
    BY <2>1 DEF ReplyRuns
  <2>2. CASE reply'.kind = "found"
    <3>1. reply'.index = index /\ (inFile \/ inMemory)
      BY <2>2 DEF Answer, FromDisk, Found, NotFound, Parked
    <3>2. inMemory => alive /\ index.segs # <<>>
      BY Bounds DEF MakerInv, Numbers, SequenceNamesFirst
    <3>3. index.segs # <<>> /\ index.segs \in Seq(Segments)
      BY <1>1, <3>1, <3>2 DEF IndexRuns
    <3>5. /\ RunUpTo(index.segs, LastClosed) /\ Top <= LastClosed /\ Seen(index.segs)
          /\ LastClosed \in Int
      BY <1>1, Bounds DEF IndexRuns, LastClosed
    <3>6. /\ index.segs[Len(index.segs)] = LastClosed
          /\ RunUpTo(index.segs, index.segs[Len(index.segs)])
          /\ \A i \in 1..Len(index.segs) : index.segs[1] <= index.segs[i]
      BY <3>3, <3>5, RunEnds
    <3>7. Seen(reply.index.segs)' /\ RunUpTo(reply.index.segs, reply.index.segs[Len(reply.index.segs)])'
      BY <1>1, <3>1, <3>5, <3>6 DEF Top, Seen, RunUpTo, playerVars
    <3>8. Top' = Top /\ LastClosed' = LastClosed /\ index' = index
      BY <1>1 DEF Top, LastClosed, playerVars, makerVars
    <3>9. LastClosed <= LastClosed
      BY <3>5
    <3> QED
      BY <3>1, <3>3, <3>5, <3>6, <3>7, <3>8, <3>9 DEF ReplyRuns
  <2> QED
    BY <2>1, <2>2
<1> QED
  BY <1>2, <1>3 DEF PlayerInv

\* Steps that leave what was seen alone, and may drop an answer.
LEMMA SameSeen ==
  ASSUME PlayerInv, UNCHANGED <<alive, made, index, inFile, maker.open, maker.segs, cached>>,
         reply' = reply \/ reply' = Nothing
  PROVE  IndexRuns' /\ ReplyRuns' /\ Top' = Top
<1>1. Top' = Top /\ LastClosed' = LastClosed
  BY DEF Top, LastClosed
<1>2. IndexRuns'
  BY <1>1 DEF PlayerInv, IndexRuns, RunUpTo, Seen
<1>3. CASE reply' = Nothing
  BY <1>1, <1>2, <1>3 DEF Nothing, ReplyRuns
<1>4. CASE reply' = reply
  BY <1>1, <1>2, <1>4 DEF PlayerInv, ReplyRuns, RunUpTo, Seen
<1> QED
  BY <1>1, <1>2, <1>3, <1>4

\* The player stops: it forgets what it has seen.
LEMMA Forgets ==
  ASSUME MakerInv, PlayerInv, UNCHANGED makerVars, reply' = reply \/ reply' = Nothing, StopAll,
         UNCHANGED latest
  PROVE  PlayerInv'
<1>1. /\ phase' = "over" /\ timers' = {} /\ busy' = 0 /\ segList' = <<>> /\ cached' = <<>> /\ latest' = latest
      /\ MaxSegs \in Nat
  BY HlsAssumption DEF StopAll
<1>2. Top' = 0 /\ LastClosed' = LastClosed
  BY <1>1 DEF Top, LastClosed, makerVars
<1>3. PlayerTyped' /\ Quiet' /\ NeverIdle' /\ ListsRise'
  BY <1>1 DEF PlayerInv, PlayerTyped, Quiet, NeverIdle, ListsRise, Rising
<1>4. 0 <= Top /\ Top \in Int
  BY TopBounds, HlsAssumption DEF PlayerInv, ListsRise
<1>5. LastClosed \in Int /\ 0 <= LastClosed
  BY <1>4, Bounds DEF LastClosed, PlayerInv, IndexRuns
<1>6. ASSUME NEW list \in Seq(Segments), NEW i \in 1..Len(list)
      PROVE  ~(list[i] <= 0)
  <2>1. list[i] \in Segments
    OBVIOUS
  <2> QED
    BY <1>1, <2>1 DEF Segments
<1>7. IndexRuns'
  <2>1. index.segs \in Seq(Segments) /\ index' = index
    BY DEF PlayerInv, IndexRuns, makerVars
  <2>2. Seen(index.segs)'
    BY <1>2, <1>6, <2>1 DEF Seen
  <2> QED
    BY <1>2, <1>5, <2>1, <2>2 DEF PlayerInv, IndexRuns, RunUpTo, makerVars
<1>8. ReplyRuns'
  <2>1. CASE reply' = Nothing
    BY <2>1 DEF Nothing, ReplyRuns
  <2>2. CASE reply' = reply /\ reply.kind = "found"
    <3> DEFINE segs == reply.index.segs
    <3>1. /\ segs \in Seq(Segments) /\ segs # <<>>
          /\ RunUpTo(segs, segs[Len(segs)]) /\ segs[Len(segs)] <= LastClosed
          /\ \A i \in 1..Len(index.segs) : segs[1] <= index.segs[i]
      BY <2>2 DEF PlayerInv, ReplyRuns
    <3>2. segs' = segs /\ index' = index
      BY <2>2 DEF makerVars
    <3> HIDE DEF segs
    <3>3. Len(segs) \in 1..Len(segs)
      BY <3>1
    <3>4. segs[Len(segs)] \in Segments
      BY <3>1, <3>3
    <3>5. 0 <= segs[Len(segs)]
      BY <1>1, <3>4 DEF Segments
    <3>6. RunUpTo(segs, segs[Len(segs)])' /\ Seen(segs)'
      BY <1>2, <1>6, <3>1, <3>2 DEF RunUpTo, Seen
    <3> QED
      BY <1>2, <3>1, <3>2, <3>5, <3>6 DEF ReplyRuns, segs
  <2>3. CASE reply' = reply /\ reply.kind # "found"
    BY <2>3 DEF ReplyRuns
  <2> QED
    BY <2>1, <2>2, <2>3
<1> QED
  BY <1>3, <1>7, <1>8 DEF PlayerInv

-----------------------------------------------------------------------------
\* What a new index adds.
LEMMA FreshRises ==
  ASSUME MakerInv, PlayerInv, reply.kind = "found", NEW new \in Fresh(reply.index.segs)
  PROVE  LET segs == reply.index.segs
             all  == cached \o new
         IN  /\ new \in Seq(Segments) /\ Rising(new)
             /\ \A i \in 1..Len(new) : Top < new[i] /\ new[i] <= segs[Len(segs)]
             /\ all \in Seq(Segments) /\ Rising(all) /\ all # <<>>
             /\ all[Len(all)] = segs[Len(segs)]
             /\ \A i \in 1..Len(segs) : \E j \in 1..Len(all) : all[j] = segs[i]
<1> DEFINE segs == reply.index.segs
           n == Len(segs)
           all == cached \o new
<1>1. /\ segs \in Seq(Segments) /\ segs # <<>> /\ RunUpTo(segs, segs[n]) /\ Top <= segs[n] /\ Seen(segs)
      /\ cached \in Seq(Segments) /\ Rising(cached)
  BY DEF PlayerInv, ReplyRuns, PlayerTyped, ListsRise
<1>2. Top \in Int /\ \A j \in 1..Len(cached) : cached[j] <= Top
  BY TopBounds, HlsAssumption DEF PlayerInv, ListsRise
<1>3. /\ new \in Seq(ToSet(segs))
      /\ \A i \in 1..Len(new) : \E k \in 1..n : new[i] = segs[k]
      /\ \A i \in 1..Len(new) : \A j \in 1..Len(cached) : new[i] # cached[j]
      /\ \A k \in 1..n : (\E j \in 1..Len(cached) : cached[j] = segs[k]) \/ (\E i \in 1..Len(new) : new[i] = segs[k])
      /\ \A i, j \in 1..Len(new) : i < j =>
           \E k, l \in 1..n : k < l /\ new[i] = segs[k] /\ new[j] = segs[l]
  <2>1. PICK m \in 0..n : new \in [1..m -> ToSet(segs)]
    BY DEF Fresh, BoundedSeq, SeqOf
  <2>2. m \in Nat
    BY <1>1
  <2>3. new \in Seq(ToSet(segs)) /\ Len(new) = m
    BY <2>1, <2>2
  <2>4. /\ DOMAIN new = 1..Len(new) /\ DOMAIN segs = 1..n /\ DOMAIN cached = 1..Len(cached)
    BY <1>1, <2>3
  <2>5. /\ ToSet(new) = ToSet(segs) \ ToSet(cached)
        /\ \A i, j \in DOMAIN new : i < j =>
             \E k, l \in DOMAIN segs : k < l /\ new[i] = segs[k] /\ new[j] = segs[l]
    BY DEF Fresh
  <2>6. /\ ToSet(new) = {new[i] : i \in 1..Len(new)} /\ ToSet(segs) = {segs[i] : i \in 1..n}
        /\ ToSet(cached) = {cached[i] : i \in 1..Len(cached)}
    BY <2>4 DEF ToSet
  <2> HIDE DEF segs
  <2>7. \A i \in 1..Len(new) : new[i] \in ToSet(segs) /\ new[i] \notin ToSet(cached)
    BY <2>5, <2>6
  <2>8. \A k \in 1..n : segs[k] \in ToSet(cached) \/ segs[k] \in ToSet(new)
    BY <2>5, <2>6
  <2>9. \A i \in 1..Len(new) : \E k \in 1..n : new[i] = segs[k]
    BY <2>6, <2>7
  <2>10. \A i \in 1..Len(new) : \A j \in 1..Len(cached) : new[i] # cached[j]
    BY <2>6, <2>7
  <2>11. \A k \in 1..n : (\E j \in 1..Len(cached) : cached[j] = segs[k]) \/ (\E i \in 1..Len(new) : new[i] = segs[k])
    BY <2>6, <2>8
  <2>12. \A i, j \in 1..Len(new) : i < j =>
           \E k, l \in 1..n : k < l /\ new[i] = segs[k] /\ new[j] = segs[l]
    BY <2>4, <2>5
  <2> QED
    BY <2>3, <2>9, <2>10, <2>11, <2>12
<1> HIDE DEF segs
<1>4. \A k \in 1..n : segs[k] \in Segments /\ segs[k] = segs[n] - n + k
  BY <1>1 DEF RunUpTo
<1>5. n \in Nat /\ n \in 1..n /\ \A k \in 1..n : segs[k] \in Int
  BY <1>1, <1>4 DEF Segments
<1>6. ToSet(segs) \subseteq Segments
  <2>1. DOMAIN segs = 1..n
    BY <1>1
  <2> QED
    BY <1>4, <2>1 DEF ToSet
<1>7. new \in Seq(Segments)
  BY <1>3, <1>6, SeqMonotonic
<1>8. Rising(new)
  <2> SUFFICES ASSUME NEW i \in 1..Len(new), NEW j \in 1..Len(new), i < j PROVE new[i] < new[j]
    BY DEF Rising
  <2>1. PICK k, l \in 1..n : k < l /\ new[i] = segs[k] /\ new[j] = segs[l]
    BY <1>3
  <2> QED
    BY <1>4, <1>5, <2>1
<1>9. ASSUME NEW i \in 1..Len(new)
      PROVE  Top < new[i] /\ new[i] <= segs[n] /\ new[i] \in Int
  <2>1. PICK k \in 1..n : new[i] = segs[k]
    BY <1>3
  <2>2. ~(segs[k] <= Top)
    <3>1. \A j \in 1..Len(cached) : cached[j] # segs[k]
      BY <1>3, <2>1
    <3>2. k \in 1..Len(segs) /\ Seen(segs)
      BY <1>1, <2>1
    <3> QED
      BY <3>1, <3>2 DEF Seen
  <2> QED
    BY <1>2, <1>4, <1>5, <2>1, <2>2
<1>10. /\ all \in Seq(Segments) /\ Rising(all) /\ Len(all) = Len(cached) + Len(new)
       /\ \A i \in 1..Len(cached) : all[i] = cached[i]
       /\ \A i \in 1..Len(new) : all[Len(cached) + i] = new[i]
  BY <1>1, <1>2, <1>7, <1>8, <1>9, ConcatRises
<1> HIDE DEF all
<1>11. Len(cached) \in Nat /\ Len(new) \in Nat
  BY <1>1, <1>7
<1>12. ASSUME NEW k \in 1..n
       PROVE  \E j \in 1..Len(all) : all[j] = segs[k]
  <2>1. CASE \E j \in 1..Len(cached) : cached[j] = segs[k]
    <3>1. PICK j \in 1..Len(cached) : cached[j] = segs[k]
      BY <2>1
    <3>2. j \in 1..Len(all)
      BY <1>10, <1>11
    <3> QED
      BY <1>10, <3>1, <3>2
  <2>2. CASE \E i \in 1..Len(new) : new[i] = segs[k]
    <3>1. PICK i \in 1..Len(new) : new[i] = segs[k]
      BY <2>2
    <3>2. Len(cached) + i \in 1..Len(all)
      BY <1>10, <1>11
    <3> QED
      BY <1>10, <3>1, <3>2
  <2> QED
    BY <1>3, <2>1, <2>2
<1>13. all # <<>> /\ Len(all) \in 1..Len(all)
  <2>1. PICK j \in 1..Len(all) : all[j] = segs[n]
    BY <1>5, <1>12
  <2>2. Len(all) \in Nat
    BY <1>10
  <2> QED
    BY <2>1, <2>2, <1>10
<1>14. all[Len(all)] = segs[n]
  <2>1. PICK j \in 1..Len(all) : all[j] = segs[n]
    BY <1>5, <1>12
  <2>2. all[j] <= all[Len(all)]
    <3>1. j = Len(all) \/ j < Len(all)
      BY <1>13
    <3>2. all[j] \in Int
      BY <1>5, <2>1
    <3>3. ASSUME j < Len(all) PROVE all[j] < all[Len(all)]
      BY <1>10, <1>13, <3>3 DEF Rising
    <3>4. all[Len(all)] \in Int
      BY <1>10, <1>13, SegmentsAreNumbers
    <3> QED
      BY <3>1, <3>2, <3>3, <3>4
  <2>3. all[Len(all)] <= segs[n] /\ all[Len(all)] \in Int
    <3>1. CASE Len(new) = 0
      <4>1. Len(all) = Len(cached) /\ Len(all) \in 1..Len(cached)
        BY <1>10, <1>11, <1>13, <3>1
      <4>2. all[Len(all)] = cached[Len(cached)] /\ cached[Len(cached)] \in Segments
        BY <1>1, <1>10, <4>1
      <4> QED
        BY <1>1, <1>2, <1>5, <4>1, <4>2 DEF Segments
    <3>2. CASE Len(new) # 0
      <4>1. Len(new) \in 1..Len(new) /\ Len(all) = Len(cached) + Len(new)
        BY <1>10, <1>11, <3>2
      <4> QED
        BY <1>9, <1>10, <4>1
    <3> QED
      BY <3>1, <3>2
  <2> QED
    BY <1>5, <2>1, <2>2, <2>3
<1> QED
  BY <1>7, <1>8, <1>9, <1>10, <1>12, <1>13, <1>14 DEF segs, all

\* An index cut short: what is forgotten no index can name any more.
LEMMA CacheKeeps ==
  ASSUME MakerInv, PlayerInv, reply.kind = "found", NEW new \in Fresh(reply.index.segs),
         UNCHANGED makerVars, cached' = Cache(cached \o new, Len(reply.index.segs))
  PROVE  /\ cached' \in Seq(Segments) /\ Rising(cached)'
         /\ Top' = reply.index.segs[Len(reply.index.segs)] /\ Top <= Top' /\ Top' \in Int
         /\ IndexRuns'
<1> DEFINE segs == reply.index.segs
           n == Len(segs)
           all == cached \o new
           kept == Cache(all, n)
<1>1. /\ segs \in Seq(Segments) /\ segs # <<>> /\ RunUpTo(segs, segs[n]) /\ Top <= segs[n]
      /\ segs[n] <= LastClosed
      /\ \A i \in 1..Len(index.segs) : segs[1] <= index.segs[i]
      /\ index.segs \in Seq(Segments)
  BY DEF PlayerInv, ReplyRuns, IndexRuns
<1>2. /\ all \in Seq(Segments) /\ Rising(all) /\ all # <<>> /\ all[Len(all)] = segs[n]
      /\ \A i \in 1..n : \E j \in 1..Len(all) : all[j] = segs[i]
  BY FreshRises
<1>3. cached' = kept
  OBVIOUS
<1> HIDE DEF segs, all
<1>5. /\ n \in Nat /\ n \in 1..n /\ 1 \in 1..n
      /\ \A k \in 1..n : segs[k] \in Int /\ segs[k] = segs[n] - n + k
  BY <1>1, SegmentsAreNumbers DEF RunUpTo
<1>6. /\ Len(all) \in Nat /\ Len(all) \in 1..Len(all) /\ 1 \in 1..Len(all)
      /\ \A k \in 1..Len(all) : all[k] \in Int /\ all[k] \in Segments
  BY <1>2, SegmentsAreNumbers
<1>7. ASSUME Len(all) > 2 * n
      PROVE  all[1] < segs[1]
  <2>1. all \in Seq(Int)
    BY <1>2, SeqMonotonic, HlsAssumption DEF Segments
  <2>2. all[Len(all)] - all[1] >= Len(all) - 1
    BY <1>2, <1>6, <2>1, RisingSpread
  <2>3. segs[1] = segs[n] - n + 1
    BY <1>5
  <2> QED
    BY <1>2, <1>5, <1>6, <1>7, <2>2, <2>3
<1>8. /\ kept \in Seq(Segments) /\ Rising(kept) /\ kept # <<>> /\ kept[Len(kept)] = segs[n]
      /\ \A j \in 1..Len(all) : segs[1] <= all[j] => \E i \in 1..Len(kept) : kept[i] = all[j]
  <2>1. CASE Len(all) > 2 * n
    <3>1. kept = Tail(all)
      BY <2>1 DEF Cache
    <3>2. /\ Len(kept) = Len(all) - 1 /\ kept \in Seq(Segments) /\ Rising(kept)
          /\ \A i \in 1..Len(kept) : kept[i] = all[i + 1]
      BY <1>2, <3>1, TailRises
    <3>3. Len(kept) \in 1..Len(kept) /\ kept # <<>>
      BY <1>5, <1>6, <2>1, <3>2
    <3>4. kept[Len(kept)] = all[Len(all)]
      BY <1>6, <3>2, <3>3
    <3>5. ASSUME NEW j \in 1..Len(all), segs[1] <= all[j]
          PROVE  \E i \in 1..Len(kept) : kept[i] = all[j]
      <4>1. j # 1
        BY <1>5, <1>6, <1>7, <2>1, <3>5
      <4>2. j - 1 \in 1..Len(kept) /\ (j - 1) + 1 = j
        BY <1>6, <3>2, <4>1
      <4> QED
        BY <3>2, <4>2
    <3> HIDE DEF kept
    <3> QED
      BY <1>2, <3>2, <3>3, <3>4, <3>5
  <2>2. CASE ~(Len(all) > 2 * n)
    <3>1. kept = all
      BY <2>2 DEF Cache
    <3> QED
      BY <1>2, <3>1
  <2> QED
    BY <2>1, <2>2
<1> HIDE DEF kept
<1>9. Top' = segs[n]
  BY <1>3, <1>8 DEF Top
<1>10. Seen(index.segs)'
  <2> SUFFICES ASSUME NEW i \in 1..Len(index.segs), index.segs[i] <= segs[n]
               PROVE  \E j \in 1..Len(kept) : kept[j] = index.segs[i]
    BY <1>3, <1>9 DEF Seen, makerVars
  <2> DEFINE v == index.segs[i]
             k == v - segs[1] + 1
  <2>1. v \in Int /\ segs[1] <= v
    BY <1>1, SegmentsAreNumbers
  <2>2. segs[1] = segs[n] - n + 1
    BY <1>5
  <2>3. k \in 1..n /\ k \in Int
    BY <1>5, <2>1, <2>2
  <2>4. segs[k] = v
    <3>1. segs[k] = segs[n] - n + k
      BY <1>5, <2>3
    <3> QED
      BY <1>5, <2>1, <2>2, <3>1
  <2> HIDE DEF k
  <2>5. PICK j \in 1..Len(all) : all[j] = v
    BY <1>2, <2>3, <2>4
  <2> QED
    BY <1>8, <2>1, <2>5
<1>11. IndexRuns'
  <2>1. LastClosed' = LastClosed /\ index' = index
    BY DEF LastClosed, makerVars
  <2>2. (Top <= LastClosed)'
    BY <1>1, <1>9, <2>1
  <2> QED
    BY <1>10, <2>1, <2>2 DEF PlayerInv, IndexRuns, RunUpTo, makerVars
<1> QED
  BY <1>1, <1>3, <1>5, <1>8, <1>9, <1>11 DEF segs, Rising

\* The next segment is taken from a list of those to be fetched.
LEMMA Takes ==
  ASSUME NEW list \in Seq(Segments), Rising(list), list # <<>>,
         NEW low \in Int, NEW high \in Int,
         \A i \in 1..Len(list) : low < list[i] /\ list[i] <= high
  PROVE  /\ Tail(list) \in Seq(Segments) /\ Rising(Tail(list))
         /\ \A i \in 1..Len(Tail(list)) : Head(list) < Tail(list)[i] /\ Tail(list)[i] <= high
         /\ low < Head(list) /\ Head(list) <= high /\ Head(list) \in 1..MaxSegs
  BY TailRises DEF Segments

\* An index that comes.
LEMMA IndexArrivesKeeps ==
  ASSUME MakerInv, PlayerInv, IndexArrives
  PROVE  PlayerInv' /\ (busy' \notin {0, busy} => busy' > latest)
<1> DEFINE segs == reply.index.segs
<1>1. /\ reply.kind = "found" /\ phase \in {"trying", "playing"} /\ phase' = "playing"
      /\ Parsed(reply.index.seq, segs) /\ UNCHANGED makerVars /\ reply' = Nothing
  BY DEF IndexArrives, IndexReceived
<1>2. PlayerTyped /\ Quiet /\ NeverIdle /\ ListsRise
  BY DEF PlayerInv
<1>3. ReplyRuns'
  BY <1>1 DEF ReplyRuns, Nothing
<1>4. CASE lastSeq = reply.index.seq
  <2>1. /\ asking' = FALSE /\ timers' = timers \cup {"index"}
        /\ UNCHANGED <<lastSeq, segList, cached, busy, latest>>
    BY <1>1, <1>4 DEF Parsed
  <2>2. IndexRuns' /\ Top' = Top
    BY <1>1, <2>1, SameSeen DEF makerVars
  <2>3. PlayerTyped' /\ Quiet' /\ NeverIdle' /\ ListsRise'
    BY <1>1, <1>2, <2>1, <2>2 DEF PlayerTyped, Quiet, NeverIdle, ListsRise, Rising
  <2> QED
    BY <1>3, <2>1, <2>2, <2>3 DEF PlayerInv
<1>5. CASE lastSeq # reply.index.seq
  <2> DEFINE List(new) == segList \o new
  <2>1. PICK new \in Fresh(segs) :
          /\ cached' = Cache(cached \o new, Len(segs))
          /\ timers' = timers \cup {"index"}
          /\ IF List(new) # <<>> /\ busy = 0
             THEN segList' = Tail(List(new)) /\ busy' = Head(List(new)) /\ latest' = Head(List(new))
             ELSE segList' = List(new) /\ UNCHANGED <<busy, latest>>
    BY <1>1, <1>5 DEF Parsed
  <2> DEFINE list == List(new)
  <2>2. /\ cached' \in Seq(Segments) /\ Rising(cached)' /\ IndexRuns'
        /\ Top' = segs[Len(segs)] /\ Top <= Top' /\ Top' \in Int
    BY <1>1, <2>1, CacheKeeps
  <2>3. /\ new \in Seq(Segments) /\ Rising(new)
        /\ \A i \in 1..Len(new) : Top < new[i] /\ new[i] <= Top'
    BY <1>1, <2>1, <2>2, FreshRises
  <2>4. /\ segList \in Seq(Segments) /\ Rising(segList) /\ latest \in Int /\ latest <= Top
        /\ \A i \in 1..Len(segList) : latest < segList[i] /\ segList[i] <= Top
        /\ busy \in 0..MaxSegs /\ latest \in 0..MaxSegs
    BY <1>1, <1>2, HlsAssumption DEF PlayerTyped, ListsRise
  <2>5. Top \in Int
    BY <1>2, TopBounds DEF ListsRise
  <2>6. /\ list \in Seq(Segments) /\ Rising(list)
        /\ \A i \in 1..Len(list) :
             (i \in 1..Len(segList) /\ list[i] = segList[i]) \/ (i - Len(segList) \in 1..Len(new) /\ list[i] = new[i - Len(segList)])
    BY <2>3, <2>4, <2>5, ConcatRises
  <2> HIDE DEF list
  <2>7. \A i \in 1..Len(list) : latest < list[i] /\ list[i] <= Top'
    <3> TAKE i \in 1..Len(list)
    <3>1. list[i] \in Int
      BY <2>6, SegmentsAreNumbers
    <3>2. CASE i \in 1..Len(segList) /\ list[i] = segList[i]
      BY <2>2, <2>4, <2>5, <3>1, <3>2
    <3>3. CASE i - Len(segList) \in 1..Len(new) /\ list[i] = new[i - Len(segList)]
      <4>1. Top < list[i] /\ list[i] <= Top'
        BY <2>3, <3>3
      <4> QED
        BY <2>2, <2>4, <2>5, <3>1, <4>1
    <3> QED
      BY <2>6, <3>2, <3>3
  <2>8. CASE list # <<>> /\ busy = 0
    <3>1. segList' = Tail(list) /\ busy' = Head(list) /\ latest' = Head(list)
      BY <2>1, <2>8 DEF list
    <3>2. /\ Tail(list) \in Seq(Segments) /\ Rising(Tail(list))
          /\ \A i \in 1..Len(Tail(list)) : Head(list) < Tail(list)[i] /\ Tail(list)[i] <= Top'
          /\ latest < Head(list) /\ Head(list) <= Top' /\ Head(list) \in 1..MaxSegs
      BY <2>2, <2>4, <2>6, <2>7, <2>8, Takes
    <3>3. PlayerTyped' /\ Quiet' /\ ListsRise'
      BY <1>1, <1>2, <2>1, <2>2, <3>1, <3>2 DEF PlayerTyped, Quiet, ListsRise, Rising
    <3>4. NeverIdle'
      BY <1>1, <2>1, <3>1, <3>2 DEF NeverIdle
    <3> QED
      BY <1>3, <2>2, <3>1, <3>2, <3>3, <3>4 DEF PlayerInv
  <2>9. CASE ~(list # <<>> /\ busy = 0)
    <3>1. segList' = list /\ busy' = busy /\ latest' = latest
      BY <2>1, <2>9 DEF list
    <3>2. latest <= Top'
      BY <2>2, <2>4, <2>5
    <3>3. PlayerTyped' /\ Quiet' /\ ListsRise'
      BY <1>1, <1>2, <2>1, <2>2, <2>4, <2>6, <2>7, <3>1, <3>2 DEF PlayerTyped, Quiet, ListsRise, Rising
    <3>4. NeverIdle'
      BY <1>1, <2>1, <2>9, <3>1 DEF NeverIdle
    <3> QED
      BY <1>3, <2>2, <3>1, <3>3, <3>4 DEF PlayerInv
  <2> QED
    BY <2>8, <2>9
<1> QED
  BY <1>4, <1>5

\* A timer comes to what is still to be fetched.
LEMMA SegmentTimerKeeps ==
  ASSUME MakerInv, PlayerInv, SegmentTimer, UNCHANGED <<makerVars, linkVars>>
  PROVE  PlayerInv' /\ (busy' \notin {0, busy} => busy' > latest)
<1>1. /\ PlayerTyped /\ Quiet /\ NeverIdle /\ ListsRise /\ "segment" \in timers
      /\ UNCHANGED <<phase, cached>> /\ reply' = reply
  BY DEF PlayerInv, SegmentTimer, linkVars
<1>2. IndexRuns' /\ ReplyRuns' /\ Top' = Top
  BY <1>1, SameSeen DEF makerVars
<1>3. phase = "playing"
  BY <1>1 DEF Quiet
<1>4. CASE segList = <<>>
  <2>1. asking' = TRUE /\ segList' = segList /\ UNCHANGED <<busy, latest>>
    BY <1>4 DEF SegmentTimer, FetchSegment
  <2> QED
    BY <1>1, <1>2, <1>3, <1>4, <2>1 DEF PlayerInv, PlayerTyped, Quiet, NeverIdle, ListsRise, Rising
<1>5. CASE segList # <<>> /\ busy # 0
  <2>1. /\ timers' = timers \ {"segment"} /\ asking' = asking /\ segList' = segList
        /\ UNCHANGED <<busy, latest>>
    BY <1>5 DEF SegmentTimer, FetchSegment
  <2> QED
    BY <1>1, <1>2, <1>3, <1>5, <2>1 DEF PlayerInv, PlayerTyped, Quiet, NeverIdle, ListsRise, Rising
<1>6. CASE segList # <<>> /\ busy = 0
  <2>1. /\ timers' = timers \ {"segment"} /\ asking' = asking
        /\ segList' = Tail(segList) /\ busy' = Head(segList) /\ latest' = Head(segList)
    BY <1>6 DEF SegmentTimer, FetchSegment
  <2>2. latest \in Int /\ Top \in Int
    BY <1>1, TopBounds, HlsAssumption DEF PlayerTyped, ListsRise
  <2>3. /\ Tail(segList) \in Seq(Segments) /\ Rising(Tail(segList))
        /\ \A i \in 1..Len(Tail(segList)) : Head(segList) < Tail(segList)[i] /\ Tail(segList)[i] <= Top
        /\ latest < Head(segList) /\ Head(segList) <= Top /\ Head(segList) \in 1..MaxSegs
    BY <1>1, <1>6, <2>2, Takes DEF PlayerTyped, ListsRise
  <2>4. PlayerTyped' /\ Quiet' /\ ListsRise'
    BY <1>1, <1>2, <1>3, <2>1, <2>3 DEF PlayerTyped, Quiet, ListsRise, Rising
  <2>5. NeverIdle'
    BY <1>1, <1>3, <2>1, <2>3 DEF NeverIdle
  <2> QED
    BY <1>2, <2>1, <2>3, <2>4, <2>5 DEF PlayerInv
<1> QED
  BY <1>4, <1>5, <1>6

\* The steps of the player that fetch nothing, and of the server.
LEMMA OthersKeep ==
  ASSUME MakerInv, PlayerInv,
         \/ IndexFails
         \/ /\ Play \/ SegmentCompleted \/ IndexTimer \/ TracksReady \/ DemuxerEnds \/ Teardown
            /\ UNCHANGED <<makerVars, linkVars>>
         \/ Report \/ CookieExpires \/ UNCHANGED vars
  PROVE  PlayerInv' /\ busy' \in {0, busy}
<1>1. PlayerTyped /\ Quiet /\ NeverIdle /\ ListsRise
  BY DEF PlayerInv
<1>2. ASSUME UNCHANGED <<phase, asking, segList, cached, busy, timers, latest>>
      PROVE  /\ Top' = Top => PlayerTyped' /\ Quiet' /\ NeverIdle' /\ ListsRise'
             /\ busy' \in {0, busy}
  BY <1>1, <1>2 DEF PlayerTyped, Quiet, NeverIdle, ListsRise, Rising
<1>3. ASSUME UNCHANGED <<makerVars, cached>>, reply' = reply \/ reply' = Nothing
      PROVE  IndexRuns' /\ ReplyRuns' /\ Top' = Top
  BY <1>3, SameSeen DEF makerVars
<1>4. CASE IndexFails
  <2>1. UNCHANGED makerVars /\ reply' = Nothing /\ latest' = latest /\ IndexFailed
    BY <1>4 DEF IndexFails, IndexFailed
  <2>2. CASE StopAll
    BY <2>1, <2>2, Forgets DEF StopAll
  <2>3. CASE UNCHANGED <<segList, cached, busy, timers, phase>> /\ (asking' = asking \/ phase = "over")
    BY <1>1, <1>3, <2>1, <2>3 DEF PlayerInv, PlayerTyped, Quiet, NeverIdle, ListsRise, Rising
  <2> QED
    BY <2>1, <2>2, <2>3 DEF IndexFailed
<1>5. CASE Play /\ UNCHANGED <<makerVars, linkVars>>
  <2>1. UNCHANGED <<segList, cached, busy, timers, latest>> /\ phase = "idle" /\ phase' = "trying"
    BY <1>5 DEF Play
  <2>2. reply' = reply
    BY <1>5 DEF linkVars
  <2> QED
    BY <1>1, <1>3, <1>5, <2>1, <2>2 DEF PlayerInv, PlayerTyped, Quiet, NeverIdle, ListsRise, Rising
<1>6. CASE SegmentCompleted /\ UNCHANGED <<makerVars, linkVars>>
  <2>1. /\ busy # 0 /\ busy' = 0 /\ timers' = timers \cup {"segment"}
        /\ UNCHANGED <<phase, asking, segList, cached, latest>> /\ phase = "playing" /\ reply' = reply
    BY <1>1, <1>6 DEF SegmentCompleted, Quiet, linkVars
  <2> QED
    BY <1>1, <1>3, <1>6, <2>1, HlsAssumption DEF PlayerInv, PlayerTyped, Quiet, NeverIdle, ListsRise, Rising
<1>7. CASE IndexTimer /\ UNCHANGED <<makerVars, linkVars>>
  <2>1. /\ timers' = timers \ {"index"} /\ asking' = TRUE /\ "index" \in timers
        /\ UNCHANGED <<phase, segList, cached, busy, latest>> /\ reply' = reply
    BY <1>7 DEF IndexTimer, linkVars
  <2> QED
    BY <1>1, <1>3, <1>7, <2>1 DEF PlayerInv, PlayerTyped, Quiet, NeverIdle, ListsRise, Rising
<1>8. CASE (TracksReady \/ DemuxerEnds) /\ UNCHANGED <<makerVars, linkVars>>
  <2>1. UNCHANGED <<phase, asking, segList, cached, busy, timers, latest>> /\ reply' = reply
    BY <1>8 DEF TracksReady, DemuxerEnds, linkVars
  <2> QED
    BY <1>2, <1>3, <1>8, <2>1 DEF PlayerInv
<1>9. CASE Teardown /\ UNCHANGED <<makerVars, linkVars>>
  BY <1>9, Forgets DEF Teardown, StopAll, linkVars
<1>10. CASE Report
  <2>1. /\ UNCHANGED <<alive, made, index, inFile, maker.open, maker.segs, playerVars>> /\ reply' = reply
    <3>1. maker' = [maker EXCEPT !.enabled = cookie.attached \/ ~Demand,
                                 !.clearing = @ \/ (~cookie.attached /\ Demand)]
      BY <1>10 DEF Report, ReaderChanged, Switch
    <3>2. maker \in [fileIndex : 0..MaxSegs, open : 0..MaxSegs, segs : Seq(Segments),
                     enabled : BOOLEAN, clearing : BOOLEAN]
      BY DEF MakerInv, HlsMakerTypeOK
    <3>3. maker'.open = maker.open /\ maker'.segs = maker.segs
      BY <3>1, <3>2
    <3> QED
      BY <1>10, <3>3 DEF Report, ReaderChanged, linkVars
  <2> QED
    BY <1>2, <2>1, SameSeen DEF PlayerInv, playerVars
<1>11. CASE CookieExpires \/ UNCHANGED vars
  <2>1. UNCHANGED <<makerVars, playerVars>> /\ reply' = reply
    BY <1>11 DEF CookieExpires, vars, linkVars
  <2> QED
    BY <1>2, <1>3, <2>1 DEF PlayerInv, playerVars
<1> QED
  BY <1>4, <1>5, <1>6, <1>7, <1>8, <1>9, <1>10, <1>11

LEMMA PlayerStepInv ==
  ASSUME MakerInv, PlayerInv, [LinkNext]_vars
  PROVE  PlayerInv' /\ (busy' \notin {0, busy} => busy' > latest)
<1>1. CASE Answer
  BY <1>1, AnswerKeepsPlayer DEF Answer, playerVars
<1>2. CASE MakerStep
  BY <1>2, MakerKeepsPlayer DEF MakerStep, playerVars
<1>3. CASE IndexArrives
  BY <1>3, IndexArrivesKeeps
<1>4. CASE SegmentTimer /\ UNCHANGED <<makerVars, linkVars>>
  BY <1>4, SegmentTimerKeeps
<1> QED
  BY <1>1, <1>2, <1>3, <1>4, OthersKeep DEF LinkNext, PlayerStep

LEMMA PlayerInitInv == ASSUME LinkInit PROVE PlayerInv
<1>1. /\ phase = "idle" /\ asking = FALSE /\ segList = <<>> /\ cached = <<>> /\ busy = 0 /\ timers = {}
      /\ latest = 0 /\ maker = NewMaker /\ made = 0 /\ index = NoIndex /\ inFile = FALSE /\ reply = Nothing
  BY DEF LinkInit, MakerInit, PlayerInit
<1>2. NewMaker.open = 0 /\ NewMaker.segs = <<>> /\ NoIndex.segs = <<>> /\ Nothing.kind = "none"
  BY DEF NewMaker, NoIndex, Nothing
<1>3. Top = 0 /\ LastClosed = 0
  BY <1>1, <1>2 DEF Top, LastClosed
<1>4. PlayerTyped /\ Quiet /\ NeverIdle /\ ListsRise
  BY <1>1, <1>3, HlsAssumption DEF PlayerTyped, Quiet, NeverIdle, ListsRise, Rising
<1>5. IndexRuns /\ ReplyRuns
  BY <1>1, <1>2, <1>3 DEF IndexRuns, ReplyRuns, RunUpTo, Seen
<1> QED
  BY <1>4, <1>5 DEF PlayerInv

LEMMA PlayerInvariance == LinkSpec => [](MakerInv /\ CookieOK /\ PlayerInv)
<1>1. LinkInit => PlayerInv
  BY PlayerInitInv
<1>2. MakerInv /\ PlayerInv /\ [LinkNext]_vars => PlayerInv'
  BY PlayerStepInv
<1> QED
  BY <1>1, <1>2, HlsInvariance, PTL DEF LinkSpec

\* While a player plays, it is never idle: an index is being fetched or a timer
\* will have it fetched, and the same holds of segments (HlsPlayer.cpp:72, 114, 217).
THEOREM HlsNeverIdle == LinkSpec => []NeverIdle
  BY PlayerInvariance, PTL DEF PlayerInv

\* A player fetches no segment twice and none after a later one, whatever the
\* numbers of segments an index names, of recorders and of clearings
\* (HlsPlayer::onParsed).
THEOREM HlsSegmentsInOrder == LinkSpec => SegmentsInOrder
<1>1. MakerInv /\ PlayerInv /\ [LinkNext]_vars => [busy' \notin {0, busy} => busy' > latest]_playerVars
  BY PlayerStepInv
<1> QED
  BY <1>1, PlayerInvariance, PTL DEF LinkSpec, SegmentsInOrder
=============================================================================
