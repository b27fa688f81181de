------------------------------ MODULE HlsPlayer ------------------------------
(***************************************************************************)
(* HlsPlayer and HlsPlayerImp (Http/HlsPlayer.cpp): a player of an HLS     *)
(* stream.  Two HTTP clients, one for the index, one for the segments, and *)
(* two timers drive it; a demuxer that plays at its own pace delays what   *)
(* the caller is told.  Segments are numbers; what answers a request is    *)
(* the business of the module that puts this one to use.                   *)
(***************************************************************************)
EXTENDS Integers, Sequences, SequencesExt

CONSTANT MaxTry           \* MAX_TRY_FETCH_INDEX_TIMES

ASSUME HlsPlayerAssumption == MaxTry \in Nat

VARIABLES phase,     \* idle, trying, playing (_play_result), over (torn down)
          asking,    \* a request for the index is out
          lastSeq,   \* _last_sequence
          segList,   \* _ts_list: segments to fetch
          cached,    \* _ts_url_sort: segments seen of late
          busy,      \* segment being downloaded; 0: none
          timers,    \* those of index and segment that run
          tries,     \* _try_fetch_index_times, as far as it matters
          demuxer,   \* none, running, ending (it is to report the end)
          told,      \* the caller's: result (none, success, failure), shutdown
          latest     \* (ghost) the segment that the ring of downloads came to
playerVars == <<phase, asking, lastSeq, segList, cached, busy, timers, tries,
                demuxer, told, latest>>

PlayerInit ==
  /\ phase = "idle" /\ asking = FALSE /\ lastSeq = -1
  /\ segList = <<>> /\ cached = <<>> /\ busy = 0 /\ timers = {}
  /\ tries = 0 /\ demuxer = "none"
  /\ told = [result |-> "none", shutdown |-> FALSE] /\ latest = 0

------------------------------------------------------------------------------

\* play
Play ==
  /\ phase = "idle"
  /\ phase' = "trying" /\ asking' = TRUE
  /\ UNCHANGED <<lastSeq, segList, cached, busy, timers, tries, demuxer, told, latest>>

\* fetchSegment, on a list: an empty one has the index fetched at once, a
\* download under way goes on.
FetchSegment(list, running) ==
  IF list = <<>>
  THEN asking' = TRUE /\ timers' = running \ {"index"} /\ segList' = list /\ UNCHANGED <<busy, latest>>
  ELSE /\ timers' = running
       /\ UNCHANGED asking
       /\ IF busy # 0 THEN segList' = list /\ UNCHANGED <<busy, latest>>
          ELSE segList' = Tail(list) /\ busy' = Head(list) /\ latest' = Head(list)

CacheCleared(all, n) ==  \* broken variant: forgets what the index still names
  IF Len(all) > n THEN <<>> ELSE all

\* Those of an index that were not seen of late, in its order: one such list.
Fresh(segs) ==
  {new \in BoundedSeq(ToSet(segs), Len(segs)) :
     /\ ToSet(new) = ToSet(segs) \ ToSet(cached)
     /\ \A i, j \in DOMAIN new : i < j =>
          \E k, l \in DOMAIN segs : k < l /\ new[i] = segs[k] /\ new[j] = segs[l]}

\* One entry goes when there are more than twice as many as in the index.
Cache(all, n) == IF Len(all) > 2 * n THEN Tail(all) ELSE all

ParsedLate(seq, segs) ==     \* broken variant: leaves the segments to the next timer
  \E new \in Fresh(segs) :
    /\ lastSeq' = seq /\ cached' = Cache(cached \o new, Len(segs))
    /\ segList' = segList \o new /\ asking' = FALSE
    /\ timers' = timers \cup {"index"} /\ UNCHANGED <<busy, latest>>

ParsedForward(seq, segs) ==  \* broken variant: takes a number that starts anew for an old index
  IF seq <= lastSeq
  THEN /\ asking' = FALSE /\ timers' = timers \cup {"index"}
       /\ UNCHANGED <<lastSeq, segList, cached, busy, latest>>
  ELSE /\ lastSeq' = seq /\ cached' = segs /\ asking' = FALSE
       /\ timers' = timers \cup {"index"}
       /\ IF busy = 0 THEN segList' = Tail(segs) /\ busy' = Head(segs) /\ latest' = Head(segs)
          ELSE segList' = segs /\ UNCHANGED <<busy, latest>>

\* onParsed, and the timer that playDelay sets.  The response is complete, so
\* that an empty list asks again.
Parsed(seq, segs) ==
  IF lastSeq = seq
  THEN /\ asking' = FALSE /\ timers' = timers \cup {"index"}
       /\ UNCHANGED <<lastSeq, segList, cached, busy, latest>>
  ELSE \E new \in Fresh(segs) : LET list == segList \o new IN
         /\ lastSeq' = seq
         /\ cached' = Cache(cached \o new, Len(segs))
         /\ timers' = timers \cup {"index"}
         /\ asking' = (list = <<>>)
         /\ IF list # <<>> /\ busy = 0
            THEN segList' = Tail(list) /\ busy' = Head(list) /\ latest' = Head(list)
            ELSE segList' = list /\ UNCHANGED <<busy, latest>>

\* onResponseCompleted with an index.  The first one makes HlsPlayerImp start
\* its demuxer; the caller learns of it when the tracks are ready.
IndexReceived(seq, segs) ==
  /\ asking /\ phase \in {"trying", "playing"}
  /\ Parsed(seq, segs)
  /\ phase' = "playing"
  /\ demuxer' = IF phase = "trying" THEN "running" ELSE demuxer
  /\ UNCHANGED <<tries, told>>

\* onShutdown of HlsPlayerImp: behind what the demuxer still has to play.
OnShutdown ==
  IF demuxer # "none" THEN demuxer' = "ending" /\ UNCHANGED told
  ELSE told' = [told EXCEPT !.shutdown = TRUE] /\ UNCHANGED demuxer

\* The end of teardown_l.  (What the lists still hold plays no part any more.)
StopAll ==
  /\ phase' = "over" /\ timers' = {} /\ busy' = 0
  /\ lastSeq' = -1 /\ segList' = <<>> /\ cached' = <<>> /\ tries' = 0

GiveUpNever == FALSE                        \* broken variant: retries for ever
GiveUp == segList = <<>> /\ busy = 0 /\ tries >= MaxTry

\* teardown_l with an error: the index cannot be had.  After a teardown it is
\* the request that was out which breaks off.
IndexFailed ==
  /\ asking
  /\ \/ /\ phase = "trying"
        /\ told' = [told EXCEPT !.result = "failure"]
        /\ StopAll /\ asking' = FALSE /\ UNCHANGED demuxer
     \/ /\ phase = "playing" /\ GiveUp
        /\ OnShutdown /\ StopAll /\ asking' = FALSE
     \/ /\ phase = "playing" /\ ~GiveUp
        /\ tries' = IF tries < MaxTry THEN tries + 1 ELSE tries
        /\ UNCHANGED <<phase, asking, lastSeq, segList, cached, timers, busy, demuxer, told>>
     \/ /\ phase = "over"
        /\ OnShutdown /\ asking' = FALSE
        /\ UNCHANGED <<phase, lastSeq, segList, cached, timers, busy, tries>>
  /\ UNCHANGED latest

\* setOnComplete's callback: well or not, the next one waits for its timer.
SegmentCompleted ==
  /\ busy # 0
  /\ busy' = 0 /\ timers' = timers \cup {"segment"}
  /\ UNCHANGED <<phase, asking, lastSeq, segList, cached, tries, demuxer, told, latest>>

SegmentTimer ==
  /\ "segment" \in timers
  /\ FetchSegment(segList, timers \ {"segment"})
  /\ UNCHANGED <<phase, lastSeq, cached, tries, demuxer, told>>

\* fetchIndexFile, unless a request is out.
IndexTimer ==
  /\ "index" \in timers
  /\ timers' = timers \ {"index"} /\ asking' = TRUE
  /\ UNCHANGED <<phase, lastSeq, segList, cached, busy, tries, demuxer, told, latest>>

\* The caller's teardown: the request that is out breaks off later.
Teardown ==
  /\ phase \in {"trying", "playing"}
  /\ IF phase = "trying"
     THEN told' = [told EXCEPT !.result = "failure"] /\ UNCHANGED demuxer
     ELSE OnShutdown
  /\ StopAll
  /\ UNCHANGED <<asking, latest>>

\* addTrackCompleted: the demuxer knows its tracks.
TracksReady ==
  /\ demuxer # "none" /\ told.result = "none" /\ latest # 0
  /\ told' = [told EXCEPT !.result = "success"]
  /\ UNCHANGED <<phase, asking, lastSeq, segList, cached, busy, timers, tries, demuxer, latest>>

End == told' = [told EXCEPT !.shutdown = TRUE] /\ demuxer' = "none"

\* HlsDemuxer::onTick comes to the task that onShutdown put behind the frames.
DemuxerEnds ==
  /\ demuxer = "ending"
  /\ End
  /\ UNCHANGED <<phase, asking, lastSeq, segList, cached, busy, timers, tries, latest>>

------------------------------------------------------------------------------

\* Never idle: while it plays, a request for the index is out or will be, and
\* what is to be fetched is being fetched or will be, whichever of the four
\* (requests, timers, the other client's completion, an error) came last
\* (HlsPlayer.cpp:72, 114, 217).
NeverIdle ==
  phase = "playing" =>
    /\ asking \/ "index" \in timers
    /\ segList # <<>> => busy # 0 \/ "segment" \in timers

\* No segment is fetched twice, and none after a later one, though the list of
\* those seen is cut short and indexes overlap (HlsPlayer.cpp:158-169).
SegmentsInOrder == [][busy' \notin {0, busy} => busy' > latest]_playerVars
=============================================================================
