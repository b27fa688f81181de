------------------------------ MODULE NoneReader ------------------------------
(***************************************************************************)
(* When nobody watches a stream: the counting of its viewers and the event *)
(* that says there are none left, on which on-demand pulls rely to stop.   *)
(* A MultiMediaSourceMuxer (src/src/Common/MultiMediaSourceMuxer.cpp) owns *)
(* the stream's media sources, an HLS source that a recording call may     *)
(* create and drop, an MP4 recorder and the RTP senders.  Players join and *)
(* leave on their own threads; the sources (src/src/Common/MediaSource.cpp)*)
(* post the new count to the poller that owns the stream, and the poller   *)
(* arms or drops one timer, MediaSourceEvent::_async_close_timer.          *)
(***************************************************************************)
EXTENDS Integers, Sequences

CONSTANTS
    Fixed,          \* sources that live as long as the stream
    HlsSources,     \* HLS sources that may be made, one after the other
    Senders,        \* RtpSender objects that may be made, all for one ssrc
    SourceOf,       \* the media source each sender was started through
    Mp4AsPlayer,    \* ProtocolOption::mp4_as_player
    MaxReaders,     \* bound: players of one source
    MaxTasks,       \* bound: tasks that wait on the poller
    MaxCalls,       \* bound: API calls
    NullSource,     \* MediaSource::NullMediaSource(), which the C API passes
    None

Sources == Fixed \cup HlsSources

ASSUME ReaderAssumption ==
    /\ Fixed \cap HlsSources = {}
    /\ NullSource \notin Sources
    /\ None \notin Sources \cup Senders \cup {NullSource}
    /\ SourceOf \in [Senders -> Fixed \cup {NullSource}]
    /\ Mp4AsPlayer \in BOOLEAN

VARIABLES
    readers,    \* players attached to each source's ring
    hls,        \* _hls
    dropped,    \* HLS sources that were destroyed
    mp4,        \* _mp4 is there
    phase,      \* new, starting, started (its callback waits), running, over
    slot,       \* _rtp_sender[ssrc]
    tasks,      \* what waits on the owner's poller
    timer,      \* the source _async_close_timer would report, if it is armed
    asked,      \* sources whose report the hook has not answered
    closed,     \* the stream was closed
    duty,       \* history: the report that is due once the viewers have left
    calls

readerVars == <<readers, hls, dropped, mp4, phase, slot, tasks, timer, asked,
                closed, duty, calls>>

Count(s, some) == [kind |-> "count", of |-> s, some |-> some]
Ready(x) == [kind |-> "ready", of |-> x]
Close(x) == [kind |-> "close", of |-> x]

Tasks == {Count(s, b) : s \in Sources, b \in BOOLEAN}
         \cup {Ready(x) : x \in Senders} \cup {Close(x) : x \in Senders}

ReadersTypeOK ==
    /\ readers \in [Sources -> Nat]
    /\ hls \in HlsSources \cup {None}
    /\ dropped \subseteq HlsSources
    /\ mp4 \in BOOLEAN
    /\ phase \in [Senders -> {"new", "starting", "started", "running", "over"}]
    /\ slot \in Senders \cup {None}
    /\ tasks \in Seq(Tasks)
    /\ timer \in Sources \cup {NullSource, None}
    /\ asked \subseteq Sources \cup {NullSource}
    /\ closed \in BOOLEAN
    /\ duty \in {"none", "owed", "told", "lost"}
    /\ calls \in Nat

ReadersInit ==
    /\ readers = [s \in Sources |-> 0]
    /\ hls = None
    /\ dropped = {}
    /\ mp4 = FALSE
    /\ phase = [x \in Senders |-> "new"]
    /\ slot = None
    /\ tasks = <<>>
    /\ timer = None
    /\ asked = {}
    /\ closed = FALSE
    /\ duty = "none"
    /\ calls = 0

\* The muxer still has the source.
Held(s) == s # None /\ (s \in Fixed \/ s = hls)

\* MultiMediaSourceMuxer::totalReaderCount() # 0.
Watched ==
    \/ \E s \in Sources : Held(s) /\ readers[s] > 0
    \/ mp4 /\ Mp4AsPlayer
    \/ slot # None

\* Whoever watches is owed a report for when the last of them has left.
Owing(otherwise) == duty' = IF Watched' THEN "owed" ELSE otherwise

\* MediaSourceEvent::onReaderChanged: drop the timer, or arm it anew.
OnReaderChanged(s, some) ==
    timer' = IF some \/ Watched' THEN None ELSE s

Posted(task) == Len(tasks) < MaxTasks /\ tasks' = Append(tasks, task)

-----------------------------------------------------------------------------
(* Players, on their own threads. *)

\* Broken variants are named after what they lack; the runs must reject them.

\* The ring's callback reaches MediaSource::onReaderChanged, which posts the
\* count to the owner's poller.
Attach(s) ==
    /\ Held(s)
    /\ readers[s] < MaxReaders
    /\ readers' = [readers EXCEPT ![s] = @ + 1]
    /\ Posted(Count(s, TRUE))
    /\ UNCHANGED <<hls, dropped, mp4, phase, slot, timer, asked, closed, calls>>
    /\ Owing(duty)

Detach(s) ==
    /\ Held(s)
    /\ readers[s] > 0
    /\ readers' = [readers EXCEPT ![s] = @ - 1]
    /\ Posted(Count(s, readers[s] > 1))
    /\ UNCHANGED <<hls, dropped, mp4, phase, slot, timer, asked, closed, calls>>
    /\ Owing(duty)

-----------------------------------------------------------------------------
(* The poller's tasks. *)

Takes(task) == tasks # <<>> /\ Head(tasks) = task /\ tasks' = Tail(tasks)

\* The task holds its source weakly: nothing happens if it is gone.
RunCount(s, some) ==
    /\ Takes(Count(s, some))
    /\ UNCHANGED <<readers, hls, dropped, mp4, phase, slot, asked, closed,
                   duty, calls>>
    /\ IF Held(s) THEN OnReaderChanged(s, some) ELSE UNCHANGED timer

\* startSendRtp's callback: the sender takes the place of one with its ssrc.
RunReady(x) ==
    /\ Takes(Ready(x))
    /\ slot' = x
    /\ phase' = [y \in Senders |-> IF y = slot THEN "over"
                                   ELSE IF y = x THEN "running" ELSE phase[y]]
    /\ UNCHANGED <<readers, hls, dropped, mp4, asked, closed, calls>>
    /\ OnReaderChanged(SourceOf[x], Watched')
    /\ Owing(duty)

\* The caller's source takes the timer over; the null source will report a
\* stream that is none.
OwingFor(s) == Owing(IF s = NullSource /\ duty = "owed" THEN "lost" ELSE duty)

EraseQuiet(s) ==                    \* no onReaderChanged
    /\ slot' = None
    /\ phase' = [y \in Senders |-> IF y = slot THEN "over" ELSE phase[y]]
    /\ UNCHANGED <<readers, hls, dropped, mp4, timer, asked, closed>>
    /\ OwingFor(s)

\* What stopSendRtp and a sender's end have in common: erase by ssrc.
Erase(s) ==
    /\ slot' = None
    /\ phase' = [y \in Senders |-> IF y = slot THEN "over" ELSE phase[y]]
    /\ UNCHANGED <<readers, hls, dropped, mp4, asked, closed>>
    /\ OnReaderChanged(s, Watched')
    /\ OwingFor(s)

\* The onClose callback, queued when x failed, of whatever is there now.
RunClose(x) ==
    /\ Takes(Close(x))
    /\ Erase(SourceOf[x])
    /\ UNCHANGED calls

\* The timer runs once.  It holds its source weakly and counts again.
TimerFires ==
    /\ timer # None
    /\ timer' = None
    /\ UNCHANGED <<readers, hls, dropped, mp4, phase, slot, tasks, closed, calls>>
    /\ IF timer \in dropped \/ (timer # NullSource /\ Watched)
       THEN UNCHANGED <<asked, duty>>
       ELSE /\ asked' = asked \cup {timer}
            /\ duty' = IF duty = "owed" /\ timer # NullSource THEN "told"
                                                             ELSE duty

-----------------------------------------------------------------------------
(* RTP senders, connecting and sending. *)

\* startSend has resolved, bound or connected: its callback is posted.
Started(x) ==
    /\ phase[x] = "starting"
    /\ phase' = [phase EXCEPT ![x] = "started"]
    /\ Posted(Ready(x))
    /\ UNCHANGED <<readers, hls, dropped, mp4, slot, timer, asked, closed, duty,
                   calls>>

StartFails(x) ==
    /\ phase[x] = "starting"
    /\ phase' = [phase EXCEPT ![x] = "over"]
    /\ UNCHANGED <<readers, hls, dropped, mp4, slot, tasks, timer, asked, closed,
                   duty, calls>>

\* A socket error, or no receiver report for too long: onClose is posted.
Breaks(x) ==
    /\ phase[x] = "running"
    /\ Posted(Close(x))
    /\ UNCHANGED <<readers, hls, dropped, mp4, phase, slot, timer, asked, closed,
                   duty, calls>>

-----------------------------------------------------------------------------
(* API calls, which run on the poller as tasks of their own. *)

Called == calls < MaxCalls /\ calls' = calls + 1

StartSendRtp(x) ==
    /\ Called
    /\ phase[x] = "new"
    /\ phase' = [phase EXCEPT ![x] = "starting"]
    /\ UNCHANGED <<readers, hls, dropped, mp4, slot, tasks, timer, asked, closed,
                   duty>>

StopSendRtp(s) ==
    /\ Called
    /\ Erase(s)
    /\ UNCHANGED tasks

RecordMp4Quiet(s, start) ==         \* mp4_as_player left out
    /\ Called
    /\ mp4' = start
    /\ UNCHANGED <<readers, hls, dropped, phase, slot, tasks, timer, asked, closed>>
    /\ Owing(duty)

\* setupRecord(type_mp4): only a recorder that counts as a player is told of.
RecordMp4(s, start) ==
    /\ Called
    /\ mp4' = start
    /\ UNCHANGED <<readers, hls, dropped, phase, slot, tasks, asked, closed>>
    /\ IF Mp4AsPlayer THEN OnReaderChanged(s, Watched') ELSE UNCHANGED timer
    /\ Owing(duty)

StartHls(h) ==
    /\ Called
    /\ hls = None
    /\ h \notin dropped
    /\ hls' = h
    /\ UNCHANGED <<readers, dropped, mp4, phase, slot, tasks, timer, asked, closed,
                   duty>>

\* setupRecord(type_hls) destroys the source: nobody is told that its players
\* are gone, and a count or a timer that is under way for it comes to nothing.
Entrusted(h) ==
    \/ readers[h] > 0
    \/ timer = h
    \/ \E i \in DOMAIN tasks : tasks[i].kind = "count" /\ tasks[i].of = h

StopHls ==
    /\ Called
    /\ hls # None
    /\ hls' = None
    /\ dropped' = dropped \cup {hls}
    /\ readers' = [readers EXCEPT ![hls] = 0]
    /\ UNCHANGED <<mp4, phase, slot, tasks, timer, asked, closed>>
    /\ Owing(IF duty = "owed" /\ Entrusted(hls) THEN "lost" ELSE duty)

-----------------------------------------------------------------------------
(* The hook's answer to kBroadcastStreamNoneReader. *)

\* close(false) counts once more; the null source has nothing to close.
Reply(s, close) ==
    /\ s \in asked
    /\ asked' = asked \ {s}
    /\ closed' = (close /\ s \in Sources \ dropped /\ ~Watched)
    /\ UNCHANGED <<readers, hls, dropped, mp4, phase, slot, tasks, timer, duty,
                   calls>>

RunTask ==
    \/ \E s \in Sources, some \in BOOLEAN : RunCount(s, some)
    \/ \E x \in Senders : RunReady(x) \/ RunClose(x)

ApiCall ==
    \/ \E x \in Senders : StartSendRtp(x)
    \/ \E s \in Fixed \cup {NullSource} : StopSendRtp(s)
    \/ \E s \in Fixed, start \in BOOLEAN : RecordMp4(s, start)
    \/ \E h \in HlsSources : StartHls(h)
    \/ StopHls

ReadersNext ==
    /\ ~closed
    /\ \/ \E s \in Sources : Attach(s) \/ Detach(s)
       \/ RunTask
       \/ TimerFires
       \/ \E x \in Senders : Started(x) \/ StartFails(x) \/ Breaks(x)
       \/ ApiCall
       \/ \E s \in Sources \cup {NullSource}, close \in BOOLEAN : Reply(s, close)

\* The poller runs its tasks, and its timer fires.  (API calls that arm the
\* timer anew would put it off for ever; MaxCalls ends them.)
ReadersSpec ==
    /\ ReadersInit
    /\ [][ReadersNext]_readerVars
    /\ WF_readerVars(~closed /\ RunTask)
    /\ WF_readerVars(~closed /\ TimerFires)

-----------------------------------------------------------------------------
(* What whoever pays for the stream may rely on. *)

\* A count of a source that the muxer still has is on its way.
Pending == \E i \in DOMAIN tasks : tasks[i].kind = "count" /\ Held(tasks[i].of)

Unreported == duty = "owed" /\ ~Watched /\ ~closed

\* The viewers have left: the timer that will report it is armed for a source
\* that lives, or a count that will arm it is on its way.  What players,
\* recorders, senders and the timer do in the meantime cannot lose it; only a
\* recording call that destroys the source it rests on, and a call made
\* through the null source, can.
NeverForgotten == Unreported => Held(timer) \/ Pending

\* Once the poller has run what waits, an armed timer means that nobody
\* watches: whoever comes drops it, on whatever way it comes.
TimerMeansUnwatched == timer # None /\ Watched => Pending

\* In the end the report is made, unless somebody watches again.
UnwatchedReported == Unreported ~> ~Unreported
=============================================================================
