# ZLMediaKit in TLA+

ZLMediaKit is a media server: it takes streams in by one protocol (RTSP, RTMP,
RTP/GB28181, SRT, WebRTC, HTTP), holds them as media sources, converts them, and
gives them to players of any other protocol.  This directory holds TLA+ models
of its core logic, configurations that check them with TLC on small instances,
and proofs of the most important invariants that TLAPS checks for instances of
every size.

Every definition is a translation of code.  Paths in this text are those of the
repository: the core is `src/`, beside it `srt/`, `webrtc/`, `server/`, `api/`.
`PROJECT.json` says for each definition which lines it models.

    tlc  -config MCPublish.cfg MCPublish.tla       check one model
    tlapm MediaRegistryProofs.tla                  check one module's proofs

## 1. The system

### How it runs

There is a pool of `EventPoller`s (ZLToolKit, a submodule that is not part of
this tree), each one a thread with a queue of tasks, timers and sockets.  A
session, a player, a pull proxy and a stream each belong to one poller, which
runs all their callbacks; calls from elsewhere are posted to it.  So within an
object the difficulty is mostly the *order* in which callbacks and calls come;
across objects it is what happens between two steps on different pollers: the
directory of sources, the count of viewers, the table of proxies.  Lifetime is
by reference count: tasks and timers hold their object weakly and do nothing
when it is gone.

### Inventory

| Component | State | Operations | Talks to | What is hard |
|---|---|---|---|---|
| Media source registry (`Common/MediaSource`) | map tuple → weak pointer, mutex | regist, unregist, destructor, find, findAsync | NoticeCenter events to sessions and hooks; every session that plays or publishes | entries outlive their sources; events are emitted after the mutex is released; a wait's timer, event and cancellation race |
| Viewer counting (`MediaSource`, `MultiMediaSourceMuxer`, `RtpSender`, `HlsMediaSource`) | readers of each ring, recorders, RTP senders, one timer | attach, detach, start/stop record, start/stop send, hook's reply | the stream's poller; the web hook; pull proxies, which stop on it | counts are read on one thread and judged on another; one timer for all sources of a stream |
| Track sink (`MediaSink`, `MultiMediaSourceMuxer`) | tracks, unready frames, made-up audio | addTrack, addTrackCompleted, inputFrame, resetTracks | demuxers above, muxers below | frames before tracks, tracks that never become ready, time-outs that are looked at only when a frame comes, replays |
| RTP reordering (`Rtsp/RtpReceiver`) | next number, cache by number | sortPacket, clear, new ssrc | RTSP player and session, RTP server | wrap of 16 bit numbers, loss, repeats, a replaced sender |
| RTSP client (`Rtsp/RtspPlayer`) | connection, one response handler, two timers, callbacks | play, pause, seek, speed, teardown; every response | PlayerProxy, MediaPlayer | replies, packets, timers, errors and calls in any order; what the caller is told |
| Pull proxy (`Player/PlayerProxy`, `server/WebApi.cpp`) | table by key, attempt, retry timer, callbacks | add, delete, close, play result, shutdown | a player below, the sink above, API threads | retries against close and delete; callbacks that drop their own object |
| SRT receive queue (`srt/PacketQueue`) | ring, expected number, size | inputPacket, drop, late drop | SrtTransport | wrap, full against empty, drop requests, repeats |
| SRT transport (`srt/`) | send queue, last ACK, loss list, handshake | data, ack, nak, drop request, timers | peer over UDP | loss and reordering of data and of reports; reports are made only when something comes in |
| On-demand muxers, GOP cache (`*MediaSourceMuxer.h`, `PacketCache.h`) | enabled, clear-cache flag, merger, cache, ring, the source's gate | inputFrame, onReaderChanged | viewer counts | a player between "off" and "cleared"; two switches in a row |
| RTSP server (`RtspSession`) and RTMP server (`RtmpSession`) | method state, the source published, its ownership token | methods, async authentication and publishing, end | registry, hooks | answers after the session closed, a publisher that comes back, another that takes over |
| RTSP pusher, push proxy (`Rtsp/RtspPusher`, `Pusher/PusherProxy`, `server/WebApi.cpp`) | table by key, weak source, handshake, retry timer | publish, retry, delete | a server, the ring of the source | the source's end in whatever phase; callbacks that erase by key |
| RTMP players, pushers (`Rtmp/`) | handshake, chunk streams | commands | registry | as RTSP |
| HTTP (`Http/`) | parser, cookies, a client's connection, HlsPlayer's lists and timers | requests, index and segment fetches | registry, HLS sources, WebApi | two clients and two timers that keep each other going; cookies that outlive sources |
| Recording (`Record/`) | segment window, index, folder, delay tasks | input, flush, clear, delete | file system, HLS players | deletion behind a moving window, restarts in one folder |
| GB28181, RTP server (`Rtp/`) | processes by stream, servers by stream, delay tasks | first packet, attach, detach, time-outs | registry, hooks, WebApi | callbacks after the mutex is released, re-attachment while one is detached |
| RTCP (`Rtcp/`) | counters | rtp in, reports out | RTSP, WebRTC | wrap |
| WebRTC (`webrtc/`) | NACK lists, ICE, DTLS, SDP | rtp in, nack, resend | registry | wrap, retransmission timing |
| Media server (`server/`) | FFmpeg processes, hooks, configuration | API | all | process against stream |
| Time stamps (`Common/Stamp`) | last stamps | revise | muxers | wrap, jumps |
| Player front ends, helpers, codecs, transcoding, shell, C API, demos, tests | | conversions, forwarding, I/O | | |

What makes each of them correct, in a sentence:

* registry: whoever is registered and alive is found under its tuple, nobody
  else is, events balance, and a wait is answered once, not too late;
* viewer counting: when nobody watches any more, that is reported; while
  somebody watches, no timer runs against him;
* sink: frames of a track reach the muxers whole, once, in order, after the
  track; no track keeps its stream waiting for ever;
* reordering and SRT queue: output in sending order, nothing twice, a bounded
  cache, nothing that is held passed over;
* players and proxies: one result, then at most one shutdown, never silence;
  retries bounded; a proxy in the table is at work;
* SRT transport: what the sender still has arrives, what it has not is given up,
  and it keeps what can still be asked for;
* on-demand muxers: a player that comes gets the stream, and nothing old;
* sessions: one writer per source; a source whose publisher broke off is taken
  over or ends;
* RTP servers: a stream id belongs to who claimed it, and is free when he goes; a
  server nobody uses ends;
* push proxies: a pusher in the table is at work, and ends with its source;
* HLS: the folder holds what may still be asked for; a player fetches every new
  segment once, is never idle, and notices the end.

`PROJECT.json` lists all components with what is left out of each, and under
`hazards` the places in the code where these statements could fail, most of
them beyond a unit test's reach, with the property that watches each place.

## 2. The modules

    StreamDirectory  <-- implemented by --  MediaRegistry
                                              |-- extended by  FindAsync
                                              `-- extended by  PublishSession
    InOrderBuffer    <-- implemented by --  SrtRecvQueue  <-- extended by  SrtLink
    PlayerContract   <-- implemented by --  RtspPlayer
    PullProxy        <-- extended by --     PusherProxy
    HlsMaker, HlsPlayer  <-- composed by -- HlsLink
    NoneReader    OnDemandMuxer    RtpServer    PacketSortor    MediaSink

    theorems:  MediaRegistryProofs, FindAsyncProofs, PublishProofs
               ViewerProofs   NoneReader, OnDemandMuxer
               PlayerProofs   RtspPlayer, PullProxy, PusherProxy
               MuxerProofs    MediaSink, HlsMaker and HlsPlayer within HlsLink
               RtpProofs      RtpServer, PacketSortor
               SrtProofs      SrtLink with SrtRecvQueue

The three modules at the left of the first lines are abstract: what a component
promises, with no trace of how.  The arrows are checked by TLC; those of
MediaRegistry and RtspPlayer, and that of SrtRecvQueue within SrtLink, are proved, too.

**MediaRegistry** (`Common/MediaSource.cpp`).  A source goes through the stages
of `life`; `slot` is the map, a weak pointer that may point to a source that has
expired.  `Regist` and `Unregist` are what happens under the mutex, `Announce`
and `Retire` the event emitted after its release; `Expire` is the last reference
going away, after which the destructor still has to take the mutex.  `Found(k)`
is a lookup.  *Directory* maps the slots whose pointer still locks to the atomic
`StreamDirectory`.

**PublishSession** (`Rtsp/RtspSession.cpp`, `Rtmp/RtmpSession.cpp`) puts sessions
that publish on top of the registry.  A request is answered by the hook at any
later time; the answer looks the tuple up (`AnswerFound`, `AnswerNew`) and then
claims what it found (`TakeOver`, `Refuse`), two steps, as another session may
claim it in between.  The first packet registers a source that was made
(`FirstPacket`), or throws as the tuple has been taken meanwhile (`Conflict`).  A
publisher that breaks off leaves its source, without owner, to a delay task
(`grace`); one that stops does not.  `push` is `_push_src`, `token`
`_push_src_ownership`, `owned` the flag the token is of.  Sources that no session
makes (`Foreign`) are pulled or of another protocol.

**FindAsync** (`MediaSource::findAsync`).  Extends the registry with calls that
look, miss, wait.  The lookup (`LookUp`) and the beginning of the wait
(`StartWait`) are two steps, as other threads register in between.  A wait has a
timer, a listener and a `close_player` callback; events reach the session's
poller as `tasks`.  `delListener` takes away all listeners of the session's
address (`TagOf`), also those of another call.  `blind` is a history variable:
the source that was there when the call began to listen.

**NoneReader** (`MediaSource.cpp`, `MultiMediaSourceMuxer.cpp`, `RtpSender.cpp`,
`HlsMediaSource.cpp`).  Players attach to and detach from rings on their own
threads, the count is posted to the stream's poller; the poller runs `tasks` in
order and arms or drops the one timer, which holds only the source through which
it was armed.  RTP senders start in the background and post their callback;
recorders and senders are switched by API calls, which the web API runs on the
stream's poller.  `duty` is a history variable: whether a report is due.  Its
value "lost" marks the two ways in which the code does lose the report (see 6):
the properties speak of everything else.

**MediaSink** (`Common/MediaSink.cpp`).  One thread; frames are numbered so that
a hole, a repeat or a wrong order shows.  `out` is what a step gives the muxers, by
type of track: when the caches are emptied, the order among the types is that of a
hash map.  The clock is `age`, in the two steps the code compares with.

**PacketSortor** (`Rtsp/RtpReceiver.h`, `.cpp`).  The code sees numbers modulo
`SeqSpan`; each packet also carries the index at which it was sent, so that order
can be stated.  The network loses, overtakes and repeats; a sender is replaced
(`Restart`) without the sorter being told; `Clear` is the end of a session.

**SrtRecvQueue** (`srt/PacketQueue.cpp`).  The ring with its real indexes, and
the distance arithmetic as it is in the code, over the wrap, too.  `getFirst`
has no return on the path it always takes, so the latency that is compared is
anything: `DropLate` may stop after any slot.

**SrtLink** (`srt/SrtTransport.cpp`, `srt/PacketSendQueue.cpp`).  A sender, a
network and a receiver with that ring.  Each handler is one step: data and drop
requests go into the ring and then, the tickers having run out or not,
`ReportBack` makes a NAK of the present losses and an ACK if the expected number
has changed.  A NAK is answered range by range, by the packets of the range or,
when its first one is gone, by a drop request for all of it.  The network loses,
overtakes and repeats.

**OnDemandMuxer** (`Rtsp/RtspMediaSourceMuxer.h` and its sisters, `PacketCache.h`,
`MultiMediaSourceMuxer.cpp`).  `SendFrame` takes a frame all the way: the gate of
the source with its verdict of a while ago, clearing, the merger that waits for
the next frame, the cache, the ring and those attached to it.  Players come and
go at any moment; the poller handles the counts they cause in order.

**RtpServer** (`server/WebApi.cpp`, `Rtp/RtpServer.cpp`, `RtpSelector.cpp`,
`RtpSession.cpp`, `RtpProcess.cpp`).  One stream id.  `slot` is the API's map of
servers, `table` the selector's of processes; `detaching` holds processes that
have left the table and whose `onDetach` is still to be called, since it is called
after the mutex is released.  A server's helper has a callback that ends the
server: it waits in the delay task (two steps, `DelayFires` and `DelayFound` or
`DelayMissed`) or goes to the process that came.  `raced` is a history variable for
the one case in which the code loses it (see 6).

**HlsMaker** (`Record/HlsMaker.cpp`, `HlsMakerImp.cpp`, `HlsMediaSource.cpp`,
`HlsRecorder.h`).  Recorders of one stream that follow one another in one folder.
The list of segments, the index in memory and on disk, the files; closing a
segment writes the index and deletes what has left the window.  The task that
deletes the folder some time after a recorder's end is `DeleteFolder`.

**HlsPlayer** (`Http/HlsPlayer.cpp`).  Two requests, two timers, the list of
segments to fetch and that of those seen of late; `told` is what the caller
knows.  **HlsLink** (`Http/HttpFileManager.cpp`) lets it play what HlsMaker makes: the
server knows the player by a cookie that names the source it found first, and
makes a request for an index that does not exist yet wait.

**PullProxy** (`Player/PlayerProxy.cpp`, `server/WebApi.cpp`).  Proxies of one
key, the table, the API's threads and the proxies' pollers.  `Settle` is what
happens when a step has dropped references: a proxy that nobody holds is
destroyed, its destructor answers an API call that still waits, and that answer
erases the key.

**PusherProxy** (`Pusher/PusherProxy.cpp`, `Rtsp/RtspPusher.cpp`, `server/WebApi.cpp`)
adds push proxies that forward the streams of these pull proxies.  `PullStep` is a
step of a pull proxy, with what it does to the pushers: `lost` are those whose
weak source has expired, for good, also when the same stream comes back as
another source.  `phase` is the handshake of the RTSP pusher: what its server
answers, or that it is silent, is free.

**RtspPlayer** (`Rtsp/RtspPlayer.cpp`).  The handshake with its one slot for the
handler of the next response; the two timers; the callbacks that are used up
when called; the server as environment: it accepts, refuses, redirects, asks for
credentials, falls silent, hangs up.  `wait` is `kWaitTrackReady`: the result is withheld
until the demuxer knows its tracks, which may be before, after or without the response to
PLAY.  `told` is what the caller heard last; a success told while the handshake goes on is
"ahead" of it.

Code outside the tree is modelled from its use: `NoticeCenter` calls listeners
on the emitting thread and removes them by tag; a timer that is cancelled before
it runs does not run; `RingBuffer` reports the number of its readers in the order
in which it changes; a poller runs its tasks in order.  Definitions for these
are marked external in the map.

Definitions with a name like `CallAgain` or `ShutsDownTold`, marked as broken or
mutant, are not part of any specification: each is the variant of the
definition after it that a plausible slip would produce, and shows that a
property notices.

## 3. What is checked

Eleven runs must hold; one must find the disagreement it is about.  Every
property of a run that holds has a mutant in `PROJECT.json`: a change of one
definition, such as a slip in the code would be, under which the run reports the
property violated.

| Run | States | What it shows |
|---|---|---|
| `publish` | 112,878 | no two write into one source (`OneWriter`); a source that is marked as owned has an owner (`OwnedHasOwner`); one that is abandoned is taken over or ends (`AbandonedEnds`); events balance (`NeverMoreOffThanOn`); the map implements `StreamDirectory` |
| `find` | 265,964 | once a call listens, the registration of its stream reaches it (`WakeupNotLost`); a callback runs at most once and, while its session lives, does run |
| `sortor` | 620,932 | output in sending order, nothing twice (`SortsInOrder`); a gap holds back a bounded cache |
| `srt_link` | 117,273 | the ring implements `InOrderBuffer` whatever the network does; the sender gives up on an ACK only what the receiver is past (`AckedIsPassed`); a gap is closed in the end (`GapsClose`) |
| `sink` | 109,043 | no hole, no repeat (`FramesContiguous`), no frame before its track (`NamedFirst`), no track waits for ever (`TracksSettle`) |
| `relay` | 118,117 | a pull proxy in the table is at work (`NeverStuck`), every call that added one is answered, a push proxy in its table is at work (`PushIsAtWork`) and ends with its source (`PushEndsWithSource`) |
| `rtsp` | 67,676 | every play is answered, a stall is noticed, the caller sees `PlayerContract`, and a success that the handshake came to holds as long as nothing else is told (`AliveAsTold`); for players that wait for their tracks and for those that do not |
| `readers` | 518,869 | the report that nobody watches is never forgotten, no timer runs against a viewer, and in the end the report is made |
| `ondemand` | 836,814 | what waits for a player has no hole and nothing old (`CacheIsCurrent`); he is given no frame twice and, once his count is handled, misses none |
| `rtp_server` | 118,289 | who is in the selector's table has an owner who will take him out; no process is fed by two; a server keeps what ends it, and ends when nobody uses it; a refused sender loses the stream id |
| `hls` | 515,910 | the folder holds the window (`FolderIsWindow`); the player is never without a request or timer (`NeverIdle`), fetches no segment twice and every new one, and notices the end |
| `hls_restart` | violated | the delay task of a recorder deletes the files of the next one |

Each module has a type invariant.  No run lists them; they were checked by TLC
with a line added to the configurations, and are proved (section 4).

### Bounds, and why they are enough

* `publish`: three publishers of one tuple, two of which may make a source, and a
  source of another kind.  Two race for one source; the third is there for the
  one who comes while one of the two is in its delay.  Its two safety properties are
  proved for any number.
* `find`: two calls of one session, which share a listener tag, and two sources
  of their tuple.  Interference goes through the tag and the source only.
* `sortor`: 24 numbers, a cache of 2 to 4, packets that are overtaken by one,
  a stream of 20 packets from four before the wrap to well after it, so that the
  cache is crossed in every alignment; a replaced sender jumps by 14, more than
  half the numbers.  `2 * KMax < SeqSpan` is the relation of the code's
  parameters (1024, 65536).  Any packet may be repeated, within the window.  The
  stream ends before it comes round to the same numbers again: what the filters
  let through at the wrap, or what a long gap or a jump leaves behind, may stay in the
  cache until then, and go out among packets a cycle younger, see 6; over any number of
  wraps the order is proved, on condition that nothing stays that long (section 4).
  (A packet overtaken by more than the cache holds is outside the question: the sorter
  gives its gap up, as it is meant to.)
* `srt_link`: a ring of three and four packets, so that the window moves beyond the
  ring; one loss (of data or of any report) on top of every overtaking and repeat,
  one report of each kind under way.  The send queue holds as much as the ring.
  Numbers do not wrap, see 6.
* `sink`: two types of tracks, three additions, one reset, a cache of two frames.
  Frames are numbered modulo 4, one more than can be open at a time, so that no
  two frames in question are confused.
* `relay`: two pull proxies, since errors go from one to the next only; one retry;
  one thread that closes, beside the API that deletes: two threads that close the
  same proxy do what one does twice.  `ResetWhenReplay` is off: the muxer, and so a closing
  thread and a pusher, outlives a break.  One pusher, that retries for ever, the
  default of the API: the harder case for its end.  Both `NeverStuck` and
  `PushIsAtWork` are proved for any number, so that pushers that erase one another
  are covered there.
* `rtsp`: up to two tracks, one redirection, two requests of the caller, two
  requests under way: each handler can be displaced by any other.  `kWaitTrackReady` is
  on in one half of the run and off in the other.
* `readers`: one lasting source, two HLS sources one after the other, two
  senders of one ssrc, one of them started through the C API with the null
  source; one player per ring, three waiting tasks, four API calls.  The safety
  properties are proved without these bounds playing any part.
* `ondemand`: two players, whose counts overtake one another's effects; eight
  frames, more than two GOPs of three; a cache of two, three counts under way.
* `rtp_server`: two servers of the stream id one after the other, two connections, two
  processes: one in the table and one that is on its way out, which is all the
  selector's mutex lets be at a time; its three safety properties are proved for any
  number.
* `hls`: indexes of two segments, one retained, four segments of two recorders:
  segments leave the list and the disk, are cleared, and a second recorder starts
  over with its numbers.

Deadlock checking is off where the system may stop: all sources dead, all calls
answered, the stream closed, the sender at its last packet.

### Fairness

Only what the scheduling does is assumed; nothing is assumed of peers, players or
API callers.

* Publishing: a session that has ended is destroyed, its delay task runs, an answer
  that has looked up goes on, and so does a thread inside a destructor.  The hook
  need not answer.
* Wait: the poller runs posted tasks and due timers; the lookup goes on to
  `StartWait`, since nothing on that thread can come in between.
* SRT: what is under way arrives or is among the lost; the peer's keepalives go on
  and the NAK ticker runs out between them.  New data is not assumed, as the code
  makes reports whenever anything comes in.
* Sink: time passes, and a source that has a track goes on sending frames of it.
  This is needed: the code looks at its clock only when a frame comes, so a
  source that falls silent is never given up by the sink (its session times out).
* Relay: pollers and closing threads run on; a play has an outcome, which is what
  `EveryPlayAnswered` says of an RTSP player that does not wait for its tracks
  (`PlayerProxy.cpp:34`), which owes it to its timer.  For a
  pusher, the handshake's timer fires and the ring's detach callback runs.  A
  redirection starts that timer anew, and a server may redirect for ever; once the
  source has gone none can come, since what would send the next request throws.
* RTSP: the handshake's timer fires, and the stream's timer does when the server
  is silent.  No response is assumed.
* Readers: the poller runs its tasks; the timer fires.  API calls could put the
  timer off for ever by arming it anew; `MaxCalls` ends them, and players who come
  and go cancel the obligation.
* RTP server: the delay task, the selector's manager and `onDetach` run, and time
  passes.  No packet, no frame and no answer of the hook is assumed.
* HLS: a request ends, at the latest by its limit; timers fire; a demuxer that is to
  report the end does; delay tasks run.  Nothing is assumed of the stream.

## 4. What is proved

For any finite set of sources, any tuples, calls, sessions, tags, players,
senders, proxies, pushers, servers, processes, tracks, segments and recorders:

| Theorem | Says |
|---|---|
| `RegistryTypeCorrect`, `PublishTypeCorrect`, `PullTypeCorrect`, `RtspTypeCorrect`, `ReadersTypeCorrect`, `OnDemandTypeCorrect`, `SinkTypeCorrect`, `SortTypeCorrect`, `RtpServerTypeCorrect`, `HlsMakerTypeCorrect` | the state has its type |
| `LinkTypeCorrect` | so has that of an SRT link, if the numbers do not wrap |
| `RegistryReachable`, `PublishReachable` | a source that registered and lives is the one its tuple finds |
| `RegistryNoStaleSlot` | no slot is left when a tuple's destructors have run |
| `RegistryEventsBalance` | unregistration events never outnumber registrations |
| `RegistryImplementsDirectory`, `PublishImplementsDirectory` | the map of weak pointers implements `StreamDirectory`, with publishers, too |
| `FindAnswersOnce` | a `findAsync` callback runs at most once |
| `FindLeavesNothing` | a call that is over keeps no timer and no listener |
| `FindWakeup` | once a call listens, and no other call of its tag is over, the registration of its stream reaches it |
| `PublishOneWriter` | no two publishers write into one source |
| `PublishOwnersExist` | who is marked as owned has a live owner |
| `PullNeverStuck`, `RelayNeverStuck` | a proxy in the table is at work, with pushers, too |
| `PullAnsweredOnce` | no API call is answered twice, none forgotten when its proxy has gone |
| `PushersAreAtWork` | a push proxy in the table is at work |
| `RtspAliveAsTold` | a success that the handshake came to and nothing has taken back means a connected player, whether players wait for their tracks or not |
| `RtspImplementsContract` | the RTSP client implements `PlayerContract`, whether players wait for their tracks or not |
| `ReportNotForgotten` | once the last viewer has left, the timer is armed for a live source or a count that will arm it is queued |
| `NoTimerAgainstViewers` | a timer armed while somebody watches has a count queued that will drop it |
| `WaitingIsCurrent` | what waits for a player who comes ends at the last frame and has no hole |
| `PlayersGetInOrder`, `PlayersMissNothing` | no player is given a frame twice or late; once his count is handled, he misses none |
| `SinkLosesNothing`, `SinkNamesFirst` | frames reach the muxers without hole or repeat, and none before its track |
| `SortCacheBounded` | a gap holds back a bounded cache, also over the wrap |
| `SortKeepsOrder` | output in sending order, nothing twice, over any number of wraps, if no packet is around, under way or cached, until its sender is a quarter of the cycle further |
| `AckedArePassed` | what an ACK makes the sender drop the receiver is past, if the numbers do not wrap |
| `LinkImplementsBuffer` | the receiver's ring implements `InOrderBuffer`, if the numbers do not wrap |
| `ClaimsAreOwned`, `ProcessesAreFedByOne`, `ProcessesLeaveByFeeder` | who is in the selector's table has a live feeder, one only, and leaves when he times out or that feeder goes (a server may be made to go by an earlier process' late `onDetach`, see 6) |
| `ServersAreNotStranded` | the callback that ends an idle server is not lost, but for the race described in 6 |
| `HlsFolderIsWindow` | the folder holds the window, until the delay task of an earlier recorder comes |
| `HlsSequenceNamesFirst` | the number in an index is that of its first segment |
| `HlsNeverIdle` | a player that plays has a request out or a timer that will send one |
| `HlsSegmentsInOrder` | a player fetches no segment twice and none after a later one |

With these, every safety property, action property and refinement of the passing
runs has its theorem.  Assumed are the constants' types (`RegistryAssumption` and
its like), which TLC evaluates in the runs, and two things more, each a
hypothesis of the theorems concerned because the code does not keep the property
without it:

* SrtLink: `First <= MaxSent <= MaxSeq`, the sequence numbers do not wrap, as the
  ring's distances over the wrap are one short; the stream may begin anywhere in the
  cycle.  And `MaxSent - First <= MaxSeq - Cap`: over nearly the whole cycle a packet from the
  beginning that comes again would look like one of the next;
* order in the sorter: `[]Recent`, no packet is under way or in the cache until its sender
  is a quarter of the cycle further, since the code tells packets apart by their numbers alone;
  and `Window <= KMin`, no packet is overtaken by more than the smallest cache holds, so that
  a full cache never holds only packets from before the wrap.

Both are in section 6.

**Registry.**  `Reachable` alone is not inductive: an unregistering source could
erase a slot that holds another one.  `RegistryInv` adds `Occupants`: what is in
a slot has that tuple, and is registered or waits in its destructor.  Then
`Erasable` can hit only the source itself or an expired one.  The balance of
events needs a count: `CountInv` gives, for each tuple, at least as many announced
(or about to be) sources as withdrawn ones, plus one for an occupied slot.  For
the implementation each step maps to one step of the directory or a stutter;
cleaning up an expired slot is a stutter, because nobody could find it.

**FindAsync.**  `FindRefinesRegistry` makes every step a registry step or a stutter,
so that the registry's invariants hold here without a second proof.  `StageInv` says
what may be under way at each stage of a call; that a call which has answered
at once has no timer, no task and no cancellation left is what makes the plain
callback and the one shared through a flag run once together.  `WakeupNotLost`
needs `ListenInv`: no call but one of its tag removes a call's listener.

**PublishSession.**  Here, too, publishers only make steps of sources happen
(`RegistryStep`).  `OneWriter` follows from tokens: a session that is open has the
token of just the source it pushes into, a token marks its source as owned, and
no two sessions have the same one.  What has to be carried along is that a session
whose answer is still being judged pushes nothing.

**PullProxy and PusherProxy.**  Whatever ends an attempt leaves a callback, a timer
or a caller behind.  The one step that does not is `close()`'s posted task;
`CloseHasCaller` says that as long as the proxy is in the table, the caller who
posted the task has still to take it out of there.  `SettleInv` does the destructors once
for all steps.  Pushers leave the pull proxies alone (`PullKept`), and
`ReleaseKeeps` says that the pusher in the table is not touched when others go.

**RtspPlayer.**  `TellInv` ties what the caller has been told to the timers, the
connection and the handler.  As long as nothing is told, the handshake's timer is set, or
the player waits for its tracks on an open connection; who was told "ahead" of the
handshake still has that timer, or a closed connection; whose success stands has an open one.  SETUP
and what comes before it are waited for only under the handshake's timer.  `Untouched`, that
nothing is set up before `play()`, keeps packets from an idle player.
`Tells` lists what a step can tell, which is a step of `PlayerContract` or, where an early
success comes true, a stutter.

**NoneReader.**  `NeverForgotten` needs to know that the last word in the queue is
right.  `LastWord`: a queued count "somebody watches" of a source that by now
has no players is followed by another count of that source, so that judging it
early is put right by the later one.  `Quiet`: while the timer is armed, no recorder and no
sender counts, and each player has a count of his source on its way.  `Lives`:
an HLS source that is gone stays gone and has no players, and counts are of
sources that are or were there.  The steps are
proved one action at a time over lemmas on what a queue keeps when it grows at
its end (`QueueGrows`) or is taken from at its head (`QueueShrinks`).

**RtpServer.**  `IInv` adds to the three properties that the open server is the one
in the API's map, that who feeds a process is there and the process was made for
somebody, and that a delay task which still waits has the callback.  `DestroyInv`
treats the end of a server, which several handlers share.

**OnDemandMuxer.**  The frames that waited for a player, in the GOP of the ring, in the
cache and in the merger, are in order, each part behind the one before
(`Ordered`); flushing only moves the cache to the ring and to the players (`FlushSplits`).
What a player was given leads up to them (`GivenFollows`), which gives
`GivenInOrder`.  That he misses nothing needs the counts: from the one of his coming on, none in
the queue is zero (`CountsLast`), so that once it is handled the muxer stays on and clearing can
only be due from before his first frame (`ViewerFed`).

**MediaSink.**  `CachesRun`: a cache is a run of frames up to the one before the
source's next.  `LastIsBefore`: when the muxers have had a frame of a type, the sink is ready and
the source's next frame follows on it.  `ReadyHasAll`: once ready, nothing is cached
and no track is pending, which rules out that a cached frame goes out after a
direct one.  `Named`: a track that is not pending has been announced.

**PacketSortor.**  The bound rests on one count: the call that adds a packet
takes one out as well, unless the cache is within `maxSort` or, below `2 * KMin`, waits
for the next cycle.  For the order, `WrapInv`: what is
cached has its own number, and the next number is that of the index after the highest
that went out (`Heading`; or 0 again, and all there is is beyond it).  A late or repeated
packet passes the filters only when the next number is 0, and then its number is far ahead
(`Behinds`, `BehindIsFar`).  Two cached packets are less than a quarter of the cycle apart, so
their numbers say how far (`TwoCached`).  Hence a run at the front, an interval of numbers
(`RunIsInterval`), has nothing behind in it (`RunGoesOut`); an overflow cannot begin with such
a packet, as the whole cache would then be of them, which is fewer than it overflows with; and
at the wrap what is left of the old cycle is older than the first of the new
(`OverflowGoesOut`).  What stays has numbers beyond the last that went out (`Advances`).  Ascending
lists and largest elements are built on ranks (`RankRises`).

**SrtLink.**  `LinkInv`: a filled slot of the ring holds the packet that is as far from
the expected one as the slot is from the first, and the size counts the filled
slots, the last of which is the one before `_end` (`EndOK`: what `getExpectedSize` reads
there bounds what a drop request may pass over, old requests included, which by their
distance over the wrap would be new ones); what is under way was sent, and an ACK names a
number that the receiver has reached.  What is expected only grows, and so a late ACK does no harm.  Every
handler maps to one step of `InOrderBuffer`, or to none.

**HlsMaker and HlsPlayer.**  `MakerInv`: the list is a run of consecutive segments that
ends with the last closed one, of the length that the number of closed segments
gives (`Lists`); deletion tasks are of earlier recorders (`Numbers`).  The window is
then arithmetic.  A player remembers only the last of what it has seen.
That this is enough takes the maker's side: an index is a run that begins
and ends no earlier than the one before (`IndexRuns`, `ReplyRuns`), so that what it repeats lies
within the twice its length that the player keeps (`Seen`).  `NeverIdle` is
inductive with `Quiet`: who does not play has no timer, no fetch and nothing to fetch.

**Only model-checked:** liveness, because temporal proofs from fairness need
ENABLED, which the prover does not handle.  The library's induction theorems cannot be instantiated; a proof that
needs a least or a largest number takes it from a well-founded relation
(`LeastNumber`).

## 5. What is not modelled, and why

`PROJECT.json` says it for each component.  In short: formats (SDP, RTP, AMF, PS,
TS, MP4, parameter sets) are conversions that tests reach; ICE, DTLS, SRTP, SCTP
and the codecs are libraries; file and process I/O is outside; the shell, the demos
and the C API forward calls.  These make up most of the lines of the repository,
and so the models stand for a small part of its text.  Of what has state and order
of its own, Nack.cpp, FFmpegSource and the playing side of RtspSession are not
modelled.  Within the modules:

* no action fails for want of memory or throws where the code does not throw;
* NoneReader takes calls to arrive on the stream's poller, as WebApi posts them,
  although `mk_recorder_start` (`api/source/mk_recorder.cpp:56`) and FFmpegSource
  do not; the stream ends with `closed`; callers of the other sources' API pass a
  source of the stream or the null source; a passive sender with a random port
  reports its start at once, an order the posted report covers; a passive TCP sender
  whose listener gave up counts as a viewer (`RtpSender.cpp:85`);
* in `find`, `for_each_media` and creating an MP4 vod source on a miss are left out;
* RtspPlayer leaves out the choice of transport, statistics and benchmark mode;
  PullProxy leaves out the direct proxy of RTSP and RTMP;
* in PublishSession, a publisher does not ask again before its first request has
  been answered (see 6 for what happens if it does);
* SrtLink starts after the handshake and has no ACKACK, which measures the round-trip time;
* OnDemandMuxer has one track;
* RtpServer leaves out pause and resume of the RTP check, and takes the sockets of a
  server to share the poller of its delay task, as `openRtpServer` makes them;
* HlsMaker leaves out kept segments (`segKeep`), VOD (`segNum` 0), deletion without
  delay, and the frames the muxer holds when the recorder stops; the end of a segment is
  one step.  HlsPlayer leaves out master playlists, a segment that is cut off while it is
  written, and the demuxer's pace, which is any;
* PusherProxy has the RTSP pusher below, not the RTMP one.

## 6. Where the code and its documents disagree

Found by a run, with its trace:

* `hls_restart`: `HlsMaker.cpp:109` says that segments are deleted late so that
  no player fails to download one.  `HlsMakerImp.cpp:67`: the task that a recorder
  leaves behind deletes the folder by its path, and when the stream has come back
  by then, its index and segments with it.

Met while modelling, without a run of their own:

* `MediaSource.cpp:442` says the wait answers null if the stream has not registered
  in that time.  The lookup (423) and `addListener` (478) are two steps, and the map
  is not looked at again: a stream that registers in between is not seen.
* `PacketQueue.cpp:442` drops a packet as a repeat when its slot is taken.
  Distances over the wrap are one short (483; also 358 and 400), so the slot is
  another packet's.
* `MediaSink.h:152` says `onTrackFrame` is called only after `onAllTrackReady`.
  `resetTracks` leaves the made-up audio alive (`MediaSink.cpp:67`).
* `RtspPlayer.cpp:693` says a break after success is reported.  With
  `kWaitTrackReady`, the default (`PlayerBase.cpp:68`), success may be told before SETUP (763);
  what fails then is told to a callback that is used up, and the caller hears nothing.  The
  history variable keeps such a success apart, as "ahead", and `AliveAsTold` speaks of the
  success the handshake came to.  When the connection breaks after the handshake and before
  the tracks are ready, the shutdown comes without a result, and over UDP the tracks, and so
  success, may come after it: the "late" phase of `PlayerContract`.
* `RtpReceiver.h:20` says repeats are filtered; with the next number at 0 a late or repeated
  packet from before the wrap passes both filters (66 to 76).  Such packets, and those held
  behind a jump of the numbers or a gap of most of a cycle, may stay in the cache until the
  stream comes round to their numbers, and go out then, a cycle late: `Recent` excludes this.
* `RtpReceiver.cpp:60` takes a replaced sender's packets to a sorter that still expects the
  numbers of the one before.  Those that are behind, or more than half the cycle ahead, are
  dropped, or cached and thrown away, until they catch up: nothing goes out for up to half a
  cycle.  No order is broken by it, so no run reports it.
* `MediaSink.cpp:158`: cached frames go to the present track of their type, which may
  have replaced the one they were of; 143: tracks are dropped as not ready only if
  one is still pending.
* Publishing: a second ANNOUNCE or publish command before the hook has answered the first
  trips `assert(!_push_src)` (`RtspSession.cpp:231`, `RtmpSession.cpp:147`).
  `RtspSession.cpp:89` and `RtmpSession.cpp:45` say that the source of a publisher who
  closes by intention is not kept; if he had taken it over, the delay task of the one
  before may still hold it.
* Proxies: `WebApi.cpp:542` says a failed play is retried; the API's answer erases the
  proxy on the first failure (546).  The callbacks at 546 and 554 erase by key, whoever's
  it is by then; so do the pushers' (953, 963).  A pusher that is deleted, or erased
  by another's late callback, before its first result never answers its API call;
  `~PlayerProxy` answers, `~PusherProxy` does not.
  `RtspPusher.cpp:440` does not look at the status of the response to RECORD; what
  `sendAnnounce` throws in `onConnect` is taken for nothing, so that only the handshake's
  timer ends that attempt; redirections are not limited.
* `RtspPlayer.cpp:412`: a keepalive overwrites the handler of a PAUSE or resume that
  waits; 457: a refused PLAY is reported with `Err_shutdown`, which 681 ignores.
* SRT: `SrtTransport.cpp:380`, `PacketSendQueue.cpp:43`: a range whose first packet
  is gone, for an ACK that overtook the NAK or for lateness, is answered with a drop
  request as a whole, packets that are still held included.  `PacketQueue.cpp:315`:
  nothing is reported lost when the ring is full; 319: the first number of a loss is not wrapped; 508: `getFirst`
  returns nothing; after a drop request, filled slots at the front wait for the next
  data packet.
* On-demand: `MediaSource.cpp:874` says that what is flushed as a key position begins
  with a key frame.  `clearCache` (`PacketCache.h:58`) leaves `_key_pos` set, so the next
  batch may be marked as one and not be.  The frame that the merger holds is not
  cleared with the caches, and goes out first when the muxer is on again.
* RTP server: `RtpServer.cpp:99` hands the callback to the process so that the server does
  not stay when a TCP connection breaks off; when the process that the delay task found
  goes before it is given the callback (94 to 99), nobody ends the server.  `WebApi.cpp:405` erases by stream id, and so can end a successor; 1164:
  `hit` is set to 0 and then to 1 all the same.
* HLS player: the number of attempts is never reset (`HlsPlayer.cpp:47`); the delay that
  downloads a segment half a second early (127) is computed in seconds and divided by
  1000 (134); the time-out's multiple is at least `MAX_TIMEOUT_MULTIPLE` and grows (122), where the comment (144)
  says 2 to 5; `_ts_url_sort` gives up one entry for each index only (166), and so may
  grow; an index with number 0 is taken for an old one (152), so that a short stream
  or an EVENT playlist loses what is added to it.  A shutdown may be told to a
  caller who has had no result.
* HLS server: a player with the cookie of an earlier recorder is served from disk, and is
  not counted as a viewer of the present one (`HttpFileManager.cpp:419`).
* `Nack.cpp` (not modelled): after a full window the last number is taken for
  received (`emplace_hint`, so that the 18th of 18 consecutive losses is never asked
  for); a repeat of the last packet makes the next one asked for; a last number of 0 begins
  anew; the wrap forgets losses (117).
* `FFmpegSource.cpp:212` cancels the timer "to prevent multiple callbacks", on a
  thread on which it may be running already.
* `config.h:156` says the none-reader delay is 5 s by default, `config.cpp:81` sets 20 s.
* A stream that nobody ever watched has no none-reader event.  The event is lost
  when `stopSendRtp` comes through the null source (`mk_media.cpp:275`, "sender has
  no use": it is the one the timer will report), and when switching the HLS
  recorder off (`MultiMediaSourceMuxer.cpp:211`) destroys the source that the timer or
  the count rests on.
* `MultiMediaSourceMuxer.cpp:263`: a sender's queued `onClose` erases by ssrc, and so
  ends a successor.

## 7. Plan

Done, in the order of what most of the server rests on: the registry, its waits and
its publishers; viewer counting and on-demand muxers; the sink; reordering; SRT from the
send queue to the ring; pull and push proxies; the RTSP client; RTP servers; HLS from
the recorder to the player.

What would come next:

1. `NackContext` and the resend list of WebRTC, with small numbers as PacketSortor,
   once it is decided what it owes at the wrap.
2. FFmpegSource: its process, restart timer and wait, over MediaRegistry.
3. The playing side of RtspSession and RtmpSession, over FindAsync.
4. `Stamp` and RTCP's loss counter as functions against a reference definition.
5. Compositions: PullProxy over PlayerContract instead of an outcome of its own;
   NoneReader over MediaRegistry for closing a stream that is looked up meanwhile.

Next theorems: the
ring over the wrap, once its distances are right; what the actions of the two proxies owe their
callers, as a contract like `PlayerContract` that both implement.
