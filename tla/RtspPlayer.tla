----------------------------- MODULE RtspPlayer -----------------------------
(***************************************************************************)
(* The RTSP client (src/src/Rtsp/RtspPlayer.cpp): the handshake OPTIONS,   *)
(* DESCRIBE, SETUP of each track and PLAY; the timers that watch over the  *)
(* handshake and over the stream; pause and resume; keepalive; and what of *)
(* all this the caller is told.  Everything runs on the player's poller:   *)
(* the order in which replies, packets, timers, errors and the caller's    *)
(* calls reach it is what is hard.  There is one slot for the handler of   *)
(* the next response, and whoever sends a request overwrites it.           *)
(***************************************************************************)
EXTENDS Integers, Sequences

CONSTANTS
    TrackChoices,   \* how many tracks the server's sdp may have
    WaitChoices,    \* values Client::kWaitTrackReady may have
    MaxRedirects,   \* bound: redirections
    MaxControls,    \* bound: calls of pause() and the like
    MaxWire         \* bound: requests under way when another one is added

ASSUME RtspAssumption ==
    /\ TrackChoices \subseteq Nat \ {0}
    /\ WaitChoices \subseteq BOOLEAN
    /\ MaxRedirects \in Nat /\ MaxControls \in Nat /\ MaxWire \in Nat

VARIABLES
    tracks,         \* _sdp_track.size(), once the sdp is here
    wait,           \* kWaitTrackReady
    user,           \* the caller: "idle", "playing", or "gone" after teardown
    sock,           \* the TcpClient: "closed", "connecting" or "open"
    wire,           \* requests whose responses are yet to come
    handler,        \* _on_response: for which request, and of which track
    checkTimer,     \* _play_check_timer is set
    rtpTimer,       \* _rtp_check_timer is set
    realm,          \* _realm is set: authentication was tried
    setUp,          \* tracks whose SETUP was answered
    overUdp,        \* rtp comes over sockets of its own
    sendRtcp,       \* _send_rtcp[0]: the next keepalive is an rtcp packet
    demuxer,        \* its tracks: "none", "waiting" or "ready"
    resultDue,      \* _on_play_result is set
    shutdownDue,    \* _on_shutdown is set
    told,           \* history: what the caller was told last; "ahead" is a
                    \* success that the handshake has not come to yet
    silent,         \* the server has stopped sending rtp, for good
    redirects, controls

media == <<tracks, setUp, overUdp, sendRtcp, demuxer>>
timers == <<checkTimer, rtpTimer>>
callbacks == <<resultDue, shutdownDue, told>>
link == <<sock, wire, handler>>
rtspVars == <<media, timers, callbacks, link, wait, user, realm, silent, redirects, controls>>

Handle(kind, track) == [for |-> kind, track |-> track]
Handshake == {"OPTIONS", "DESCRIBE", "SETUP", "PLAY"}
Controls == {"PAUSE", "SEEK", "SPEED"}
Requests == Handshake \cup Controls \cup {"ALIVE"}
NoHandler == Handle("none", 0)

RtspTypeOK ==
    /\ tracks \in {0} \cup TrackChoices /\ wait \in BOOLEAN
    /\ user \in {"idle", "playing", "gone"}
    /\ sock \in {"closed", "connecting", "open"}
    /\ wire \in Seq(Requests) /\ (wire # <<>> => sock = "open")
    /\ handler.for \in Requests \cup {"none"} /\ handler.track \in 0 .. tracks
    /\ checkTimer \in BOOLEAN /\ rtpTimer \in BOOLEAN /\ ~(checkTimer /\ rtpTimer)
    /\ realm \in BOOLEAN
    /\ setUp \in 0 .. tracks
    /\ overUdp \in BOOLEAN /\ sendRtcp \in BOOLEAN
    /\ demuxer \in {"none", "waiting", "ready"}
    /\ resultDue \in BOOLEAN /\ shutdownDue \in BOOLEAN
    /\ told \in {"nothing", "ahead", "success", "failure", "broken"}
    /\ silent \in BOOLEAN
    /\ redirects \in 0 .. MaxRedirects /\ controls \in 0 .. MaxControls

RtspInit ==
    /\ tracks = 0 /\ wait \in WaitChoices
    /\ user = "idle" /\ sock = "closed" /\ wire = <<>> /\ handler = NoHandler
    /\ checkTimer = FALSE /\ rtpTimer = FALSE /\ realm = FALSE
    /\ setUp = 0 /\ overUdp = FALSE /\ sendRtcp = TRUE /\ demuxer = "none"
    /\ resultDue = TRUE /\ shutdownDue = TRUE /\ told = "nothing"
    /\ silent = FALSE /\ redirects = 0 /\ controls = 0

-----------------------------------------------------------------------------
(* What the handlers are made of. *)

\* sendRtspRequest() with the handler of its response; on a closed
\* connection the request is lost.
Send(kind, track, queue) ==
    /\ handler' = Handle(kind, track)
    /\ wire' = IF sock = "open" THEN Append(queue, kind) ELSE queue

\* onPlayResult() and onShutdown() of PlayerImp call back once.
TellResult(what) ==
    /\ resultDue' = FALSE
    /\ told' = IF resultDue THEN what ELSE told
    /\ UNCHANGED shutdownDue

TellShutdown ==
    /\ shutdownDue' = FALSE
    /\ told' = IF shutdownDue THEN "broken" ELSE told
    /\ UNCHANGED resultDue

\* sendTeardown(): a connection that is alive is shut down.
ShutDown == sock' = "closed" /\ wire' = <<>>

\* onPlayResult_l() with an error; the stream's timer, if set, is not reset.
FailedWith(done) ==
    /\ IF done THEN TellShutdown /\ UNCHANGED checkTimer
               ELSE TellResult("failure") /\ checkTimer' = FALSE
    /\ ShutDown
    /\ UNCHANGED rtpTimer

\* What most errors do: the play is answered while its timer is set.
\* (FailedEarly and FailedLate are mutants: handshake_done is a constant.)
FailedEarly == FailedWith(FALSE)
FailedLate == FailedWith(TRUE)
Failed == FailedWith(~checkTimer)

\* onPlayResult_l() with success; RtspPlayerImp withholds the result when it
\* is to wait for the tracks.  After the handshake it only calls onResume().
\* (SucceededUnwatched is a mutant: only resuming starts the timer.)
Succeeds ==
    IF checkTimer /\ ~wait THEN TellResult("success")
    ELSE /\ told' = IF told = "ahead" THEN "success" ELSE told
         /\ UNCHANGED <<resultDue, shutdownDue>>
SucceededUnwatched == Succeeds /\ checkTimer' = FALSE /\ rtpTimer' = ~checkTimer
Succeeded == Succeeds /\ checkTimer' = FALSE /\ rtpTimer' = TRUE

\* teardown() leaves nothing behind, play() then starts anew.
\* (AnewUntimed is a mutant: a redirected play has no timer.)
AnewUntimed(timer, connection) ==
    /\ tracks' = 0 /\ setUp' = 0 /\ overUdp' = FALSE
    /\ wire' = <<>> /\ handler' = NoHandler
    /\ checkTimer' = (timer /\ user = "idle") /\ rtpTimer' = FALSE
    /\ realm' = FALSE
    /\ sock' = connection
    /\ UNCHANGED <<sendRtcp, demuxer>>
Anew(timer, connection) ==
    /\ tracks' = 0 /\ setUp' = 0 /\ overUdp' = FALSE
    /\ wire' = <<>> /\ handler' = NoHandler
    /\ checkTimer' = timer /\ rtpTimer' = FALSE
    /\ realm' = FALSE
    /\ sock' = connection
    /\ UNCHANGED <<sendRtcp, demuxer>>

\* addTrackCompleted() of RtspPlayerImp, when the demuxer's tracks are ready:
\* that may be before the handshake is over.
TracksCompleted ==
    IF wait THEN TellResult(IF checkTimer THEN "ahead" ELSE "success")
    ELSE UNCHANGED callbacks

-----------------------------------------------------------------------------
(* The caller. *)

Play ==
    /\ user = "idle"
    /\ user' = "playing"
    /\ \/ Anew(TRUE, "connecting") /\ UNCHANGED callbacks
       \/ /\ FailedWith(FALSE)                         \* an illegal url
          /\ UNCHANGED <<media, handler, realm>>
    /\ UNCHANGED <<wait, silent, redirects, controls>>

\* The caller drops the player: the deleter calls teardown().
Teardown ==
    /\ user = "playing"
    /\ user' = "gone"
    /\ Anew(FALSE, "closed")
    /\ resultDue' = FALSE /\ shutdownDue' = FALSE
    /\ UNCHANGED <<told, wait, silent, redirects, controls>>

\* pause(), seekTo() and speed() look at nothing before they send;
\* speed() has no handler of its own.
Control(kind) ==
    /\ user = "playing"
    /\ controls < MaxControls /\ Len(wire) < MaxWire
    /\ controls' = controls + 1
    /\ IF kind = "SPEED"
       THEN /\ wire' = IF sock = "open" THEN Append(wire, kind) ELSE wire
            /\ UNCHANGED handler
       ELSE Send(kind, 0, wire)
    /\ UNCHANGED <<media, timers, callbacks, sock, wait, user, realm, silent, redirects>>

-----------------------------------------------------------------------------
(* The connection. *)

Connected ==
    /\ sock = "connecting"
    /\ sock' = "open"
    /\ handler' = Handle("OPTIONS", 0)
    /\ wire' = <<"OPTIONS">>
    /\ UNCHANGED <<media, timers, callbacks, wait, user, realm, silent, redirects, controls>>

NotConnected ==
    /\ sock = "connecting"
    /\ FailedWith(FALSE)
    /\ UNCHANGED <<media, handler, wait, user, realm, silent, redirects, controls>>

\* onErr(), or bytes that do not parse.
OnErr ==
    /\ sock = "open"
    /\ Failed
    /\ UNCHANGED <<media, handler, wait, user, realm, silent, redirects, controls>>

-----------------------------------------------------------------------------
(* The handlers of the responses; each has taken itself out of the slot. *)

Rest == Tail(wire)

\* An exception a handler throws ends in onPlayResult_l().
Throws ==
    /\ Failed
    /\ handler' = NoHandler
    /\ UNCHANGED <<media, realm, redirects>>

\* 401: once, the request is made again with credentials.
HandleAuthenticationFailure ==
    /\ ~realm
    /\ realm' = TRUE
    /\ Send("OPTIONS", 0, Rest)
    /\ UNCHANGED <<media, timers, callbacks, sock, redirects>>

\* 301 and 302: play() of the new url.
Redirected ==
    /\ redirects < MaxRedirects
    /\ redirects' = redirects + 1
    /\ Anew(TRUE, "connecting")
    /\ UNCHANGED callbacks

\* handleResponse(), of OPTIONS and DESCRIBE, but for a 200; an illegal
\* new url throws like any other status.
HandleResponse == HandleAuthenticationFailure \/ Redirected \/ Throws

HandleResOPTIONS ==
    /\ Send("DESCRIBE", 0, Rest)
    /\ UNCHANGED <<media, timers, callbacks, sock, realm, redirects>>

\* The sdp may be enough for the demuxer to know its tracks.
HandleResDESCRIBE ==
    /\ tracks' \in TrackChoices
    /\ demuxer' \in {"waiting", "ready"}
    /\ IF demuxer' = "ready" THEN TracksCompleted ELSE UNCHANGED callbacks
    /\ Send("SETUP", 1, Rest)
    /\ UNCHANGED <<setUp, overUdp, sendRtcp, timers, sock, realm, redirects>>

MoreSETUP(i) == i < tracks

HandleResSETUP(i) ==
    /\ setUp' = i
    /\ overUdp' \in BOOLEAN
    /\ IF MoreSETUP(i) THEN Send("SETUP", i + 1, Rest) ELSE Send("PLAY", 0, Rest)
    /\ UNCHANGED <<tracks, sendRtcp, demuxer, timers, callbacks, sock, realm, redirects>>

\* PLAY, of play() or of a seek or resume; PAUSE.
HandleResPLAY ==
    /\ handler' = NoHandler /\ wire' = Rest
    /\ Succeeded
    /\ UNCHANGED <<media, sock, realm, redirects>>

HandleResPAUSE ==
    /\ handler' = NoHandler /\ wire' = Rest
    /\ rtpTimer' = FALSE
    /\ UNCHANGED <<media, callbacks, checkTimer, sock, realm, redirects>>

\* No handler, one that does nothing, or a refusal: that of PLAY is reported
\* with Err_shutdown, which onPlayResult_l() takes for the player's own doing
\* and ignores.
Ignored ==
    /\ handler' = NoHandler /\ wire' = Rest
    /\ UNCHANGED <<media, timers, callbacks, sock, realm, redirects>>

\* onWholeRtspPacket(): the response to the oldest request, whatever the
\* handler that waits.
Accepted ==
    \/ handler.for = "OPTIONS" /\ HandleResOPTIONS
    \/ handler.for = "DESCRIBE" /\ HandleResDESCRIBE
    \/ handler.for = "SETUP" /\ HandleResSETUP(handler.track)
    \/ handler.for \in {"PLAY", "SEEK"} /\ HandleResPLAY
    \/ handler.for = "PAUSE" /\ HandleResPAUSE
    \/ handler.for \in {"ALIVE", "none"} /\ Ignored

Refused ==
    \/ handler.for \in {"OPTIONS", "DESCRIBE"} /\ HandleResponse
    \/ handler.for = "DESCRIBE" /\ Throws              \* a useless sdp
    \/ handler.for = "SETUP" /\ Throws
    \/ handler.for \in Controls \cup {"PLAY", "ALIVE", "none"} /\ Ignored

Response ==
    /\ sock = "open" /\ wire # <<>>
    /\ Accepted \/ Refused
    /\ UNCHANGED <<wait, user, silent, controls>>

-----------------------------------------------------------------------------
(* RTP. *)

Receiving == ~silent /\ setUp > 0 /\ (sock = "open" \/ overUdp)

\* Three seconds after the last one a packet of the first track causes a
\* keepalive: rtcp and requests in turn.
KeepAlive ==
    /\ Receiving
    /\ sendRtcp' = ~sendRtcp
    /\ IF sendRtcp THEN UNCHANGED <<handler, wire>>
       ELSE Len(wire) < MaxWire /\ Send("ALIVE", 0, wire)
    /\ UNCHANGED <<tracks, setUp, overUdp, demuxer, timers, callbacks, sock, wait, user,
                   realm, silent, redirects, controls>>

\* A packet completes what the demuxer has to know of the tracks.
TracksReady ==
    /\ Receiving /\ demuxer = "waiting"
    /\ demuxer' = "ready"
    /\ TracksCompleted
    /\ UNCHANGED <<tracks, setUp, overUdp, sendRtcp, timers, link, wait, user, realm,
                   silent, redirects, controls>>

Stall ==
    /\ ~silent
    /\ silent' = TRUE
    /\ UNCHANGED <<media, timers, callbacks, link, wait, user, realm, redirects, controls>>

-----------------------------------------------------------------------------
(* The timers. *)

PlayTimeout ==
    /\ checkTimer
    /\ FailedWith(FALSE)
    /\ UNCHANGED <<media, handler, wait, user, realm, silent, redirects, controls>>

\* Nothing received for kMediaTimeoutMS; the timer ends with that.
RtpTimeout ==
    /\ rtpTimer
    /\ rtpTimer' = FALSE
    /\ TellShutdown /\ ShutDown
    /\ UNCHANGED <<media, checkTimer, handler, wait, user, realm, silent, redirects, controls>>

-----------------------------------------------------------------------------
RtspNext ==
    \/ Play \/ Teardown \/ \E kind \in Controls : Control(kind)
    \/ Connected \/ NotConnected \/ OnErr
    \/ Response
    \/ KeepAlive \/ TracksReady \/ Stall
    \/ PlayTimeout \/ RtpTimeout

\* The poller runs the timers that are due.  Nothing makes a server answer.
RtspSpec ==
    /\ RtspInit /\ [][RtspNext]_rtspVars
    /\ WF_rtspVars(PlayTimeout)
    /\ WF_rtspVars(silent /\ RtpTimeout)

-----------------------------------------------------------------------------
(* Properties. *)

\* Whoever was told of a success that the handshake came to, and was told of
\* no shutdown, has a player that is still connected: no error ends a stream
\* in silence.
AliveAsTold == told = "success" /\ shutdownDue /\ user = "playing" => sock = "open"

\* The caller sees what PlayerContract promises.
Result == IF told = "ahead" THEN "success" ELSE told
Phase == IF user = "idle" THEN "idle"
         ELSE IF user = "gone" \/ told = "failure" THEN "over"
         ELSE IF shutdownDue THEN IF told = "nothing" THEN "trying" ELSE "playing"
         ELSE IF resultDue THEN "late" ELSE "over"
Contract == INSTANCE PlayerContract WITH phase <- Phase, told <- Result, waits <- wait
ImplementsContract == Contract!ContractSpec

\* A play is answered, or the caller gives it up; one that waits for its tracks
\* is at least through with the handshake.
EveryPlayAnswered ==
    user = "playing" ~> \/ told # "nothing" \/ user = "gone"
                        \/ wait /\ ~checkTimer /\ sock = "open"

\* A stream that falls silent once the handshake is over, and that no one
\* paused, is reported broken, whether its tracks were ready or not.
StallNoticed ==
    /\ shutdownDue /\ silent /\ controls = 0
    /\ told = "success" \/ rtpTimer
    ~> told = "broken" \/ user = "gone" \/ controls > 0
=============================================================================
