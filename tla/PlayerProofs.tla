---------------------------- MODULE PlayerProofs ----------------------------
(***************************************************************************)
(* Theorems about the RTSP client (RtspPlayer) and about the proxies that  *)
(* pull with such a client and push what they pulled (PullProxy,           *)
(* PusherProxy), for any number of tracks, redirections, requests under    *)
(* way, proxies, pushers, callers and retries.                             *)
(***************************************************************************)
EXTENDS RtspPlayer, PusherProxy, TLAPS

(***************************************************************************)
(* The client.  What the caller has been told decides which timer may be   *)
(* set and what state the connection is in.  With kWaitTrackReady the      *)
(* tracks may be ready, and the caller told of success, while the          *)
(* handshake goes on and can still fail; or the handshake is over and the  *)
(* tracks are not ready yet, or only after the connection has broken.      *)
(***************************************************************************)
\* The type invariant in parts; before the sdp is here nothing is set up.
LinkOK ==
    /\ sock \in {"closed", "connecting", "open"}
    /\ wire \in Seq(Requests) /\ (wire # <<>> => sock = "open")

HandlerOK ==
    /\ tracks \in {0} \cup TrackChoices
    /\ setUp \in 0 .. tracks
    /\ handler.for \in Requests \cup {"none"} /\ handler.track \in 0 .. tracks
    /\ handler.for \in {"OPTIONS", "DESCRIBE"} => setUp = 0

TimersOK == checkTimer \in BOOLEAN /\ rtpTimer \in BOOLEAN /\ ~(checkTimer /\ rtpTimer)

CallbacksOK ==
    /\ resultDue \in BOOLEAN /\ shutdownDue \in BOOLEAN
    /\ told \in {"nothing", "ahead", "success", "failure", "broken"}

ModeOK ==
    /\ wait \in BOOLEAN /\ user \in {"idle", "playing", "gone"}
    /\ realm \in BOOLEAN /\ overUdp \in BOOLEAN /\ sendRtcp \in BOOLEAN
    /\ demuxer \in {"none", "waiting", "ready"} /\ silent \in BOOLEAN
    /\ redirects \in 0 .. MaxRedirects /\ controls \in 0 .. MaxControls

FreshConnection == sock = "connecting" => setUp = 0

TypeInv == LinkOK /\ HandlerOK /\ TimersOK /\ CallbacksOK /\ ModeOK /\ FreshConnection

Setting == Handshake \ {"PLAY"}

TellInv ==
    /\ user = "idle" => told = "nothing" /\ sock = "closed" /\ ~checkTimer /\ ~rtpTimer
    /\ user = "gone" => sock = "closed" /\ ~checkTimer /\ ~rtpTimer /\ ~resultDue /\ ~shutdownDue
    /\ user # "gone" => /\ told = "nothing" => resultDue /\ shutdownDue
                        /\ told \in {"ahead", "failure"} => ~resultDue /\ shutdownDue
                        /\ told = "success" => ~resultDue
                        /\ told = "broken" => ~shutdownDue /\ (resultDue => wait)
    /\ user = "playing" =>
         /\ checkTimer => sock # "closed" /\ (told = "nothing" \/ (wait /\ told = "ahead"))
         /\ told = "nothing" => checkTimer \/ (wait /\ sock = "open")
         /\ told = "ahead" => wait /\ (checkTimer \/ sock = "closed")
         /\ told = "success" => sock = IF shutdownDue THEN "open" ELSE "closed"
         /\ told \in {"failure", "broken"} => sock = "closed"
         /\ rtpTimer => told \in {"success", "broken"} \/ (wait /\ told = "nothing")
         /\ sock = "connecting" => told = "nothing" /\ checkTimer
         /\ sock = "open" /\ handler.for \in Setting => checkTimer
         /\ sock = "open" /\ handler.for \in {"OPTIONS", "DESCRIBE"} => told = "nothing"

\* What a step can tell the caller.
Tells ==
    \/ UNCHANGED <<user, told, resultDue, shutdownDue>>
    \/ user = "idle" /\ user' = "playing" /\ told = "nothing" /\ told' \in {"nothing", "failure"} /\ shutdownDue'
    \/ user = "playing" /\ user' = "gone" /\ told' = told
    \/ /\ user = "playing" /\ user' = user
       /\ \/ shutdownDue /\ shutdownDue' /\ told = "nothing" /\ told' \in {"ahead", "success", "failure"}
          \/ shutdownDue /\ shutdownDue' /\ told = "ahead" /\ told' = "success"
          \/ shutdownDue /\ ~shutdownDue' /\ told = "success" /\ told' = "broken" /\ ~resultDue'
          \/ shutdownDue /\ ~shutdownDue' /\ told = "nothing" /\ told' = "broken" /\ resultDue' /\ wait
          \/ ~shutdownDue /\ ~shutdownDue' /\ told = "broken" /\ told' = "success" /\ resultDue /\ ~resultDue'

-----------------------------------------------------------------------------
(* What the handlers are made of keeps the type.                           *)

LEMMA NoHandlerOK == NoHandler.for = "none" /\ NoHandler.track = 0
BY DEF NoHandler, Handle

LEMMA RestIsSeq == ASSUME LinkOK, wire # <<>> PROVE Rest \in Seq(Requests)
BY DEF LinkOK, Rest

LEMMA SendLink ==
    ASSUME NEW kind \in Requests, NEW track, NEW q \in Seq(Requests), LinkOK,
           Send(kind, track, q), sock' = sock, sock = "open" \/ q = wire
    PROVE  LinkOK' /\ handler'.for = kind /\ handler'.track = track
BY DEF Send, Handle, LinkOK

LEMMA FailedTypes ==
    ASSUME TimersOK, CallbacksOK, NEW done \in BOOLEAN, FailedWith(done)
    PROVE  LinkOK' /\ TimersOK' /\ CallbacksOK' /\ FreshConnection'
<1>1. LinkOK' /\ FreshConnection' BY DEF FailedWith, ShutDown, LinkOK, FreshConnection
<1>2. TimersOK' BY DEF FailedWith, TimersOK
<1>3. CallbacksOK' BY DEF FailedWith, TellShutdown, TellResult, CallbacksOK
<1> QED BY <1>1, <1>2, <1>3

LEMMA FailedIsOne == TimersOK /\ Failed => \E done \in BOOLEAN : FailedWith(done)
BY DEF Failed, TimersOK

LEMMA AnewTypes ==
    ASSUME ModeOK, NEW rtp \in BOOLEAN, NEW connection \in {"closed", "connecting"},
           Anew(rtp, connection)
    PROVE  /\ LinkOK' /\ HandlerOK' /\ TimersOK' /\ FreshConnection'
           /\ realm' \in BOOLEAN /\ overUdp' \in BOOLEAN /\ sendRtcp' = sendRtcp /\ demuxer' = demuxer
<1>1. LinkOK' BY DEF Anew, LinkOK
<1>2. HandlerOK' BY NoHandlerOK DEF Anew, HandlerOK
<1>3. TimersOK' /\ FreshConnection' BY DEF Anew, TimersOK, FreshConnection
<1> QED BY <1>1, <1>2, <1>3 DEF Anew

LEMMA Same ==
    /\ LinkOK /\ UNCHANGED <<sock, wire>> => LinkOK'
    /\ HandlerOK /\ UNCHANGED <<tracks, setUp, handler>> => HandlerOK'
    /\ TimersOK /\ UNCHANGED timers => TimersOK'
    /\ CallbacksOK /\ UNCHANGED callbacks => CallbacksOK'
    /\ ModeOK /\ UNCHANGED <<wait, user, realm, overUdp, sendRtcp, demuxer, silent, redirects, controls>>
          => ModeOK'
    /\ FreshConnection /\ UNCHANGED <<sock, setUp>> => FreshConnection'
<1>1. LinkOK /\ UNCHANGED <<sock, wire>> => LinkOK'
      BY DEF LinkOK
<1>2. HandlerOK /\ UNCHANGED <<tracks, setUp, handler>> => HandlerOK'
      BY DEF HandlerOK
<1>3. TimersOK /\ UNCHANGED timers => TimersOK'
      BY DEF TimersOK, timers
<1>4. CallbacksOK /\ UNCHANGED callbacks => CallbacksOK'
      BY DEF CallbacksOK, callbacks
<1>5. ModeOK /\ UNCHANGED <<wait, user, realm, overUdp, sendRtcp, demuxer, silent, redirects, controls>>
          => ModeOK'
      BY DEF ModeOK
<1>6. FreshConnection /\ UNCHANGED <<sock, setUp>> => FreshConnection'
      BY DEF FreshConnection
<1> QED BY <1>1, <1>2, <1>3, <1>4, <1>5, <1>6

-----------------------------------------------------------------------------
(* The caller, the connection and the timers keep the type.                *)

LEMMA PlayType == ASSUME TypeInv, Play PROVE TypeInv'
<1> USE DEF TypeInv
<1>1. CASE Anew(TRUE, "connecting") /\ UNCHANGED callbacks
  <2>1. LinkOK' /\ HandlerOK' /\ TimersOK' /\ CallbacksOK' /\ FreshConnection'
        BY <1>1, AnewTypes, Same
  <2>2. ModeOK' BY <1>1, AnewTypes DEF Play, ModeOK
  <2> QED BY <2>1, <2>2
<1>2. CASE FailedWith(FALSE) /\ UNCHANGED <<media, handler, realm>>
  <2>1. LinkOK' /\ TimersOK' /\ CallbacksOK' /\ FreshConnection' BY <1>2, FailedTypes
  <2>2. HandlerOK' BY <1>2, Same DEF media
  <2>3. ModeOK' BY <1>2 DEF Play, media, ModeOK
  <2> QED BY <2>1, <2>2, <2>3
<1> QED BY <1>1, <1>2 DEF Play

LEMMA TeardownType == ASSUME TypeInv, Teardown PROVE TypeInv'
<1> USE DEF TypeInv
<1>1. LinkOK' /\ HandlerOK' /\ TimersOK' /\ FreshConnection' BY AnewTypes DEF Teardown
<1>2. CallbacksOK' BY DEF Teardown, CallbacksOK
<1>3. ModeOK' BY AnewTypes DEF Teardown, ModeOK
<1> QED BY <1>1, <1>2, <1>3

LEMMA ControlType == ASSUME TypeInv, NEW kind \in Controls, Control(kind) PROVE TypeInv'
<1> USE DEF TypeInv
<1>1. kind \in Requests /\ kind \notin {"OPTIONS", "DESCRIBE"}
      BY DEF Requests, Controls
<1>2. TimersOK' /\ CallbacksOK' /\ FreshConnection' BY Same DEF Control, media
<1>3. ModeOK' BY RtspAssumption DEF Control, media, ModeOK
<1>4. LinkOK' /\ HandlerOK'
  <2>1. CASE kind = "SPEED"
    <3>1. LinkOK' BY <1>1, <2>1 DEF Control, LinkOK
    <3>2. HandlerOK' BY <2>1, Same DEF Control, media
    <3> QED BY <3>1, <3>2
  <2>2. CASE kind # "SPEED"
    <3>1. LinkOK' /\ handler'.for = kind /\ handler'.track = 0
          BY <1>1, <2>2, SendLink DEF Control, LinkOK
    <3>2. HandlerOK' BY <1>1, <3>1, RtspAssumption DEF Control, media, HandlerOK
    <3> QED BY <3>1, <3>2
  <2> QED BY <2>1, <2>2
<1> QED BY <1>2, <1>3, <1>4

LEMMA ErrorType ==
    ASSUME TypeInv, NotConnected \/ OnErr \/ PlayTimeout
    PROVE  TypeInv'
<1> USE DEF TypeInv
<1>1. \E done \in BOOLEAN : FailedWith(done)
      BY FailedIsOne DEF NotConnected, OnErr, PlayTimeout
<1>2. LinkOK' /\ TimersOK' /\ CallbacksOK' /\ FreshConnection' BY <1>1, FailedTypes
<1>3. HandlerOK' /\ ModeOK' BY Same DEF NotConnected, OnErr, PlayTimeout, media
<1> QED BY <1>2, <1>3

LEMMA RtpTimeoutType == ASSUME TypeInv, RtpTimeout PROVE TypeInv'
<1> USE DEF TypeInv
<1>1. LinkOK' /\ FreshConnection' BY DEF RtpTimeout, ShutDown, LinkOK, FreshConnection
<1>2. HandlerOK' BY Same DEF RtpTimeout, media
<1>3. TimersOK' BY DEF RtpTimeout, TimersOK
<1>4. CallbacksOK' BY DEF RtpTimeout, TellShutdown, CallbacksOK
<1>5. ModeOK' BY DEF RtpTimeout, media, ModeOK
<1> QED BY <1>1, <1>2, <1>3, <1>4, <1>5

LEMMA StallType == ASSUME TypeInv, Stall PROVE TypeInv'
<1> USE DEF TypeInv
<1>1. LinkOK' /\ HandlerOK' /\ TimersOK' /\ CallbacksOK' /\ FreshConnection'
      BY Same DEF Stall, media, link
<1>2. ModeOK' BY DEF Stall, media, ModeOK
<1> QED BY <1>1, <1>2

\* When the connection is there, what is set up is what a play leaves.
LEMMA ConnectedType == ASSUME TypeInv, Connected PROVE TypeInv'
<1> USE DEF TypeInv
<1>1. LinkOK' BY DEF Connected, LinkOK, Requests, Handshake
<1>2. HandlerOK' /\ FreshConnection'
      BY RtspAssumption DEF Connected, media, HandlerOK, FreshConnection, Handle, Requests, Handshake
<1>3. TimersOK' /\ CallbacksOK' /\ ModeOK' BY Same DEF Connected, media
<1> QED BY <1>1, <1>2, <1>3

LEMMA KeepAliveType == ASSUME TypeInv, KeepAlive PROVE TypeInv'
<1> USE DEF TypeInv
<1>1. "ALIVE" \in Requests BY DEF Requests
<1>2. TimersOK' /\ CallbacksOK' /\ FreshConnection' BY Same DEF KeepAlive
<1>3. ModeOK' BY DEF KeepAlive, ModeOK
<1>4. CASE sendRtcp
      BY <1>2, <1>3, <1>4, Same DEF KeepAlive
<1>5. CASE ~sendRtcp
  <2>1. LinkOK' /\ handler'.for = "ALIVE" /\ handler'.track = 0
        BY <1>1, <1>5, SendLink DEF KeepAlive, LinkOK
  <2>2. HandlerOK' BY <1>1, <2>1, RtspAssumption DEF KeepAlive, HandlerOK
  <2> QED BY <1>2, <1>3, <2>1, <2>2
<1> QED BY <1>4, <1>5

LEMMA TracksReadyType == ASSUME TypeInv, TracksReady PROVE TypeInv'
<1> USE DEF TypeInv
<1>1. LinkOK' /\ HandlerOK' /\ TimersOK' /\ FreshConnection' BY Same DEF TracksReady, link
<1>2. CallbacksOK' BY Same DEF TracksReady, TracksCompleted, TellResult, CallbacksOK
<1>3. ModeOK' BY DEF TracksReady, ModeOK
<1> QED BY <1>1, <1>2, <1>3

-----------------------------------------------------------------------------
(* So do the handlers of the responses.                                    *)

Answered == sock = "open" /\ wire # <<>>

ResponseModes ==
    /\ realm' \in BOOLEAN /\ overUdp' \in BOOLEAN /\ sendRtcp' \in BOOLEAN
    /\ demuxer' \in {"none", "waiting", "ready"} /\ redirects' \in 0 .. MaxRedirects

HandledType == LinkOK' /\ HandlerOK' /\ TimersOK' /\ CallbacksOK' /\ FreshConnection' /\ ResponseModes

LEMMA ThrowsType == ASSUME TypeInv, Throws PROVE HandledType
<1> USE DEF TypeInv, HandledType
<1>1. LinkOK' /\ TimersOK' /\ CallbacksOK' /\ FreshConnection'
      BY FailedIsOne, FailedTypes DEF Throws
<1>2. HandlerOK' BY NoHandlerOK, RtspAssumption DEF Throws, media, HandlerOK
<1>3. ResponseModes BY DEF Throws, media, ModeOK, ResponseModes
<1> QED BY <1>1, <1>2, <1>3

LEMMA HandleResponseType ==
    ASSUME TypeInv, Answered, handler.for \in {"OPTIONS", "DESCRIBE"}, HandleResponse
    PROVE  HandledType
<1> USE DEF TypeInv, HandledType
<1>1. CASE HandleAuthenticationFailure
  <2>1. "OPTIONS" \in Requests BY DEF Requests, Handshake
  <2>2. LinkOK' /\ handler'.for = "OPTIONS" /\ handler'.track = 0
        BY <1>1, <2>1, SendLink, RestIsSeq DEF HandleAuthenticationFailure, Answered
  <2>3. HandlerOK' BY <1>1, <2>1, <2>2, RtspAssumption DEF HandleAuthenticationFailure, media, HandlerOK
  <2>4. TimersOK' /\ CallbacksOK' /\ FreshConnection'
        BY <1>1, Same DEF HandleAuthenticationFailure, media
  <2>5. ResponseModes BY <1>1 DEF HandleAuthenticationFailure, media, ModeOK, ResponseModes
  <2> QED BY <2>2, <2>3, <2>4, <2>5
<1>2. CASE Redirected
  <2>1. LinkOK' /\ HandlerOK' /\ TimersOK' /\ CallbacksOK' /\ FreshConnection'
        BY <1>2, AnewTypes, Same DEF Redirected
  <2>2. redirects' \in 0 .. MaxRedirects
        BY <1>2, RtspAssumption DEF Redirected, ModeOK
  <2>3. /\ realm' \in BOOLEAN /\ overUdp' \in BOOLEAN /\ sendRtcp' = sendRtcp /\ demuxer' = demuxer
        BY <1>2, AnewTypes DEF Redirected
  <2>4. ResponseModes
        BY <2>2, <2>3 DEF ModeOK, ResponseModes
  <2> QED BY <2>1, <2>4
<1>3. CASE Throws BY <1>3, ThrowsType
<1> QED BY <1>1, <1>2, <1>3 DEF HandleResponse

LEMMA SettingType ==
    ASSUME TypeInv, Answered,
           \/ handler.for = "OPTIONS" /\ HandleResOPTIONS
           \/ handler.for = "DESCRIBE" /\ HandleResDESCRIBE
           \/ handler.for = "SETUP" /\ HandleResSETUP(handler.track)
    PROVE  HandledType
<1> USE DEF TypeInv, HandledType
<1>1. {"OPTIONS", "DESCRIBE", "SETUP", "PLAY"} \subseteq Requests
      BY DEF Requests, Handshake
<1>2. Rest \in Seq(Requests) BY RestIsSeq DEF Answered
<1>3. CASE handler.for = "OPTIONS" /\ HandleResOPTIONS
  <2>1. LinkOK' /\ handler'.for = "DESCRIBE" /\ handler'.track = 0
        BY <1>1, <1>2, <1>3, SendLink DEF HandleResOPTIONS, Answered
  <2>2. HandlerOK' BY <1>1, <1>3, <2>1, RtspAssumption DEF HandleResOPTIONS, media, HandlerOK
  <2>3. TimersOK' /\ CallbacksOK' /\ FreshConnection'
        BY <1>3, Same DEF HandleResOPTIONS, media
  <2>4. ResponseModes BY <1>3 DEF HandleResOPTIONS, media, ModeOK, ResponseModes
  <2> QED BY <2>1, <2>2, <2>3, <2>4
<1>4. CASE handler.for = "DESCRIBE" /\ HandleResDESCRIBE
  <2>1. LinkOK' /\ handler'.for = "SETUP" /\ handler'.track = 1
        BY <1>1, <1>2, <1>4, SendLink DEF HandleResDESCRIBE, Answered
  <2>2. HandlerOK' BY <1>1, <1>4, <2>1, RtspAssumption DEF HandleResDESCRIBE, HandlerOK
  <2>3. TimersOK' /\ FreshConnection'
        BY <1>4, Same DEF HandleResDESCRIBE
  <2>4. CallbacksOK'
        BY <1>4, Same DEF HandleResDESCRIBE, TracksCompleted, TellResult, CallbacksOK
  <2>5. ResponseModes BY <1>4 DEF HandleResDESCRIBE, ModeOK, ResponseModes
  <2> QED BY <2>1, <2>2, <2>3, <2>4, <2>5
<1>5. CASE handler.for = "SETUP" /\ HandleResSETUP(handler.track)
  <2> DEFINE i == handler.track
  <2>1. i \in 0 .. tracks /\ tracks \in Nat BY RtspAssumption DEF HandlerOK
  <2>2. CASE MoreSETUP(i)
    <3>1. LinkOK' /\ handler'.for = "SETUP" /\ handler'.track = i + 1
          BY <1>1, <1>2, <1>5, <2>2, SendLink DEF HandleResSETUP, Answered
    <3>2. HandlerOK' BY <1>1, <1>5, <2>1, <2>2, <3>1 DEF HandleResSETUP, MoreSETUP, HandlerOK
    <3> QED BY <1>5, <3>1, <3>2, Same DEF HandleResSETUP, ModeOK, ResponseModes, FreshConnection, Answered
  <2>3. CASE ~MoreSETUP(i)
    <3>1. LinkOK' /\ handler'.for = "PLAY" /\ handler'.track = 0
          BY <1>1, <1>2, <1>5, <2>3, SendLink DEF HandleResSETUP, Answered
    <3>2. HandlerOK' BY <1>1, <1>5, <2>1, <3>1 DEF HandleResSETUP, HandlerOK
    <3> QED BY <1>5, <3>1, <3>2, Same DEF HandleResSETUP, ModeOK, ResponseModes, FreshConnection, Answered
  <2> QED BY <2>2, <2>3
<1> QED BY <1>3, <1>4, <1>5

LEMMA HandledOK ==
    ASSUME TypeInv, Answered, HandleResPLAY \/ HandleResPAUSE \/ Ignored
    PROVE  HandledType
<1> USE DEF TypeInv, HandledType
<1>1. handler' = NoHandler /\ wire' = Rest /\ sock' = sock /\ media' = media /\ realm' = realm
      /\ redirects' = redirects
      BY DEF HandleResPLAY, HandleResPAUSE, Ignored
<1>2. LinkOK' BY <1>1, RestIsSeq DEF LinkOK, Answered
<1>3. HandlerOK' /\ FreshConnection'
      BY <1>1, NoHandlerOK, RtspAssumption DEF media, HandlerOK, FreshConnection
<1>4. ResponseModes BY <1>1 DEF media, ModeOK, ResponseModes
<1>5. TimersOK' /\ CallbacksOK'
  <2>1. CASE HandleResPLAY
    <3>1. TimersOK' BY <2>1 DEF HandleResPLAY, Succeeded, TimersOK
    <3>2. CallbacksOK'
          BY <2>1, Same DEF HandleResPLAY, Succeeded, Succeeds, TellResult, CallbacksOK
    <3> QED BY <3>1, <3>2
  <2>2. CASE HandleResPAUSE
    <3>1. TimersOK' BY <2>2 DEF HandleResPAUSE, TimersOK
    <3> QED BY <2>2, <3>1, Same DEF HandleResPAUSE
  <2>3. CASE Ignored
        BY <2>3, Same DEF Ignored
  <2> QED BY <2>1, <2>2, <2>3
<1> QED BY <1>2, <1>3, <1>4, <1>5

LEMMA ResponseType == ASSUME TypeInv, Response PROVE TypeInv'
<1>1. HandledType
      BY ThrowsType, HandleResponseType, SettingType, HandledOK
         DEF Response, Accepted, Refused, Answered
<1>2. ModeOK' BY <1>1 DEF Response, HandledType, ResponseModes, TypeInv, ModeOK
<1> QED BY <1>1, <1>2 DEF HandledType, TypeInv

LEMMA InitType == RtspInit => TypeInv
<1> SUFFICES ASSUME RtspInit PROVE TypeInv
    OBVIOUS
<1>1. LinkOK BY DEF RtspInit, LinkOK
<1>2. HandlerOK /\ FreshConnection
      BY NoHandlerOK, RtspAssumption DEF RtspInit, HandlerOK, FreshConnection
<1>3. TimersOK /\ CallbacksOK BY DEF RtspInit, TimersOK, CallbacksOK
<1>4. ModeOK
  <2>1. wait \in BOOLEAN BY RtspAssumption DEF RtspInit
  <2>2. redirects \in 0 .. MaxRedirects /\ controls \in 0 .. MaxControls
        BY RtspAssumption DEF RtspInit
  <2> QED BY <2>1, <2>2 DEF RtspInit, ModeOK
<1> QED BY <1>1, <1>2, <1>3, <1>4 DEF TypeInv

LEMMA StepType == TypeInv /\ [RtspNext]_rtspVars => TypeInv'
<1> SUFFICES ASSUME TypeInv, [RtspNext]_rtspVars PROVE TypeInv'
    OBVIOUS
<1>1. CASE UNCHANGED rtspVars
      BY <1>1, Same DEF rtspVars, media, link, TypeInv
<1>2. CASE RtspNext
      BY <1>2, PlayType, TeardownType, ControlType, ConnectedType, ErrorType, ResponseType,
         KeepAliveType, TracksReadyType, StallType, RtpTimeoutType DEF RtspNext
<1> QED BY <1>1, <1>2

LEMMA TypeHolds == RtspSpec => []TypeInv
BY InitType, StepType, PTL DEF RtspSpec

\* Before play() nothing is set up, so that no packet can come.
Untouched == user = "idle" => setUp = 0 /\ sock = "closed"

LEMMA StepUntouched == Untouched /\ [RtspNext]_rtspVars => Untouched'
<1> SUFFICES ASSUME Untouched, [RtspNext]_rtspVars, user' = "idle" PROVE setUp' = 0 /\ sock' = "closed"
    BY DEF Untouched
<1> USE DEF Untouched
<1>1. CASE UNCHANGED rtspVars
      BY <1>1 DEF rtspVars, media, link
<1>2. CASE RtspNext
  <2>1. user = "idle"
        BY <1>2 DEF RtspNext, Play, Teardown, Control, Connected, NotConnected, OnErr, Response,
           KeepAlive, TracksReady, Stall, PlayTimeout, RtpTimeout
  <2>2. Stall \/ PlayTimeout \/ RtpTimeout
        BY <1>2, <2>1 DEF RtspNext, Play, Teardown, Control, Connected, NotConnected, OnErr,
           Response, KeepAlive, TracksReady, Receiving
  <2> QED BY <2>1, <2>2 DEF Stall, PlayTimeout, RtpTimeout, FailedWith, ShutDown, media, link
<1> QED BY <1>1, <1>2

LEMMA UntouchedHolds == RtspSpec => []Untouched
<1>1. RtspInit => Untouched
      BY DEF RtspInit, Untouched
<1> QED BY <1>1, StepUntouched, PTL DEF RtspSpec

\* Every variable keeps its type, in every behaviour.
THEOREM RtspTypeCorrect == RtspSpec => []RtspTypeOK
<1>1. TypeInv => RtspTypeOK
      BY DEF TypeInv, LinkOK, HandlerOK, TimersOK, CallbacksOK, ModeOK, RtspTypeOK
<1> QED BY <1>1, TypeHolds, PTL

-----------------------------------------------------------------------------
(* What the caller is told.                                                *)

\* An error of a handshake that its timer watches, or of a stream.
LEMMA FailedTells ==
    ASSUME TypeInv, TellInv, user = "playing", user' = user, wait' = wait,
           (Failed /\ sock = "open") \/ (FailedWith(FALSE) /\ checkTimer)
    PROVE  TellInv' /\ Tells
<1> USE DEF TypeInv, CallbacksOK, TellInv
<1>1. rtpTimer' = rtpTimer /\ sock' = "closed"
      BY DEF Failed, FailedWith, ShutDown
<1>2. CASE checkTimer
  <2>1. FailedWith(FALSE) BY <1>2 DEF Failed
  <2>2. /\ checkTimer' = FALSE /\ resultDue' = FALSE /\ shutdownDue' = shutdownDue
        /\ told' = IF resultDue THEN "failure" ELSE told
        BY <1>2, <2>1 DEF FailedWith, TellResult
  <2>3. ~rtpTimer BY <1>2 DEF TimersOK
  <2>4. CASE told = "nothing" BY <1>1, <2>2, <2>3, <2>4 DEF Tells
  <2>5. CASE told = "ahead" /\ wait BY <1>1, <2>2, <2>3, <2>5 DEF Tells
  <2> QED BY <1>2, <2>4, <2>5
<1>3. CASE ~checkTimer
  <2>1. FailedWith(TRUE) /\ sock = "open" BY <1>3 DEF Failed
  <2>2. /\ checkTimer' = checkTimer /\ shutdownDue' = FALSE /\ resultDue' = resultDue
        /\ told' = IF shutdownDue THEN "broken" ELSE told
        BY <2>1 DEF FailedWith, TellShutdown
  <2>3. CASE told = "success" BY <1>1, <1>3, <2>1, <2>2, <2>3 DEF Tells
  <2>4. CASE told = "nothing" BY <1>1, <1>3, <2>1, <2>2, <2>4 DEF Tells
  <2> QED BY <1>3, <2>1, <2>3, <2>4
<1> QED BY <1>2, <1>3

\* Steps that tell nothing and leave connection and timers alone; at most a
\* request is sent, and those of a play only in its handshake.
LEMMA QuietTells ==
    ASSUME TypeInv, TellInv, UNCHANGED <<timers, callbacks, sock, wait, user>>,
           user = "playing" /\ sock = "open" /\ handler'.for \in Setting => checkTimer,
           user = "playing" /\ sock = "open" /\ handler'.for \in {"OPTIONS", "DESCRIBE"} => told = "nothing"
    PROVE  TellInv' /\ Tells
BY DEF TellInv, Tells, timers, callbacks

\* Whatever handler is put into the slot is not one of a handshake.
LEMMA OtherTells ==
    ASSUME TypeInv, TellInv, UNCHANGED <<timers, callbacks, sock, wait, user>>,
           handler' = handler \/ handler'.for \in Controls \cup {"ALIVE", "none"}
    PROVE  TellInv' /\ Tells
<1>1. handler' = handler \/ handler'.for \notin Setting \cup {"OPTIONS", "DESCRIBE"}
      BY DEF Setting, Handshake, Controls
<1> QED BY <1>1, QuietTells DEF TellInv

LEMMA PlayTells == ASSUME TypeInv, TellInv, Play PROVE TellInv' /\ Tells
<1> USE DEF TypeInv, CallbacksOK, TellInv, Play
<1>1. CASE Anew(TRUE, "connecting") /\ UNCHANGED callbacks
  <2>1. sock' = "connecting" /\ checkTimer' = TRUE /\ rtpTimer' = FALSE
        BY <1>1 DEF Anew
  <2>2. told' = told /\ resultDue' = resultDue /\ shutdownDue' = shutdownDue
        BY <1>1 DEF callbacks
  <2> QED BY <2>1, <2>2 DEF Tells
<1>2. CASE FailedWith(FALSE)
  <2>1. sock' = "closed" /\ checkTimer' = FALSE /\ rtpTimer' = rtpTimer
        BY <1>2 DEF FailedWith, ShutDown
  <2>2. told' = "failure" /\ resultDue' = FALSE /\ shutdownDue' = shutdownDue
        BY <1>2 DEF FailedWith, TellResult
  <2> QED BY <2>1, <2>2 DEF Tells
<1> QED BY <1>1, <1>2

LEMMA TeardownTells == ASSUME TypeInv, TellInv, Teardown PROVE TellInv' /\ Tells
<1>1. sock' = "closed" /\ checkTimer' = FALSE /\ rtpTimer' = FALSE
      BY DEF Teardown, Anew
<1> QED BY <1>1 DEF TellInv, Teardown, Tells

LEMMA ControlTells ==
    ASSUME TypeInv, TellInv, NEW kind \in Controls, Control(kind)
    PROVE  TellInv' /\ Tells
<1>1. handler'.for = kind \/ handler' = handler
      BY DEF Control, Send, Handle
<1> QED BY <1>1, OtherTells DEF Control

LEMMA ConnectionTells ==
    ASSUME TypeInv, TellInv, Connected \/ NotConnected \/ OnErr \/ PlayTimeout
    PROVE  TellInv' /\ Tells
<1>1. CASE Connected
  <2>1. user = "playing" /\ told = "nothing" /\ checkTimer
        BY <1>1 DEF Connected, TypeInv, ModeOK, TellInv
  <2>2. UNCHANGED <<timers, callbacks, wait, user>> /\ sock' = "open" BY <1>1 DEF Connected
  <2> QED BY <2>1, <2>2 DEF TellInv, Tells, timers, callbacks
<1>2. CASE NotConnected
  <2>1. user = "playing" /\ checkTimer
        BY <1>2 DEF NotConnected, TypeInv, ModeOK, TellInv
  <2> QED BY <1>2, <2>1, FailedTells DEF NotConnected
<1>3. CASE OnErr
  <2>1. user = "playing" BY <1>3 DEF OnErr, TellInv, TypeInv, ModeOK
  <2> QED BY <1>3, <2>1, FailedTells DEF OnErr
<1>4. CASE PlayTimeout
  <2>1. user = "playing" BY <1>4 DEF PlayTimeout, TellInv, TypeInv, ModeOK
  <2> QED BY <1>4, <2>1, FailedTells DEF PlayTimeout
<1> QED BY <1>1, <1>2, <1>3, <1>4

LEMMA RtpTimeoutTells == ASSUME TypeInv, TellInv, RtpTimeout PROVE TellInv' /\ Tells
<1>1. user = "playing" /\ (told \in {"success", "broken"} \/ (wait /\ told = "nothing")) /\ ~checkTimer
      BY DEF RtpTimeout, TellInv, TypeInv, TimersOK, ModeOK
<1>2. /\ sock' = "closed" /\ rtpTimer' = FALSE /\ checkTimer' = checkTimer /\ wait' = wait
      /\ user' = user /\ shutdownDue' = FALSE /\ resultDue' = resultDue
      /\ told' = IF shutdownDue THEN "broken" ELSE told
      BY DEF RtpTimeout, TellShutdown, ShutDown
<1>3. resultDue \in BOOLEAN /\ shutdownDue \in BOOLEAN BY DEF TypeInv, CallbacksOK
<1>4. CASE told = "success" BY <1>1, <1>2, <1>3, <1>4 DEF TellInv, Tells
<1>5. CASE told = "broken" BY <1>1, <1>2, <1>3, <1>5 DEF TellInv, Tells
<1>6. CASE wait /\ told = "nothing" BY <1>1, <1>2, <1>3, <1>6 DEF TellInv, Tells
<1> QED BY <1>1, <1>4, <1>5, <1>6

\* The tracks are ready: in the handshake, after it, or after a shutdown.
LEMMA TracksReadyTells == ASSUME TypeInv, TellInv, Untouched, TracksReady PROVE TellInv' /\ Tells
<1>1. UNCHANGED <<timers, link, sock, handler, wait, user>> BY DEF TracksReady, link
<1>2. handler.for \notin {"OPTIONS", "DESCRIBE"} /\ sock # "connecting"
      BY RtspAssumption DEF TracksReady, Receiving, TypeInv, HandlerOK, FreshConnection
<1>3. CASE ~wait \/ ~resultDue
  <2>1. UNCHANGED callbacks
        BY <1>3 DEF TracksReady, TracksCompleted, TellResult, callbacks, TypeInv, CallbacksOK
  <2> QED BY <1>1, <2>1, OtherTells
<1>4. CASE wait /\ resultDue
  <2>1. /\ resultDue' = FALSE /\ shutdownDue' = shutdownDue
        /\ told' = IF checkTimer THEN "ahead" ELSE "success"
        BY <1>4 DEF TracksReady, TracksCompleted, TellResult
  <2>2. user = "playing" /\ told \in {"nothing", "broken"}
        BY <1>4 DEF TellInv, TypeInv, CallbacksOK, ModeOK, Untouched, TracksReady, Receiving,
           HandlerOK
  <2>3. CASE told = "nothing" /\ checkTimer
        BY <1>1, <1>2, <1>4, <2>1, <2>2, <2>3 DEF TellInv, Tells, timers, TypeInv, TimersOK, ModeOK
  <2>4. CASE told = "nothing" /\ ~checkTimer
        BY <1>1, <1>2, <1>4, <2>1, <2>2, <2>4 DEF TellInv, Tells, timers, TypeInv, TimersOK, ModeOK
  <2>5. CASE told = "broken"
        BY <1>1, <1>2, <1>4, <2>1, <2>2, <2>5 DEF TellInv, Tells, timers, TypeInv, TimersOK, ModeOK
  <2> QED BY <2>2, <2>3, <2>4, <2>5
<1> QED BY <1>3, <1>4

LEMMA RtpTells ==
    ASSUME TypeInv, TellInv, KeepAlive \/ Stall
    PROVE  TellInv' /\ Tells
<1>1. CASE KeepAlive
  <2>1. handler'.for = "ALIVE" \/ handler' = handler
        BY <1>1 DEF KeepAlive, Send, Handle
  <2> QED BY <1>1, <2>1, OtherTells DEF KeepAlive
<1>2. CASE Stall
      BY <1>2, OtherTells DEF Stall, link
<1> QED BY <1>1, <1>2

-----------------------------------------------------------------------------
(* What a response tells.                                                  *)

LEMMA SuccessTells ==
    ASSUME TypeInv, TellInv, sock = "open", user = "playing", HandleResPLAY,
           UNCHANGED <<wait, user>>
    PROVE  TellInv' /\ Tells
<1> USE DEF TypeInv, CallbacksOK, TellInv
<1>1. /\ checkTimer' = FALSE /\ rtpTimer' = TRUE /\ sock' = sock /\ handler' = NoHandler
      BY DEF HandleResPLAY, Succeeded
<1>2. handler'.for \notin Setting /\ handler'.for \notin {"OPTIONS", "DESCRIBE"}
      BY <1>1, NoHandlerOK DEF Setting, Handshake
<1>3. CASE checkTimer /\ ~wait
  <2>1. told = "nothing" /\ resultDue BY <1>3
  <2>2. told' = "success" /\ resultDue' = FALSE /\ shutdownDue' = shutdownDue
        BY <1>3, <2>1 DEF HandleResPLAY, Succeeded, Succeeds, TellResult
  <2> QED BY <1>1, <1>2, <1>3, <2>1, <2>2 DEF Tells
<1>4. CASE ~(checkTimer /\ ~wait)
  <2>1. /\ told' = IF told = "ahead" THEN "success" ELSE told
        /\ resultDue' = resultDue /\ shutdownDue' = shutdownDue
        BY <1>4 DEF HandleResPLAY, Succeeded, Succeeds
  <2>2. CASE told = "ahead" BY <1>1, <1>2, <2>1, <2>2 DEF Tells
  <2>3. CASE told = "nothing" /\ wait BY <1>1, <1>2, <2>1, <2>3 DEF Tells
  <2>4. CASE told = "success" BY <1>1, <1>2, <2>1, <2>4 DEF Tells
  <2> QED BY <1>4, <2>2, <2>3, <2>4
<1> QED BY <1>3, <1>4

LEMMA DescribedTells ==
    ASSUME TypeInv, TellInv, Answered, user = "playing", UNCHANGED <<wait, user>>,
           handler.for = "DESCRIBE", HandleResDESCRIBE
    PROVE  TellInv' /\ Tells
<1>1. told = "nothing" /\ checkTimer /\ resultDue /\ shutdownDue
      BY DEF TellInv, Answered, Setting, Handshake
<1>2. UNCHANGED <<timers, sock>> /\ handler'.for = "SETUP" /\ sock = "open"
      BY DEF HandleResDESCRIBE, Send, Handle, Answered
<1>3. UNCHANGED callbacks \/ (wait /\ TellResult("ahead"))
      BY <1>1 DEF HandleResDESCRIBE, TracksCompleted
<1>4. CASE UNCHANGED callbacks
      BY <1>1, <1>2, <1>4, QuietTells
<1>5. CASE wait /\ TellResult("ahead")
  <2>1. resultDue' = FALSE /\ shutdownDue' = shutdownDue /\ told' = "ahead"
        BY <1>1, <1>5 DEF TellResult
  <2>2. ~rtpTimer BY <1>1 DEF TypeInv, TimersOK
  <2> QED BY <1>1, <1>2, <1>5, <2>1, <2>2 DEF TellInv, Tells, timers
<1> QED BY <1>3, <1>4, <1>5

LEMMA SettingTells ==
    ASSUME TypeInv, TellInv, Answered, user = "playing", UNCHANGED <<wait, user>>,
           \/ handler.for = "OPTIONS" /\ HandleResOPTIONS
           \/ handler.for = "SETUP" /\ HandleResSETUP(handler.track)
           \/ handler.for \in {"OPTIONS", "DESCRIBE"} /\ HandleAuthenticationFailure
    PROVE  TellInv' /\ Tells
<1>1. checkTimer BY DEF TellInv, Answered, Setting, Handshake
<1>2. UNCHANGED <<timers, callbacks, sock>>
      BY DEF HandleResOPTIONS, HandleResSETUP, HandleAuthenticationFailure
<1>3. handler'.for \in {"OPTIONS", "DESCRIBE"} => told = "nothing"
  <2>1. CASE handler.for \in {"OPTIONS", "DESCRIBE"}
        BY <2>1 DEF TellInv, Answered
  <2>2. CASE handler.for = "SETUP" /\ HandleResSETUP(handler.track)
        BY <2>2 DEF HandleResSETUP, Send, Handle
  <2> QED BY <2>1, <2>2
<1> QED BY <1>1, <1>2, <1>3, QuietTells

LEMMA RedirectedTells ==
    ASSUME TypeInv, TellInv, Answered, user = "playing", UNCHANGED <<wait, user>>,
           handler.for \in {"OPTIONS", "DESCRIBE"}, Redirected
    PROVE  TellInv' /\ Tells
<1>1. told = "nothing" BY DEF TellInv, Answered
<1>2. sock' = "connecting" /\ checkTimer' = TRUE /\ rtpTimer' = FALSE
      BY DEF Redirected, Anew
<1>3. told' = told /\ resultDue' = resultDue /\ shutdownDue' = shutdownDue
      BY DEF Redirected, callbacks
<1> QED BY <1>1, <1>2, <1>3 DEF TellInv, Tells

LEMMA PausedTells ==
    ASSUME TypeInv, TellInv, user = "playing", UNCHANGED <<wait, user>>, HandleResPAUSE
    PROVE  TellInv' /\ Tells
<1>1. /\ rtpTimer' = FALSE /\ checkTimer' = checkTimer /\ sock' = sock /\ handler' = NoHandler
      /\ told' = told /\ resultDue' = resultDue /\ shutdownDue' = shutdownDue
      BY DEF HandleResPAUSE, callbacks
<1>2. handler'.for \notin Setting /\ handler'.for \notin {"OPTIONS", "DESCRIBE"}
      BY <1>1, NoHandlerOK DEF Setting, Handshake
<1> QED BY <1>1, <1>2 DEF TellInv, Tells

LEMMA IgnoredTells ==
    ASSUME TypeInv, TellInv, UNCHANGED <<wait, user>>, Ignored
    PROVE  TellInv' /\ Tells
BY NoHandlerOK, OtherTells DEF Ignored

LEMMA ResponseTells == ASSUME TypeInv, TellInv, Response PROVE TellInv' /\ Tells
<1>1. Answered /\ sock = "open" /\ UNCHANGED <<wait, user>>
      BY DEF Response, Answered
<1>2. user = "playing" BY <1>1 DEF TellInv, TypeInv, ModeOK
<1>3. CASE Throws BY <1>1, <1>2, <1>3, FailedTells DEF Throws
<1>4. CASE Accepted
      BY <1>1, <1>2, <1>4, SettingTells, DescribedTells, SuccessTells, PausedTells, IgnoredTells
         DEF Accepted
<1>5. CASE Refused
      BY <1>1, <1>2, <1>3, <1>5, SettingTells, RedirectedTells, IgnoredTells
         DEF Refused, HandleResponse
<1> QED BY <1>4, <1>5 DEF Response

LEMMA StepTells == TypeInv /\ TellInv /\ Untouched /\ [RtspNext]_rtspVars => TellInv' /\ Tells /\ wait' = wait
<1> SUFFICES ASSUME TypeInv, TellInv, Untouched, [RtspNext]_rtspVars PROVE TellInv' /\ Tells /\ wait' = wait
    OBVIOUS
<1>1. CASE UNCHANGED rtspVars
      BY <1>1, OtherTells DEF rtspVars, link
<1>2. CASE RtspNext
  <2>1. TellInv' /\ Tells
        BY <1>2, PlayTells, TeardownTells, ControlTells, ConnectionTells, ResponseTells, RtpTells,
           TracksReadyTells, RtpTimeoutTells DEF RtspNext
  <2>2. wait' = wait
        BY <1>2 DEF RtspNext, Play, Teardown, Control, Connected, NotConnected, OnErr, Response,
           KeepAlive, TracksReady, Stall, PlayTimeout, RtpTimeout
  <2> QED BY <2>1, <2>2
<1> QED BY <1>1, <1>2

LEMMA InitTells == RtspInit => TellInv
BY DEF RtspInit, TellInv

-----------------------------------------------------------------------------
\* Whether a player waits for its tracks or not: who was told of a success that
\* the handshake came to, and of no shutdown, has a player that is connected.
THEOREM RtspAliveAsTold == RtspSpec => []AliveAsTold
<1>1. TellInv => AliveAsTold
      BY DEF TellInv, AliveAsTold
<1> QED BY <1>1, InitTells, StepTells, TypeHolds, UntouchedHolds, PTL DEF RtspSpec

\* The client keeps the contract of a player, whether it waits for its tracks or
\* not: one result and one shutdown, none after a failure, and nothing after
\* teardown; a shutdown before the result only where it waits.
THEOREM RtspImplementsContract == RtspSpec => ImplementsContract
<1>1. RtspInit => Contract!ContractInit
      BY DEF RtspInit, Contract!ContractInit, Phase, Result
<1>2. TypeInv /\ TellInv /\ Tells /\ wait' = wait => [Contract!ContractNext]_<<wait, Phase, Result>>
  <2> SUFFICES ASSUME TypeInv, TellInv, Tells, wait' = wait
               PROVE  [Contract!ContractNext]_<<wait, Phase, Result>>
      OBVIOUS
  <2> USE DEF Phase, Result, Contract!ContractNext
  <2>0. told # "nothing" \/ user = "gone" \/ shutdownDue
        BY DEF TellInv
  <2>1. CASE UNCHANGED <<user, told, resultDue, shutdownDue>>
        BY <2>1
  <2>2. CASE user = "idle" /\ user' = "playing" /\ told = "nothing" /\ told' \in {"nothing", "failure"} /\ shutdownDue'
        BY <2>2 DEF Contract!Try, Contract!Fail
  <2>3. CASE user = "playing" /\ user' = "gone" /\ told' = told
        BY <2>3 DEF Contract!GiveUp
  <2>4. CASE user = "playing" /\ user' = user /\ shutdownDue /\ shutdownDue' /\ told = "nothing" /\ told' \in {"ahead", "success", "failure"}
        BY <2>4 DEF Contract!Succeed, Contract!Fail
  <2>5. CASE user = "playing" /\ user' = user /\ shutdownDue /\ shutdownDue' /\ told = "ahead" /\ told' = "success"
        BY <2>5
  <2>6. CASE user = "playing" /\ user' = user /\ shutdownDue /\ ~shutdownDue' /\ told = "success" /\ told' = "broken" /\ ~resultDue'
        BY <2>6 DEF Contract!Break
  <2>7. CASE user = "playing" /\ user' = user /\ shutdownDue /\ ~shutdownDue' /\ told = "nothing" /\ told' = "broken" /\ resultDue' /\ wait
        BY <2>7 DEF Contract!Break
  <2>8. CASE user = "playing" /\ user' = user /\ ~shutdownDue /\ ~shutdownDue' /\ told = "broken" /\ told' = "success" /\ resultDue /\ ~resultDue'
        BY <2>8 DEF Contract!Succeed
  <2> QED BY <2>1, <2>2, <2>3, <2>4, <2>5, <2>6, <2>7, <2>8 DEF Tells
<1> QED BY <1>1, <1>2, InitTells, StepTells, TypeHolds, UntouchedHolds, PTL
        DEF RtspSpec, ImplementsContract, Contract!ContractSpec
-----------------------------------------------------------------------------
(***************************************************************************)
(* The proxies.  One that is in the table is at work because whatever ends *)
(* an attempt of one leaves a callback, a timer or a caller behind; the    *)
(* one step that does not is close()'s task, and as long as the proxy is   *)
(* in the table, the caller who posted it has still to take the proxy out  *)
(* of there.  Pushers change nothing of the pull proxies, so that what     *)
(* holds of these alone holds of both together.                            *)
(***************************************************************************)
TableAlive == table # None => life[table] = "alive"

CloseHasCaller ==
    /\ table # None /\ closeTask[table] => \E c \in Callers : closing[c] = table
    /\ \A p \in Proxies : life[p] = "new" => ~closeTask[p]

\* An API call is answered when the proxy was made, unless the proxy still has
\* its callback; that goes with the answer, and the proxy does not go with it.
AnsweredOnce ==
    \A p \in Proxies :
        /\ onPlay[p] => life[p] = "alive"
        /\ answers[p] = IF life[p] = "new" \/ onPlay[p] THEN 0 ELSE 1

PullInv == PullTypeOK /\ TableAlive /\ CloseHasCaller /\ AnsweredOnce /\ NeverStuck

-----------------------------------------------------------------------------
\* The last words of a step: those whom nobody holds are destroyed, and the
\* one in the table is not one of them.
LEMMA SettleInv ==
    ASSUME PullInv,
           NEW t \in {None, table},
           NEW cb \in [Proxies -> Steps],
           NEW cl \in [Callers -> Proxies \cup {None}],
           NEW on \in [Proxies -> BOOLEAN],
           NEW ans \in [Proxies -> 0 .. 1],
           NEW tm \in [Proxies -> BOOLEAN],
           Settle(t, cb, cl, on, ans, tm, attempt),
           failed' \in [Proxies -> Nat], UNCHANGED <<muxer, closeTask>>,
           \A p \in Proxies : /\ on[p] => life[p] = "alive"
                              /\ ans[p] = IF life[p] = "new" \/ on[p] THEN 0 ELSE 1,
           t # None => /\ closeTask[t] => \E c \in Callers : cl[c] = t
                       /\ \/ attempt[t] \in {"trying", "playing"} \/ tm[t] \/ cb[t] # "idle"
                          \/ \E c \in Callers : cl[c] = t
    PROVE  PullInv'
<1> DEFINE gone == {p \in Proxies : life[p] = "alive" /\ ~Held(p, t, cb, cl)}
           late == {p \in gone : on[p]}
<1>1. /\ table' = (IF late # {} THEN None ELSE t)
      /\ life' = [p \in Proxies |-> IF p \in gone THEN "dead" ELSE life[p]]
      /\ onPlay' = [p \in Proxies |-> on[p] /\ p \notin late]
      /\ answers' = [p \in Proxies |-> ans[p] + (IF p \in late THEN 1 ELSE 0)]
      /\ timer' = [p \in Proxies |-> tm[p] /\ p \notin gone]
      /\ attempt' = [p \in Proxies |-> IF p \in gone THEN "over" ELSE attempt[p]]
      /\ callback' = cb /\ closing' = cl /\ muxer' = muxer /\ closeTask' = closeTask
      BY DEF Settle, Late
<1>2. /\ \A p \in gone : p \in Proxies /\ life[p] = "alive" /\ p # t
      /\ \A p \in late : p \in gone /\ on[p]
      /\ \A p \in gone : on[p] => p \in late
      BY DEF Held
<1> HIDE DEF gone, late
<1>3. table' \in {None, t} /\ t \in Proxies \cup {None}
      BY <1>1 DEF PullInv, PullTypeOK
<1>4. PullTypeOK'
  <2>1. /\ life' \in [Proxies -> {"new", "alive", "dead"}]
        /\ attempt' \in [Proxies -> Attempts]
        BY <1>1 DEF PullInv, PullTypeOK, Attempts
  <2>2. onPlay' \in [Proxies -> BOOLEAN] /\ timer' \in [Proxies -> BOOLEAN]
        BY <1>1
  <2>3. answers' \in [Proxies -> 0 .. 1]
    <3>1. \A p \in Proxies : ans[p] + (IF p \in late THEN 1 ELSE 0) \in 0 .. 1
          BY <1>2
    <3> QED BY <1>1, <3>1
  <2> QED BY <1>1, <1>3, <2>1, <2>2, <2>3 DEF PullInv, PullTypeOK
<1>5. TableAlive'
      BY <1>1, <1>2, <1>3, PullAssumption DEF PullInv, PullTypeOK, TableAlive
<1>6. CloseHasCaller'
      BY <1>1, <1>2, <1>3 DEF PullInv, CloseHasCaller
<1>7. AnsweredOnce'
  <2> SUFFICES ASSUME NEW p \in Proxies
               PROVE  /\ onPlay'[p] => life'[p] = "alive"
                      /\ answers'[p] = IF life'[p] = "new" \/ onPlay'[p] THEN 0 ELSE 1
      BY DEF AnsweredOnce
  <2>1. CASE p \in late
    <3>1. on[p] /\ life'[p] = "dead" /\ ans[p] = 0 BY <1>1, <1>2, <2>1
    <3>2. ~onPlay'[p] /\ answers'[p] = ans[p] + 1 BY <1>1, <2>1
    <3> QED BY <3>1, <3>2
  <2>2. CASE p \in gone /\ p \notin late
    <3>1. ~on[p] /\ life[p] = "alive" /\ life'[p] = "dead" BY <1>1, <1>2, <2>2
    <3>2. ~onPlay'[p] /\ answers'[p] = ans[p] + 0 /\ ans[p] = 1 BY <1>1, <2>2, <3>1
    <3> QED BY <3>1, <3>2
  <2>3. CASE p \notin gone BY <1>1, <1>2, <2>3
  <2> QED BY <2>1, <2>2, <2>3
<1>8. NeverStuck'
  <2> SUFFICES ASSUME table' # None
               PROVE  \/ attempt'[t] \in {"trying", "playing"} \/ timer'[t] \/ cb[t] # "idle"
                      \/ \E c \in Callers : cl[c] = t
      BY <1>1, <1>3 DEF NeverStuck
  <2>1. t \in Proxies /\ t \notin gone BY <1>1, <1>2, <1>3
  <2> QED BY <1>1, <1>3, <2>1
<1> QED BY <1>4, <1>5, <1>6, <1>7, <1>8 DEF PullInv

-----------------------------------------------------------------------------
(* The steps that destroy. *)

LEMMA DelStreamProxyInv == ASSUME PullInv, DelStreamProxy PROVE PullInv'
BY SettleInv DEF DelStreamProxy, PullInv, PullTypeOK, AnsweredOnce

LEMMA CloseEndInv == ASSUME PullInv, NEW c \in Callers, CloseEnd(c) PROVE PullInv'
<1> DEFINE cl == [closing EXCEPT ![c] = None]
<1>1. cl \in [Callers -> Proxies \cup {None}]
      BY DEF PullInv, PullTypeOK
<1>2. /\ Settle(None, callback, cl, onPlay, answers, timer, attempt)
      /\ failed' = failed /\ UNCHANGED <<muxer, closeTask>>
      BY DEF CloseEnd
<1> HIDE DEF cl
<1> QED BY <1>1, <1>2, SettleInv DEF PullInv, PullTypeOK, AnsweredOnce

LEMMA AnswerFailureInv == ASSUME PullInv, NEW p \in Proxies, AnswerFailure(p) PROVE PullInv'
<1> DEFINE t == IF Erases(p, TRUE) THEN None ELSE table
           cb == [callback EXCEPT ![p] = "retry"]
           on == [onPlay EXCEPT ![p] = FALSE]
           ans == [answers EXCEPT ![p] = @ + (IF onPlay[p] THEN 1 ELSE 0)]
<1>1. cb \in [Proxies -> Steps] /\ on \in [Proxies -> BOOLEAN] /\ t \in {None, table}
      BY DEF PullInv, PullTypeOK, Steps
<1>2. \A q \in Proxies : /\ on[q] => life[q] = "alive"
                         /\ ans[q] = IF life[q] = "new" \/ on[q] THEN 0 ELSE 1
      BY DEF PullInv, PullTypeOK, AnsweredOnce
<1>3. ans \in [Proxies -> 0 .. 1]
  <2>1. answers[p] + (IF onPlay[p] THEN 1 ELSE 0) \in 0 .. 1
        BY DEF PullInv, PullTypeOK, AnsweredOnce
  <2> QED BY <2>1 DEF PullInv, PullTypeOK
<1>4. t # None => /\ closeTask[t] => \E c \in Callers : closing[c] = t
                  /\ \/ attempt[t] \in {"trying", "playing"} \/ timer[t] \/ cb[t] # "idle"
                     \/ \E c \in Callers : closing[c] = t
      BY DEF PullInv, PullTypeOK, CloseHasCaller, NeverStuck
<1> HIDE DEF t, cb, on, ans
<1>5. /\ Settle(t, cb, closing, on, ans, timer, attempt)
      /\ failed' = failed /\ UNCHANGED <<muxer, closeTask>>
      BY DEF AnswerFailure, t, cb, on, ans
<1> QED BY <1>1, <1>2, <1>3, <1>4, <1>5, SettleInv DEF PullInv, PullTypeOK

LEMMA RetryInv == ASSUME PullInv, NEW p \in Proxies, Retry(p) PROVE PullInv'
<1> DEFINE cb == [callback EXCEPT ![p] = "idle"]
           tm == [timer EXCEPT ![p] = TRUE]
<1>1. cb \in [Proxies -> Steps] /\ tm \in [Proxies -> BOOLEAN]
      BY DEF PullInv, PullTypeOK, Steps
<1>2. failed' \in [Proxies -> Nat]
      BY DEF Retry, PullInv, PullTypeOK
<1>3. table # None => /\ closeTask[table] => \E c \in Callers : closing[c] = table
                      /\ \/ attempt[table] \in {"trying", "playing"} \/ tm[table] \/ cb[table] # "idle"
                         \/ \E c \in Callers : closing[c] = table
      BY DEF PullInv, PullTypeOK, CloseHasCaller, NeverStuck
<1> HIDE DEF cb, tm
<1>4. /\ Settle(table, cb, closing, onPlay, answers, tm, attempt)
      /\ UNCHANGED <<muxer, closeTask>>
      BY DEF Retry, cb, tm
<1> QED BY <1>1, <1>2, <1>3, <1>4, SettleInv DEF PullInv, PullTypeOK, AnsweredOnce

LEMMA GiveUpInv == ASSUME PullInv, NEW p \in Proxies, GiveUp(p) PROVE PullInv'
<1>1. [callback EXCEPT ![p] = "idle"] \in [Proxies -> Steps]
      BY DEF PullInv, PullTypeOK, Steps
<1> QED BY <1>1, SettleInv DEF GiveUp, PullInv, PullTypeOK, AnsweredOnce

-----------------------------------------------------------------------------
(* The steps that only go on. *)

\* A proxy is made, and put into the table if its url is legal.
LEMMA AddStreamProxyInv ==
    ASSUME PullInv, NEW p \in Proxies, AddStreamProxy(p)
    PROVE  PullInv'
<1> USE PullAssumption DEF PullInv
<1>1. PullTypeOK' BY DEF AddStreamProxy, PullTypeOK, Attempts
<1>2. TableAlive' /\ CloseHasCaller' /\ NeverStuck'
      BY DEF AddStreamProxy, PullTypeOK, TableAlive, CloseHasCaller, NeverStuck
<1>3. AnsweredOnce' BY DEF AddStreamProxy, PullTypeOK, AnsweredOnce
<1> QED BY <1>1, <1>2, <1>3

LEMMA AddFailsInv ==
    ASSUME PullInv, NEW p \in Proxies, AddFails(p)
    PROVE  PullInv'
<1> USE PullAssumption DEF PullInv
<1>1. PullTypeOK' BY DEF AddFails, PullTypeOK, Attempts
<1>2. TableAlive' /\ NeverStuck'
      BY DEF AddFails, TableAlive, NeverStuck
<1>3. CloseHasCaller' BY DEF AddFails, PullTypeOK, CloseHasCaller
<1>4. AnsweredOnce' BY DEF AddFails, PullTypeOK, AnsweredOnce
<1> QED BY <1>1, <1>2, <1>3, <1>4

\* Only a proxy that is alive is closed, by a caller who stays.
LEMMA CloseBeginInv ==
    ASSUME PullInv, NEW c \in Callers, NEW p \in Proxies, CloseBegin(c, p)
    PROVE  PullInv'
<1> USE PullAssumption DEF PullInv
<1>1. PullTypeOK' BY DEF CloseBegin, proxyVars, PullTypeOK
<1>2. TableAlive' /\ AnsweredOnce'
      BY DEF CloseBegin, proxyVars, TableAlive, AnsweredOnce
<1>3. closing'[c] = p /\ \A d \in Callers : closing[d] # None => closing'[d] = closing[d]
      BY DEF CloseBegin, PullTypeOK
<1>4. closeTask'[p] /\ \A q \in Proxies : q # p => closeTask'[q] = closeTask[q]
      BY DEF CloseBegin, PullTypeOK
<1>5. CloseHasCaller'
  <2>1. table' = table /\ life' = life /\ life[p] = "alive"
        BY DEF CloseBegin, proxyVars
  <2>2. table # None /\ closeTask'[table] => \E d \in Callers : closing'[d] = table
        BY <1>3, <1>4 DEF CloseHasCaller, PullTypeOK
  <2>3. \A q \in Proxies : life[q] = "new" => ~closeTask'[q]
        BY <1>4, <2>1 DEF CloseHasCaller
  <2> QED BY <2>1, <2>2, <2>3 DEF CloseHasCaller
<1>6. NeverStuck'
      BY <1>3 DEF CloseBegin, proxyVars, NeverStuck, PullTypeOK
<1> QED BY <1>1, <1>2, <1>5, <1>6

\* The poller begins a callback.
LEMMA CallbackInv ==
    ASSUME PullInv, NEW p \in Proxies, PlayFails(p) \/ BreaksOff(p)
    PROVE  PullInv'
<1> USE PullAssumption DEF PullInv
<1>1. PullTypeOK' BY DEF PlayFails, BreaksOff, PullTypeOK, Attempts, Steps
<1>2. TableAlive' /\ AnsweredOnce' /\ CloseHasCaller'
      BY DEF PlayFails, BreaksOff, TableAlive, AnsweredOnce, CloseHasCaller
<1>3. NeverStuck'
      BY DEF PlayFails, BreaksOff, PullTypeOK, NeverStuck
<1> QED BY <1>1, <1>2, <1>3

LEMMA PlaySucceedsInv ==
    ASSUME PullInv, NEW p \in Proxies, PlaySucceeds(p)
    PROVE  PullInv'
<1> USE PullAssumption DEF PullInv
<1>1. answers[p] + (IF onPlay[p] THEN 1 ELSE 0) = 1 /\ life[p] = "alive"
      BY DEF PlaySucceeds, Idle, PullTypeOK, AnsweredOnce
<1>2. answers' = [answers EXCEPT ![p] = 1]
      BY <1>1 DEF PlaySucceeds
<1>3. PullTypeOK' BY <1>2 DEF PlaySucceeds, PullTypeOK, Attempts
<1>4. TableAlive' /\ CloseHasCaller'
      BY DEF PlaySucceeds, TableAlive, CloseHasCaller
<1>5. AnsweredOnce' BY <1>1, <1>2 DEF PlaySucceeds, PullTypeOK, AnsweredOnce
<1>6. NeverStuck' BY DEF PlaySucceeds, PullTypeOK, NeverStuck
<1> QED BY <1>3, <1>4, <1>5, <1>6

LEMMA RePlayInv == ASSUME PullInv, NEW p \in Proxies, RePlay(p) PROVE PullInv'
<1> USE PullAssumption DEF PullInv
<1>1. PullTypeOK' BY DEF RePlay, PullTypeOK, Attempts
<1>2. TableAlive' /\ AnsweredOnce' /\ CloseHasCaller'
      BY DEF RePlay, TableAlive, AnsweredOnce, CloseHasCaller
<1>3. NeverStuck' BY DEF RePlay, PullTypeOK, NeverStuck
<1> QED BY <1>1, <1>2, <1>3

\* close()'s task ends the attempt: the caller who posted it is still there.
LEMMA CloseTaskInv == ASSUME PullInv, NEW p \in Proxies, CloseTask(p) PROVE PullInv'
<1> USE PullAssumption DEF PullInv
<1>1. PullTypeOK' BY DEF CloseTask, PullTypeOK, Attempts
<1>2. TableAlive' /\ AnsweredOnce' BY DEF CloseTask, TableAlive, AnsweredOnce
<1>3. CloseHasCaller' BY DEF CloseTask, PullTypeOK, CloseHasCaller
<1>4. NeverStuck'
  <2>1. CASE table = p BY <2>1 DEF CloseTask, CloseHasCaller, NeverStuck
  <2>2. CASE table # p BY <2>2 DEF CloseTask, PullTypeOK, NeverStuck
  <2> QED BY <2>1, <2>2
<1> QED BY <1>1, <1>2, <1>3, <1>4

-----------------------------------------------------------------------------
LEMMA PullInitInv == PullInit => PullInv
<1> SUFFICES ASSUME PullInit PROVE PullInv
    OBVIOUS
<1>1. PullTypeOK BY DEF PullInit, PullTypeOK, Attempts, Steps
<1>2. TableAlive /\ CloseHasCaller /\ AnsweredOnce /\ NeverStuck
      BY DEF PullInit, TableAlive, CloseHasCaller, AnsweredOnce, NeverStuck
<1> QED BY <1>1, <1>2 DEF PullInv

LEMMA PullStepInv == PullInv /\ [PullNext]_pullVars => PullInv'
<1> SUFFICES ASSUME PullInv, [PullNext]_pullVars PROVE PullInv'
    OBVIOUS
<1>1. CASE UNCHANGED pullVars
      BY <1>1 DEF pullVars, proxyVars, PullInv, PullTypeOK, TableAlive, CloseHasCaller,
                  AnsweredOnce, NeverStuck
<1>2. ASSUME NEW p \in Proxies, AddStreamProxy(p) \/ AddFails(p) PROVE PullInv'
      BY <1>2, AddStreamProxyInv, AddFailsInv
<1>3. CASE DelStreamProxy BY <1>3, DelStreamProxyInv
<1>4. ASSUME NEW c \in Callers, CloseEnd(c) \/ \E p \in Proxies : CloseBegin(c, p)
      PROVE  PullInv'
      BY <1>4, CloseBeginInv, CloseEndInv
<1>5. ASSUME NEW p \in Proxies, Serve(p) \/ Outcome(p) \/ BreaksOff(p) PROVE PullInv'
      BY <1>5, AnswerFailureInv, RetryInv, GiveUpInv, RePlayInv, CloseTaskInv, CallbackInv,
         PlaySucceedsInv DEF Serve, Outcome
<1> QED BY <1>1, <1>2, <1>3, <1>4, <1>5 DEF PullNext

LEMMA PullInvHolds == PullSpec => []PullInv
BY PullInitInv, PullStepInv, PTL DEF PullSpec

\* The state is of its type, in every behaviour.
THEOREM PullTypeCorrect == PullSpec => []PullTypeOK
BY PullInvHolds, PTL DEF PullInv

\* A proxy in the table is at work, however closing, deleting and the proxy's
\* own callbacks interleave.
THEOREM PullNeverStuck == PullSpec => []NeverStuck
BY PullInvHolds, PTL DEF PullInv

\* No API call that made a proxy is answered twice, and none is forgotten when
\* the proxy is gone.
THEOREM PullAnsweredOnce == PullSpec => []AnsweredOnce
BY PullInvHolds, PTL DEF PullInv

-----------------------------------------------------------------------------
(* The pushers. *)

RelayInv == PusherTypeOK /\ PullInv /\ PushIsAtWork

LEMMA RelayInitInv == RelayInit => RelayInv
<1> SUFFICES ASSUME RelayInit PROVE RelayInv
    OBVIOUS
<1>1. PullInv BY PullInitInv DEF RelayInit
<1>2. PusherTypeOK BY <1>1 DEF RelayInit, PusherTypeOK, Phases, PullInv
<1>3. PushIsAtWork BY DEF RelayInit, PushIsAtWork
<1> QED BY <1>1, <1>2, <1>3 DEF RelayInv

\* A step that leaves the pull proxies alone.
LEMMA PullKept == ASSUME PullInv, UNCHANGED pullVars PROVE PullInv' /\ PullTypeOK'
BY PullStepInv DEF PullInv

\* A step of the pull proxies.
LEMMA PullStepKeeps ==
    ASSUME RelayInv, PullStep(PullNext)
    PROVE  RelayInv'
<1>1. PullInv' BY PullStepInv DEF RelayInv, PullStep
<1>2. PusherTypeOK' BY <1>1 DEF RelayInv, PullStep, PusherTypeOK, PullInv
<1>3. PushIsAtWork' BY DEF RelayInv, PullStep, PushIsAtWork
<1> QED BY <1>1, <1>2, <1>3 DEF RelayInv

\* What the release of a pusher leaves: whoever is in the table after it has
\* the phase, the timer and the callback it was given.
LEMMA ReleaseKeeps ==
    ASSUME PusherTypeOK,
           NEW pt \in {None, pushTable},
           NEW cb \in [Pushers -> {"idle", "failed", "judge"}],
           NEW tm \in [Pushers -> BOOLEAN],
           Release(pt, cb, tm, phase)
    PROVE  /\ pushTable' \in Pushers \cup {None}
           /\ phase' \in [Pushers -> Phases]
           /\ pushTimer' \in [Pushers -> BOOLEAN]
           /\ pushCallback' \in [Pushers -> {"idle", "failed", "judge"}]
           /\ pushTable' # None =>
                 /\ phase'[pushTable'] = phase[pushTable']
                 /\ pushTimer'[pushTable'] = tm[pushTable']
                 /\ pushCallback'[pushTable'] = cb[pushTable']
<1>1. pushTable' \in Pushers \cup {None} BY DEF Release, PusherTypeOK
<1>2. phase' \in [Pushers -> Phases] BY DEF Release, PusherTypeOK, Phases, PushHandshake
<1>3. pushTimer' \in [Pushers -> BOOLEAN] BY DEF Release, PushHeld
<1>4. pushCallback' \in [Pushers -> {"idle", "failed", "judge"}] BY DEF Release
<1>5. ASSUME pushTable' # None
      PROVE  /\ phase'[pushTable'] = phase[pushTable']
             /\ pushTimer'[pushTable'] = tm[pushTable']
             /\ pushCallback'[pushTable'] = cb[pushTable']
      BY <1>1, <1>5 DEF Release, PushHeld, PusherTypeOK
<1> QED BY <1>1, <1>2, <1>3, <1>4, <1>5

LEMMA ApiKeeps ==
    ASSUME RelayInv,
           \/ \E q \in Pushers, p \in Proxies : AddStreamPusherProxy(q, p) \/ AddPushFails(q, p)
           \/ DelStreamPusherProxy
    PROVE  RelayInv'
<1> USE DEF RelayInv
<1>1. ASSUME NEW q \in Pushers, NEW p \in Proxies,
             AddStreamPusherProxy(q, p) \/ AddPushFails(q, p)
      PROVE  RelayInv'
  <2>1. PullInv' /\ PullTypeOK' BY <1>1, PullKept DEF AddStreamPusherProxy, AddPushFails
  <2>2. PusherTypeOK'
        BY <2>1, <1>1 DEF AddStreamPusherProxy, AddPushFails, PusherTypeOK, Phases, PushHandshake
  <2>3. PushIsAtWork'
        BY <1>1 DEF AddStreamPusherProxy, AddPushFails, PusherTypeOK, PushIsAtWork, PushHandshake
  <2> QED BY <2>1, <2>2, <2>3
<1>2. CASE DelStreamPusherProxy
  <2>1. PullInv' /\ PullTypeOK' BY <1>2, PullKept DEF DelStreamPusherProxy
  <2>2. PusherTypeOK' BY <2>1, <1>2, ReleaseKeeps DEF DelStreamPusherProxy, PusherTypeOK
  <2>3. PushIsAtWork' BY <1>2 DEF DelStreamPusherProxy, Release, PushIsAtWork
  <2> QED BY <2>1, <2>2, <2>3
<1> QED BY <1>1, <1>2

\* RtspPusher's steps: each leaves an attempt that goes on, or a callback.
LEMMA ConnectionKeeps ==
    ASSUME RelayInv, NEW q \in Pushers,
           \/ PushConnected(q) \/ HandleResAnnounce(q) \/ HandleResSetup(q)
           \/ HandleResRecord(q) \/ PublishTimeout(q) \/ PushBreaks(q) \/ SourceReleased(q)
    PROVE  RelayInv'
<1> USE DEF RelayInv
<1>1. CASE \E ph \in PushHandshake : Goes(q, ph)
  <2>1. PullInv' /\ PullTypeOK' BY <1>1, PullKept DEF Goes
  <2>2. PusherTypeOK' BY <2>1, <1>1 DEF Goes, PusherTypeOK, Phases
  <2>3. PushIsAtWork' BY <1>1 DEF Goes, PusherTypeOK, PushIsAtWork
  <2> QED BY <2>1, <2>2, <2>3
<1>2. CASE Fails(q) \/ ShutsDown(q)
  <2>1. PullInv' /\ PullTypeOK' BY <1>2, PullKept DEF Fails, ShutsDown
  <2>2. PusherTypeOK' BY <2>1, <1>2 DEF Fails, ShutsDown, PusherTypeOK, Phases, PushHandshake
  <2>3. PushIsAtWork' BY <1>2 DEF Fails, ShutsDown, PusherTypeOK, PushIsAtWork
  <2> QED BY <2>1, <2>2, <2>3
<1>3. CASE HandleResRecord(q)
  <2>1. PullInv' /\ PullTypeOK' BY <1>3, PullKept DEF HandleResRecord
  <2>2. PusherTypeOK' BY <2>1, <1>3 DEF HandleResRecord, PusherTypeOK, Phases
  <2>3. PushIsAtWork' BY <1>3 DEF HandleResRecord, PusherTypeOK, PushIsAtWork
  <2> QED BY <2>1, <2>2, <2>3
<1> QED BY <1>1, <1>2, <1>3 DEF PushConnected, HandleResAnnounce, HandleResSetup,
           PublishTimeout, PushBreaks, SourceReleased, PushHandshake

\* PusherProxy's steps: a callback that ends sets the timer or takes the key out.
LEMMA ServeKeeps ==
    ASSUME RelayInv, NEW q \in Pushers, PushServe(q)
    PROVE  RelayInv'
<1> USE DEF RelayInv
<1> DEFINE judge == [pushCallback EXCEPT ![q] = "judge"]
           idle == [pushCallback EXCEPT ![q] = "idle"]
           tm == [pushTimer EXCEPT ![q] = TRUE]
<1>0. /\ judge \in [Pushers -> {"idle", "failed", "judge"}]
      /\ idle \in [Pushers -> {"idle", "failed", "judge"}]
      /\ tm \in [Pushers -> BOOLEAN] /\ pushTimer \in [Pushers -> BOOLEAN]
      BY DEF PusherTypeOK
<1>1. CASE AnswerPush(q)
  <2>1. PullInv' /\ PullTypeOK' BY <1>1, PullKept DEF AnswerPush
  <2>2. PICK pt \in {None, pushTable} : Release(pt, judge, pushTimer, phase)
        BY <1>1 DEF AnswerPush
  <2>3. /\ pushTable' \in Pushers \cup {None}
        /\ phase' \in [Pushers -> Phases]
        /\ pushTimer' \in [Pushers -> BOOLEAN]
        /\ pushCallback' \in [Pushers -> {"idle", "failed", "judge"}]
        /\ pushTable' # None =>
              /\ phase'[pushTable'] = phase[pushTable']
              /\ pushTimer'[pushTable'] = pushTimer[pushTable']
              /\ pushCallback'[pushTable'] = judge[pushTable']
    <3> HIDE DEF judge
    <3> QED BY <2>2, <1>0, ReleaseKeeps
  <2>4. PusherTypeOK' BY <2>1, <2>3, <1>1 DEF AnswerPush, PusherTypeOK
  <2>5. PushIsAtWork'
    <3>1. pushTable' \in {None, pushTable} BY <2>2 DEF Release
    <3> QED BY <2>3, <3>1 DEF PusherTypeOK, PushIsAtWork
  <2> QED BY <2>1, <2>4, <2>5
<1>2. CASE Again(q)
  <2>1. PullInv' /\ PullTypeOK' BY <1>2, PullKept DEF Again
  <2>2. Release(pushTable, idle, tm, phase) BY <1>2 DEF Again
  <2>3. pushFailed' \in [Pushers -> Nat] BY <1>2 DEF Again, PusherTypeOK
  <2>4. /\ pushTable' \in Pushers \cup {None}
        /\ phase' \in [Pushers -> Phases]
        /\ pushTimer' \in [Pushers -> BOOLEAN]
        /\ pushCallback' \in [Pushers -> {"idle", "failed", "judge"}]
        /\ pushTable' # None =>
              /\ phase'[pushTable'] = phase[pushTable']
              /\ pushTimer'[pushTable'] = tm[pushTable']
              /\ pushCallback'[pushTable'] = idle[pushTable']
    <3> HIDE DEF idle, tm
    <3> QED BY <2>2, <1>0, ReleaseKeeps
  <2>5. PusherTypeOK' BY <2>1, <2>3, <2>4, <1>2 DEF Again, PusherTypeOK
  <2>6. PushIsAtWork'
    <3>1. pushTable' = pushTable BY <2>2 DEF Release
    <3> QED BY <2>4, <3>1 DEF PusherTypeOK, PushIsAtWork
  <2> QED BY <2>1, <2>5, <2>6
<1>3. CASE PushCloses(q)
  <2>1. PullInv' /\ PullTypeOK' BY <1>3, PullKept DEF PushCloses
  <2>2. Release(None, idle, pushTimer, phase) BY <1>3 DEF PushCloses
  <2>3. PusherTypeOK'
        BY <2>1, <2>2, <1>0, <1>3, ReleaseKeeps DEF PushCloses, PusherTypeOK
  <2>4. PushIsAtWork' BY <2>2 DEF Release, PushIsAtWork
  <2> QED BY <2>1, <2>3, <2>4
<1>4. CASE RePublish(q)
  <2>1. PullInv' /\ PullTypeOK' BY <1>4, PullKept DEF RePublish
  <2>2. PusherTypeOK' BY <2>1, <1>4 DEF RePublish, PusherTypeOK, Phases, PushHandshake
  <2>3. PushIsAtWork' BY <1>4 DEF RePublish, PusherTypeOK, PushIsAtWork, PushHandshake
  <2> QED BY <2>1, <2>2, <2>3
<1> QED BY <1>1, <1>2, <1>3, <1>4 DEF PushServe

LEMMA RelayStepInv == RelayInv /\ [RelayNext]_relayVars => RelayInv'
<1> SUFFICES ASSUME RelayInv, [RelayNext]_relayVars PROVE RelayInv'
    OBVIOUS
<1>1. CASE UNCHANGED relayVars
  <2>1. PullInv' /\ PullTypeOK' BY <1>1, PullKept DEF relayVars, RelayInv
  <2>2. PusherTypeOK' /\ PushIsAtWork'
        BY <1>1, <2>1 DEF relayVars, pusherVars, RelayInv, PusherTypeOK, PushIsAtWork
  <2> QED BY <2>1, <2>2 DEF RelayInv
<1> QED BY <1>1, PullStepKeeps, ApiKeeps, ConnectionKeeps, ServeKeeps DEF RelayNext, PushStep

LEMMA RelayInvHolds == RelaySpec => []RelayInv
BY RelayInitInv, RelayStepInv, PTL DEF RelaySpec

\* Pushers do not disturb it: a pull proxy in the table is at work.
THEOREM RelayNeverStuck == RelaySpec => []NeverStuck
<1>1. RelayInv => NeverStuck BY DEF RelayInv, PullInv
<1> QED BY <1>1, RelayInvHolds, PTL

\* A pusher in its table is at work, although pushers of one key erase one
\* another.
THEOREM PushersAreAtWork == RelaySpec => []PushIsAtWork
<1>1. RelayInv => PushIsAtWork BY DEF RelayInv
<1> QED BY <1>1, RelayInvHolds, PTL
=============================================================================
