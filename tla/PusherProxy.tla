----------------------------- MODULE PusherProxy -----------------------------
(***************************************************************************)
(* Push proxies: the web API's table of them under one key                 *)
(* (server/WebApi.cpp), each PusherProxy (src/src/Pusher/PusherProxy.cpp)  *)
(* and the RtspPusher it works with (src/src/Rtsp/RtspPusher.cpp), which   *)
(* pushes a stream of this server to another one.  The streams are those   *)
(* of pull proxies: a pusher holds its source weakly, and must end when    *)
(* the source does.                                                        *)
(*                                                                         *)
(* Each pusher runs on a poller of its own.  The server it pushes to       *)
(* answers, refuses, redirects, falls silent or hangs up.                  *)
(***************************************************************************)
EXTENDS PullProxy

CONSTANTS
    Pushers,            \* push proxies that may be made, for the same key
    PushRetryCount      \* _retry_count; negative: for ever

ASSUME PusherAssumption ==
    /\ None \notin Pushers
    /\ PushRetryCount \in Int

VARIABLES
    pushTable,      \* s_proxyPusherMap[key]
    source,         \* the pull proxy whose source _weak_src points to
    lost,           \* pushers whose _weak_src has expired
    phase,          \* what the current RtspPusher does
    pushTimer,      \* PusherProxy::_timer is set and will fire
    pushFailed,     \* failed_cnt
    pushCallback,   \* where the pusher's poller is within a callback
    pushAnswers     \* how often the API call that made the pusher was answered

pusherVars == <<source, lost, phase, pushTimer, pushFailed, pushCallback, pushAnswers>>
relayVars == <<pullVars, pushTable, pusherVars>>

(***************************************************************************)
(* none        no RtspPusher                                               *)
(* connecting  startConnect() has been called                              *)
(* announce    ANNOUNCE was sent; authorised: once more, with credentials  *)
(* setup       SETUP was sent                                              *)
(* record      RECORD was sent                                             *)
(* mute        connected, and nothing was sent                             *)
(* pushing     the success was told; reads the source's ring               *)
(* over        a failure or the end was told, or the pusher is destroyed   *)
(***************************************************************************)
PushHandshake == {"connecting", "announce", "authorised", "setup", "record", "mute"}
Phases == PushHandshake \cup {"none", "pushing", "over"}

PusherTypeOK ==
    /\ PullTypeOK
    /\ pushTable \in Pushers \cup {None}
    /\ source \in [Pushers -> Proxies \cup {None}]
    /\ lost \subseteq Pushers
    /\ phase \in [Pushers -> Phases]
    /\ pushTimer \in [Pushers -> BOOLEAN]
    /\ pushFailed \in [Pushers -> Nat]
    /\ pushCallback \in [Pushers -> {"idle", "failed", "judge"}]
    /\ pushAnswers \in [Pushers -> 0 .. 1]

RelayInit ==
    /\ PullInit
    /\ pushTable = None
    /\ source = [q \in Pushers |-> None]
    /\ lost = {}
    /\ phase = [q \in Pushers |-> "none"]
    /\ pushTimer = [q \in Pushers |-> FALSE]
    /\ pushFailed = [q \in Pushers |-> 0]
    /\ pushCallback = [q \in Pushers |-> "idle"]
    /\ pushAnswers = [q \in Pushers |-> 0]

\* The muxer of a pull proxy has the sources.
HasSource(p) == life[p] = "alive" /\ muxer[p]

\* The table is pt, the callbacks are cb: a pusher that neither holds is
\* destroyed, with its timer and its RtspPusher.  Unlike ~PlayerProxy, the
\* destructor answers nobody.
PushHeld(q, pt, cb) == pt = q \/ cb[q] # "idle"

Release(pt, cb, tm, ph) ==
    /\ pushTable' = pt
    /\ pushCallback' = cb
    /\ pushTimer' = [q \in Pushers |-> tm[q] /\ PushHeld(q, pt, cb)]
    /\ phase' = [q \in Pushers |->
                    IF ph[q] # "none" /\ ~PushHeld(q, pt, cb) THEN "over" ELSE ph[q]]

-----------------------------------------------------------------------------
(* The API. *)

\* addStreamPusherProxy() of a source that was found.
AddStreamPusherProxy(q, p) ==
    /\ pushTable = None
    /\ source[q] = None
    /\ HasSource(p)
    /\ pushTable' = q
    /\ source' = [source EXCEPT ![q] = p]
    /\ phase' = [phase EXCEPT ![q] = "connecting"]
    /\ UNCHANGED <<pullVars, lost, pushTimer, pushFailed, pushCallback, pushAnswers>>

\* publish() of an illegal url fails at once, under the lock; the retry timer
\* it starts goes with the pusher when addStreamPusherProxy returns.
AddPushFails(q, p) ==
    /\ pushTable = None
    /\ source[q] = None
    /\ HasSource(p)
    /\ source' = [source EXCEPT ![q] = p]
    /\ phase' = [phase EXCEPT ![q] = "over"]
    /\ pushAnswers' = [pushAnswers EXCEPT ![q] = 1]
    /\ UNCHANGED <<pullVars, pushTable, lost, pushTimer, pushFailed, pushCallback>>

\* delStreamPusherProxy().
DelStreamPusherProxy ==
    /\ pushTable # None
    /\ Release(None, pushCallback, pushTimer, phase)
    /\ UNCHANGED <<pullVars, source, lost, pushFailed, pushAnswers>>

-----------------------------------------------------------------------------
(* RtspPusher.  One callback at a time on the pusher's poller. *)

Ready(q) == PushHeld(q, pushTable, pushCallback) /\ pushCallback[q] = "idle"

Goes(q, ph) ==
    /\ Ready(q)
    /\ phase' = [phase EXCEPT ![q] = ph]
    /\ UNCHANGED <<pullVars, pushTable, source, lost, pushTimer, pushFailed,
                   pushCallback, pushAnswers>>

\* onPublishResult_l() with an error before the handshake is over: the
\* proxy's callback takes hold of it.
Fails(q) ==
    /\ Ready(q) /\ phase[q] \in PushHandshake
    /\ phase' = [phase EXCEPT ![q] = "over"]
    /\ pushCallback' = [pushCallback EXCEPT ![q] = "failed"]
    /\ UNCHANGED <<pullVars, pushTable, source, lost, pushTimer, pushFailed, pushAnswers>>

\* Mutant of ShutsDown: the end is taken for a result, which was told.
ShutsDownTold(q) ==
    /\ Ready(q) /\ phase[q] = "pushing"
    /\ phase' = [phase EXCEPT ![q] = "over"]
    /\ UNCHANGED <<pullVars, pushTable, source, lost, pushTimer, pushFailed,
                   pushCallback, pushAnswers>>

\* onPublishResult_l() with an error after it.
ShutsDown(q) ==
    /\ Ready(q) /\ phase[q] = "pushing"
    /\ phase' = [phase EXCEPT ![q] = "over"]
    /\ pushCallback' = [pushCallback EXCEPT ![q] = "judge"]
    /\ UNCHANGED <<pullVars, pushTable, source, lost, pushTimer, pushFailed, pushAnswers>>

\* onConnect(): sendAnnounce() throws when the source has gone, and what is
\* thrown here nobody takes for a result.
PushConnected(q) ==
    /\ phase[q] = "connecting"
    /\ Goes(q, IF q \in lost THEN "mute" ELSE "announce")

\* handleResAnnounce(): 401 once, if there is a source to announce; 302, which
\* begins anew; 200.  The rest throws into onRecv, which tells it.
HandleResAnnounce(q) ==
    /\ phase[q] \in {"announce", "authorised"}
    /\ \/ phase[q] = "announce" /\ q \notin lost /\ Goes(q, "authorised")
       \/ Goes(q, "connecting")
       \/ Goes(q, "setup")

\* handleResSetup(): one SETUP for each track.
HandleResSetup(q) ==
    /\ phase[q] = "setup"
    /\ Goes(q, "setup") \/ Goes(q, "record")

\* The response to RECORD, whatever its status: attaches to the ring, if the
\* source is there, and tells the success.
HandleResRecord(q) ==
    /\ Ready(q) /\ phase[q] = "record" /\ q \notin lost
    /\ phase' = [phase EXCEPT ![q] = "pushing"]
    /\ pushFailed' = [pushFailed EXCEPT ![q] = 0]
    /\ pushAnswers' = [pushAnswers EXCEPT ![q] = 1]
    /\ UNCHANGED <<pullVars, pushTable, source, lost, pushTimer, pushCallback>>

\* The handshake's timer, which runs throughout the handshake.
PublishTimeout(q) == Fails(q)

\* onErr(), or an exception in onRecv(): the server hangs up or talks nonsense.
PushBreaks(q) == Fails(q) \/ ShutsDown(q)

\* The ring has gone with the source: the reader's detach callback.
SourceReleased(q) == q \in lost /\ ShutsDown(q)

-----------------------------------------------------------------------------
(* PusherProxy: the callbacks it gives to each RtspPusher. *)

\* The result was a failure: the API call is answered, once, and takes the key
\* out, whoever's it is.
AnswerPush(q) ==
    /\ pushCallback[q] = "failed"
    /\ pushAnswers' = [pushAnswers EXCEPT ![q] = 1]
    /\ Release(IF pushAnswers[q] = 0 THEN None ELSE pushTable,
               [pushCallback EXCEPT ![q] = "judge"], pushTimer, phase)
    /\ UNCHANGED <<pullVars, source, lost, pushFailed>>

\* Mutant of MayPushAgain: the source is not looked at.
MayPushAgainBlind(q) == pushFailed[q] < PushRetryCount \/ PushRetryCount < 0

MayPushAgain(q) ==
    /\ q \notin lost
    /\ pushFailed[q] < PushRetryCount \/ PushRetryCount < 0

\* rePublish() starts the timer ...
Again(q) ==
    /\ pushCallback[q] = "judge" /\ MayPushAgain(q)
    /\ pushFailed' = [pushFailed EXCEPT ![q] = IF PushRetryCount < 0 THEN @ ELSE @ + 1]
    /\ Release(pushTable, [pushCallback EXCEPT ![q] = "idle"],
               [pushTimer EXCEPT ![q] = TRUE], phase)
    /\ UNCHANGED <<pullVars, source, lost, pushAnswers>>

\* ... or _on_close takes the key out, whoever's it is.
PushCloses(q) ==
    /\ pushCallback[q] = "judge" /\ ~MayPushAgain(q)
    /\ Release(None, [pushCallback EXCEPT ![q] = "idle"], pushTimer, phase)
    /\ UNCHANGED <<pullVars, source, lost, pushFailed, pushAnswers>>

\* The timer: a new RtspPusher takes the place of the old one.
RePublish(q) ==
    /\ Ready(q) /\ pushTimer[q]
    /\ pushTimer' = [pushTimer EXCEPT ![q] = FALSE]
    /\ phase' = [phase EXCEPT ![q] = "connecting"]
    /\ UNCHANGED <<pullVars, pushTable, source, lost, pushFailed, pushCallback, pushAnswers>>

-----------------------------------------------------------------------------
\* A step of the pull proxies: sources that go are lost to their pushers, also
\* when the proxy gets another one later.
PullStep(A) ==
    /\ A
    /\ lost' = lost \cup {q \in Pushers : \E p \in Proxies : source[q] = p /\ ~HasSource(p)'}
    /\ UNCHANGED <<pushTable, source, phase, pushTimer, pushFailed, pushCallback, pushAnswers>>

PushServe(q) == AnswerPush(q) \/ Again(q) \/ PushCloses(q) \/ RePublish(q)

PushStep(q) ==
    \/ \E p \in Proxies : AddStreamPusherProxy(q, p) \/ AddPushFails(q, p)
    \/ PushConnected(q) \/ HandleResAnnounce(q) \/ HandleResSetup(q) \/ HandleResRecord(q)
    \/ PublishTimeout(q) \/ PushBreaks(q) \/ SourceReleased(q)
    \/ PushServe(q)

RelayNext ==
    \/ PullStep(PullNext)
    \/ DelStreamPusherProxy
    \/ \E q \in Pushers : PushStep(q)

\* Pollers and callers run on, timers fire.  Nothing is asked of the servers.
RelaySpec ==
    /\ RelayInit
    /\ [][RelayNext]_relayVars
    /\ \A p \in Proxies :
          WF_relayVars(PullStep(Serve(p))) /\ WF_relayVars(PullStep(Outcome(p)))
    /\ \A c \in Callers : WF_relayVars(PullStep(CloseEnd(c)))
    /\ \A q \in Pushers :
          /\ WF_relayVars(PushServe(q))
          /\ WF_relayVars(PublishTimeout(q)) /\ WF_relayVars(SourceReleased(q))

-----------------------------------------------------------------------------
\* A pusher that is in the table is at work: it pushes, tries to, waits to try
\* again, or its poller is about to see to it.
PushIsAtWork ==
    pushTable # None =>
        \/ phase[pushTable] \in PushHandshake \cup {"pushing"}
        \/ pushTimer[pushTable]
        \/ pushCallback[pushTable] # "idle"

\* A pusher whose source has gone leaves the table, in whatever phase the end
\* of the source finds it and however many retries it has; also when the same
\* stream has come back as another source.
PushEndsWithSource ==
    \A q \in Pushers : (pushTable = q /\ q \in lost) ~> pushTable # q
=============================================================================
