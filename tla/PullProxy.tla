------------------------------ MODULE PullProxy ------------------------------
(***************************************************************************)
(* Pull proxies: the table of them that the web API keeps under one key    *)
(* (server/WebApi.cpp), and the life of each PlayerProxy                   *)
(* (src/src/Player/PlayerProxy.cpp): play, fail, retry, break off, close.  *)
(* API threads hold the table's lock while they use it; each proxy's       *)
(* callbacks run on its own poller and take the lock only to erase, so a   *)
(* callback of one proxy can come between the steps of everyone else.      *)
(***************************************************************************)
EXTENDS Integers, FiniteSets

CONSTANTS
    Proxies,            \* proxies that may be made, for the same key
    Callers,            \* threads that close media sources
    RetryCount,         \* _retry_count; negative: for ever
    ResetWhenReplay,    \* General::kResetWhenRePlay
    None

ASSUME PullAssumption ==
    /\ None \notin Proxies
    /\ RetryCount \in Int
    /\ ResetWhenReplay \in BOOLEAN

VARIABLES
    table,      \* s_proxyMap[key]
    life,       \* "new", "alive" or "dead": the proxy object
    attempt,    \* what the current MediaPlayer does
    failed,     \* piFailedCnt
    timer,      \* _timer is set and will fire
    onPlay,     \* _on_play is set
    muxer,      \* _muxer is there: its media sources can be found and closed
    callback,   \* where the proxy's poller is within a callback
    closing,    \* the proxy a caller is closing, which the caller holds
    closeTask,  \* close()'s task waits on the proxy's poller
    answers     \* how often the API call that made the proxy was answered

proxyVars == <<life, attempt, failed, timer, onPlay, muxer, callback, answers>>
pullVars == <<table, proxyVars, closing, closeTask>>

Attempts == {"none", "trying", "playing", "over"}
Steps == {"idle", "failed", "retry", "giveup"}

PullTypeOK ==
    /\ table \in Proxies \cup {None}
    /\ life \in [Proxies -> {"new", "alive", "dead"}]
    /\ attempt \in [Proxies -> Attempts]
    /\ failed \in [Proxies -> Nat]
    /\ timer \in [Proxies -> BOOLEAN]
    /\ onPlay \in [Proxies -> BOOLEAN]
    /\ muxer \in [Proxies -> BOOLEAN]
    /\ callback \in [Proxies -> Steps]
    /\ closing \in [Callers -> Proxies \cup {None}]
    /\ closeTask \in [Proxies -> BOOLEAN]
    /\ answers \in [Proxies -> 0 .. 1]

PullInit ==
    /\ table = None
    /\ life = [p \in Proxies |-> "new"]
    /\ attempt = [p \in Proxies |-> "none"]
    /\ failed = [p \in Proxies |-> 0]
    /\ timer = [p \in Proxies |-> FALSE]
    /\ onPlay = [p \in Proxies |-> FALSE]
    /\ muxer = [p \in Proxies |-> FALSE]
    /\ callback = [p \in Proxies |-> "idle"]
    /\ closing = [c \in Callers |-> None]
    /\ closeTask = [p \in Proxies |-> FALSE]
    /\ answers = [p \in Proxies |-> 0]

-----------------------------------------------------------------------------
\* A proxy lives while the table, a callback in progress or a closing caller
\* holds it.  t, cb and cl are the table, the callbacks and the callers after
\* the step.
Held(p, t, cb, cl) == t = p \/ cb[p] # "idle" \/ \E c \in Callers : cl[c] = p

\* ~PlayerProxy(): destroyed proxies that owe their API call an answer.
\* (LateNone is a mutant: the destructor forgets it.)
LateNone(gone, on) == {}
Late(gone, on) == {p \in gone : on[p]}

\* The step's last words: what no one holds any more is destroyed.  Its
\* destructor answers an API call that still waits, and that answer erases
\* the key, whoever's it is.  The rest of the state is given as it was left.
Settle(t, cb, cl, on, ans, tm, att) ==
    LET gone == {p \in Proxies : life[p] = "alive" /\ ~Held(p, t, cb, cl)}
        late == Late(gone, on)
    IN  /\ table' = IF late # {} THEN None ELSE t
        /\ life' = [p \in Proxies |-> IF p \in gone THEN "dead" ELSE life[p]]
        /\ onPlay' = [p \in Proxies |-> on[p] /\ p \notin late]
        /\ answers' = [p \in Proxies |-> ans[p] + (IF p \in late THEN 1 ELSE 0)]
        /\ timer' = [p \in Proxies |-> tm[p] /\ p \notin gone]
        /\ attempt' = [p \in Proxies |-> IF p \in gone THEN "over" ELSE att[p]]
        /\ callback' = cb
        /\ closing' = cl

\* The callback cb(ex, key) of addStreamProxy: an error takes the key out.
Erases(p, err) == onPlay[p] /\ err

-----------------------------------------------------------------------------
(* The API. *)

\* addStreamProxy() for a key that is not in the table; play() connects in
\* the background.
AddStreamProxy(p) ==
    /\ table = None
    /\ life[p] = "new"
    /\ table' = p
    /\ life' = [life EXCEPT ![p] = "alive"]
    /\ attempt' = [attempt EXCEPT ![p] = "trying"]
    /\ onPlay' = [onPlay EXCEPT ![p] = TRUE]
    /\ UNCHANGED <<failed, timer, muxer, callback, answers, closing, closeTask>>

\* play() of an illegal url fails at once, under the lock.  The answer takes
\* the proxy out of the table; nobody holds it when addStreamProxy returns.
AddFails(p) ==
    /\ table = None
    /\ life[p] = "new"
    /\ life' = [life EXCEPT ![p] = "dead"]
    /\ attempt' = [attempt EXCEPT ![p] = "over"]
    /\ answers' = [answers EXCEPT ![p] = 1]
    /\ UNCHANGED <<table, failed, timer, onPlay, muxer, callback, closing, closeTask>>

\* delStreamProxy().
DelStreamProxy ==
    /\ table # None
    /\ Settle(None, callback, closing, onPlay, answers, timer, attempt)
    /\ UNCHANGED <<failed, muxer, closeTask>>

\* MediaSource::close() finds the proxy behind one of its media sources and
\* calls PlayerProxy::close(): first the task for the proxy's poller ...
CloseBegin(c, p) ==
    /\ closing[c] = None
    /\ life[p] = "alive"
    /\ muxer[p]
    /\ closing' = [closing EXCEPT ![c] = p]
    /\ closeTask' = [closeTask EXCEPT ![p] = TRUE]
    /\ UNCHANGED <<table, proxyVars>>

\* ... then _on_close, which takes the key out of the table.
CloseEnd(c) ==
    LET p == closing[c]
    IN  /\ p # None
        /\ Settle(None, callback, [closing EXCEPT ![c] = None],
                  onPlay, answers, timer, attempt)
        /\ UNCHANGED <<failed, muxer, closeTask>>

-----------------------------------------------------------------------------
(* The proxy's poller.  One callback at a time. *)

Idle(p) == life[p] = "alive" /\ callback[p] = "idle"

\* The play callback with an error: it takes hold of the proxy ...
PlayFails(p) ==
    /\ Idle(p)
    /\ attempt[p] = "trying"
    /\ attempt' = [attempt EXCEPT ![p] = "over"]
    /\ callback' = [callback EXCEPT ![p] = "failed"]
    /\ UNCHANGED <<table, life, failed, timer, onPlay, muxer, answers, closing, closeTask>>

\* ... answers the API call, if that still waits ...
AnswerFailure(p) ==
    /\ callback[p] = "failed"
    /\ Settle(IF Erases(p, TRUE) THEN None ELSE table,
              [callback EXCEPT ![p] = "retry"], closing,
              [onPlay EXCEPT ![p] = FALSE],
              [answers EXCEPT ![p] = @ + (IF onPlay[p] THEN 1 ELSE 0)],
              timer, attempt)
    /\ UNCHANGED <<failed, muxer, closeTask>>

MayRetry(p) == failed[p] < RetryCount \/ RetryCount < 0

\* ... and starts the retry timer ...
Retry(p) ==
    /\ callback[p] = "retry"
    /\ MayRetry(p)
    /\ failed' = [failed EXCEPT ![p] = IF RetryCount < 0 THEN @ ELSE @ + 1]
    /\ Settle(table, [callback EXCEPT ![p] = "idle"], closing, onPlay, answers,
              [timer EXCEPT ![p] = TRUE], attempt)
    /\ UNCHANGED <<muxer, closeTask>>

\* ... or, with no retry left, calls _on_close.
GiveUp(p) ==
    /\ callback[p] = "retry"
    /\ ~MayRetry(p)
    /\ Settle(None, [callback EXCEPT ![p] = "idle"], closing, onPlay, answers,
              timer, attempt)
    /\ UNCHANGED <<failed, muxer, closeTask>>

\* The play callback with success, and onPlaySuccess().
PlaySucceeds(p) ==
    /\ Idle(p)
    /\ attempt[p] = "trying"
    /\ attempt' = [attempt EXCEPT ![p] = "playing"]
    /\ onPlay' = [onPlay EXCEPT ![p] = FALSE]
    /\ answers' = [answers EXCEPT ![p] = @ + (IF onPlay[p] THEN 1 ELSE 0)]
    /\ timer' = [timer EXCEPT ![p] = FALSE]
    /\ failed' = [failed EXCEPT ![p] = 0]
    /\ muxer' = [muxer EXCEPT ![p] = TRUE]
    /\ UNCHANGED <<table, life, callback, closing, closeTask>>

\* Mutant of BreaksOff: the break is not followed up.
BreaksOffQuietly(p) ==
    /\ Idle(p)
    /\ attempt[p] = "playing"
    /\ attempt' = [attempt EXCEPT ![p] = "over"]
    /\ muxer' = [muxer EXCEPT ![p] = ~ResetWhenReplay]
    /\ UNCHANGED <<table, life, failed, timer, onPlay, callback, answers, closing, closeTask>>

\* The shutdown callback: the muxer goes, or keeps its sources without tracks.
BreaksOff(p) ==
    /\ Idle(p)
    /\ attempt[p] = "playing"
    /\ attempt' = [attempt EXCEPT ![p] = "over"]
    /\ muxer' = [muxer EXCEPT ![p] = ~ResetWhenReplay]
    /\ callback' = [callback EXCEPT ![p] = "retry"]
    /\ UNCHANGED <<table, life, failed, timer, onPlay, answers, closing, closeTask>>

\* The retry timer: a new MediaPlayer takes the place of the old one.
RePlay(p) ==
    /\ Idle(p)
    /\ timer[p]
    /\ timer' = [timer EXCEPT ![p] = FALSE]
    /\ attempt' = [attempt EXCEPT ![p] = "trying"]
    /\ UNCHANGED <<table, life, failed, onPlay, muxer, callback, answers, closing, closeTask>>

\* close()'s task: teardown() ends the attempt without a callback.
CloseTask(p) ==
    /\ closeTask[p]
    /\ callback[p] = "idle"
    /\ closeTask' = [closeTask EXCEPT ![p] = FALSE]
    /\ IF life[p] = "alive"
       THEN /\ muxer' = [muxer EXCEPT ![p] = FALSE]
            /\ attempt' = [attempt EXCEPT ![p] = "over"]
       ELSE UNCHANGED <<muxer, attempt>>
    /\ UNCHANGED <<table, life, failed, timer, onPlay, callback, answers, closing>>

Serve(p) ==
    \/ AnswerFailure(p) \/ Retry(p) \/ GiveUp(p)
    \/ RePlay(p) \/ CloseTask(p)
Outcome(p) == PlayFails(p) \/ PlaySucceeds(p)

PullNext ==
    \/ \E p \in Proxies : AddStreamProxy(p) \/ AddFails(p)
    \/ DelStreamProxy
    \/ \E c \in Callers, p \in Proxies : CloseBegin(c, p)
    \/ \E c \in Callers : CloseEnd(c)
    \/ \E p \in Proxies : Serve(p) \/ Outcome(p) \/ BreaksOff(p)

\* Pollers and callers run on; a play ends, at the latest when it times out.
PullSpec ==
    /\ PullInit
    /\ [][PullNext]_pullVars
    /\ \A p \in Proxies : WF_pullVars(Serve(p)) /\ WF_pullVars(Outcome(p))
    /\ \A c \in Callers : WF_pullVars(CloseEnd(c))

-----------------------------------------------------------------------------
\* Every addStreamProxy call that made a proxy is answered, deleted or not.
\* (That it is not answered twice is AnsweredOnce of PlayerProofs.)
EveryAddAnswered ==
    \A p \in Proxies : life[p] # "new" ~> answers[p] = 1

\* A proxy that is in the table is at work: it plays, tries to, waits to try
\* again, or its poller or a closing caller is about to see to it.
NeverStuck ==
    table # None =>
        \/ attempt[table] \in {"trying", "playing"}
        \/ timer[table]
        \/ callback[table] # "idle"
        \/ \E c \in Callers : closing[c] = table
=============================================================================
