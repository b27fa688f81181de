------------------------------ MODULE FindAsync ------------------------------
(***************************************************************************)
(* MediaSource::findAsync (src/src/Common/MediaSource.cpp): a player asks  *)
(* for a stream that may not be there yet.  The lookup and the wait run on *)
(* the poller thread of the player's session; sources register and die on  *)
(* their own threads (MediaRegistry), and their events reach the session's *)
(* poller as tasks.  A wait ends in one of three ways that race: its       *)
(* timer, a registration event, or a close_player call by whoever listens  *)
(* to kBroadcastNotFoundStream.                                            *)
(***************************************************************************)
EXTENDS MediaRegistry, Sequences

CONSTANTS
    Requests,       \* findAsync calls
    Wants,          \* the tuple each call looks for
    Sessions,
    SessionOf,      \* the session each call was made for
    TagOf,          \* the address that keys a session's listeners
    Pending         \* no answer yet

ASSUME FindAssumption ==
    /\ Wants \in [Requests -> Keys]
    /\ SessionOf \in [Requests -> Sessions]
    /\ Pending \notin Sources \cup {None}

VARIABLES
    pc,             \* idle, missed (first lookup failed), waiting, done
    listening,      \* calls whose on_register is in the NoticeCenter
    timer,          \* calls whose on_timeout is armed
    tasks,          \* tasks posted to the poller for each call, in order
    invoked,        \* the atomic_flag that cb_once shares
    answer,         \* what cb was called with
    calls,          \* how often cb was called
    closable,       \* calls whose close_player was handed out and not used
    gone,           \* sessions that were destroyed
    blind           \* history: what was registered and announced when the
                    \* call started to listen, after its lookup missed it

waitVars == <<pc, listening, timer, tasks, invoked, answer, calls,
              closable, gone, blind>>
findVars == <<registryVars, waitVars>>

FindTypeOK ==
    /\ RegistryTypeOK
    /\ pc \in [Requests -> {"idle", "missed", "waiting", "done"}]
    /\ listening \subseteq Requests
    /\ timer \subseteq Requests
    /\ tasks \in [Requests -> Seq({"register", "close"})]
    /\ invoked \subseteq Requests
    /\ answer \in [Requests -> Sources \cup {None, Pending}]
    /\ calls \in [Requests -> Nat]
    /\ closable \subseteq Requests
    /\ gone \subseteq Sessions
    /\ blind \in [Requests -> Sources \cup {None}]

FindInit ==
    /\ RegistryInit
    /\ pc = [r \in Requests |-> "idle"]
    /\ listening = {}
    /\ timer = {}
    /\ tasks = [r \in Requests |-> <<>>]
    /\ invoked = {}
    /\ answer = [r \in Requests |-> Pending]
    /\ calls = [r \in Requests |-> 0]
    /\ closable = {}
    /\ gone = {}
    /\ blind = [r \in Requests |-> None]

\* The session's thread is inside findAsync_l and runs nothing else.
Busy(r) == \E q \in Requests : SessionOf[q] = SessionOf[r] /\ pc[q] = "missed"

\* cb(src).
Call(r, src) ==
    /\ answer' = [answer EXCEPT ![r] = src]
    /\ calls' = [calls EXCEPT ![r] = @ + 1]

\* Broken variants, named after what they lack; the runs must reject them.
CallAgain(r, src) == invoked' = invoked \cup {r} /\ Call(r, src)

\* cb_once(src).
CallOnce(r, src) ==
    /\ invoked' = invoked \cup {r}
    /\ IF r \in invoked THEN UNCHANGED <<answer, calls>> ELSE Call(r, src)

\* NoticeCenter::delListener removes every listener of the tag.
DelListener(r) ==
    listening' = {q \in listening : TagOf[SessionOf[q]] # TagOf[SessionOf[r]]}

\* findAsync_l with retry: the first lookup answers at once, or misses.
LookUp(r) ==
    /\ pc[r] = "idle"
    /\ SessionOf[r] \notin gone
    /\ ~Busy(r)
    /\ IF Found(Wants[r]) # None
       THEN /\ Call(r, Found(Wants[r]))
            /\ pc' = [pc EXCEPT ![r] = "done"]
       ELSE /\ pc' = [pc EXCEPT ![r] = "missed"]
            /\ UNCHANGED <<answer, calls>>
    /\ UNCHANGED <<registryVars, listening, timer, tasks, invoked, closable,
                   gone, blind>>

\* doDelayTask, addListener and the kBroadcastNotFoundStream that hands
\* close_player out.  The map is not looked at again.
StartWait(r) ==
    /\ pc[r] = "missed"
    /\ pc' = [pc EXCEPT ![r] = "waiting"]
    /\ timer' = timer \cup {r}
    /\ listening' = listening \cup {r}
    /\ closable' = closable \cup {r}
    /\ LET s == Found(Wants[r])
       IN  blind' = [blind EXCEPT ![r] =
                        IF s # None /\ life[s] = "registered" THEN s ELSE None]
    /\ UNCHANGED <<registryVars, tasks, invoked, answer, calls, gone>>

OnTimeout(r) ==
    /\ r \in timer
    /\ ~Busy(r)
    /\ timer' = timer \ {r}
    /\ DelListener(r)
    /\ CallOnce(r, None)
    /\ pc' = [pc EXCEPT ![r] = "done"]
    /\ UNCHANGED <<registryVars, tasks, closable, gone, blind>>

\* emitEvent(true) runs on_register of every listener: those that want this
\* tuple post a task to their poller.
AnnounceTo(s) ==
    /\ Announce(s)
    /\ tasks' = [r \in Requests |->
                    IF r \in listening /\ Wants[r] = KeyOf[s]
                    THEN Append(tasks[r], "register") ELSE tasks[r]]
    /\ UNCHANGED <<pc, listening, timer, invoked, answer, calls, closable,
                   gone, blind>>

\* Somebody that was told of the missing stream calls close_player.
ClosePlayer(r) ==
    /\ r \in closable
    /\ closable' = closable \ {r}
    /\ tasks' = [tasks EXCEPT ![r] = Append(@, "close")]
    /\ UNCHANGED <<registryVars, pc, listening, timer, invoked, answer, calls,
                   gone, blind>>

\* A posted task: cancel_all, then the second lookup (without another wait)
\* if the session is still there, or the null answer of close_player.
RunTask(r, kind) ==
    /\ tasks[r] # <<>>
    /\ Head(tasks[r]) = kind
    /\ ~Busy(r)
    /\ tasks' = [tasks EXCEPT ![r] = Tail(@)]
    /\ timer' = timer \ {r}
    /\ DelListener(r)
    /\ pc' = [pc EXCEPT ![r] = "done"]
    /\ UNCHANGED <<registryVars, closable, gone, blind>>

OnRegisterIfFound(r) ==             \* no answer if the source left again
    /\ RunTask(r, "register")
    /\ IF SessionOf[r] \in gone \/ Found(Wants[r]) = None
       THEN UNCHANGED <<invoked, answer, calls>>
       ELSE CallOnce(r, Found(Wants[r]))

OnRegister(r) ==
    /\ RunTask(r, "register")
    /\ IF SessionOf[r] \in gone THEN UNCHANGED <<invoked, answer, calls>>
                                ELSE CallOnce(r, Found(Wants[r]))

OnClose(r) ==
    /\ RunTask(r, "close")
    /\ CallOnce(r, None)

\* The player disconnects and its session object is destroyed.
SessionGone(x) ==
    /\ x \notin gone
    /\ \A r \in Requests : SessionOf[r] = x => pc[r] # "missed"
    /\ gone' = gone \cup {x}
    /\ UNCHANGED <<registryVars, pc, listening, timer, tasks, invoked, answer,
                   calls, closable, blind>>

SourceStep(s) ==
    /\ Build(s) \/ Regist(s) \/ Expire(s) \/ Unregist(s) \/ Retire(s)
    /\ UNCHANGED waitVars

FindNext ==
    \/ \E s \in Sources : SourceStep(s) \/ AnnounceTo(s)
    \/ \E r \in Requests :
          \/ LookUp(r) \/ StartWait(r) \/ OnTimeout(r)
          \/ ClosePlayer(r) \/ OnRegister(r) \/ OnClose(r)
    \/ \E x \in Sessions : SessionGone(x)

\* Pollers run: a call that began goes on to wait, timers fire, tasks run.
\* Nobody has to call close_player, and no source has to appear.
FindFairness ==
    \A r \in Requests :
        /\ WF_findVars(StartWait(r))
        /\ WF_findVars(OnTimeout(r))
        /\ WF_findVars(OnRegister(r) \/ OnClose(r))

FindSpec == FindInit /\ [][FindNext]_findVars /\ FindFairness

-----------------------------------------------------------------------------
(* What a player may rely on. *)

\* The timer, the registration tasks and close_player race, and one call may
\* be hit by all of them: its callback still runs at most once.
AnswerAtMostOnce == \A r \in Requests : calls[r] <= 1

\* A call that is over leaves no armed timer and no listener behind (a later
\* registration would otherwise wake a session long answered).
NothingLeftBehind ==
    \A r \in Requests : pc[r] # "waiting" => r \notin timer \cup listening

\* No call that shares r's listener tag is over, and has removed its listener.
Undisturbed(r) ==
    \A q \in Requests \ {r} :
        TagOf[SessionOf[q]] = TagOf[SessionOf[r]] => pc[q] # "done"

\* No wakeup is lost once a call listens: if its stream is there, either it
\* was announced before the call listened, or its announcement is still to
\* come, or the task that answers the call is queued.
WakeupNotLost ==
    \A r \in Requests :
        LET s == Found(Wants[r])
        IN  pc[r] = "waiting" /\ Undisturbed(r) /\ s # None /\ s # blind[r]
                => \/ life[s] = "announcing"
                   \/ \E i \in DOMAIN tasks[r] : tasks[r][i] = "register"

\* A player whose session lives on gets an answer.
EveryCallAnswered ==
    \A r \in Requests :
        pc[r] = "missed" ~> (calls[r] = 1 \/ SessionOf[r] \in gone)
=============================================================================
