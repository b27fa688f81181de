------------------------------ MODULE RtpServer ------------------------------
(***************************************************************************)
(* Receiving RTP (GB28181): the servers that the web API opens for a       *)
(* stream id (server/WebApi.cpp, s_rtpServerMap), their UDP socket with    *)
(* its RtcpHelper, TCP sessions (Rtp/RtpSession.cpp), and the table of     *)
(* RtpProcess by stream id (Rtp/RtpSelector.cpp).  One stream id.          *)
(*                                                                         *)
(* The first packet claims the stream id in the selector; whoever claimed  *)
(* it gives it back when he goes.  A process that is taken out of the      *)
(* table, by its owner, by a closed source or by the selector's timer,     *)
(* calls its onDetach after the selector's mutex has been released.  That  *)
(* callback takes the server out of the API's map, by stream id.  A server *)
(* waits for its first packet on a delay task; the callback is in the      *)
(* helper until the process that it is for exists.                         *)
(***************************************************************************)
EXTENDS Naturals, FiniteSets

CONSTANTS Servers,     \* RtpServer objects; numbered, as they are created one after the other
          Sessions,    \* TCP connections to them
          Procs        \* RtpProcess objects

None == 0

ASSUME RtpServerAssumption ==
  /\ Servers \cup Sessions \cup Procs \subseteq Nat \ {None}
  /\ Servers \cap Sessions = {}

Feeders == Servers \cup Sessions

VARIABLES slot,       \* s_rtpServerMap[stream_id]
          srv,        \* life of a server: "new", "open", "closed"
          helper,     \* its RtcpHelper: does it still hold the callback, its delay task
          table,      \* _map_rtp_process[stream_id]
          holds,      \* process that a helper or a session feeds
          session,    \* life of a TCP session: "new", "up", "gone"
          proc,       \* the processes
          detaching,  \* processes out of the table whose onDetach is still to be called
          raced       \* history: servers whose callback went to a process that was out of the table
vars == <<slot, srv, helper, table, holds, session, proc, detaching, raced>>

\* A process: does it carry a callback, the answer of the publish hook, and did a
\* frame come in time.
Process == [used : BOOLEAN, cb : BOOLEAN, pub : {"none", "asked", "allowed", "denied"},
            fresh : BOOLEAN]

RtpServerTypeOK ==
  /\ slot \in Servers \cup {None} /\ table \in Procs \cup {None}
  /\ srv \in [Servers -> {"new", "open", "closed"}]
  /\ helper \in [Servers -> [cb : BOOLEAN, delay : {"none", "armed", "found", "missed"}, found : Procs \cup {None}]]
  /\ holds \in [Feeders -> Procs \cup {None}]
  /\ session \in [Sessions -> {"new", "up", "gone"}]
  /\ proc \in [Procs -> Process]
  /\ detaching \subseteq Procs
  /\ raced \subseteq Servers

NewProcess == [used |-> FALSE, cb |-> FALSE, pub |-> "none", fresh |-> TRUE]
Alive(p) == proc[p].fresh
\* Somebody holds the process; a hook's answer and a timer find it gone otherwise.
Exists(p) == p \in {table} \cup detaching \cup {holds[f] : f \in Feeders} \cup {helper[s].found : s \in Servers}
Unborn(p) == ~proc[p].used /\ \A q \in Procs : q < p => proc[q].used

------------------------------------------------------------------------------
(***************************************************************************)
(* Ending a server.  Its socket lets go of the helper, whose destructor    *)
(* gives the process back; the process' own callback then finds the map's  *)
(* entry gone.  The map's mutex is recursive and held all the while.  A    *)
(* delay task that is running holds the helper until it ends.              *)
(***************************************************************************)

Stopped(h) == IF h.delay = "armed" THEN [h EXCEPT !.delay = "none"] ELSE h

DestroyKeeps(s, helpers) ==        \* broken variant: the process stays in the table
  /\ srv' = [srv EXCEPT ![s] = "closed"]
  /\ helper' = [helpers EXCEPT ![s] = Stopped(@)]
  /\ holds' = [holds EXCEPT ![s] = None]
  /\ UNCHANGED table

Destroy(s, helpers) ==
  /\ srv' = [srv EXCEPT ![s] = "closed"]
  /\ helper' = [helpers EXCEPT ![s] = Stopped(@)]
  /\ holds' = [holds EXCEPT ![s] = None]
  /\ table' = IF holds[s] # None /\ table = holds[s] THEN None ELSE table

\* The onDetach callback that openRtpServer installs: it erases by stream id.
EraseServer(helpers) ==
  /\ slot' = None
  /\ IF slot = None THEN helper' = helpers /\ UNCHANGED <<srv, holds, table>>
     ELSE Destroy(slot, helpers)

------------------------------------------------------------------------------
(***************************************************************************)
(* The API                                                                 *)
(***************************************************************************)

OpenRtpServer(s) ==
  /\ srv[s] = "new" /\ slot = None /\ \A t \in Servers : t < s => srv[t] # "new"
  /\ slot' = s
  /\ srv' = [srv EXCEPT ![s] = "open"]
  /\ helper' = [helper EXCEPT ![s] = [cb |-> TRUE, delay |-> "armed", found |-> None]]
  /\ UNCHANGED <<table, holds, session, proc, detaching, raced>>

CloseRtpServer ==
  /\ slot # None
  /\ slot' = None
  /\ Destroy(slot, helper)
  /\ UNCHANGED <<session, proc, detaching, raced>>

------------------------------------------------------------------------------
(***************************************************************************)
(* Packets                                                                 *)
(***************************************************************************)

ClaimAnyway(p) == IF table = None THEN Unborn(p) ELSE p = table   \* broken: shares it
\* getProcess(stream_id, true) makes a process, and throws if there is one.
Claim(p) == Unborn(p) /\ table = None

FedAlways(r) == [r EXCEPT !.fresh = TRUE]  \* broken variant: any packet is a sign of life
\* inputRtp of a process: the first call asks the hook; a frame counts as a
\* sign of life only when there is a muxer to take it.
Fed(r) == IF r.pub = "none" THEN [r EXCEPT !.pub = "asked"]
          ELSE IF r.pub = "allowed" THEN [r EXCEPT !.fresh = TRUE] ELSE r

\* onRecvRtp of the helper of server s.
UdpFirst(s, p) ==
  /\ srv[s] = "open" /\ holds[s] = None /\ helper[s].delay \in {"none", "armed"}
  /\ Claim(p)
  /\ table' = p
  /\ holds' = [holds EXCEPT ![s] = p]
  /\ proc' = [proc EXCEPT ![p] = [NewProcess EXCEPT !.used = TRUE, !.pub = "asked",
                                                    !.cb = helper[s].cb]]
  /\ helper' = [helper EXCEPT ![s] = [Stopped(helper[s]) EXCEPT !.cb = FALSE]]
  /\ UNCHANGED <<slot, srv, session, detaching, raced>>

\* onRtpPacket of TCP session c: a refused claim is an exception, which ends the session.
TcpFirst(c, p) ==
  /\ session[c] = "up" /\ holds[c] = None
  /\ Claim(p)
  /\ table' = p
  /\ holds' = [holds EXCEPT ![c] = p]
  /\ proc' = [proc EXCEPT ![p] = [NewProcess EXCEPT !.used = TRUE, !.pub = "asked"]]
  /\ UNCHANGED <<slot, srv, helper, session, detaching, raced>>

\* A packet that brings a frame; a session may go on with a process that is out
\* of the table.
NextPacket(f) ==
  /\ holds[f] # None
  /\ f \in Sessions => session[f] = "up"
  /\ f \in Servers => srv[f] = "open"
  /\ proc' = [proc EXCEPT ![holds[f]] = Fed(@)]
  /\ UNCHANGED <<slot, srv, helper, table, holds, session, detaching, raced>>

\* The publish hook answers, once (emitOnPublish).
HookAnswers(p) ==
  /\ Exists(p) /\ proc[p].pub = "asked"
  /\ \E r \in {"allowed", "denied"} : proc' = [proc EXCEPT ![p].pub = r]
  /\ UNCHANGED <<slot, srv, helper, table, holds, session, detaching, raced>>

------------------------------------------------------------------------------
(***************************************************************************)
(* Leaving the table.  The erasure is under the selector's mutex, the      *)
(* callback after it.                                                      *)
(***************************************************************************)

\* delProcess(stream_id, ptr) takes out only the process it is called for.
DelProcess(p) == table # None /\ table = p

TakeOut(p) ==
  IF DelProcess(p) THEN table' = None /\ detaching' = detaching \cup {table}
  ELSE UNCHANGED <<table, detaching>>

Connect(c) ==
  /\ session[c] = "new" /\ slot # None /\ \A d \in Sessions : d < c => session[d] # "new"
  /\ session' = [session EXCEPT ![c] = "up"]
  /\ UNCHANGED <<slot, srv, helper, table, holds, proc, detaching, raced>>

\* The connection breaks, times out or is refused the stream: ~RtpSession.
Disconnect(c) ==
  /\ session[c] = "up"
  /\ session' = [session EXCEPT ![c] = "gone"]
  /\ holds' = [holds EXCEPT ![c] = None]
  /\ TakeOut(holds[c])
  /\ UNCHANGED <<slot, srv, helper, proc, raced>>

\* RtpProcessHelper::close: the source of a process fed by UDP is closed.
CloseSource(s) ==
  /\ holds[s] # None /\ proc[holds[s]].pub = "allowed" /\ table = holds[s]
  /\ TakeOut(holds[s])
  /\ UNCHANGED <<slot, srv, helper, holds, session, proc, raced>>

\* RtpSelector::onManager, for a process that has timed out.
OnManager ==
  /\ table # None /\ ~Alive(table)
  /\ table' = None /\ detaching' = detaching \cup {table}
  /\ UNCHANGED <<slot, srv, helper, holds, session, proc, raced>>

OnDetach(p) ==
  /\ p \in detaching
  /\ detaching' = detaching \ {p}
  /\ IF proc[p].cb THEN EraseServer(helper)
     ELSE UNCHANGED <<slot, srv, helper, holds, table>>
  /\ UNCHANGED <<session, proc, raced>>

\* RtpProxy.timeoutSec goes by without a frame.
Age(p) ==
  /\ Exists(p) /\ proc[p].fresh
  /\ proc' = [proc EXCEPT ![p].fresh = FALSE]
  /\ UNCHANGED <<slot, srv, helper, table, holds, session, detaching, raced>>

------------------------------------------------------------------------------
(***************************************************************************)
(* The delay task of startRtcp: is there a process by now?  Between the    *)
(* look at the selector and what follows from it other threads go on; the  *)
(* server's own sockets are on the task's poller, as openRtpServer creates *)
(* them there, so that no packet of theirs comes in between.               *)
(***************************************************************************)

DelayFires(s) ==
  /\ helper[s].delay = "armed"
  /\ helper' = [helper EXCEPT ![s].delay = IF table = None THEN "missed" ELSE "found", ![s].found = table]
  /\ UNCHANGED <<slot, srv, table, holds, session, proc, detaching, raced>>

Ended(s) == [helper EXCEPT ![s].delay = "none", ![s].found = None]

DelayMissedIdle(s) ==    \* broken variant: nothing is done when nobody came
  /\ helper[s].delay = "missed"
  /\ helper' = Ended(s)
  /\ UNCHANGED <<slot, srv, table, holds, session, proc, detaching, raced>>

\* Nobody came: the server's time is over.
DelayMissed(s) ==
  /\ helper[s].delay = "missed"
  /\ EraseServer(Ended(s))
  /\ UNCHANGED <<session, proc, detaching, raced>>

DelayForgets(s) ==       \* broken variant: the callback stays in the helper
  /\ helper[s].delay = "found"
  /\ helper' = Ended(s)
  /\ UNCHANGED <<slot, srv, table, holds, session, proc, detaching, raced>>

\* A TCP session has the process: it is given the callback.
DelayFound(s) ==
  /\ helper[s].delay = "found"
  /\ proc' = [proc EXCEPT ![helper[s].found].cb = TRUE]
  /\ helper' = [Ended(s) EXCEPT ![s].cb = FALSE]
  /\ raced' = IF helper[s].found \in {table} \cup detaching THEN raced ELSE raced \cup {s}
  /\ UNCHANGED <<slot, srv, table, holds, session, detaching>>

------------------------------------------------------------------------------

RtpServerInit ==
  /\ slot = None /\ table = None
  /\ srv = [s \in Servers |-> "new"]
  /\ helper = [s \in Servers |-> [cb |-> FALSE, delay |-> "none", found |-> None]]
  /\ holds = [f \in Feeders |-> None]
  /\ session = [c \in Sessions |-> "new"]
  /\ proc = [p \in Procs |-> NewProcess]
  /\ detaching = {} /\ raced = {}

RtpServerNext ==
  \/ \E s \in Servers : \/ OpenRtpServer(s) \/ CloseSource(s)
                       \/ DelayFires(s) \/ DelayMissed(s) \/ DelayFound(s)
                       \/ \E p \in Procs : UdpFirst(s, p)
  \/ \E c \in Sessions : \/ Connect(c) \/ Disconnect(c)
                        \/ \E p \in Procs : TcpFirst(c, p)
  \/ \E f \in Feeders : NextPacket(f)
  \/ \E p \in Procs : HookAnswers(p) \/ OnDetach(p) \/ Age(p)
  \/ CloseRtpServer \/ OnManager

RtpServerSpec == RtpServerInit /\ [][RtpServerNext]_vars

\* Pollers run their timers and finish what they have begun; time passes.
RtpServerFairness ==
  /\ \A s \in Servers : WF_vars(DelayFires(s)) /\ WF_vars(DelayMissed(s)) /\ WF_vars(DelayFound(s))
  /\ \A p \in Procs : WF_vars(OnDetach(p)) /\ WF_vars(Age(p))
  /\ WF_vars(OnManager)

RtpServerFairSpec == RtpServerSpec /\ RtpServerFairness

------------------------------------------------------------------------------

Live(f) == IF f \in Servers THEN srv[f] = "open" ELSE session[f] = "up"

\* Whoever claimed the stream id gives it back when he goes: what is in the
\* selector's table has a live owner, so that no process without one refuses
\* the next sender (~RtcpHelper, RtpServer.cpp:38; ~RtpSession, RtpSession.cpp:42).
ClaimHasOwner == table # None => \E f \in Feeders : holds[f] = table /\ Live(f)

\* A process is never fed by two, "or else there were a problem of thread
\* safety" (RtpSelector.cpp:45): not even by way of processes that have left
\* the table while a session still feeds them.
FedByOne == \A f, g \in Feeders : holds[f] # None /\ holds[f] = holds[g] => f = g

\* Whoever feeds the process of the stream id, it leaves the table only when it
\* timed out, or when that feeder goes: the session that has it breaks, or the
\* server that has it, the one in the API's map, is ended or its source closed.
\* So the end of a server takes nothing from a session, and a session that
\* goes late takes nothing from another (the pointer in delProcess,
\* RtpSelector.cpp:78).  What ends the server is left open, and need not be of
\* its own time: an earlier process' onDetach erases by stream id (WebApi.cpp:405).
LeavesByFeeder ==
  [][\A f \in Feeders : table # None /\ holds[f] = table /\ table' # table =>
       /\ table' = None
       /\ \/ ~Alive(table)
          \/ f \in Sessions /\ session[f] = "up" /\ session'[f] = "gone"
          \/ f \in Servers /\ slot = f /\ srv'[f] = "closed"
          \/ f \in Servers /\ CloseSource(f)]_vars

Pending(s) ==
  \/ helper[s].delay # "none"
  \/ \E t \in Servers : helper[t].delay = "missed"
  \/ \E p \in {table} \cup detaching : p # None /\ proc[p].cb

\* A server in the API's map is ended when its stream ends or does not come:
\* the callback that does it waits in the delay task or with a process that is
\* still to be detached (RtpServer.cpp:93-107).  The exception is a process
\* that left between the task's look and its setOnDetach.
NotStranded == \A s \in Servers : slot = s => Pending(s) \/ s \in raced

\* A server whose stream never comes, or has gone, is taken out of the map in
\* the end, or somebody claims the stream id.
UnusedServerEnds ==
  \A s \in Servers : (slot = s /\ table = None) ~> (slot # s \/ table # None \/ s \in raced)

\* A sender who was refused by the hook loses the stream id, however much he
\* goes on sending (RtpProcess::inputFrame does not count cached frames).
DeniedLosesClaim ==
  \A p \in Procs : (table = p /\ proc[p].pub = "denied") ~> (table # p)

==============================================================================
