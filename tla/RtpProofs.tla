------------------------------ MODULE RtpProofs ------------------------------
(* What enters by RTP.  First, for any number of servers, sessions and      *)
(* processes: who has a stream id, who feeds a process, and what is left to *)
(* end a server.  Then, for sequence numbers and bounds of any size: how    *)
(* much the sorter keeps, and that it keeps the order over every wrap.      *)
EXTENDS RtpServer, PacketSortor, FiniteSetTheorems, WellFoundedInduction, TLAPS

\* The server in the API's map is the one that is open.
SlotIsOpen == \A s \in Servers : srv[s] = "open" <=> slot = s

\* Who feeds a process is there, and the process was made for somebody.
FeedersLive ==
  \A f \in Feeders : holds[f] # None => Live(f) /\ proc[holds[f]].used

\* A helper whose task still waits has the callback; a task that has found a
\* process has it in hand.
TasksCarry ==
  \A s \in Servers : /\ helper[s].delay = "armed" => helper[s].cb
                     /\ helper[s].delay = "found" => helper[s].found # None

\* Nor is one that is still to be detached taken for a new one.
DetachedUsed == \A p \in detaching : proc[p].used

IInv ==
  /\ RtpServerTypeOK
  /\ SlotIsOpen
  /\ FeedersLive
  /\ DetachedUsed
  /\ TasksCarry
  /\ ClaimHasOwner
  /\ FedByOne
  /\ NotStranded

Helper == [cb : BOOLEAN, delay : {"none", "armed", "found", "missed"}, found : Procs \cup {None}]

-----------------------------------------------------------------------------
LEMMA Names ==
  /\ None \notin Servers /\ None \notin Sessions /\ None \notin Procs
  /\ \A s \in Servers : s \notin Sessions /\ s \in Feeders
  /\ \A c \in Sessions : c \notin Servers /\ c \in Feeders
  BY RtpServerAssumption DEF Feeders

\* A helper whose task is taken back.
LEMMA StoppedHelper ==
  ASSUME NEW h \in Helper
  PROVE  /\ Stopped(h) \in Helper
         /\ Stopped(h).cb = h.cb /\ Stopped(h).found = h.found
         /\ Stopped(h).delay = IF h.delay = "armed" THEN "none" ELSE h.delay
  BY DEF Stopped, Helper

LEMMA TypeParts ==
  ASSUME RtpServerTypeOK
  PROVE  /\ slot \in Servers \cup {None} /\ table \in Procs \cup {None}
         /\ srv \in [Servers -> {"new", "open", "closed"}]
         /\ helper \in [Servers -> Helper]
         /\ holds \in [Feeders -> Procs \cup {None}]
         /\ session \in [Sessions -> {"new", "up", "gone"}]
         /\ proc \in [Procs -> Process]
         /\ detaching \subseteq Procs /\ raced \subseteq Servers
  BY DEF RtpServerTypeOK, Helper

\* A server ends: with it goes what it feeds, and nothing else.
LEMMA DestroyInv ==
  ASSUME IInv, slot \in Servers, slot' = None,
         NEW helpers \in [Servers -> Helper],
         \A s \in Servers : helpers[s] = helper[s] \/ helpers[s].delay = "none",
         Destroy(slot, helpers),
         UNCHANGED <<session, proc, raced>>, detaching' \subseteq detaching
  PROVE  IInv'
<1>1. /\ srv' = [srv EXCEPT ![slot] = "closed"]
      /\ helper' = [helpers EXCEPT ![slot] = Stopped(@)]
      /\ holds' = [holds EXCEPT ![slot] = None]
      /\ table' = IF holds[slot] # None /\ table = holds[slot] THEN None ELSE table
      /\ session' = session /\ proc' = proc /\ raced' = raced
  BY DEF Destroy
<1>2. RtpServerTypeOK
  BY DEF IInv
<1>3. Stopped(helpers[slot]) \in Helper
  BY StoppedHelper
<1>4. /\ \A s \in Servers : srv'[s] = IF s = slot THEN "closed" ELSE srv[s]
      /\ \A f \in Feeders : holds'[f] = IF f = slot THEN None ELSE holds[f]
      /\ \A s \in Servers : helper'[s] = IF s = slot THEN Stopped(helpers[s]) ELSE helpers[s]
  BY <1>1, <1>2, TypeParts, Names
<1>5. RtpServerTypeOK'
  <2>1. helper' \in [Servers -> Helper]
    BY <1>1, <1>3
  <2>2. /\ srv' \in [Servers -> {"new", "open", "closed"}]
        /\ holds' \in [Feeders -> Procs \cup {None}]
        /\ table' \in Procs \cup {None} /\ detaching' \subseteq Procs
    BY <1>1, <1>2, TypeParts
  <2> QED
    BY <1>1, <1>2, <2>1, <2>2, TypeParts DEF RtpServerTypeOK, Helper
<1>6. SlotIsOpen'
  BY <1>4, Names DEF IInv, SlotIsOpen
<1>7. FeedersLive' /\ DetachedUsed'
  BY <1>1, <1>4, Names DEF IInv, FeedersLive, DetachedUsed, Live
<1>8. TasksCarry'
  <2> SUFFICES ASSUME NEW s \in Servers
               PROVE  /\ helper'[s].delay = "armed" => helper'[s].cb
                      /\ helper'[s].delay = "found" => helper'[s].found # None
    BY DEF TasksCarry
  <2>1. /\ helpers[s].delay = "armed" => helpers[s].cb
        /\ helpers[s].delay = "found" => helpers[s].found # None
    BY DEF IInv, TasksCarry
  <2> QED
    BY <1>4, <2>1, StoppedHelper
<1>9. ClaimHasOwner'
  BY <1>1, <1>4, Names DEF IInv, ClaimHasOwner, Live
<1>10. FedByOne'
  BY <1>4 DEF IInv, FedByOne
<1>11. NotStranded'
  BY Names DEF NotStranded
<1> QED
  BY <1>5, <1>6, <1>7, <1>8, <1>9, <1>10, <1>11 DEF IInv

LEMMA CloseRtpServerInv == ASSUME IInv, CloseRtpServer PROVE IInv'
<1>1. slot \in Servers /\ helper \in [Servers -> Helper]
  BY TypeParts DEF IInv, CloseRtpServer
<1> QED
  BY <1>1, DestroyInv DEF CloseRtpServer

\* The callback of a process or a delay task ends the server, or finds none.
LEMMA EraseServerInv ==
  ASSUME IInv,
         NEW helpers \in [Servers -> Helper],
         \A s \in Servers : helpers[s] = helper[s] \/ helpers[s].delay = "none",
         EraseServer(helpers),
         UNCHANGED <<session, proc, raced>>, detaching' \subseteq detaching
  PROVE  IInv'
<1>1. CASE slot # None
  BY <1>1, DestroyInv, TypeParts DEF IInv, EraseServer
<1>2. CASE slot = None
  <2>1. /\ slot' = None /\ helper' = helpers /\ srv' = srv /\ holds' = holds /\ table' = table
        /\ session' = session /\ proc' = proc /\ raced' = raced
    BY <1>2 DEF EraseServer
  <2>2. RtpServerTypeOK'
    BY <2>1, TypeParts DEF IInv, RtpServerTypeOK, Helper
  <2>3. SlotIsOpen' /\ FeedersLive' /\ DetachedUsed' /\ ClaimHasOwner' /\ FedByOne'
    BY <1>2, <2>1 DEF IInv, SlotIsOpen, FeedersLive, DetachedUsed, Live, ClaimHasOwner, FedByOne
  <2>4. TasksCarry'
    BY <2>1 DEF IInv, TasksCarry
  <2>5. NotStranded'
    BY <2>1, Names DEF NotStranded
  <2> QED
    BY <2>2, <2>3, <2>4, <2>5 DEF IInv
<1> QED
  BY <1>1, <1>2

LEMMA OnDetachInv == ASSUME IInv, NEW p \in Procs, OnDetach(p) PROVE IInv'
<1>1. helper \in [Servers -> Helper] /\ detaching' \subseteq detaching
  BY TypeParts DEF IInv, OnDetach
<1>2. CASE proc[p].cb
  BY <1>1, <1>2, EraseServerInv DEF OnDetach
<1>3. CASE ~proc[p].cb
  <2>1. /\ slot' = slot /\ srv' = srv /\ helper' = helper /\ holds' = holds /\ table' = table
        /\ session' = session /\ proc' = proc /\ raced' = raced
        /\ detaching' = detaching \ {p}
    BY <1>3 DEF OnDetach
  <2>2. RtpServerTypeOK'
    BY <2>1, TypeParts DEF IInv, RtpServerTypeOK
  <2>3. SlotIsOpen' /\ FeedersLive' /\ DetachedUsed' /\ TasksCarry' /\ ClaimHasOwner' /\ FedByOne'
    BY <2>1 DEF IInv, SlotIsOpen, FeedersLive, DetachedUsed, Live, TasksCarry, ClaimHasOwner, FedByOne
  <2>4. NotStranded'
    BY <1>3, <2>1 DEF IInv, NotStranded, Pending
  <2> QED
    BY <2>2, <2>3, <2>4 DEF IInv
<1> QED
  BY <1>2, <1>3

LEMMA EndedHelpers ==
  ASSUME RtpServerTypeOK, NEW s \in Servers
  PROVE  /\ Ended(s) \in [Servers -> Helper]
         /\ Ended(s)[s].delay = "none" /\ Ended(s)[s].cb = helper[s].cb
         /\ \A t \in Servers : t # s => Ended(s)[t] = helper[t]
  BY TypeParts DEF Ended, Helper

LEMMA DelayMissedInv == ASSUME IInv, NEW s \in Servers, DelayMissed(s) PROVE IInv'
<1>1. RtpServerTypeOK
  BY DEF IInv
<1> QED
  BY <1>1, EraseServerInv, EndedHelpers DEF DelayMissed

LEMMA OpenRtpServerInv == ASSUME IInv, NEW s \in Servers, OpenRtpServer(s) PROVE IInv'
<1> DEFINE new == [cb |-> TRUE, delay |-> "armed", found |-> None]
<1>1. /\ slot = None /\ slot' = s /\ srv' = [srv EXCEPT ![s] = "open"]
      /\ helper' = [helper EXCEPT ![s] = new]
      /\ table' = table /\ holds' = holds /\ session' = session /\ proc' = proc
      /\ detaching' = detaching /\ raced' = raced
  BY DEF OpenRtpServer
<1>2. /\ \A t \in Servers : srv'[t] = IF t = s THEN "open" ELSE srv[t]
      /\ \A t \in Servers : helper'[t] = IF t = s THEN new ELSE helper[t]
  BY <1>1, TypeParts DEF IInv
<1>3. RtpServerTypeOK'
  BY <1>1, TypeParts DEF IInv, RtpServerTypeOK, Helper
<1>4. SlotIsOpen'
  BY <1>1, <1>2, Names DEF IInv, SlotIsOpen
<1>5. FeedersLive' /\ DetachedUsed' /\ ClaimHasOwner' /\ FedByOne'
  BY <1>1, <1>2 DEF IInv, FeedersLive, DetachedUsed, Live, ClaimHasOwner, FedByOne
<1>6. TasksCarry'
  BY <1>2 DEF IInv, TasksCarry
<1>7. NotStranded'
  BY <1>1, <1>2 DEF NotStranded, Pending
<1> QED
  BY <1>3, <1>4, <1>5, <1>6, <1>7 DEF IInv

LEMMA DelayFiresInv == ASSUME IInv, NEW s \in Servers, DelayFires(s) PROVE IInv'
<1> DEFINE fired == [helper[s] EXCEPT !.delay = IF table = None THEN "missed" ELSE "found",
                                      !.found = table]
<1>1. /\ helper[s].delay = "armed" /\ helper' = [helper EXCEPT ![s] = fired]
      /\ slot' = slot /\ srv' = srv /\ table' = table /\ holds' = holds
      /\ session' = session /\ proc' = proc /\ detaching' = detaching /\ raced' = raced
  BY TypeParts DEF IInv, DelayFires
<1>2. /\ helper[s] \in Helper /\ table \in Procs \cup {None}
      /\ fired.delay = (IF table = None THEN "missed" ELSE "found") /\ fired.found = table
      /\ fired \in Helper
  BY TypeParts DEF IInv, Helper
<1> HIDE DEF fired
<1>3. \A t \in Servers : helper'[t] = IF t = s THEN fired ELSE helper[t]
  BY <1>1, TypeParts DEF IInv
<1>4. RtpServerTypeOK'
  <2>1. helper' \in [Servers -> Helper]
    BY <1>1, <1>2, TypeParts DEF IInv
  <2> QED
    BY <1>1, <2>1, TypeParts DEF IInv, RtpServerTypeOK, Helper
<1>5. SlotIsOpen' /\ FeedersLive' /\ DetachedUsed' /\ ClaimHasOwner' /\ FedByOne'
  BY <1>1 DEF IInv, SlotIsOpen, FeedersLive, DetachedUsed, Live, ClaimHasOwner, FedByOne
<1>6. TasksCarry'
  BY <1>2, <1>3 DEF IInv, TasksCarry
<1>7. NotStranded'
  BY <1>1, <1>2, <1>3 DEF IInv, NotStranded, Pending
<1> QED
  BY <1>4, <1>5, <1>6, <1>7 DEF IInv

LEMMA DelayFoundInv == ASSUME IInv, NEW s \in Servers, DelayFound(s) PROVE IInv'
<1> DEFINE p == helper[s].found
           ended == [Ended(s)[s] EXCEPT !.cb = FALSE]
<1>1. /\ RtpServerTypeOK /\ p \in Procs /\ Ended(s)[s] \in Helper
      /\ proc \in [Procs -> Process] /\ helper \in [Servers -> Helper]
  BY TypeParts, EndedHelpers DEF IInv, DelayFound, TasksCarry, Helper
<1>2. /\ helper[s].delay = "found"
      /\ proc' = [proc EXCEPT ![p] = [proc[p] EXCEPT !.cb = TRUE]]
      /\ helper' = [Ended(s) EXCEPT ![s] = ended]
      /\ raced' = IF p \in {table} \cup detaching THEN raced ELSE raced \cup {s}
      /\ slot' = slot /\ srv' = srv /\ table' = table /\ holds' = holds
      /\ session' = session /\ detaching' = detaching
  BY DEF DelayFound
<1>3. ended \in Helper /\ ended.delay = "none"
  BY <1>1, EndedHelpers DEF Helper
<1>4. [proc[p] EXCEPT !.cb = TRUE] \in Process
  BY <1>1 DEF Process
<1>5. \A q \in Procs : /\ proc'[q].used = proc[q].used
                       /\ proc'[q].cb = (IF q = p THEN TRUE ELSE proc[q].cb)
  BY <1>1, <1>2 DEF Process
<1>6. Ended(s) \in [Servers -> Helper] /\ \A t \in Servers : t # s => Ended(s)[t] = helper[t]
  BY <1>1, EndedHelpers
<1> HIDE DEF p, ended
<1>7. \A t \in Servers : helper'[t] = IF t = s THEN ended ELSE helper[t]
  BY <1>2, <1>6
<1>8. RtpServerTypeOK'
  <2>1. helper' \in [Servers -> Helper]
    BY <1>2, <1>3, <1>6
  <2>2. proc' \in [Procs -> Process]
    BY <1>1, <1>2, <1>4
  <2>3. raced' \subseteq Servers
    BY <1>2, TypeParts DEF IInv
  <2> QED
    BY <1>2, <2>1, <2>2, <2>3, TypeParts DEF IInv, RtpServerTypeOK, Helper
<1>9. SlotIsOpen' /\ ClaimHasOwner' /\ FedByOne'
  BY <1>2 DEF IInv, SlotIsOpen, Live, ClaimHasOwner, FedByOne
<1>10. FeedersLive' /\ DetachedUsed'
  BY <1>2, <1>5, TypeParts DEF IInv, FeedersLive, DetachedUsed, Live
<1>11. TasksCarry'
  BY <1>3, <1>7 DEF IInv, TasksCarry
<1>12. NotStranded'
  <2> SUFFICES ASSUME NEW t \in Servers, slot = t, t \notin raced'
               PROVE  Pending(t)'
    BY <1>2 DEF NotStranded
  <2>1. CASE t = s
    BY <1>1, <1>2, <1>5, <2>1, Names DEF Pending
  <2>2. CASE t # s
    <3>1. Pending(t)
      BY <1>2 DEF IInv, NotStranded
    <3> QED
      BY <1>2, <1>5, <1>7, <2>2, <3>1, TypeParts DEF IInv, Pending
  <2> QED
    BY <2>1, <2>2
<1> QED
  BY <1>8, <1>9, <1>10, <1>11, <1>12 DEF IInv

\* A process is fed, answered or grows old: whose it is does not change.
LEMMA ProcInv ==
  ASSUME IInv, NEW p \in Procs, NEW r \in Process, r.used = proc[p].used, r.cb = proc[p].cb,
         proc' = [proc EXCEPT ![p] = r],
         UNCHANGED <<slot, srv, helper, table, holds, session, detaching, raced>>
  PROVE  IInv'
<1>1. proc' \in [Procs -> Process]
  BY TypeParts DEF IInv
<1>2. \A q \in Procs : proc'[q].used = proc[q].used /\ proc'[q].cb = proc[q].cb
  BY TypeParts DEF IInv
<1>3. RtpServerTypeOK'
  BY <1>1 DEF IInv, RtpServerTypeOK
<1>4. SlotIsOpen' /\ TasksCarry' /\ ClaimHasOwner' /\ FedByOne'
  BY DEF IInv, SlotIsOpen, TasksCarry, Live, ClaimHasOwner, FedByOne
<1>5. FeedersLive' /\ DetachedUsed'
  BY <1>2, TypeParts DEF IInv, FeedersLive, DetachedUsed, Live
<1>6. NotStranded'
  BY <1>2, TypeParts DEF IInv, NotStranded, Pending
<1> QED
  BY <1>3, <1>4, <1>5, <1>6 DEF IInv

LEMMA NextPacketInv == ASSUME IInv, NEW f \in Feeders, NextPacket(f) PROVE IInv'
<1>1. holds[f] \in Procs /\ proc[holds[f]] \in Process
  BY TypeParts DEF IInv, NextPacket
<1>2. /\ Fed(proc[holds[f]]) \in Process
      /\ Fed(proc[holds[f]]).used = proc[holds[f]].used
      /\ Fed(proc[holds[f]]).cb = proc[holds[f]].cb
  BY <1>1 DEF Fed, Process
<1>3. proc' = [proc EXCEPT ![holds[f]] = Fed(proc[holds[f]])]
  BY DEF NextPacket
<1> QED
  BY <1>1, <1>2, <1>3, ProcInv DEF NextPacket

LEMMA HookAnswersInv == ASSUME IInv, NEW p \in Procs, HookAnswers(p) PROVE IInv'
<1>1. PICK r \in {"allowed", "denied"} : proc' = [proc EXCEPT ![p] = [proc[p] EXCEPT !.pub = r]]
  BY DEF HookAnswers
<1>2. proc[p] \in Process
  BY TypeParts DEF IInv
<1>3. /\ [proc[p] EXCEPT !.pub = r] \in Process
      /\ [proc[p] EXCEPT !.pub = r].used = proc[p].used
      /\ [proc[p] EXCEPT !.pub = r].cb = proc[p].cb
  BY <1>2 DEF Process
<1> QED
  BY <1>1, <1>3, ProcInv DEF HookAnswers

LEMMA AgeInv == ASSUME IInv, NEW p \in Procs, Age(p) PROVE IInv'
<1>1. proc' = [proc EXCEPT ![p] = [proc[p] EXCEPT !.fresh = FALSE]]
  BY DEF Age
<1>2. proc[p] \in Process
  BY TypeParts DEF IInv
<1>3. /\ [proc[p] EXCEPT !.fresh = FALSE] \in Process
      /\ [proc[p] EXCEPT !.fresh = FALSE].used = proc[p].used
      /\ [proc[p] EXCEPT !.fresh = FALSE].cb = proc[p].cb
  BY <1>2 DEF Process
<1> QED
  BY <1>1, <1>3, ProcInv DEF Age

-----------------------------------------------------------------------------
\* The first packet of feeder f makes process p.  It is nobody's: whatever is
\* held or still to be detached has been used.
LEMMA ClaimInv ==
  ASSUME IInv, NEW f \in Feeders, Live(f), holds[f] = None,
         NEW p \in Procs, Claim(p), NEW r \in Process, r.used,
         table' = p, holds' = [holds EXCEPT ![f] = p], proc' = [proc EXCEPT ![p] = r],
         UNCHANGED <<slot, srv, session, detaching, raced>>
  PROVE  /\ (helper' \in [Servers -> Helper] => RtpServerTypeOK')
         /\ SlotIsOpen' /\ FeedersLive' /\ DetachedUsed' /\ ClaimHasOwner' /\ FedByOne'
         /\ p \notin detaching
         /\ \A q \in detaching : proc'[q] = proc[q]
<1>1. ~proc[p].used
  BY DEF Claim, Unborn
<1>2. /\ p \notin detaching
      /\ \A g \in Feeders : holds[g] # p
  BY <1>1, Names DEF IInv, FeedersLive, DetachedUsed
<1>3. /\ \A q \in Procs : proc'[q] = IF q = p THEN r ELSE proc[q]
      /\ \A g \in Feeders : holds'[g] = IF g = f THEN p ELSE holds[g]
      /\ detaching \subseteq Procs /\ holds \in [Feeders -> Procs \cup {None}]
  BY TypeParts DEF IInv
<1>4. helper' \in [Servers -> Helper] => RtpServerTypeOK'
  <2>1. proc' \in [Procs -> Process] /\ holds' \in [Feeders -> Procs \cup {None}]
    BY TypeParts DEF IInv
  <2> QED
    BY <2>1, TypeParts DEF IInv, RtpServerTypeOK, Helper
<1>5. SlotIsOpen'
  BY DEF IInv, SlotIsOpen
<1>6. FeedersLive'
  BY <1>3 DEF IInv, FeedersLive, Live
<1>7. DetachedUsed'
  BY <1>3 DEF IInv, DetachedUsed
<1>8. ClaimHasOwner'
  BY <1>3 DEF ClaimHasOwner, Live
<1>9. FedByOne'
  BY <1>2, <1>3 DEF IInv, FedByOne
<1> QED
  BY <1>2, <1>3, <1>4, <1>5, <1>6, <1>7, <1>8, <1>9

LEMMA UdpFirstInv ==
  ASSUME IInv, NEW s \in Servers, NEW p \in Procs, UdpFirst(s, p) PROVE IInv'
<1> DEFINE r == [NewProcess EXCEPT !.used = TRUE, !.pub = "asked", !.cb = helper[s].cb]
           idle == [Stopped(helper[s]) EXCEPT !.cb = FALSE]
<1>1. /\ srv[s] = "open" /\ holds[s] = None /\ helper[s].delay \in {"none", "armed"}
      /\ Claim(p) /\ table' = p
      /\ holds' = [holds EXCEPT ![s] = p] /\ proc' = [proc EXCEPT ![p] = r]
      /\ helper' = [helper EXCEPT ![s] = idle]
      /\ slot' = slot /\ srv' = srv /\ session' = session
      /\ detaching' = detaching /\ raced' = raced
  BY DEF UdpFirst
<1>2. /\ helper[s] \in Helper /\ s \in Feeders /\ Live(s)
      /\ helper \in [Servers -> Helper] /\ proc \in [Procs -> Process]
      /\ table = None
  BY <1>1, TypeParts, Names DEF IInv, Live, Claim
<1>3. r \in Process /\ r.used /\ r.cb = helper[s].cb
  BY <1>2 DEF NewProcess, Process, Helper
<1>4. idle \in Helper /\ idle.delay = "none"
  <2>1. Stopped(helper[s]) \in Helper /\ Stopped(helper[s]).delay = "none"
    BY <1>1, <1>2, StoppedHelper
  <2> QED
    BY <2>1 DEF Helper
<1> HIDE DEF r, idle
<1>5. /\ \A t \in Servers : helper'[t] = IF t = s THEN idle ELSE helper[t]
      /\ helper' \in [Servers -> Helper] /\ proc'[p] = r
  BY <1>1, <1>2, <1>4
<1>6. /\ RtpServerTypeOK'
      /\ SlotIsOpen' /\ FeedersLive' /\ DetachedUsed' /\ ClaimHasOwner' /\ FedByOne'
      /\ \A q \in detaching : proc'[q] = proc[q]
  BY <1>1, <1>2, <1>3, <1>5, ClaimInv
<1>7. TasksCarry'
  BY <1>4, <1>5 DEF IInv, TasksCarry
<1>8. NotStranded'
  <2> SUFFICES ASSUME NEW t \in Servers, slot = t, t \notin raced
               PROVE  Pending(t)'
    BY <1>1 DEF NotStranded
  <2>1. t = s /\ Pending(s)
    BY <1>1 DEF IInv, SlotIsOpen, NotStranded
  <2>2. CASE helper[s].delay = "armed"
    BY <1>1, <1>3, <1>5, <2>2, Names DEF IInv, TasksCarry, Pending
  <2>3. CASE \E u \in Servers : helper[u].delay = "missed"
    BY <1>1, <1>5, <2>3 DEF Pending
  <2>4. CASE \E q \in detaching : q # None /\ proc[q].cb
    BY <1>1, <1>6, <2>4 DEF Pending
  <2> QED
    BY <1>1, <1>2, <2>1, <2>2, <2>3, <2>4 DEF Pending
<1> QED
  BY <1>6, <1>7, <1>8 DEF IInv

LEMMA TcpFirstInv ==
  ASSUME IInv, NEW c \in Sessions, NEW p \in Procs, TcpFirst(c, p) PROVE IInv'
<1> DEFINE r == [NewProcess EXCEPT !.used = TRUE, !.pub = "asked"]
<1>1. /\ session[c] = "up" /\ holds[c] = None /\ Claim(p) /\ table' = p
      /\ holds' = [holds EXCEPT ![c] = p] /\ proc' = [proc EXCEPT ![p] = r]
      /\ slot' = slot /\ srv' = srv /\ helper' = helper /\ session' = session
      /\ detaching' = detaching /\ raced' = raced
  BY DEF TcpFirst
<1>2. c \in Feeders /\ Live(c) /\ helper' \in [Servers -> Helper] /\ table = None
  BY <1>1, TypeParts, Names DEF IInv, Live, Claim
<1>3. r \in Process /\ r.used
  BY DEF NewProcess, Process
<1> HIDE DEF r
<1>4. /\ RtpServerTypeOK'
      /\ SlotIsOpen' /\ FeedersLive' /\ DetachedUsed' /\ ClaimHasOwner' /\ FedByOne'
      /\ \A q \in detaching : proc'[q] = proc[q]
  BY <1>1, <1>2, <1>3, ClaimInv
<1>5. TasksCarry'
  BY <1>1 DEF IInv, TasksCarry
<1>6. NotStranded'
  BY <1>1, <1>2, <1>4 DEF IInv, NotStranded, Pending
<1> QED
  BY <1>4, <1>5, <1>6 DEF IInv

-----------------------------------------------------------------------------
\* The process is taken out of the table: it is still to be detached.
LEMMA TakenOutInv ==
  ASSUME IInv, table # None, table' = None, detaching' = detaching \cup {table},
         UNCHANGED <<slot, srv, helper, holds, session, proc, raced>>
  PROVE  IInv'
<1>1. RtpServerTypeOK'
  BY TypeParts DEF IInv, RtpServerTypeOK
<1>2. proc[table].used
  BY DEF IInv, ClaimHasOwner, FeedersLive
<1>3. SlotIsOpen' /\ FeedersLive' /\ TasksCarry' /\ ClaimHasOwner' /\ FedByOne'
  BY DEF IInv, SlotIsOpen, FeedersLive, TasksCarry, Live, ClaimHasOwner, FedByOne
<1>4. DetachedUsed'
  BY <1>2 DEF IInv, DetachedUsed
<1>5. NotStranded'
  BY DEF IInv, NotStranded, Pending
<1> QED
  BY <1>1, <1>3, <1>4, <1>5 DEF IInv

LEMMA CloseSourceInv == ASSUME IInv, NEW s \in Servers, CloseSource(s) PROVE IInv'
  BY TakenOutInv DEF CloseSource, TakeOut, DelProcess

LEMMA OnManagerInv == ASSUME IInv, OnManager PROVE IInv'
  BY TakenOutInv DEF OnManager

LEMMA ConnectInv == ASSUME IInv, NEW c \in Sessions, Connect(c) PROVE IInv'
<1>1. /\ session[c] = "new" /\ session' = [session EXCEPT ![c] = "up"]
      /\ slot' = slot /\ srv' = srv /\ helper' = helper /\ table' = table /\ holds' = holds
      /\ proc' = proc /\ detaching' = detaching /\ raced' = raced
  BY DEF Connect
<1>2. \A d \in Sessions : session'[d] = IF d = c THEN "up" ELSE session[d]
  BY <1>1, TypeParts DEF IInv
<1>3. RtpServerTypeOK'
  BY <1>1, TypeParts DEF IInv, RtpServerTypeOK
<1>4. \A f \in Feeders : Live(f) => Live(f)'
  BY <1>1, <1>2 DEF Live, Feeders
<1>5. SlotIsOpen' /\ FeedersLive' /\ DetachedUsed' /\ TasksCarry' /\ ClaimHasOwner' /\ FedByOne'
  BY <1>1, <1>4 DEF IInv, SlotIsOpen, FeedersLive, DetachedUsed, TasksCarry, ClaimHasOwner, FedByOne
<1>6. NotStranded'
  BY <1>1 DEF IInv, NotStranded, Pending
<1> QED
  BY <1>3, <1>5, <1>6 DEF IInv

LEMMA DisconnectInv == ASSUME IInv, NEW c \in Sessions, Disconnect(c) PROVE IInv'
<1>1. /\ session[c] = "up" /\ session' = [session EXCEPT ![c] = "gone"]
      /\ holds' = [holds EXCEPT ![c] = None]
      /\ slot' = slot /\ srv' = srv /\ helper' = helper /\ proc' = proc /\ raced' = raced
  BY DEF Disconnect
<1>2. \/ table # None /\ table = holds[c] /\ table' = None /\ detaching' = detaching \cup {table}
      \/ ~(table # None /\ table = holds[c]) /\ table' = table /\ detaching' = detaching
  BY DEF Disconnect, TakeOut, DelProcess
<1>3. /\ \A d \in Sessions : session'[d] = IF d = c THEN "gone" ELSE session[d]
      /\ \A f \in Feeders : holds'[f] = IF f = c THEN None ELSE holds[f]
  BY <1>1, TypeParts DEF IInv
<1>4. RtpServerTypeOK'
  BY <1>1, <1>2, TypeParts DEF IInv, RtpServerTypeOK
<1>5. \A f \in Feeders : f # c /\ Live(f) => Live(f)'
  BY <1>1, <1>3 DEF Live, Feeders
<1>6. SlotIsOpen' /\ TasksCarry'
  BY <1>1 DEF IInv, SlotIsOpen, TasksCarry
<1>7. FeedersLive' /\ FedByOne'
  BY <1>1, <1>3, <1>5 DEF IInv, FeedersLive, FedByOne
<1>8. DetachedUsed'
  BY <1>1, <1>2 DEF IInv, DetachedUsed, ClaimHasOwner, FeedersLive
<1>9. ClaimHasOwner'
  BY <1>2, <1>3, <1>5 DEF IInv, ClaimHasOwner
<1>10. NotStranded'
  BY <1>1, <1>2 DEF IInv, NotStranded, Pending
<1> QED
  BY <1>4, <1>6, <1>7, <1>8, <1>9, <1>10 DEF IInv

-----------------------------------------------------------------------------
LEMMA InitInv == ASSUME RtpServerInit PROVE IInv
<1>1. RtpServerTypeOK
  BY DEF RtpServerInit, RtpServerTypeOK, NewProcess, Process
<1>2. SlotIsOpen /\ FeedersLive /\ DetachedUsed /\ TasksCarry /\ ClaimHasOwner /\ FedByOne /\ NotStranded
  BY Names DEF RtpServerInit, SlotIsOpen, FeedersLive, DetachedUsed, TasksCarry, ClaimHasOwner,
               FedByOne, NotStranded
<1> QED
  BY <1>1, <1>2 DEF IInv

LEMMA StutterInv == ASSUME IInv, UNCHANGED vars PROVE IInv'
  BY DEF vars, IInv, RtpServerTypeOK, SlotIsOpen, FeedersLive, DetachedUsed, TasksCarry, Live,
         ClaimHasOwner, FedByOne, NotStranded, Pending

LEMMA NextInv == ASSUME IInv, [RtpServerNext]_vars PROVE IInv'
<1>1. CASE UNCHANGED vars
  BY <1>1, StutterInv
<1>2. ASSUME NEW s \in Servers,
             \/ OpenRtpServer(s) \/ CloseSource(s)
             \/ DelayFires(s) \/ DelayMissed(s) \/ DelayFound(s)
             \/ \E p \in Procs : UdpFirst(s, p)
      PROVE  IInv'
  BY <1>2, OpenRtpServerInv, CloseSourceInv, DelayFiresInv, DelayMissedInv, DelayFoundInv,
     UdpFirstInv
<1>3. ASSUME NEW c \in Sessions, Connect(c) \/ Disconnect(c) \/ \E p \in Procs : TcpFirst(c, p)
      PROVE  IInv'
  BY <1>3, ConnectInv, DisconnectInv, TcpFirstInv
<1>4. ASSUME NEW f \in Feeders, NextPacket(f) PROVE IInv'
  BY <1>4, NextPacketInv
<1>5. ASSUME NEW p \in Procs, HookAnswers(p) \/ OnDetach(p) \/ Age(p) PROVE IInv'
  BY <1>5, HookAnswersInv, OnDetachInv, AgeInv
<1>6. CASE CloseRtpServer \/ OnManager
  BY <1>6, CloseRtpServerInv, OnManagerInv
<1> QED
  BY <1>1, <1>2, <1>3, <1>4, <1>5, <1>6 DEF RtpServerNext

LEMMA Invariance == RtpServerSpec => []IInv
  BY InitInv, NextInv, PTL DEF RtpServerSpec

\* Every variable keeps its type.
THEOREM RtpServerTypeCorrect == RtpServerSpec => []RtpServerTypeOK
<1>1. IInv => RtpServerTypeOK
  BY DEF IInv
<1> QED
  BY <1>1, Invariance, PTL

\* However many servers, connections and processes there are: what is in the
\* selector's table has a live owner, who will give the stream id back.
THEOREM ClaimsAreOwned == RtpServerSpec => []ClaimHasOwner
<1>1. IInv => ClaimHasOwner
  BY DEF IInv
<1> QED
  BY <1>1, Invariance, PTL

\* No process is ever fed by two.
THEOREM ProcessesAreFedByOne == RtpServerSpec => []FedByOne
<1>1. IInv => FedByOne
  BY DEF IInv
<1> QED
  BY <1>1, Invariance, PTL

\* The callback that ends a server in the API's map is never lost, but for a
\* process that leaves between the delay task's look and its setOnDetach.
THEOREM ServersAreNotStranded == RtpServerSpec => []NotStranded
<1>1. IInv => NotStranded
  BY DEF IInv
<1> QED
  BY <1>1, Invariance, PTL

-----------------------------------------------------------------------------
\* What takes the process that f feeds out of the table.
FeederGoes(f) ==
  table # None /\ holds[f] = table /\ table' # table =>
    /\ table' = None
    /\ \/ ~Alive(table)
       \/ f \in Sessions /\ session[f] = "up" /\ session'[f] = "gone"
       \/ f \in Servers /\ slot = f /\ srv'[f] = "closed"
       \/ f \in Servers /\ CloseSource(f)

LEMMA DestroyGoes ==
  ASSUME IInv, slot # None, NEW helpers, Destroy(slot, helpers), NEW f \in Feeders
  PROVE  FeederGoes(f)
<1> SUFFICES ASSUME table # None, holds[f] = table, table' # table
             PROVE  table' = None /\ f \in Servers /\ slot = f /\ srv'[f] = "closed"
  BY DEF FeederGoes
<1>1. slot \in Servers /\ slot \in Feeders /\ srv \in [Servers -> {"new", "open", "closed"}]
  BY TypeParts, Names DEF IInv
<1>2. table' = None /\ holds[slot] = table /\ srv' = [srv EXCEPT ![slot] = "closed"]
  BY DEF Destroy
<1>3. f = slot
  BY <1>1, <1>2, TypeParts DEF IInv, FedByOne
<1> QED
  BY <1>1, <1>2, <1>3

LEMMA EraseGoes ==
  ASSUME IInv, NEW helpers, EraseServer(helpers), NEW f \in Feeders PROVE FeederGoes(f)
<1>1. CASE slot = None
  BY <1>1 DEF EraseServer, FeederGoes
<1>2. CASE slot # None
  BY <1>2, DestroyGoes DEF EraseServer
<1> QED
  BY <1>1, <1>2

LEMMA DisconnectGoes ==
  ASSUME IInv, NEW c \in Sessions, Disconnect(c), NEW f \in Feeders PROVE FeederGoes(f)
<1> SUFFICES ASSUME table # None, holds[f] = table, table' # table
             PROVE  table' = None /\ f \in Sessions /\ session[f] = "up" /\ session'[f] = "gone"
  BY DEF FeederGoes
<1>1. c \in Feeders /\ session \in [Sessions -> {"new", "up", "gone"}]
  BY TypeParts, Names DEF IInv
<1>2. table = holds[c] /\ table' = None /\ session[c] = "up"
      /\ session' = [session EXCEPT ![c] = "gone"]
  BY DEF Disconnect, TakeOut, DelProcess
<1>3. f = c
  BY <1>1, <1>2, TypeParts DEF IInv, FedByOne
<1> QED
  BY <1>1, <1>2, <1>3

LEMMA CloseSourceGoes ==
  ASSUME IInv, NEW s \in Servers, CloseSource(s), NEW f \in Feeders PROVE FeederGoes(f)
<1>1. s \in Feeders /\ holds[s] = table /\ (table' # table => table' = None)
  BY Names DEF CloseSource, TakeOut, DelProcess
<1>2. table # None /\ holds[f] = table => f = s
  BY <1>1, TypeParts DEF IInv, FedByOne
<1> QED
  BY <1>1, <1>2 DEF FeederGoes

LEMMA NextGoes == ASSUME IInv, [RtpServerNext]_vars, NEW f \in Feeders PROVE FeederGoes(f)
<1>1. CASE UNCHANGED vars
  BY <1>1 DEF vars, FeederGoes
<1>2. ASSUME NEW s \in Servers,
             OpenRtpServer(s) \/ DelayFires(s) \/ DelayFound(s) \/ \E p \in Procs : UdpFirst(s, p)
      PROVE  FeederGoes(f)
  BY <1>2 DEF OpenRtpServer, DelayFires, DelayFound, UdpFirst, Claim, FeederGoes
<1>3. ASSUME NEW s \in Servers, DelayMissed(s) PROVE FeederGoes(f)
  BY <1>3, EraseGoes DEF DelayMissed
<1>4. ASSUME NEW c \in Sessions, Connect(c) \/ \E p \in Procs : TcpFirst(c, p) PROVE FeederGoes(f)
  BY <1>4 DEF Connect, TcpFirst, Claim, FeederGoes
<1>5. ASSUME NEW g \in Feeders, NextPacket(g) PROVE FeederGoes(f)
  BY <1>5 DEF NextPacket, FeederGoes
<1>6. ASSUME NEW p \in Procs, HookAnswers(p) \/ Age(p) PROVE FeederGoes(f)
  BY <1>6 DEF HookAnswers, Age, FeederGoes
<1>7. ASSUME NEW p \in Procs, OnDetach(p) PROVE FeederGoes(f)
  <2>1. CASE proc[p].cb
    BY <1>7, <2>1, EraseGoes DEF OnDetach
  <2>2. CASE ~proc[p].cb
    BY <1>7, <2>2 DEF OnDetach, FeederGoes
  <2> QED
    BY <2>1, <2>2
<1>8. CASE CloseRtpServer
  BY <1>8, DestroyGoes DEF CloseRtpServer
<1>9. CASE OnManager
  BY <1>9 DEF OnManager, FeederGoes
<1> QED
  BY <1>1, <1>2, <1>3, <1>4, <1>5, <1>6, <1>7, <1>8, <1>9, DisconnectGoes, CloseSourceGoes
  DEF RtpServerNext

\* A process leaves the table when it timed out or when its own feeder goes: a
\* server's end takes nothing from a session, a session's end nothing from
\* another feeder.
THEOREM ProcessesLeaveByFeeder == RtpServerSpec => LeavesByFeeder
<1>1. IInv /\ [RtpServerNext]_vars => [\A f \in Feeders : FeederGoes(f)]_vars
  BY NextGoes
<1> QED
  BY <1>1, Invariance, PTL DEF RtpServerSpec, LeavesByFeeder, FeederGoes

-----------------------------------------------------------------------------
(* The sorter. *)

LEMMA LeastNumber ==
  ASSUME NEW T, T \subseteq Nat, T # {}
  PROVE  \E n \in T : \A m \in T : n <= m
<1> DEFINE R == OpToRel(<, Nat)
<1>1. IsWellFoundedOn(R, Nat)
  BY NatLessThanWellFounded
<1> HIDE DEF R
<1>2. PICK n \in T : \A m \in T : ~ (<<m, n>> \in R)
  BY <1>1, WFMin
<1>3. \A m \in T : ~(m < n)
  <2> SUFFICES ASSUME NEW m \in T, m < n PROVE FALSE
    OBVIOUS
  <2>1. <<m, n>> \in Nat \X Nat /\ <<m, n>>[1] = m /\ <<m, n>>[2] = n
    OBVIOUS
  <2>2. <<m, n>> \in R
    BY <2>1 DEF R, OpToRel
  <2> QED
    BY <1>2, <2>2
<1> QED
  BY <1>3

\* How many elements of S do not exceed x: this numbers the elements of S.
UpTo(S, x) == {y \in S : y <= x}
Rank(S, x) == Cardinality(UpTo(S, x))

LEMMA RankRises ==
  ASSUME NEW S, S \subseteq Int, IsFiniteSet(S), NEW x \in S, NEW y \in S
  PROVE  /\ Rank(S, x) \in 1..Cardinality(S)
         /\ x < y => Rank(S, x) < Rank(S, y)
<1>1. /\ IsFiniteSet(UpTo(S, x)) /\ Rank(S, x) <= Cardinality(S) /\ Rank(S, x) \in Nat
      /\ IsFiniteSet(UpTo(S, y)) /\ Rank(S, y) \in Nat
  <2>1. UpTo(S, x) \in SUBSET S /\ UpTo(S, y) \in SUBSET S
    BY DEF UpTo
  <2> QED
    BY <2>1, FS_Subset, FS_CardinalityType DEF Rank
<1>2. Rank(S, x) # 0
  <2>1. x \in UpTo(S, x)
    BY DEF UpTo
  <2> QED
    BY <1>1, <2>1, FS_EmptySet DEF Rank
<1>3. ASSUME x < y
      PROVE  Rank(S, x) < Rank(S, y)
  <2>1. UpTo(S, x) \in SUBSET UpTo(S, y)
    <3>1. \A z \in S : z \in Int /\ (z <= x => z <= y)
      BY <1>3
    <3> QED
      BY <3>1 DEF UpTo
  <2>2. y \in UpTo(S, y) /\ y \notin UpTo(S, x)
    BY <1>3 DEF UpTo
  <2>3. Rank(S, x) <= Rank(S, y)
    BY <1>1, <2>1, FS_Subset DEF Rank
  <2>4. Rank(S, x) # Rank(S, y)
    BY <1>1, <2>1, <2>2, FS_Subset DEF Rank
  <2> QED
    BY <1>1, <2>3, <2>4
<1>4. Cardinality(S) \in Nat
  BY FS_CardinalityType
<1> QED
  BY <1>1, <1>2, <1>3, <1>4

\* A finite set of numbers that is not empty has a largest one.
LEMMA MaxExists ==
  ASSUME NEW S, S \subseteq Int, IsFiniteSet(S), S # {}
  PROVE  Max(S) \in S /\ \A y \in S : Max(S) >= y
<1> DEFINE Left == {Cardinality(S) - Rank(S, x) : x \in S}
<1>1. Cardinality(S) \in Nat
  BY FS_CardinalityType
<1>2. \A x \in S : Rank(S, x) \in 1..Cardinality(S)
  BY RankRises
<1>3. Left \subseteq Nat /\ Left # {}
  <2>1. \A x \in S : Cardinality(S) - Rank(S, x) \in Nat
    BY <1>1, <1>2
  <2> QED
    BY <2>1
<1>4. PICK n \in Left : \A m \in Left : n <= m
  <2> HIDE DEF Left
  <2> QED
    BY <1>3, LeastNumber
<1>5. PICK x \in S : n = Cardinality(S) - Rank(S, x)
  BY <1>4
<1>6. ASSUME NEW y \in S
      PROVE  x >= y
  <2>1. n <= Cardinality(S) - Rank(S, y)
    BY <1>4
  <2>2. ~(Rank(S, x) < Rank(S, y))
    BY <1>1, <1>2, <1>5, <2>1
  <2>3. ~(x < y)
    BY <2>2, RankRises
  <2> QED
    BY <2>3
<1>7. \E z \in S : \A y \in S : z >= y
  BY <1>6
<1> QED
  BY <1>7 DEF Max

\* Ascending lists each element of its set once, in order.
LEMMA AscendingLists ==
  ASSUME NEW S, S \subseteq Int, IsFiniteSet(S)
  PROVE  /\ Cardinality(S) \in Nat
         /\ Ascending(S) \in [1..Cardinality(S) -> S]
         /\ Range(Ascending(S)) = S
         /\ \A i, j \in 1..Cardinality(S) : i < j => Ascending(S)[i] < Ascending(S)[j]
<1> DEFINE n == Cardinality(S)
           rank == [x \in S |-> Rank(S, x)]
<1>1. n \in Nat
  BY FS_CardinalityType
<1>2. rank \in [S -> 1..n]
  BY RankRises
<1>3. \A x, y \in S : rank[x] = rank[y] => x = y
  <2> SUFFICES ASSUME NEW x \in S, NEW y \in S, x # y PROVE rank[x] # rank[y]
    OBVIOUS
  <2>1. x < y \/ y < x
    OBVIOUS
  <2>2. rank[x] < rank[y] \/ rank[y] < rank[x]
    BY <2>1, RankRises
  <2>3. rank[x] \in Int /\ rank[y] \in Int
    BY <1>1, <1>2
  <2> QED
    BY <2>2, <2>3
<1>4. rank \in Injection(S, 1..n)
  BY <1>2, <1>3 DEF Injection, IsInjective
<1>5. IsFiniteSet(1..n) /\ Cardinality(1..n) = n
  BY <1>1, FS_Interval
<1>6. rank \in Surjection(S, 1..n)
  BY <1>4, <1>5, FS_Injection
<1>7. \A i \in 1..n : \E x \in S : rank[x] = i
  BY <1>6 DEF Surjection
<1>8. \A i \in 1..n : \E x \in S : Cardinality({r \in S : r <= x}) = i
  BY <1>7 DEF Rank, UpTo
<1>9. \A i \in 1..n : Ascending(S)[i] \in S /\ Rank(S, Ascending(S)[i]) = i
  BY <1>8 DEF Ascending, Rank, UpTo
<1>10. Ascending(S) \in [1..n -> S]
  BY <1>9 DEF Ascending
<1>11. Range(Ascending(S)) = S
  <2>1. ASSUME NEW x \in S PROVE \E i \in 1..n : Ascending(S)[i] = x
    <3>1. rank[x] \in 1..n /\ rank[x] = Rank(S, x)
      BY <1>2
    <3>2. Ascending(S)[rank[x]] \in S /\ Rank(S, Ascending(S)[rank[x]]) = rank[x]
      BY <1>9, <3>1
    <3> QED
      BY <1>3, <3>1, <3>2
  <2> QED
    BY <1>10, <2>1 DEF Range
<1>12. ASSUME NEW i \in 1..n, NEW j \in 1..n, i < j
       PROVE  Ascending(S)[i] < Ascending(S)[j]
  <2>1. /\ Ascending(S)[i] \in S /\ Rank(S, Ascending(S)[i]) = i
        /\ Ascending(S)[j] \in S /\ Rank(S, Ascending(S)[j]) = j
    BY <1>9
  <2>2. Ascending(S)[i] # Ascending(S)[j]
    BY <1>12, <2>1
  <2>4. ~(Ascending(S)[j] < Ascending(S)[i])
    <3>1. Ascending(S)[j] < Ascending(S)[i] => Rank(S, Ascending(S)[j]) < Rank(S, Ascending(S)[i])
      BY <2>1, RankRises
    <3> QED
      BY <1>12, <2>1, <3>1
  <2>3. Ascending(S)[i] \in Int /\ Ascending(S)[j] \in Int
    BY <2>1
  <2> QED
    BY <2>2, <2>3, <2>4
<1> QED
  BY <1>1, <1>10, <1>11, <1>12

-----------------------------------------------------------------------------
Bound == Max({KMax, 2 * KMin - 1})

LEMMA BoundIsLargest ==
  Bound \in Int /\ KMax <= Bound /\ 2 * KMin - 1 <= Bound /\ 0 <= Bound
<1> DEFINE pair == {KMax, 2 * KMin - 1}
<1>1. KMax \in Nat /\ KMin \in Nat /\ KMin > 0
  BY SortorAssumption
<1>2. IsFiniteSet(pair)
  <2>1. IsFiniteSet({KMax} \cup {2 * KMin - 1})
    BY FS_Singleton, FS_AddElement
  <2>2. pair = {KMax} \cup {2 * KMin - 1}
    OBVIOUS
  <2> QED
    BY <2>1, <2>2
<1>3. pair \subseteq Int /\ pair # {}
  BY <1>1
<1>4. Max(pair) \in pair /\ \A y \in pair : Max(pair) >= y
  BY <1>2, <1>3, MaxExists
<1> QED
  BY <1>1, <1>3, <1>4 DEF Bound

\* A cache, and what the sorter keeps beside it, have their types.
Cache(c) == DOMAIN c \subseteq Seqs /\ \A q \in DOMAIN c : c[q] \in Nat

LEMMA SizeOfCache ==
  ASSUME NEW c, Cache(c)
  PROVE  /\ IsFiniteSet(DOMAIN c) /\ Size(c) \in Nat /\ DOMAIN c \subseteq Nat
         /\ SortSize(c) \in KMin..KMax
         /\ DOMAIN c # {} => Least(c) \in DOMAIN c
<1>1. SeqSpan \in Nat /\ KMax \in Nat /\ KMin \in Nat /\ KMin <= KMax
  BY SortorAssumption
<1>2. IsFiniteSet(Seqs)
  BY <1>1, FS_Interval DEF Seqs
<1>3. IsFiniteSet(DOMAIN c) /\ Size(c) \in Nat
  BY <1>2, FS_Subset, FS_CardinalityType DEF Cache, Size
<1>4. DOMAIN c \subseteq Nat
  BY <1>1 DEF Cache, Seqs
<1>5. ASSUME DOMAIN c # {} PROVE Least(c) \in DOMAIN c
  <2>1. \E q \in DOMAIN c : \A r \in DOMAIN c : q <= r
    BY <1>4, <1>5, LeastNumber
  <2> QED
    BY <2>1 DEF Least
<1> QED
  BY <1>1, <1>3, <1>4, <1>5 DEF SortSize

LEMMA WithoutShrinks ==
  ASSUME NEW c, Cache(c), NEW S, NEW x, x \in S
  PROVE  /\ Cache(Without(c, S)) /\ Size(Without(c, S)) <= Size(c)
         /\ x \in DOMAIN c => Size(Without(c, S)) <= Size(c) - 1
<1>1. DOMAIN Without(c, S) = DOMAIN c \ S /\ \A q \in DOMAIN c \ S : Without(c, S)[q] = c[q]
  BY DEF Without
<1>2. Cache(Without(c, S))
  BY <1>1 DEF Cache
<1>3. IsFiniteSet(DOMAIN c) /\ Size(c) \in Nat /\ IsFiniteSet(DOMAIN c \ {x}) /\ Size(Without(c, S)) \in Nat
  BY <1>2, SizeOfCache, FS_RemoveElement
<1>4. DOMAIN c \ S \in SUBSET (DOMAIN c \ {x})
  OBVIOUS
<1>5. Cardinality(DOMAIN c \ S) <= Cardinality(DOMAIN c \ {x})
  BY <1>3, <1>4, FS_Subset
<1>6. Cardinality(DOMAIN c \ {x}) = IF x \in DOMAIN c THEN Size(c) - 1 ELSE Size(c)
  BY <1>3, FS_RemoveElement DEF Size
<1> QED
  BY <1>1, <1>2, <1>3, <1>5, <1>6 DEF Size

\* Putting packets out keeps the types, and makes room if any of them was held.
LEMMA EmitKeeps ==
  ASSUME NEW c, Cache(c), NEW seqs \in Seq(DOMAIN c), NEW n \in Seqs, NEW wrapped \in Nat,
         cycles \in Nat, Emit(c, seqs, n, wrapped)
  PROVE  /\ Cache(cache') /\ next' \in Seqs /\ cycles' \in Nat /\ maxSort' \in KMin..KMax
         /\ out' \in Seq(Nat)
         /\ Size(cache') <= Size(c)
         /\ seqs # <<>> => Size(cache') <= Size(c) - 1
<1>1. /\ out' = [i \in DOMAIN seqs |-> c[seqs[i]]] /\ cache' = Without(c, Range(seqs))
      /\ next' = n /\ cycles' = cycles + wrapped /\ maxSort' = SortSize(cache')
  BY DEF Emit
<1>2. out' \in Seq(Nat)
  <2>1. DOMAIN seqs = 1..Len(seqs) /\ Len(seqs) \in Nat /\ \A i \in 1..Len(seqs) : seqs[i] \in DOMAIN c
    OBVIOUS
  <2>2. out' \in [1..Len(seqs) -> Nat]
    BY <1>1, <2>1 DEF Cache
  <2> QED
    BY <2>1, <2>2
<1>3. CASE seqs = <<>>
  <2>1. Range(seqs) = {}
    BY <1>3 DEF Range
  <2>2. DOMAIN cache' = DOMAIN c /\ \A q \in DOMAIN c : cache'[q] = c[q]
    BY <1>1, <2>1 DEF Without
  <2>3. Cache(cache') /\ Size(cache') = Size(c) /\ Size(c) \in Nat
    BY <2>2, SizeOfCache DEF Cache, Size
  <2> QED
    BY <1>1, <1>2, <1>3, <2>3, SizeOfCache
<1>4. CASE seqs # <<>>
  <2>1. 1 \in DOMAIN seqs /\ seqs[1] \in DOMAIN c
    BY <1>4
  <2>2. seqs[1] \in Range(seqs)
    BY <2>1 DEF Range
  <2>3. Cache(cache') /\ Size(cache') <= Size(c) /\ Size(cache') <= Size(c) - 1
    BY <1>1, <2>1, <2>2, WithoutShrinks
  <2> QED
    BY <1>1, <1>2, <2>3, SizeOfCache
<1> QED
  BY <1>3, <1>4

LEMMA OneMore ==
  ASSUME NEW S, NEW s \in Seq(S), NEW x \in S
  PROVE  Append(s, x) \in Seq(S) /\ Append(s, x) # <<>>
<1>1. Append(s, x) \in Seq(S) /\ Len(Append(s, x)) = Len(s) + 1 /\ Len(s) \in Nat
  OBVIOUS
<1>2. Len(<<>>) = 0
  OBVIOUS
<1> QED
  BY <1>1, <1>2

LEMMA AscendingIsSeq ==
  ASSUME NEW c, Cache(c), NEW S \in SUBSET DOMAIN c
  PROVE  /\ Ascending(S) \in Seq(DOMAIN c) /\ (S # {} => Ascending(S) # <<>>)
         /\ Cardinality(S) \in Nat
<1>1. IsFiniteSet(S) /\ S \subseteq Int
  BY SizeOfCache, FS_Subset
<1>2. /\ Cardinality(S) \in Nat /\ Ascending(S) \in [1..Cardinality(S) -> S]
      /\ Range(Ascending(S)) = S
  BY <1>1, AscendingLists
<1>3. Ascending(S) \in Seq(DOMAIN c)
  BY <1>2
<1>4. Ascending(S) = <<>> => S = {}
  BY <1>2 DEF Range
<1> QED
  BY <1>2, <1>3, <1>4

SortInv == SortTypeOK /\ CacheBounded

\* The cache with one more packet goes back below its bound in the same call.
LEMMA PopKeeps ==
  ASSUME NEW c, Cache(c), NEW n \in Seqs, Size(c) <= Bound + 1,
         cycles \in Nat, maxSort \in KMin..KMax,
         PopRun(c, n) \/ PopOverflow(c, n) \/ Hold(c, n)
  PROVE  /\ Cache(cache') /\ next' \in Seqs /\ cycles' \in Nat /\ maxSort' \in KMin..KMax
         /\ out' \in Seq(Nat) /\ Size(cache') <= Bound
<1>1. /\ SeqSpan \in Nat /\ SeqSpan > 0 /\ KMax \in Nat /\ KMin \in Nat
  BY SortorAssumption
<1>2. Bound \in Int /\ KMax <= Bound /\ 2 * KMin - 1 <= Bound /\ 0 <= Bound
  BY BoundIsLargest
<1>3. /\ Size(c) \in Nat /\ DOMAIN c \subseteq Nat
      /\ (DOMAIN c # {} => Least(c) \in DOMAIN c)
  BY SizeOfCache
<1>4. \A k \in Int : k % SeqSpan \in Seqs
  BY <1>1 DEF Seqs
<1>5. n \in Int
  BY DEF Seqs
<1>6. ASSUME Cache(cache') PROVE Size(cache') \in Nat
  BY <1>6, SizeOfCache
<1>7. CASE PopRun(c, n)
  <2> DEFINE run == Run(c, n)
  <2>1. run # {} /\ Emit(c, Ascending(run), (n + Cardinality(run)) % SeqSpan, 0)
    BY <1>7 DEF PopRun
  <2>2. run \in SUBSET DOMAIN c
    BY DEF Run
  <2> HIDE DEF run
  <2>3. Ascending(run) \in Seq(DOMAIN c) /\ Ascending(run) # <<>> /\ Cardinality(run) \in Nat
    BY <2>1, <2>2, AscendingIsSeq
  <2>4. (n + Cardinality(run)) % SeqSpan \in Seqs
    BY <1>4, <1>5, <2>3
  <2>5. /\ Cache(cache') /\ next' \in Seqs /\ cycles' \in Nat /\ maxSort' \in KMin..KMax
        /\ out' \in Seq(Nat) /\ Size(cache') <= Size(c) - 1
    BY <2>1, <2>3, <2>4, EmitKeeps
  <2> QED
    BY <1>2, <1>3, <1>6, <2>5
<1>8. CASE PopOverflow(c, n)
  <2> DEFINE first == Least(c)
             left == {q \in DOMAIN c : q > (n - Size(c)) % SeqSpan}
  <2>1. Size(c) > maxSort
    BY <1>8 DEF PopOverflow
  <2>2. DOMAIN c # {}
    BY <1>1, <1>3, <2>1, FS_EmptySet DEF Size
  <2>3. first \in DOMAIN c /\ first \in Int
    BY <1>3, <2>2
  <2>4. (first + 1) % SeqSpan \in Seqs
    BY <1>4, <2>3
  <2>5. left \in SUBSET DOMAIN c
    OBVIOUS
  <2>6. Ascending(left) \in Seq(DOMAIN c)
    BY <2>5, AscendingIsSeq
  <2>7. \/ Emit(c, <<first>>, (first + 1) % SeqSpan, 0)
        \/ Size(c) < 2 * KMin /\ Emit(c, <<>>, n, 0)
        \/ Emit(c, Append(Ascending(left), first), (first + 1) % SeqSpan, 1)
        \/ /\ out' = <<>> /\ cache' = Without(c, {first}) /\ maxSort' = SortSize(cache')
           /\ next' = n /\ UNCHANGED cycles
    BY <1>8 DEF PopOverflow
  <2> HIDE DEF first, left
  <2>8. CASE Emit(c, <<first>>, (first + 1) % SeqSpan, 0)
    <3>1. <<first>> \in Seq(DOMAIN c) /\ <<first>> # <<>>
      BY <2>3
    <3>2. /\ Cache(cache') /\ next' \in Seqs /\ cycles' \in Nat /\ maxSort' \in KMin..KMax
          /\ out' \in Seq(Nat) /\ Size(cache') <= Size(c) - 1
      BY <2>4, <2>8, <3>1, EmitKeeps
    <3> QED
      BY <1>2, <1>3, <1>6, <3>2
  <2>9. CASE Size(c) < 2 * KMin /\ Emit(c, <<>>, n, 0)
    <3>1. <<>> \in Seq(DOMAIN c)
      OBVIOUS
    <3>2. /\ Cache(cache') /\ next' \in Seqs /\ cycles' \in Nat /\ maxSort' \in KMin..KMax
          /\ out' \in Seq(Nat) /\ Size(cache') <= Size(c)
      BY <2>9, <3>1, EmitKeeps
    <3> QED
      BY <1>1, <1>2, <1>3, <1>6, <2>9, <3>2
  <2>10. CASE Emit(c, Append(Ascending(left), first), (first + 1) % SeqSpan, 1)
    <3>1. Append(Ascending(left), first) \in Seq(DOMAIN c) /\ Append(Ascending(left), first) # <<>>
      BY <2>3, <2>6, OneMore
    <3>2. /\ Cache(cache') /\ next' \in Seqs /\ cycles' \in Nat /\ maxSort' \in KMin..KMax
          /\ out' \in Seq(Nat) /\ Size(cache') <= Size(c) - 1
      BY <2>4, <2>10, <3>1, EmitKeeps
    <3> QED
      BY <1>2, <1>3, <1>6, <3>2
  <2>11. CASE /\ out' = <<>> /\ cache' = Without(c, {first}) /\ maxSort' = SortSize(cache')
              /\ next' = n /\ UNCHANGED cycles
    <3>1. Cache(cache') /\ Size(cache') <= Size(c) - 1
      BY <2>3, <2>11, WithoutShrinks
    <3>2. maxSort' \in KMin..KMax /\ out' \in Seq(Nat)
      BY <2>11, <3>1, SizeOfCache
    <3> QED
      BY <1>2, <1>3, <1>6, <2>11, <3>1, <3>2
  <2> QED
    BY <2>7, <2>8, <2>9, <2>10, <2>11
<1>9. CASE Hold(c, n)
  <2>1. /\ Size(c) <= maxSort /\ cache' = c /\ next' = n /\ out' = <<>> /\ UNCHANGED <<maxSort, cycles>>
    BY <1>9 DEF Hold
  <2>2. Size(c) <= Bound
    BY <1>1, <1>2, <1>3, <2>1
  <2> QED
    BY <2>1, <2>2
<1> QED
  BY <1>7, <1>8, <1>9

LEMMA HighKeeps ==
  ASSUME NEW o \in Seq(Nat), NEW h \in Nat \cup {-1}
  PROVE  Max(Range(o) \cup {h}) \in Nat \cup {-1}
<1>1. DOMAIN o = 1..Len(o) /\ Len(o) \in Nat /\ Range(o) \subseteq Nat
  BY DEF Range
<1>2. o \in Surjection(DOMAIN o, Range(o))
  BY <1>1 DEF Surjection, Range
<1>3. IsFiniteSet(Range(o))
  BY <1>1, <1>2, FS_Interval, FS_Surjection
<1>4. IsFiniteSet(Range(o) \cup {h})
  BY <1>3, FS_AddElement
<1>5. Range(o) \cup {h} \subseteq Int /\ Range(o) \cup {h} # {}
  BY <1>1
<1>6. Max(Range(o) \cup {h}) \in Range(o) \cup {h}
  BY <1>4, <1>5, MaxExists
<1> QED
  BY <1>1, <1>6

LEMMA SortPacketKeeps ==
  ASSUME SortInv, NEW p \in Nat, SortPacket(p)
  PROVE  /\ inited' \in BOOLEAN /\ next' \in Seqs /\ maxSort' \in KMin..KMax /\ cycles' \in Nat
         /\ Cache(cache') /\ out' \in Seq(Nat) /\ high' \in Nat \cup {-1}
         /\ Size(cache') <= Bound
<1> DEFINE q == p % SeqSpan
           n == IF ~inited /\ next = 0 THEN q ELSE next
           c == IF q \in DOMAIN cache THEN cache
                ELSE [r \in DOMAIN cache \cup {q} |-> IF r = q THEN p ELSE cache[r]]
<1>1. /\ inited \in BOOLEAN /\ next \in Seqs /\ maxSort \in KMin..KMax /\ cycles \in Nat
      /\ Cache(cache) /\ high \in Nat \cup {-1} /\ Size(cache) <= Bound
  BY DEF SortInv, SortTypeOK, CacheBounded, Cache, Bound
<1>2. q \in Seqs
  BY SortorAssumption DEF Seqs
<1>3. n \in Seqs
  BY <1>1, <1>2
<1>4. /\ inited' = (inited \/ next = 0)
      /\ \/ /\ next' = n /\ out' = <<>> /\ UNCHANGED <<maxSort, cycles, cache>>
         \/ PopRun(c, n) \/ PopOverflow(c, n) \/ Hold(c, n)
      /\ high' = Max(Range(out') \cup {high})
  BY DEF SortPacket
<1> HIDE DEF q, n
<1>5. Cache(c) /\ DOMAIN c = DOMAIN cache \cup {q}
  BY <1>1, <1>2 DEF Cache
<1>6. Size(c) <= Bound + 1
  <2>1. Size(c) \in Nat /\ Size(cache) \in Nat /\ IsFiniteSet(DOMAIN cache)
    BY <1>1, <1>5, SizeOfCache
  <2>2. Size(c) <= Size(cache) + 1
    BY <1>5, <2>1, FS_AddElement DEF Size
  <2> QED
    BY <1>1, <2>1, <2>2, BoundIsLargest
<1> HIDE DEF c
<1>7. /\ next' \in Seqs /\ maxSort' \in KMin..KMax /\ cycles' \in Nat
      /\ Cache(cache') /\ out' \in Seq(Nat) /\ Size(cache') <= Bound
  <2>1. CASE next' = n /\ out' = <<>> /\ UNCHANGED <<maxSort, cycles, cache>>
    BY <1>1, <1>3, <2>1
  <2>2. CASE PopRun(c, n) \/ PopOverflow(c, n) \/ Hold(c, n)
    BY <1>1, <1>3, <1>5, <1>6, <2>2, PopKeeps
  <2> QED
    BY <1>4, <2>1, <2>2
<1>8. high' \in Nat \cup {-1}
  BY <1>1, <1>4, <1>7, HighKeeps
<1> QED
  BY <1>1, <1>4, <1>7, <1>8

LEMMA SortInvariance == SortSpec => []SortInv
<1> USE DEF Cache
<1>1. SortInit => SortInv
  <2> SUFFICES ASSUME SortInit PROVE SortInv
    OBVIOUS
  <2>1. DOMAIN cache = {} /\ Size(cache) = 0
    BY FS_EmptySet DEF SortInit, Size
  <2>2. /\ 0 \in Seqs /\ KMin \in KMin..KMax /\ Starts \subseteq Nat /\ <<>> \in Seq(Nat)
    BY SortorAssumption DEF Seqs
  <2>3. /\ DOMAIN cache \subseteq Seqs /\ \A q \in DOMAIN cache : cache[q] \in Nat
    BY <2>1
  <2>4. SortTypeOK
    BY <2>2, <2>3 DEF SortInit, SortTypeOK
  <2> QED
    BY <2>1, <2>4, BoundIsLargest DEF SortInv, CacheBounded, Bound
<1>2. SortInv /\ [SortNext]_sortVars => SortInv'
  <2> SUFFICES ASSUME SortInv, [SortNext]_sortVars PROVE SortInv'
    OBVIOUS
  <2> USE DEF SortInv
  <2>0. SortTypeOK /\ CacheBounded /\ SortorAssumption
    BY SortorAssumption
  <2>1. CASE Transmit
    BY <2>0, <2>1 DEF Transmit, SortTypeOK, CacheBounded, sorter, Size
  <2>2. ASSUME NEW p \in flight, Lose(p) PROVE SortInv'
    BY <2>0, <2>2 DEF Lose, SortTypeOK, CacheBounded, sorter, Size
  <2>3. ASSUME NEW p \in flight, Arrive(p) PROVE SortInv'
    <3>1. p \in Nat /\ sent' = sent /\ flight' \subseteq flight /\ SortPacket(p)
      BY <2>0, <2>3 DEF Arrive, SortTypeOK
    <3>2. /\ inited' \in BOOLEAN /\ next' \in Seqs /\ maxSort' \in KMin..KMax /\ cycles' \in Nat
          /\ Cache(cache') /\ out' \in Seq(Nat) /\ high' \in Nat \cup {-1}
          /\ Size(cache') <= Bound
      BY <3>1, SortPacketKeeps
    <3> QED
      BY <2>0, <3>1, <3>2 DEF SortTypeOK, CacheBounded, Bound
  <2>4. ASSUME NEW j \in Jumps, Restart(j) PROVE SortInv'
    BY <2>0, <2>4 DEF Restart, SortTypeOK, CacheBounded, sorter, Size, SortorAssumption
  <2>5. CASE Clear
    <3>1. /\ cycles' = 0 /\ cache' = <<>> /\ next' = 0 /\ maxSort' = KMin /\ out' = <<>>
          /\ UNCHANGED <<inited, high, sent, flight>>
      BY <2>5 DEF Clear, network
    <3>2. DOMAIN cache' = {} /\ Size(cache') = 0
      BY <3>1, FS_EmptySet DEF Size
    <3>3. 0 \in Seqs /\ KMin \in KMin..KMax
      BY SortorAssumption DEF Seqs
    <3>4. SortTypeOK'
      BY <2>0, <3>1, <3>2, <3>3 DEF SortTypeOK
    <3> QED
      BY <3>2, <3>4, BoundIsLargest DEF CacheBounded, Bound
  <2>6. CASE UNCHANGED sortVars
    BY <2>0, <2>6 DEF sortVars, SortTypeOK, CacheBounded, sorter, network, Size
  <2> QED
    BY <2>1, <2>2, <2>3, <2>4, <2>5, <2>6 DEF SortNext
<1> QED
  BY <1>1, <1>2, PTL DEF SortSpec

\* The state of the sorter has its type, whatever the network does.
THEOREM SortTypeCorrect == SortSpec => []SortTypeOK
  BY SortInvariance, PTL DEF SortInv

\* However packets are lost, repeated and overtaken, and whatever a replaced
\* sender's numbers are, the cache stays within its bound: each packet that
\* comes makes as much room as it takes (PacketSortor::sortPacket).
THEOREM SortCacheBounded == SortSpec => []CacheBounded
  BY SortInvariance, PTL DEF SortInv

-----------------------------------------------------------------------------
(* Order, over the wrap of the numbers.  The code tells packets apart by     *)
(* their numbers alone, so no packet may stay, under way or in the cache,    *)
(* until its sender is more than a quarter of the cycle further.             *)
Quarter == SeqSpan \div 4
Recent == \A p \in flight \cup Range(cache) : sent - p <= Quarter

LEMMA Sizes ==
  /\ SeqSpan \in Nat \ {0} /\ Quarter \in Nat /\ Half \in Nat
  /\ 4 * Quarter <= SeqSpan /\ SeqSpan < 4 * Quarter + 4
  /\ Quarter <= Half /\ 2 * Half < SeqSpan /\ SeqSpan <= 2 * Half + 2
  /\ KMax \in Nat /\ KMin \in Nat /\ Window \in Nat \ {0}
  BY SortorAssumption DEF Quarter, Half

LEMMA Remainder ==
  ASSUME NEW x \in Int
  PROVE  /\ x % SeqSpan \in 0 .. SeqSpan - 1 /\ x \div SeqSpan \in Int
         /\ x = SeqSpan * (x \div SeqSpan) + (x % SeqSpan)
  BY SortorAssumption

\* Indexes that are less than a cycle apart: so far apart are their numbers,
\* or a cycle more or less.
LEMMA NumbersApart ==
  ASSUME NEW x \in Int, NEW y \in Int, x - y < SeqSpan, y - x < SeqSpan
  PROVE  (x % SeqSpan) - (y % SeqSpan) \in {x - y, x - y + SeqSpan, x - y - SeqSpan}
<1> DEFINE a == x \div SeqSpan
           b == y \div SeqSpan
<1>1. /\ x = SeqSpan * a + (x % SeqSpan) /\ x % SeqSpan \in 0 .. SeqSpan - 1 /\ a \in Int
      /\ y = SeqSpan * b + (y % SeqSpan) /\ y % SeqSpan \in 0 .. SeqSpan - 1 /\ b \in Int
      /\ SeqSpan \in Nat \ {0}
  BY Remainder, Sizes
<1> HIDE DEF a, b
<1>2. x - y = SeqSpan * (a - b) + ((x % SeqSpan) - (y % SeqSpan))
  BY <1>1
<1>3. a - b < 2
  <2> SUFFICES ASSUME a - b >= 2 PROVE FALSE
    BY <1>1
  <2>1. SeqSpan * (a - b) >= SeqSpan * 2
    BY <1>1
  <2> QED
    BY <1>1, <1>2, <2>1
<1>4. a - b > -2
  <2> SUFFICES ASSUME a - b <= -2 PROVE FALSE
    BY <1>1
  <2>1. SeqSpan * (a - b) <= SeqSpan * (-2)
    BY <1>1
  <2> QED
    BY <1>1, <1>2, <2>1
<1>5. a - b \in {-1, 0, 1}
  BY <1>1, <1>3, <1>4
<1> QED
  BY <1>1, <1>2, <1>5

\* The number after that of x is that of the index after x.
LEMMA NextNumber ==
  ASSUME NEW x \in Int
  PROVE  (x + 1) % SeqSpan = ((x % SeqSpan) + 1) % SeqSpan
<1>1. /\ x % SeqSpan \in 0 .. SeqSpan - 1 /\ (x + 1) % SeqSpan \in 0 .. SeqSpan - 1
      /\ SeqSpan \in Nat \ {0}
  BY Remainder, Sizes
<1>2. ((x % SeqSpan) + 1) % SeqSpan = IF x % SeqSpan = SeqSpan - 1 THEN 0 ELSE (x % SeqSpan) + 1
  BY <1>1
<1>3. CASE SeqSpan > 1
  <2>0. x + 1 \in Int /\ (x + 1) - x < SeqSpan /\ x - (x + 1) < SeqSpan
    BY <1>1, <1>3
  <2>1. ((x + 1) % SeqSpan) - (x % SeqSpan) \in {(x + 1) - x, (x + 1) - x + SeqSpan, (x + 1) - x - SeqSpan}
    BY <2>0, NumbersApart, SMTT(30)
  <2>2. ((x + 1) % SeqSpan) - (x % SeqSpan) \in {1, 1 + SeqSpan, 1 - SeqSpan}
    BY <2>1
  <2> QED
    BY <1>1, <1>2, <2>2
<1>4. CASE SeqSpan = 1
  BY <1>1, <1>2, <1>4
<1> QED
  BY <1>1, <1>3, <1>4

\* What is cached: packets that were sent, and not long ago, under their own
\* numbers.
Numbered(c) ==
  \A q \in DOMAIN c : c[q] % SeqSpan = q /\ c[q] < sent /\ sent <= c[q] + Quarter

\* As packets have different numbers, there are no more of them than indexes.
LEMMA NoMoreThanIndexes ==
  ASSUME NEW c, Cache(c), Numbered(c), NEW D \in SUBSET DOMAIN c, NEW lo \in Int, NEW k \in Nat,
         \A q \in D : lo <= c[q] /\ c[q] < lo + k
  PROVE  Cardinality(D) \in Nat /\ Cardinality(D) <= k
<1> DEFINE hi == lo + k - 1
           I == {c[q] : q \in D}
           num == [x \in I |-> x % SeqSpan]
<1>1. \A q \in D : c[q] \in Nat /\ c[q] % SeqSpan = q
  BY DEF Cache, Numbered
<1>2. I \in SUBSET (lo .. hi)
  BY <1>1
<1>3. IsFiniteSet(lo .. hi) /\ Cardinality(lo .. hi) = k
  BY FS_Interval
<1>4. IsFiniteSet(I) /\ Cardinality(I) <= k /\ Cardinality(I) \in Nat
  BY <1>2, <1>3, FS_Subset, FS_CardinalityType
<1>5. num \in Surjection(I, D)
  BY <1>1 DEF Surjection
<1>6. IsFiniteSet(D) /\ Cardinality(D) <= Cardinality(I)
  BY <1>4, <1>5, FS_Surjection
<1>7. Cardinality(D) \in Nat
  BY <1>6, FS_CardinalityType
<1> QED
  BY <1>4, <1>6, <1>7

LEMMA AtMostAQuarter ==
  ASSUME NEW c, Cache(c), Numbered(c), sent \in Nat, NEW D \in SUBSET DOMAIN c
  PROVE  Cardinality(D) \in Nat /\ Cardinality(D) <= Quarter
<1>1. \A q \in D : sent - Quarter <= c[q] /\ c[q] < (sent - Quarter) + Quarter
  BY Sizes DEF Cache, Numbered
<1>2. sent - Quarter \in Int /\ Quarter \in Nat
  BY Sizes
<1> QED
  BY <1>1, <1>2, NoMoreThanIndexes

\* Two cached packets.
LEMMA TwoCached ==
  ASSUME NEW c, Cache(c), Numbered(c), sent \in Nat, NEW q \in DOMAIN c, NEW r \in DOMAIN c
  PROVE  /\ q \in Seqs /\ r \in Seqs /\ c[q] \in Nat /\ c[r] \in Nat
         /\ c[q] - c[r] < Quarter /\ c[r] - c[q] < Quarter
         /\ q - r \in {c[q] - c[r], c[q] - c[r] + SeqSpan, c[q] - c[r] - SeqSpan}
<1>1. /\ q \in Seqs /\ r \in Seqs /\ c[q] \in Nat /\ c[r] \in Nat
      /\ c[q] % SeqSpan = q /\ c[q] < sent /\ sent <= c[q] + Quarter
      /\ c[r] % SeqSpan = r /\ c[r] < sent /\ sent <= c[r] + Quarter
  BY DEF Cache, Numbered
<1>2. c[q] - c[r] < Quarter /\ c[r] - c[q] < Quarter
  BY <1>1, Sizes
<1>3. c[q] - c[r] < SeqSpan /\ c[r] - c[q] < SeqSpan
  BY <1>1, <1>2, Sizes
<1> QED
  BY <1>1, <1>2, <1>3, NumbersApart

\* What is cached although the highest index that went out is beyond it has a
\* number that is still to come, and at number 0 is from just before.
Behinds(c, n, h) ==
  \A q \in DOMAIN c : c[q] <= h => q >= n /\ (n = 0 => h < c[q] + Window)

Heads(c, n, h) == n = (h + 1) % SeqSpan \/ \A q \in DOMAIN c : c[q] > h

\* Such a packet's number is most of a cycle ahead of the next one.
LEMMA BehindIsFar ==
  ASSUME NEW x \in Nat, sent \in Nat, NEW h \in Int, x <= h, h < sent, sent <= x + Quarter,
         NEW n, n = (h + 1) % SeqSpan
  PROVE  /\ n \in Seqs /\ x % SeqSpan \in Seqs
         /\ x % SeqSpan = n - (h + 1 - x) \/ x % SeqSpan = n - (h + 1 - x) + SeqSpan
         /\ 1 <= h + 1 - x /\ h + 1 - x <= Quarter
<1>1. (h + 1) - x \in 1 .. Quarter
  BY Sizes
<1>2. n \in Seqs /\ x % SeqSpan \in Seqs
  BY Remainder DEF Seqs
<1>3. (h + 1) - x < SeqSpan /\ x - (h + 1) < SeqSpan
  BY <1>1, Sizes
<1>4. ((h + 1) % SeqSpan) - (x % SeqSpan) \in {(h + 1) - x, (h + 1) - x + SeqSpan, (h + 1) - x - SeqSpan}
  BY <1>3, NumbersApart
<1> QED
  BY <1>1, <1>2, <1>4, Sizes DEF Seqs

\* The highest index is that of the largest packet put out.
LEMMA HighIs ==
  ASSUME NEW S, S \subseteq Int, IsFiniteSet(S), NEW m \in S, \A y \in S : y <= m,
         NEW h \in Int, h < m
  PROVE  Max(S \cup {h}) = m
<1>1. IsFiniteSet(S \cup {h}) /\ S \cup {h} \subseteq Int /\ S \cup {h} # {}
  BY FS_AddElement
<1> DEFINE top == Max(S \cup {h})
<1>2. top \in S \cup {h} /\ \A y \in S \cup {h} : top >= y
  BY <1>1, MaxExists
<1> HIDE DEF top
<1>3. top \in Int /\ m \in Int /\ m \in S \cup {h}
  BY <1>1, <1>2
<1>4. top >= m
  BY <1>2, <1>3
<1>5. top <= m
  BY <1>2, <1>3
<1>6. top = m
  BY <1>3, <1>4, <1>5
<1> QED
  BY <1>6 DEF top

LEMMA NothingOut ==
  ASSUME NEW h \in Int, NEW o, o = <<>>
  PROVE  Max(Range(o) \cup {h}) = h
<1>1. Range(o) \cup {h} = {h}
  BY DEF Range
<1>2. IsFiniteSet({h}) /\ {h} \subseteq Int /\ {h} # {}
  BY FS_Singleton
<1> QED
  BY <1>1, <1>2, MaxExists

\* The run at the front is an interval that begins with n; what is left is
\* beyond its end.
LEMMA RunIsInterval ==
  ASSUME NEW c, Cache(c), NEW n \in Nat, Run(c, n) # {}, \A q \in DOMAIN c : n <= q
  PROVE  \E m \in Run(c, n) :
           /\ Run(c, n) = n..m /\ Cardinality(Run(c, n)) = m - n + 1
           /\ \A q \in DOMAIN c \ Run(c, n) : m < q
<1> DEFINE run == Run(c, n)
           m == Max(run)
<1>1. run \subseteq DOMAIN c
  BY DEF Run
<1>2. IsFiniteSet(run) /\ run \subseteq Int
  BY <1>1, SizeOfCache, FS_Subset
<1> HIDE DEF run
<1>3. m \in run /\ \A y \in run : m >= y
  BY <1>2, MaxExists DEF run
<1> HIDE DEF m
<1>4. n = Least(c) /\ n..m \subseteq DOMAIN c /\ m \in DOMAIN c
  BY <1>3 DEF Run, run
<1>5. DOMAIN c \subseteq Nat /\ m \in Nat /\ n <= m
  BY <1>4, SizeOfCache
<1>6. ASSUME NEW q \in n..m PROVE q \in run
  <2>1. n..q \subseteq n..m /\ q \in DOMAIN c
    BY <1>4, <1>5, <1>6
  <2> QED
    BY <1>4, <2>1 DEF Run, run
<1>7. ASSUME NEW q \in run PROVE q \in n..m
  BY <1>1, <1>3, <1>5, <1>7
<1>8. run = n..m
  BY <1>6, <1>7
<1>9. Cardinality(run) = m - n + 1
  BY <1>5, <1>8, FS_Interval
<1>10. ASSUME NEW q \in DOMAIN c \ run PROVE m < q
  BY <1>5, <1>8, <1>10
<1> QED
  BY <1>3, <1>8, <1>9, <1>10 DEF run

\* What a step puts out is in order and beyond what was put out before.
InOrder ==
  \A i, j \in DOMAIN out' : (i < j => out'[i] < out'[j]) /\ out'[i] > high

\* What a call leaves of the cache c: unless it puts nothing out, only numbers
\* beyond the last it put out.
Left(c) == DOMAIN cache' \subseteq DOMAIN c /\ \A q \in DOMAIN cache' : cache'[q] = c[q]
Stays(c, n) == out' = <<>> /\ next' = n /\ Left(c)
Advances(c) ==
  /\ InOrder /\ out' # <<>>
  /\ high' \in Nat /\ high < high' /\ high' < sent
  /\ next' = (high' + 1) % SeqSpan
  /\ Left(c)
  /\ \A q \in DOMAIN cache' : high' % SeqSpan < q

\* The run at the front is without gaps: none of it is behind, and the packets
\* go out as they were numbered.
LEMMA RunGoesOut ==
  ASSUME NEW c, Cache(c), Numbered(c), sent \in Nat, high \in Int, high < sent,
         NEW n \in Seqs, Behinds(c, n, high), Heads(c, n, high),
         PopRun(c, n), high' = Max(Range(out') \cup {high})
  PROVE  Advances(c)
<1> DEFINE run == Run(c, n)
<1>1. run \subseteq DOMAIN c /\ run # {} /\ \A q \in run : n = Least(c) /\ n .. q \subseteq DOMAIN c
  BY DEF Run, PopRun
<1>2. DOMAIN c \subseteq Seqs /\ DOMAIN c \subseteq Nat /\ Seqs \subseteq Nat /\ n \in Nat
  BY SizeOfCache, SortorAssumption DEF Seqs, Cache
<1>3. \A q \in DOMAIN c : n <= q
  <2>1. \E q \in DOMAIN c : \A r \in DOMAIN c : q <= r
    BY <1>1, <1>2, LeastNumber
  <2>2. \A r \in DOMAIN c : Least(c) <= r
    BY <2>1 DEF Least
  <2> QED
    BY <1>1, <2>2
<1>4. PICK m \in run : run = n .. m /\ Cardinality(run) = m - n + 1 /\ \A q \in DOMAIN c \ run : m < q
  BY <1>1, <1>2, <1>3, RunIsInterval DEF run
<1>5. /\ out' = [i \in DOMAIN Ascending(run) |-> c[Ascending(run)[i]]]
      /\ cache' = Without(c, Range(Ascending(run)))
      /\ next' = (n + Cardinality(run)) % SeqSpan
  BY DEF PopRun, Emit
<1> HIDE DEF run
<1>6. IsFiniteSet(run) /\ run \subseteq Int
  BY <1>1, SizeOfCache, FS_Subset
<1>7. /\ Cardinality(run) \in Nat
      /\ Ascending(run) \in [1..Cardinality(run) -> run] /\ Range(Ascending(run)) = run
      /\ \A i, j \in 1..Cardinality(run) : i < j => Ascending(run)[i] < Ascending(run)[j]
  BY <1>6, AscendingLists
<1>8. m \in DOMAIN c /\ m \in Nat /\ n <= m /\ m - n < Quarter
  <2>1. Cardinality(run) <= Quarter
    BY <1>1, AtMostAQuarter
  <2> QED
    BY <1>1, <1>2, <1>3, <1>4, <2>1, Sizes
<1>9. ASSUME NEW q \in run, NEW r \in run
      PROVE  /\ c[q] \in Nat /\ high < c[q] /\ c[q] < sent
             /\ q < r => c[q] < c[r]
  <2>1. q \in DOMAIN c /\ r \in DOMAIN c /\ q \in Nat /\ r \in Nat /\ n <= q /\ q <= m /\ n <= r /\ r <= m
    BY <1>1, <1>2, <1>4
  <2>2. c[q] \in Nat /\ c[q] % SeqSpan = q /\ c[q] < sent /\ sent <= c[q] + Quarter
    BY <2>1 DEF Cache, Numbered
  <2>3. high < c[q]
    <3> SUFFICES ASSUME c[q] <= high PROVE FALSE
      BY <2>2
    <3>1. n = (high + 1) % SeqSpan
      BY <2>1, <2>2 DEF Heads
    <3>2. /\ q = n - (high + 1 - c[q]) \/ q = n - (high + 1 - c[q]) + SeqSpan
          /\ 1 <= high + 1 - c[q] /\ high + 1 - c[q] <= Quarter
      BY <2>2, <3>1, BehindIsFar
    <3> QED
      BY <1>2, <1>8, <2>1, <2>2, <3>2, Sizes
  <2>4. ASSUME q < r PROVE c[q] < c[r]
    <3>1. /\ c[r] \in Nat /\ r - q \in {c[r] - c[q], c[r] - c[q] + SeqSpan, c[r] - c[q] - SeqSpan}
          /\ c[q] - c[r] < Quarter /\ c[r] - c[q] < Quarter
      BY <2>1, TwoCached
    <3>2. r - q < Quarter /\ 0 < r - q
      BY <1>2, <1>8, <2>1, <2>4, Sizes
    <3> QED
      BY <2>1, <2>2, <3>1, <3>2, Sizes
  <2> QED
    BY <2>2, <2>3, <2>4
<1>10. DOMAIN out' = 1..Cardinality(run) /\ \A i \in DOMAIN out' : out'[i] = c[Ascending(run)[i]]
  BY <1>5, <1>7
<1>11. InOrder
  <2>1. ASSUME NEW i \in DOMAIN out', NEW j \in DOMAIN out'
        PROVE  (i < j => out'[i] < out'[j]) /\ out'[i] > high
    <3>1. Ascending(run)[i] \in run /\ Ascending(run)[j] \in run
      BY <1>7, <1>10, <2>1
    <3>2. i < j => Ascending(run)[i] < Ascending(run)[j]
      BY <1>7, <1>10, <2>1
    <3> QED
      BY <1>9, <1>10, <3>1, <3>2
  <2> QED
    BY <2>1 DEF InOrder
<1>12. Range(out') = {c[q] : q \in run}
  BY <1>7, <1>10 DEF Range
<1>13. high' = c[m]
  <2>1. /\ IsFiniteSet(Range(out')) /\ Range(out') \subseteq Int
    <3> DEFINE f == [q \in run |-> c[q]]
    <3>1. f \in Surjection(run, Range(out'))
      BY <1>12 DEF Surjection
    <3> QED
      BY <1>6, <1>9, <1>12, <3>1, FS_Surjection
  <2>2. c[m] \in Range(out') /\ \A y \in Range(out') : y <= c[m]
    <3>1. \A q \in run : c[q] <= c[m]
      <4> SUFFICES ASSUME NEW q \in run PROVE c[q] <= c[m]
        OBVIOUS
      <4>1. q <= m /\ q \in Nat
        BY <1>1, <1>2, <1>4
      <4> QED
        BY <1>8, <1>9, <4>1
    <3> QED
      BY <1>12, <3>1
  <2>3. high < c[m]
    BY <1>9
  <2> QED
    BY <2>1, <2>2, <2>3, HighIs
<1>14. next' = (high' + 1) % SeqSpan
  <2>1. n + Cardinality(run) = m + 1
    BY <1>2, <1>4, <1>8
  <2>2. m = c[m] % SeqSpan /\ c[m] \in Int
    BY <1>8 DEF Cache, Numbered
  <2> QED
    BY <1>5, <1>13, <2>1, <2>2, NextNumber
<1>15. /\ DOMAIN cache' = DOMAIN c \ run
       /\ \A q \in DOMAIN c \ run : cache'[q] = c[q] /\ m < q
  BY <1>4, <1>5, <1>7 DEF Without
<1>16. Left(c) /\ \A q \in DOMAIN cache' : high' % SeqSpan < q
  <2>1. m = c[m] % SeqSpan
    BY <1>8 DEF Numbered
  <2> QED
    BY <1>13, <1>15, <2>1 DEF Left
<1>17. out' # <<>>
  <2>1. 1 \in DOMAIN out'
    BY <1>2, <1>4, <1>8, <1>10
  <2> QED
    BY <2>1
<1> QED
  BY <1>9, <1>11, <1>13, <1>14, <1>16, <1>17 DEF Advances

\* A cache that has grown too large gives out its first packet, or what is left
\* of the cycle and the first of the next: none of that is behind, as a packet
\* is overtaken by fewer than make the cache too large.
LEMMA OverflowGoesOut ==
  ASSUME Window <= KMin,
         NEW c, Cache(c), Numbered(c), sent \in Nat, high \in Int, high < sent,
         maxSort \in KMin .. KMax,
         NEW n \in Seqs, Behinds(c, n, high), Heads(c, n, high),
         n = (high + 1) % SeqSpan \/ n = 0,
         n = 0 \/ \E q \in DOMAIN c : c[q] > high,
         PopOverflow(c, n), high' = Max(Range(out') \cup {high})
  PROVE  Stays(c, n) \/ Advances(c)
<1> DEFINE first == Least(c)
           left == {q \in DOMAIN c : q > (n - Size(c)) % SeqSpan}
<1>1. Size(c) \in Nat /\ Size(c) > maxSort /\ Size(c) > 0 /\ DOMAIN c \subseteq Nat
  BY SizeOfCache, SortorAssumption DEF PopOverflow
<1>2. DOMAIN c # {}
  BY <1>1, FS_EmptySet DEF Size
<1>3. first \in DOMAIN c /\ \A q \in DOMAIN c : first <= q
  <2>1. \E q \in DOMAIN c : \A r \in DOMAIN c : q <= r
    BY <1>1, <1>2, LeastNumber
  <2> QED
    BY <2>1 DEF Least
<1>4. Size(c) <= Quarter
  BY AtMostAQuarter DEF Size
<1>5. /\ n \in Nat /\ n < SeqSpan /\ first \in Nat /\ first < SeqSpan /\ high \in Int
      /\ c[first] \in Nat /\ c[first] % SeqSpan = first /\ c[first] < sent /\ sent <= c[first] + Quarter
  BY <1>3, SortorAssumption DEF Cache, Numbered, Seqs
<1>6. \/ first >= n /\ Emit(c, <<first>>, (first + 1) % SeqSpan, 0)
      \/ Emit(c, <<>>, n, 0)
      \/ n - first > Half /\ Emit(c, Append(Ascending(left), first), (first + 1) % SeqSpan, 1)
      \/ out' = <<>> /\ cache' = Without(c, {first}) /\ next' = n
  BY DEF PopOverflow
<1> HIDE DEF first, left
<1>7. (first + 1) % SeqSpan = (c[first] + 1) % SeqSpan
  BY <1>5, NextNumber
<1>8. CASE first >= n /\ Emit(c, <<first>>, (first + 1) % SeqSpan, 0)
  <2>1. c[first] > high
    <3> SUFFICES ASSUME c[first] <= high PROVE FALSE
      BY <1>5
    <3>1. n = (high + 1) % SeqSpan
      BY <1>3, <1>5 DEF Heads
    <3>2. /\ first = n - (high + 1 - c[first]) + SeqSpan
          /\ 1 <= high + 1 - c[first] /\ high + 1 - c[first] <= Quarter
      BY <1>5, <1>8, <3>1, BehindIsFar
    <3>3. ASSUME NEW q \in DOMAIN c PROVE c[q] <= high
      <4> SUFFICES ASSUME c[q] > high PROVE FALSE
        BY <1>5 DEF Cache
      <4>1. /\ c[q] \in Nat /\ c[q] % SeqSpan = q /\ c[q] < sent /\ q \in Nat /\ q < SeqSpan /\ first <= q
        BY <1>1, <1>3, SortorAssumption DEF Cache, Numbered, Seqs
      <4>2. c[q] - (high + 1) < SeqSpan /\ (high + 1) - c[q] < SeqSpan
        BY <1>5, <3>2, <4>1, Sizes
      <4>3. q - n \in {c[q] - (high + 1), c[q] - (high + 1) + SeqSpan, c[q] - (high + 1) - SeqSpan}
        BY <1>5, <3>1, <4>1, <4>2, NumbersApart
      <4> QED
        BY <1>5, <3>2, <4>1, <4>3, Sizes
    <3>4. n = 0
      BY <1>5, <3>3 DEF Cache
    <3>5. \A q \in DOMAIN c : (high + 1) - Window <= c[q] /\ c[q] < ((high + 1) - Window) + Window
      <4>1. \A q \in DOMAIN c : c[q] \in Nat /\ c[q] <= high /\ high < c[q] + Window
        BY <3>3, <3>4 DEF Behinds, Cache
      <4> QED
        BY <1>5, <4>1, Sizes
    <3>6. Size(c) <= Window
      <4>1. (high + 1) - Window \in Int /\ Window \in Nat /\ DOMAIN c \in SUBSET DOMAIN c
        BY <1>5, Sizes
      <4> QED
        BY <3>5, <4>1, NoMoreThanIndexes DEF Size
    <3> QED
      BY <1>1, <3>6, Sizes
  <2>2. /\ out' = [i \in DOMAIN <<first>> |-> c[<<first>>[i]]]
        /\ cache' = Without(c, Range(<<first>>)) /\ next' = (first + 1) % SeqSpan
    BY <1>8 DEF Emit
  <2>3. Range(<<first>>) = {first} /\ DOMAIN <<first>> = 1..1 /\ <<first>>[1] = first
    BY DEF Range
  <2>4. DOMAIN out' = 1..1 /\ out'[1] = c[first] /\ out' # <<>>
    BY <2>2, <2>3
  <2>5. InOrder
    BY <1>5, <2>1, <2>4 DEF InOrder
  <2>6. high' = c[first]
    <3>1. Range(out') = {c[first]}
      BY <2>4 DEF Range
    <3>2. IsFiniteSet({c[first]})
      BY FS_Singleton
    <3>3. {c[first]} \subseteq Int /\ c[first] \in {c[first]} /\ \A y \in {c[first]} : y <= c[first]
      BY <1>5
    <3> QED
      BY <1>5, <2>1, <3>1, <3>2, <3>3, HighIs
  <2>7. /\ DOMAIN cache' = DOMAIN c \ {first}
        /\ \A q \in DOMAIN c \ {first} : cache'[q] = c[q] /\ first < q
    <3>1. \A q \in DOMAIN c \ {first} : first < q
      BY <1>1, <1>3
    <3> QED
      BY <2>2, <2>3, <3>1 DEF Without
  <2> QED
    BY <1>5, <1>7, <2>1, <2>2, <2>4, <2>5, <2>6, <2>7 DEF Advances, Left
<1>9. CASE Emit(c, <<>>, n, 0)
  <2>1. out' = <<>> /\ next' = n /\ cache' = Without(c, Range(<<>>))
    <3>1. out' = [i \in DOMAIN <<>> |-> c[<<>>[i]]]
      BY <1>9 DEF Emit
    <3>2. out' = <<>>
      BY <3>1
    <3> QED
      BY <1>9, <3>2 DEF Emit
  <2> QED
    BY <2>1 DEF Stays, Left, Without
<1>10. CASE n - first > Half /\ Emit(c, Append(Ascending(left), first), (first + 1) % SeqSpan, 1)
  <2> DEFINE k == Cardinality(left)
             seqs == Append(Ascending(left), first)
  <2>1. left \subseteq DOMAIN c /\ IsFiniteSet(left) /\ left \subseteq Int
    <3>1. left \in SUBSET DOMAIN c
      BY DEF left
    <3> QED
      BY <1>1, <3>1, SizeOfCache, FS_Subset
  <2>2. /\ k \in Nat /\ Ascending(left) \in [1..k -> left] /\ Range(Ascending(left)) = left
        /\ \A i, j \in 1..k : i < j => Ascending(left)[i] < Ascending(left)[j]
    BY <2>1, AscendingLists
  <2>3. ASSUME NEW q \in left PROVE q \in DOMAIN c /\ q \in Nat /\ q > n - Size(c)
    <3>1. n - Size(c) \in 0 .. SeqSpan - 1
      BY <1>1, <1>4, <1>5, <1>10, Sizes
    <3>2. (n - Size(c)) % SeqSpan = n - Size(c)
      BY <3>1, Sizes
    <3> QED
      BY <1>1, <2>1, <3>2 DEF left
  <2>4. ASSUME NEW q \in DOMAIN c PROVE c[q] > high
    <3> SUFFICES ASSUME c[q] <= high PROVE FALSE
      BY <1>5 DEF Cache
    <3>1. /\ c[q] \in Nat /\ c[q] % SeqSpan = q /\ c[q] < sent /\ sent <= c[q] + Quarter
          /\ q \in Nat /\ q < SeqSpan /\ q >= n
      BY <1>1, SortorAssumption DEF Cache, Numbered, Seqs, Behinds
    <3>2. n = (high + 1) % SeqSpan
      BY <1>5, <1>10, Sizes
    <3>3. /\ q = n - (high + 1 - c[q]) \/ q = n - (high + 1 - c[q]) + SeqSpan
          /\ 1 <= high + 1 - c[q] /\ high + 1 - c[q] <= Quarter
      BY <1>5, <3>1, <3>2, BehindIsFar
    <3> QED
      BY <1>5, <1>10, <3>1, <3>3, Sizes
  <2>5. ASSUME NEW q \in left, NEW r \in left, q < r PROVE c[q] < c[r]
    <3>1. q \in DOMAIN c /\ r \in DOMAIN c /\ q \in Nat /\ r \in Nat /\ q > n - Size(c)
      BY <2>3
    <3>2. /\ c[q] \in Nat /\ c[r] \in Nat /\ r < SeqSpan
          /\ c[q] - c[r] < Quarter /\ c[r] - c[q] < Quarter
          /\ r - q \in {c[r] - c[q], c[r] - c[q] + SeqSpan, c[r] - c[q] - SeqSpan}
      BY <3>1, TwoCached, SortorAssumption DEF Seqs
    <3>3. r - q < SeqSpan - Quarter
      BY <1>1, <1>4, <1>5, <1>10, <3>1, <3>2, Sizes
    <3> QED
      BY <2>5, <3>1, <3>2, <3>3, Sizes
  <2>6. ASSUME NEW q \in left PROVE c[q] < c[first] /\ first < q
    <3>1. q \in DOMAIN c /\ q \in Nat /\ q > n - Size(c)
      BY <2>3
    <3>2. /\ c[q] \in Nat /\ c[first] \in Nat /\ q < SeqSpan
          /\ c[q] - c[first] < Quarter /\ c[first] - c[q] < Quarter
          /\ q - first \in {c[q] - c[first], c[q] - c[first] + SeqSpan, c[q] - c[first] - SeqSpan}
      BY <1>3, <3>1, TwoCached, SortorAssumption DEF Seqs
    <3>3. q - first > Quarter
      BY <1>1, <1>4, <1>5, <1>10, <3>1, Sizes
    <3> QED
      BY <1>5, <3>1, <3>2, <3>3, Sizes
  <2>7. /\ out' = [i \in DOMAIN seqs |-> c[seqs[i]]]
        /\ cache' = Without(c, Range(seqs)) /\ next' = (first + 1) % SeqSpan
    BY <1>10 DEF Emit
  <2>8. /\ DOMAIN seqs = 1 .. k + 1 /\ seqs[k + 1] = first
        /\ \A i \in 1 .. k : seqs[i] = Ascending(left)[i] /\ Ascending(left)[i] \in left
    <3>1. Ascending(left) \in Seq(left) /\ Len(Ascending(left)) = k
      BY <2>2
    <3> QED
      BY <2>2, <3>1
  <2>9. Range(seqs) = left \cup {first}
    <3> HIDE DEF seqs
    <3>1. \A i \in 1 .. k + 1 : i \in 1 .. k \/ i = k + 1
      BY <2>2
    <3>2. 1 .. k \subseteq 1 .. k + 1 /\ k + 1 \in 1 .. k + 1
      BY <2>2
    <3>3. \A q \in left : \E i \in 1 .. k : Ascending(left)[i] = q
      BY <2>2 DEF Range
    <3> QED
      BY <2>8, <3>1, <3>2, <3>3 DEF Range
  <2> HIDE DEF seqs
  <2>10. /\ DOMAIN out' = 1 .. k + 1 /\ out'[k + 1] = c[first]
         /\ \A i \in 1 .. k : out'[i] = c[Ascending(left)[i]]
    BY <2>2, <2>7, <2>8
  <2>11. InOrder
    <3> SUFFICES ASSUME NEW i \in 1 .. k + 1, NEW j \in 1 .. k + 1
                 PROVE  (i < j => out'[i] < out'[j]) /\ out'[i] > high
      BY <2>10 DEF InOrder
    <3>1. out'[i] > high
      BY <1>3, <2>2, <2>3, <2>4, <2>8, <2>10
    <3>2. ASSUME i < j PROVE out'[i] < out'[j]
      <4>1. i \in 1 .. k /\ (j \in 1 .. k \/ j = k + 1)
        BY <2>2, <3>2
      <4>2. CASE j \in 1 .. k
        <5>1. Ascending(left)[i] \in left /\ Ascending(left)[j] \in left /\ Ascending(left)[i] < Ascending(left)[j]
          BY <2>2, <3>2, <4>1, <4>2
        <5> QED
          BY <2>5, <2>10, <4>1, <4>2, <5>1
      <4>3. CASE j = k + 1
        BY <2>6, <2>8, <2>10, <4>1, <4>3
      <4> QED
        BY <4>1, <4>2, <4>3
    <3> QED
      BY <3>1, <3>2
  <2>12. Range(out') = {c[q] : q \in left \cup {first}}
    <3>1. \A i \in DOMAIN seqs : out'[i] = c[seqs[i]]
      BY <2>7
    <3> QED
      BY <2>7, <2>9, <3>1 DEF Range
  <2>13. high' = c[first]
    <3> DEFINE f == [q \in left \cup {first} |-> c[q]]
    <3>1. IsFiniteSet(left \cup {first})
      BY <2>1, FS_AddElement
    <3>2. f \in Surjection(left \cup {first}, Range(out'))
      BY <2>12 DEF Surjection
    <3>3. IsFiniteSet(Range(out'))
      BY <3>1, <3>2, FS_Surjection
    <3>4. \A q \in left \cup {first} : c[q] \in Nat /\ c[q] <= c[first]
      BY <1>3, <1>5, <2>1, <2>6 DEF Cache
    <3>5. Range(out') \subseteq Int /\ c[first] \in Range(out') /\ \A y \in Range(out') : y <= c[first]
      BY <2>12, <3>4
    <3>6. high < c[first]
      BY <1>3, <2>4
    <3> QED
      BY <1>5, <3>3, <3>5, <3>6, HighIs
  <2>14. /\ DOMAIN cache' = DOMAIN c \ (left \cup {first})
         /\ \A q \in DOMAIN c \ (left \cup {first}) : cache'[q] = c[q] /\ first < q
    <3>1. \A q \in DOMAIN c \ {first} : first < q
      BY <1>1, <1>3
    <3> QED
      BY <2>7, <2>9, <3>1 DEF Without
  <2>15. out' # <<>>
    <3>1. k + 1 \in DOMAIN out'
      BY <2>2, <2>10
    <3> QED
      BY <3>1
  <2> QED
    BY <1>3, <1>5, <1>7, <2>4, <2>7, <2>11, <2>13, <2>14, <2>15 DEF Advances, Left
<1>11. CASE out' = <<>> /\ cache' = Without(c, {first}) /\ next' = n
  BY <1>11 DEF Stays, Left, Without
<1> QED
  BY <1>6, <1>8, <1>9, <1>10, <1>11

\* What is under way was sent, and overtaken by fewer than Window.
OnTheirWay == \A p \in flight : p < sent /\ sent <= p + Window

\* The next number is that of the index after the highest that went out; or it
\* is 0 again (before the first packet and after clear()), and all that is
\* there is beyond that index.
Heading ==
  \/ next = (high + 1) % SeqSpan
  \/ next = 0 /\ \A p \in flight \cup Range(cache) : p > high

WrapInv ==
  /\ \A q \in DOMAIN cache : cache[q] % SeqSpan = q /\ cache[q] < sent
  /\ OnTheirWay
  /\ high < sent
  /\ Heading
  /\ Behinds(cache, next, high)
  /\ ~inited => cache = <<>> /\ next = 0 /\ high = -1

\* Once something went out, nothing that is left is behind.
LEMMA AdvanceKeeps ==
  ASSUME NEW c, Cache(c), Advances(c)
  PROVE  Behinds(cache', next', high')
<1>1. high' \in Nat /\ next' = (high' + 1) % SeqSpan
  BY DEF Advances
<1>2. high' % SeqSpan \in 0 .. SeqSpan - 1 /\ SeqSpan \in Nat \ {0}
  <2>1. high' \in Int
    BY <1>1
  <2> QED
    BY <2>1, Remainder, SortorAssumption
<1>3. next' = IF high' % SeqSpan = SeqSpan - 1 THEN 0 ELSE (high' % SeqSpan) + 1
  <2>1. next' = ((high' % SeqSpan) + 1) % SeqSpan
    BY <1>1, NextNumber
  <2> QED
    BY <1>2, <2>1
<1>4. \A q \in DOMAIN cache' : q \in Nat /\ q < SeqSpan /\ high' % SeqSpan < q
  BY SortorAssumption DEF Advances, Left, Cache, Seqs
<1> QED
  BY <1>2, <1>3, <1>4 DEF Behinds

\* sortPacket() of a packet under way.
LEMMA SortPacketOrders ==
  ASSUME Window <= KMin, Window < KMax, SortTypeOK, SortTypeOK', Recent, WrapInv,
         NEW p \in flight, SortPacket(p), flight' \subseteq flight, sent' = sent
  PROVE  InOrder /\ WrapInv'
<1> DEFINE q == p % SeqSpan
           n == IF ~inited /\ next = 0 THEN q ELSE next
           c == IF q \in DOMAIN cache THEN cache
                ELSE [r \in DOMAIN cache \cup {q} |-> IF r = q THEN p ELSE cache[r]]
<1>1. /\ p \in Nat /\ p < sent /\ sent <= p + Window /\ sent <= p + Quarter
      /\ sent \in Nat /\ high \in Int /\ high < sent /\ inited \in BOOLEAN
      /\ next \in Seqs /\ maxSort \in KMin .. KMax /\ Cache(cache)
  BY Sizes DEF SortTypeOK, WrapInv, OnTheirWay, Recent, Cache
<1>2. q \in Seqs /\ q \in Nat /\ q < SeqSpan /\ SeqSpan \in Nat /\ Seqs \subseteq Nat /\ 0 \in Seqs
  BY <1>1, Remainder, Sizes DEF Seqs
<1>3. n \in Seqs /\ n \in Nat
  BY <1>1, <1>2
<1>4. /\ inited' = (inited \/ next = 0)
      /\ IF Behind(q, n) \/ FarAhead(q, n)
         THEN next' = n /\ out' = <<>> /\ UNCHANGED <<maxSort, cycles, cache>>
         ELSE PopRun(c, n) \/ PopOverflow(c, n) \/ Hold(c, n)
      /\ high' = Max(Range(out') \cup {high})
  BY DEF SortPacket
<1>5. Numbered(cache)
  <2>1. \A r \in DOMAIN cache : cache[r] \in Nat /\ cache[r] \in Range(cache)
    BY <1>1 DEF Cache, Range
  <2> QED
    BY <1>1, <2>1, Sizes DEF WrapInv, Recent, Numbered
<1>6. DOMAIN c = DOMAIN cache \cup {q} /\ c[q] = p /\ \A r \in DOMAIN cache : c[r] = cache[r]
  <2>1. CASE q \in DOMAIN cache
    <3>1. /\ cache[q] \in Nat /\ cache[q] % SeqSpan = q /\ cache[q] < sent /\ sent <= cache[q] + Quarter
      BY <1>1, <1>5, <2>1 DEF Numbered, Cache
    <3>2. cache[q] - p < SeqSpan /\ p - cache[q] < SeqSpan
      BY <1>1, <3>1, Sizes
    <3>3. q - q \in {cache[q] - p, cache[q] - p + SeqSpan, cache[q] - p - SeqSpan}
      BY <1>1, <3>1, <3>2, NumbersApart
    <3>4. cache[q] = p
      BY <1>1, <1>2, <3>1, <3>2, <3>3
    <3> QED
      BY <2>1, <3>4
  <2>2. CASE q \notin DOMAIN cache
    BY <2>2
  <2> QED
    BY <2>1, <2>2
<1>7. Cache(c) /\ Numbered(c)
  BY <1>1, <1>2, <1>5, <1>6 DEF Cache, Numbered
<1>8. /\ n = (high + 1) % SeqSpan \/ n = 0 \/ (n = q /\ DOMAIN c = {q})
      /\ n = (high + 1) % SeqSpan \/ (high < p /\ \A r \in DOMAIN cache : high < cache[r])
  <2>1. CASE ~inited
    <3>1. next = 0 /\ n = q /\ high = -1 /\ DOMAIN cache = {}
      BY <2>1 DEF WrapInv
    <3> QED
      BY <1>1, <1>6, <2>1, <3>1
  <2>2. CASE inited
    <3>1. n = next
      BY <2>2
    <3>2. \A r \in DOMAIN cache : cache[r] \in Range(cache)
      BY DEF Range
    <3> QED
      BY <3>1, <3>2 DEF WrapInv, Heading
  <2> QED
    BY <1>1, <2>1, <2>2
<1>9. Behinds(cache, n, high)
  <2>1. CASE ~inited
    BY <2>1 DEF WrapInv, Behinds
  <2>2. CASE inited
    BY <2>2 DEF WrapInv
  <2> QED
    BY <1>1, <2>1, <2>2
<1>10. inited'
  BY <1>1, <1>4 DEF WrapInv
<1> HIDE DEF q, n, c
<1>11. ASSUME out' = <<>>, next' = n, DOMAIN cache' \subseteq DOMAIN c, \A r \in DOMAIN cache' : cache'[r] = c[r],
              Behinds(cache', n, high), n = (high + 1) % SeqSpan \/ n = 0
       PROVE  InOrder /\ WrapInv'
  <2>1. InOrder
    BY <1>11 DEF InOrder
  <2>2. high' = high
    BY <1>1, <1>4, <1>11, NothingOut
  <2>3. \A r \in DOMAIN cache' : cache'[r] % SeqSpan = r /\ cache'[r] < sent
    BY <1>7, <1>11 DEF Numbered
  <2>4. OnTheirWay'
    BY DEF OnTheirWay, WrapInv
  <2>5. Heading'
    <3>1. CASE n = (high + 1) % SeqSpan
      BY <1>11, <2>2, <3>1 DEF Heading
    <3>2. CASE n # (high + 1) % SeqSpan
      <4>1. n = 0 /\ high < p /\ \A r \in DOMAIN cache : high < cache[r]
        BY <1>8, <1>11, <3>2
      <4>2. \A r \in DOMAIN c : high < c[r]
        BY <1>6, <4>1
      <4>3. \A x \in Range(cache') : high < x
        BY <1>11, <4>2 DEF Range
      <4>4. \A x \in flight : high < x
        <5>1. CASE inited
          BY <3>2, <5>1 DEF Heading, WrapInv, n
        <5>2. CASE ~inited
          BY <5>2 DEF WrapInv, SortTypeOK
        <5> QED
          BY <1>1, <5>1, <5>2
      <4> QED
        BY <1>11, <2>2, <4>1, <4>3, <4>4 DEF Heading
    <3> QED
      BY <3>1, <3>2
  <2> QED
    BY <1>1, <1>10, <1>11, <2>1, <2>2, <2>3, <2>4, <2>5 DEF WrapInv
<1>12. ASSUME Advances(c)
       PROVE  InOrder /\ WrapInv'
  <2>1. \A r \in DOMAIN cache' : cache'[r] % SeqSpan = r /\ cache'[r] < sent
    BY <1>7, <1>12 DEF Numbered, Advances, Left
  <2>2. OnTheirWay'
    BY DEF OnTheirWay, WrapInv
  <2>3. Behinds(cache', next', high')
    BY <1>7, <1>12, AdvanceKeeps
  <2> QED
    BY <1>10, <1>12, <2>1, <2>2, <2>3 DEF Advances, Heading, WrapInv
<1>13. CASE Behind(q, n) \/ FarAhead(q, n)
  <2>1. next' = n /\ out' = <<>> /\ cache' = cache
    BY <1>4, <1>13
  <2>2. n # q
    BY <1>2, <1>13, Sizes DEF Behind, FarAhead
  <2> QED
    BY <1>6, <1>8, <1>9, <1>11, <2>1, <2>2
<1>14. CASE ~Behind(q, n) /\ ~FarAhead(q, n)
  <2>1. PopRun(c, n) \/ PopOverflow(c, n) \/ Hold(c, n)
    BY <1>4, <1>14
  <2>2. ASSUME p <= high PROVE n = 0 /\ high < p + Window /\ n = (high + 1) % SeqSpan
    <3>1. n = (high + 1) % SeqSpan
      BY <1>1, <1>8, <2>2
    <3>2. /\ q = n - (high + 1 - p) \/ q = n - (high + 1 - p) + SeqSpan
          /\ 1 <= high + 1 - p /\ high + 1 - p <= Quarter
      BY <1>1, <2>2, <3>1, BehindIsFar DEF q
    <3>3. high + 1 - p <= Window
      BY <1>1, Sizes
    <3>4. q >= n
      BY <1>1, <1>2, <1>3, <1>14, <3>2, <3>3, Sizes DEF Behind
    <3>5. ~(q - n > Half) => FALSE
      BY <1>1, <1>2, <1>3, <3>2, <3>4, Sizes
    <3> QED
      BY <1>1, <1>14, <3>1, <3>3, <3>4, <3>5, Sizes DEF FarAhead
  <2>3. Behinds(c, n, high)
    <3>1. p <= high => q >= n /\ (n = 0 => high < p + Window)
      BY <1>2, <2>2
    <3> QED
      BY <1>6, <1>9, <3>1 DEF Behinds
  <2>4. n = 0 \/ \E r \in DOMAIN c : c[r] > high
    BY <1>1, <1>6, <2>2
  <2>5. Heads(c, n, high)
    <3>1. \A r \in DOMAIN cache : cache[r] \in Nat
      BY <1>1 DEF Cache
    <3> QED
      BY <1>1, <1>6, <1>8, <3>1 DEF Heads
  <2>6. CASE PopRun(c, n)
    BY <1>1, <1>3, <1>4, <1>7, <1>12, <2>3, <2>5, <2>6, RunGoesOut
  <2>7. ASSUME Run(c, n) = {} PROVE n = (high + 1) % SeqSpan \/ n = 0
    <3> SUFFICES ASSUME n = q, DOMAIN c = {q} PROVE FALSE
      BY <1>8
    <3>1. Least(c) = q
      BY DEF Least
    <3>2. n .. q \subseteq DOMAIN c
      BY <1>2
    <3> QED
      BY <2>7, <3>1, <3>2 DEF Run
  <2>8. CASE PopOverflow(c, n)
    <3>1. n = (high + 1) % SeqSpan \/ n = 0
      BY <2>7, <2>8 DEF PopOverflow
    <3>2. Stays(c, n) \/ Advances(c)
      BY <1>1, <1>3, <1>4, <1>7, <2>3, <2>4, <2>5, <2>8, <3>1, OverflowGoesOut
    <3>3. CASE Stays(c, n)
      <4>1. Behinds(cache', n, high)
        BY <2>3, <3>3 DEF Stays, Left, Behinds
      <4> QED
        BY <1>11, <3>1, <3>3, <4>1 DEF Stays, Left
    <3> QED
      BY <1>12, <3>2, <3>3
  <2>9. CASE Hold(c, n)
    <3>1. n = (high + 1) % SeqSpan \/ n = 0
      BY <2>7, <2>9 DEF Hold
    <3> QED
      BY <1>11, <2>3, <2>9, <3>1 DEF Hold
  <2> QED
    BY <2>1, <2>6, <2>8, <2>9
<1> QED
  BY <1>13, <1>14

\* Every step keeps the order, and leaves nothing that could break it later.
LEMMA StepOrders ==
  ASSUME Window <= KMin, Window < KMax, SortTypeOK, SortTypeOK', Recent, WrapInv,
         [SortNext]_sortVars
  PROVE  WrapInv' /\ [InOrder]_sortVars
<1>1. out' = <<>> => InOrder
  BY DEF InOrder
<1>2. /\ sent \in Nat /\ next \in Nat /\ high \in Int /\ flight \subseteq Nat /\ Window \in Nat \ {0}
      /\ \A q \in DOMAIN cache : cache[q] \in Nat
  BY Sizes, SortorAssumption DEF SortTypeOK, Seqs
<1>3. CASE Transmit
  <2>1. /\ flight' = flight \cup {sent} /\ sent' = sent + 1 /\ out' = <<>>
        /\ \A p \in flight : sent - p < Window
        /\ UNCHANGED <<inited, next, cache, high>>
    BY <1>3 DEF Transmit, sorter
  <2>2. OnTheirWay'
    BY <1>2, <2>1 DEF OnTheirWay, WrapInv
  <2>3. Heading'
    BY <1>2, <2>1 DEF Heading, WrapInv
  <2>4. (\A q \in DOMAIN cache : cache[q] % SeqSpan = q /\ cache[q] < sent)' /\ (high < sent)'
    BY <1>2, <2>1 DEF WrapInv
  <2> QED
    BY <1>1, <2>1, <2>2, <2>3, <2>4 DEF WrapInv, Behinds
<1>4. ASSUME NEW p \in flight, Lose(p)
      PROVE  WrapInv' /\ InOrder
  <2>1. flight' \subseteq flight /\ out' = <<>> /\ UNCHANGED <<inited, next, cache, high, sent>>
    BY <1>4 DEF Lose, sorter
  <2> QED
    BY <1>1, <2>1 DEF WrapInv, Behinds, OnTheirWay, Heading
<1>5. ASSUME NEW p \in flight, Arrive(p)
      PROVE  WrapInv' /\ InOrder
  <2>1. flight' \subseteq flight /\ sent' = sent /\ SortPacket(p)
    BY <1>5 DEF Arrive
  <2> QED
    BY <2>1, SortPacketOrders
<1>6. ASSUME NEW j \in Jumps, Restart(j)
      PROVE  WrapInv' /\ InOrder
  <2>1. /\ flight = {} /\ sent' = sent + j /\ j \in Nat /\ out' = <<>>
        /\ UNCHANGED <<inited, next, cache, high, flight>>
    BY <1>6, SortorAssumption DEF Restart, sorter
  <2>2. (\A q \in DOMAIN cache : cache[q] % SeqSpan = q /\ cache[q] < sent)' /\ (high < sent)'
    BY <1>2, <2>1 DEF WrapInv
  <2> QED
    BY <1>1, <2>1, <2>2 DEF WrapInv, Behinds, OnTheirWay, Heading
<1>7. CASE Clear
  <2>1. /\ flight' = {} /\ DOMAIN cache' = {} /\ next' = 0 /\ out' = <<>>
        /\ inited' /\ UNCHANGED <<high, sent>>
    BY <1>7 DEF Clear, network
  <2>2. Heading'
    BY <2>1 DEF Heading, Range
  <2> QED
    BY <1>1, <2>1, <2>2 DEF WrapInv, Behinds, OnTheirWay
<1>8. CASE UNCHANGED sortVars
  <2>1. UNCHANGED <<inited, next, cache, high, sent, flight>>
    BY <1>8 DEF sortVars, sorter, network
  <2> QED
    BY <1>8, <2>1 DEF WrapInv, Behinds, OnTheirWay, Heading
<1> QED
  BY <1>3, <1>4, <1>5, <1>6, <1>7, <1>8 DEF SortNext

\* However often its numbers wrap, a stream leaves the sorter in the order in
\* which it was sent and no packet twice, whatever is lost or repeated and
\* wherever a replaced sender or a new session begins, as long as a packet is
\* overtaken by no more than the smallest cache holds and none stays, under way
\* or in the cache, until the sender is a quarter of the cycle further
\* (PacketSortor::sortPacket, tryPopPacket and popPacket).
THEOREM SortKeepsOrder ==
  ASSUME Window <= KMin, Window < KMax
  PROVE  SortSpec /\ []Recent => SortsInOrder
<1>1. SortInit => WrapInv
  <2> SUFFICES ASSUME SortInit PROVE WrapInv
    OBVIOUS
  <2>1. DOMAIN cache = {} /\ flight = {} /\ next = 0 /\ high = -1 /\ sent \in Nat /\ Range(cache) = {}
    BY SortorAssumption DEF SortInit, Range
  <2> QED
    BY <2>1 DEF SortInit, WrapInv, Behinds, OnTheirWay, Heading
<1>2. SortTypeOK /\ SortTypeOK' /\ Recent /\ WrapInv /\ [SortNext]_sortVars => WrapInv'
  BY StepOrders
<1>3. SortTypeOK /\ SortTypeOK' /\ Recent /\ WrapInv /\ [SortNext]_sortVars => [InOrder]_sortVars
  BY StepOrders
<1>4. [InOrder]_sortVars => [\A i, j \in DOMAIN out' :
          /\ i < j => out'[i] < out'[j]
          /\ out'[i] > high]_sortVars
  BY DEF InOrder
<1> QED
  BY <1>1, <1>2, <1>3, <1>4, SortInvariance, PTL DEF SortInv, SortSpec, SortsInOrder
=============================================================================
