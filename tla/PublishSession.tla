--------------------------- MODULE PublishSession ---------------------------
(***************************************************************************)
(* Sessions that publish: RtspSession and RtmpSession                      *)
(* (src/src/Rtsp/RtspSession.cpp, src/src/Rtmp/RtmpSession.cpp), over the  *)
(* directory of sources.  A request to publish is answered by a hook, at   *)
(* any later time; the answer runs on the session's poller.  It looks the  *)
(* tuple up, and either makes a source of its own or takes over one whose  *)
(* publisher broke off and which is kept for a while (continue_push_ms).   *)
(*                                                                         *)
(* Sessions are on pollers of their own, so what lies between the lookup   *)
(* and getOwnership, and between the answer and the first packet, which    *)
(* registers the source, is an interleaving.                               *)
(***************************************************************************)
EXTENDS MediaRegistry

CONSTANTS
    Sessions,       \* connections that publish, each one object
    TupleOf,        \* the tuple a session publishes
    Maker,          \* the session that makes a source, None for a source of
                    \* another owner: one that is pulled, or of another protocol
    Continues       \* sessions whose answer has continue_push_ms # 0

ASSUME PublishAssumption ==
    /\ TupleOf \in [Sessions -> Keys]
    /\ Maker \in [Sources -> Sessions \cup {None}]
    /\ None \notin Sessions
    /\ Continues \subseteq Sessions

Foreign == {s \in Sources : Maker[s] = None}

VARIABLES
    stage,          \* where each session is
    asked,          \* sessions whose hook has still to answer
    seen,           \* the source a session's answer found, held until it is judged
    push,           \* _push_src
    token,          \* _push_src_ownership: the source it is of
    grace,          \* the source the delay task of a session's end holds
    owned           \* sources whose _owned flag is set

sessionVars == <<stage, asked, seen, push, token, grace, owned>>
publishVars == <<registryVars, sessionVars>>

(***************************************************************************)
(* open     connected; publishes when it has a push                        *)
(* judging  the answer has looked up a source                              *)
(* ending   onError has run, the object is still there                     *)
(* gone     destroyed                                                      *)
(***************************************************************************)
Stages == {"open", "judging", "ending", "gone"}

PublishTypeOK ==
    /\ RegistryTypeOK
    /\ stage \in [Sessions -> Stages]
    /\ asked \subseteq Sessions
    /\ seen \in [Sessions -> Sources \cup {None}]
    /\ push \in [Sessions -> Sources \cup {None}]
    /\ token \in [Sessions -> Sources \cup {None}]
    /\ grace \in [Sessions -> Sources \cup {None}]
    /\ owned \subseteq Sources

PublishInit ==
    /\ RegistryInit
    /\ stage = [p \in Sessions |-> "open"]
    /\ asked = {}
    /\ seen = [p \in Sessions |-> None]
    /\ push = [p \in Sessions |-> None]
    /\ token = [p \in Sessions |-> None]
    /\ grace = [p \in Sessions |-> None]
    /\ owned = {}

\* The session's thread is inside regist(), emitting.
Registering(p) == push[p] # None /\ life[push[p]] = "announcing"

Free(p) == stage[p] = "open" /\ ~Registering(p)

\* handleReq_ANNOUNCE, onCmd_publish: the hook is asked.  A client that asks
\* once more meanwhile, or when it publishes, is left out: the answer asserts
\* that there is no source yet.
Ask(p) ==
    /\ Free(p)
    /\ p \notin asked /\ push[p] = None
    /\ asked' = asked \cup {p}
    /\ UNCHANGED <<registryVars, stage, seen, push, token, grace, owned>>

\* The hook says no: the session is shut down.
Deny(p) ==
    /\ Free(p) /\ p \in asked
    /\ asked' = asked \ {p}
    /\ stage' = [stage EXCEPT ![p] = "ending"]
    /\ UNCHANGED <<registryVars, seen, push, token, grace, owned>>

\* onRes, on_res: the tuple has a source.  find() hands out a reference.
AnswerFound(p) ==
    /\ Free(p) /\ p \in asked
    /\ Found(TupleOf[p]) # None
    /\ asked' = asked \ {p}
    /\ seen' = [seen EXCEPT ![p] = Found(TupleOf[p])]
    /\ stage' = [stage EXCEPT ![p] = "judging"]
    /\ UNCHANGED <<registryVars, push, token, grace, owned>>

\* onRes, on_res: the tuple has none, the session makes one and owns it.
AnswerNew(p, s) ==
    /\ Free(p) /\ p \in asked
    /\ Found(TupleOf[p]) = None
    /\ Maker[s] = p /\ KeyOf[s] = TupleOf[p]
    /\ Build(s)
    /\ asked' = asked \ {p}
    /\ push' = [push EXCEPT ![p] = s]
    /\ token' = [token EXCEPT ![p] = s]
    /\ owned' = owned \cup {s}
    /\ UNCHANGED <<stage, seen, grace>>

\* Mutant of Claimable: the _owned flag is not looked at.
ClaimableAny(s) == s \notin Foreign

\* dynamic_pointer_cast to the session's own kind of source, getOwnership().
Claimable(s) == s \notin Foreign /\ s \notin owned

\* The answer goes on: the source becomes the session's, viewers and all.
TakeOver(p) ==
    /\ stage[p] = "judging" /\ Claimable(seen[p])
    /\ stage' = [stage EXCEPT ![p] = "open"]
    /\ seen' = [seen EXCEPT ![p] = None]
    /\ push' = [push EXCEPT ![p] = seen[p]]
    /\ token' = [token EXCEPT ![p] = seen[p]]
    /\ owned' = owned \cup {seen[p]}
    /\ UNCHANGED <<registryVars, asked, grace>>

\* "Already publishing".  RtmpSession shuts down; RtspSession throws, which
\* ends it when the answer came at once, and in a posted task does not.
Refuse(p, ends) ==
    /\ stage[p] = "judging" /\ ~Claimable(seen[p])
    /\ seen' = [seen EXCEPT ![p] = None]
    /\ stage' = [stage EXCEPT ![p] = IF ends THEN "ending" ELSE "open"]
    /\ UNCHANGED <<registryVars, asked, push, token, grace, owned>>

\* The first packet (with setSdp, setMetaData before it) makes the ring and
\* registers the source.
FirstPacket(p) ==
    /\ Free(p) /\ push[p] # None
    /\ Regist(push[p])
    /\ UNCHANGED sessionVars

\* Mutant of Break: the token goes with the source into the delay.
BreakOwning(p, intended) ==
    /\ Free(p)
    /\ stage' = [stage EXCEPT ![p] = "ending"]
    /\ IF push[p] # None /\ p \in Continues /\ ~intended
       THEN /\ grace' = [grace EXCEPT ![p] = push[p]]
            /\ push' = [push EXCEPT ![p] = None]
            /\ token' = [token EXCEPT ![p] = None]
            /\ UNCHANGED owned
       ELSE UNCHANGED <<grace, push, token, owned>>
    /\ UNCHANGED <<registryVars, asked, seen>>

\* onError: unless it was closed by intention (Err_shutdown), a source that
\* may be continued loses its owner and is held by a delay task.
Break(p, intended) ==
    /\ Free(p)
    /\ stage' = [stage EXCEPT ![p] = "ending"]
    /\ IF push[p] # None /\ p \in Continues /\ ~intended
       THEN /\ grace' = [grace EXCEPT ![p] = push[p]]
            /\ push' = [push EXCEPT ![p] = None]
            /\ token' = [token EXCEPT ![p] = None]
            /\ owned' = owned \ {push[p]}
       ELSE UNCHANGED <<grace, push, token, owned>>
    /\ UNCHANGED <<registryVars, asked, seen>>

\* The first packet of a source whose tuple has been taken meanwhile: regist()
\* throws, which ends the session, over UDP as an error (Err_other).
Conflict(p) ==
    /\ push[p] # None /\ life[push[p]] = "built"
    /\ Found(TupleOf[p]) # None
    /\ Break(p, FALSE) \/ Break(p, TRUE)

\* handleReq_Teardown, onCmd_deleteStream: the source is let go, its token is
\* not, then the session ends.
Stop(p) ==
    /\ Free(p) /\ push[p] # None
    /\ stage' = [stage EXCEPT ![p] = "ending"]
    /\ push' = [push EXCEPT ![p] = None]
    /\ UNCHANGED <<registryVars, asked, seen, token, grace, owned>>

\* The session's object goes: its source, its token, its answers to come.
Leave(p) ==
    /\ stage[p] = "ending"
    /\ stage' = [stage EXCEPT ![p] = "gone"]
    /\ asked' = asked \ {p}
    /\ push' = [push EXCEPT ![p] = None]
    /\ token' = [token EXCEPT ![p] = None]
    /\ owned' = owned \ {token[p]}
    /\ UNCHANGED <<registryVars, seen, grace>>

\* Mutant of GraceEnds: the task asks to be run again.
GraceRepeats(p) ==
    /\ grace[p] # None
    /\ UNCHANGED publishVars

\* The delay task runs and goes, and with it its reference.
GraceEnds(p) ==
    /\ grace[p] # None
    /\ grace' = [grace EXCEPT ![p] = None]
    /\ UNCHANGED <<registryVars, stage, asked, seen, push, token, owned>>

Held(s) == \E p \in Sessions : s \in {push[p], grace[p], seen[p]}

\* What happens to sources otherwise: the last reference goes when nobody holds
\* one; foreign sources have owners of their own; destructors run.
SourceStep(s) ==
    /\ \/ s \in Foreign /\ (Build(s) \/ Regist(s) \/ Expire(s))
       \/ Expire(s) /\ ~Held(s)
       \/ Announce(s) \/ Unregist(s) \/ Retire(s)
    /\ UNCHANGED sessionVars

PublishNext ==
    \/ \E p \in Sessions :
        \/ Ask(p) \/ Deny(p) \/ AnswerFound(p)
        \/ \E s \in Sources : AnswerNew(p, s)
        \/ TakeOver(p)
        \/ \E ends \in BOOLEAN : Refuse(p, ends)
        \/ FirstPacket(p) \/ Conflict(p)
        \/ \E intended \in BOOLEAN : Break(p, intended)
        \/ Stop(p) \/ Leave(p) \/ GraceEnds(p)
    \/ \E s \in Sources : SourceStep(s)

\* Sessions that ended are destroyed, delay tasks run, a reference nobody holds
\* is gone at once, destructors run to their end.
PublishFairness ==
    /\ \A p \in Sessions :
          /\ WF_publishVars(Leave(p)) /\ WF_publishVars(GraceEnds(p))
          /\ WF_publishVars(TakeOver(p) \/ Refuse(p, TRUE))
    /\ \A s \in Sources :
          /\ WF_publishVars(Announce(s) /\ UNCHANGED sessionVars)
          /\ WF_publishVars(Unregist(s) /\ UNCHANGED sessionVars)
          /\ WF_publishVars(Retire(s) /\ UNCHANGED sessionVars)
          /\ WF_publishVars(Expire(s) /\ ~Held(s) /\ UNCHANGED sessionVars)

PublishSpec == PublishInit /\ [][PublishNext]_publishVars /\ PublishFairness

-----------------------------------------------------------------------------
\* No two publishers write into one source, whatever takes over from whom
\* between the lookup and the claim.
OneWriter ==
    \A p, q \in Sessions :
        p # q => push[p] = None \/ push[p] # push[q]

\* A source is marked as owned just as long as some session has the token, so
\* that a source whose publisher has gone can be taken over.
OwnedHasOwner == \A s \in owned : \E p \in Sessions : token[p] = s

\* A source without a publisher does not stay: it is taken over, or it is
\* destroyed and its tuple is free for the next publisher.
AbandonedEnds ==
    \A s \in Sources \ Foreign :
        (life[s] \in {"built", "registered"} /\ \A p \in Sessions : push[p] # s)
            ~> (\/ \E p \in Sessions : push[p] = s
                \/ life[s] = "dead" /\ slot[KeyOf[s]] # s)
=============================================================================
