---------------------------- MODULE PublishProofs ----------------------------
(***************************************************************************)
(* Theorems about PublishSession, for any number of publishers, sources    *)
(* and tuples.  Publishers only make the steps of sources happen, so what  *)
(* is proved of the directory holds with them, too.                        *)
(*                                                                         *)
(* Why no two write into one source: the token says who owns it.  A        *)
(* publisher that is open has the token of just the source it pushes into, *)
(* a token marks its source as owned, and no two have the same one.        *)
(***************************************************************************)
EXTENDS PublishSession, MediaRegistryProofs

\* A session that has been asked to, or is judging what it found, publishes
\* nothing yet.
Undecided ==
    \A p \in Sessions :
        p \in asked \/ stage[p] = "judging" => push[p] = None

\* Until it ends, a session has the token of what it pushes into; when it ends
\* the token may stay a little longer.
TokenOfPush ==
    \A p \in Sessions :
        /\ stage[p] \in {"open", "judging"} => token[p] = push[p]
        /\ push[p] # None => token[p] = push[p]

\* An answer that is judging has found something, and is the only one.
Judged == \A p \in Sessions : stage[p] = "judging" => seen[p] # None /\ p \notin asked

\* A token is of a source that is owned, and the only one.
TokensOwn == \A p \in Sessions : token[p] # None => token[p] \in owned

TokensDiffer ==
    \A p, q \in Sessions : p # q /\ token[p] # None => token[p] # token[q]

\* Only a source that has been built is owned, or found.
OwnedIsBuilt ==
    /\ \A s \in owned : life[s] # "fresh"
    /\ \A p \in Sessions : seen[p] # None => life[seen[p]] # "fresh"

Tokens ==
    /\ Undecided
    /\ TokenOfPush
    /\ Judged
    /\ TokensOwn
    /\ TokensDiffer
    /\ OwnedIsBuilt
    /\ OwnedHasOwner

SessionsTypeOK ==
    /\ stage \in [Sessions -> Stages]
    /\ asked \subseteq Sessions
    /\ seen \in [Sessions -> Sources \cup {None}]
    /\ push \in [Sessions -> Sources \cup {None}]
    /\ token \in [Sessions -> Sources \cup {None}]
    /\ grace \in [Sessions -> Sources \cup {None}]
    /\ owned \subseteq Sources

PublishInv == RegistryInv /\ SessionsTypeOK /\ Tokens

-----------------------------------------------------------------------------
\* What publishers do to sources are steps of sources.
LEMMA RegistryStep ==
    PublishTypeOK /\ [PublishNext]_publishVars => [RegistryNext]_registryVars
<1> SUFFICES ASSUME PublishTypeOK, [PublishNext]_publishVars PROVE [RegistryNext]_registryVars
    OBVIOUS
<1>1. CASE UNCHANGED publishVars
      BY <1>1 DEF publishVars
<1>2. ASSUME NEW p \in Sessions,
             \/ Ask(p) \/ Deny(p) \/ AnswerFound(p) \/ TakeOver(p)
             \/ \E ends \in BOOLEAN : Refuse(p, ends)
             \/ \E intended \in BOOLEAN : Break(p, intended)
             \/ Stop(p) \/ Leave(p) \/ GraceEnds(p)
      PROVE  registryVars' = registryVars
      BY <1>2 DEF Ask, Deny, AnswerFound, TakeOver, Refuse, Break, Stop, Leave, GraceEnds
<1>3. ASSUME NEW p \in Sessions, Conflict(p)
      PROVE  registryVars' = registryVars
      BY <1>3 DEF Conflict, Break
<1>4. ASSUME NEW p \in Sessions, NEW s \in Sources, AnswerNew(p, s)
      PROVE  RegistryNext
      BY <1>4 DEF AnswerNew, RegistryNext
<1>5. ASSUME NEW p \in Sessions, FirstPacket(p)
      PROVE  RegistryNext
      BY <1>5 DEF FirstPacket, RegistryNext, PublishTypeOK
<1>6. ASSUME NEW s \in Sources, SourceStep(s)
      PROVE  RegistryNext
      BY <1>6 DEF SourceStep, RegistryNext
<1> QED
      BY <1>1, <1>2, <1>3, <1>4, <1>5, <1>6 DEF PublishNext

\* What has been built stays built.
LEMMA NeverFreshAgain ==
    ASSUME RegistryInv, [RegistryNext]_registryVars, NEW s \in Sources, life[s] # "fresh"
    PROVE  life'[s] # "fresh"
BY DEF RegistryInv, RegistryTypeOK, RegistryNext, registryVars, Build, Regist, Announce, Expire,
       Unregist, Retire

LEMMA SourcesBuilt ==
    ASSUME PublishInv, [RegistryNext]_registryVars
    PROVE  /\ \A s \in owned : life'[s] # "fresh"
           /\ \A p \in Sessions : seen[p] # None => life'[seen[p]] # "fresh"
BY NeverFreshAgain DEF PublishInv, SessionsTypeOK, Tokens, OwnedIsBuilt

-----------------------------------------------------------------------------
(* Every step keeps the tokens; the directory's steps are of no matter.    *)

\* A session asks, is denied, or a delay task ends.
LEMMA QuietTokens ==
    ASSUME PublishInv, [RegistryNext]_registryVars, NEW p \in Sessions,
           Ask(p) \/ Deny(p) \/ GraceEnds(p)
    PROVE  SessionsTypeOK' /\ Tokens'
<1> USE RegistryAssumption, PublishAssumption DEF PublishInv, SessionsTypeOK, Tokens, Stages
<1>1. SessionsTypeOK' BY DEF Ask, Deny, GraceEnds
<1>2. Undecided' /\ TokenOfPush' /\ Judged'
      BY DEF Ask, Deny, GraceEnds, Undecided, TokenOfPush, Judged, Free
<1>3. TokensOwn' /\ TokensDiffer' /\ OwnedHasOwner'
      BY DEF Ask, Deny, GraceEnds, TokensOwn, TokensDiffer, OwnedHasOwner
<1>4. OwnedIsBuilt'
      BY SourcesBuilt DEF Ask, Deny, GraceEnds, OwnedIsBuilt
<1> QED BY <1>1, <1>2, <1>3, <1>4

\* The answer finds a source.
LEMMA AnswerFoundTokens ==
    ASSUME PublishInv, NEW p \in Sessions, AnswerFound(p)
    PROVE  SessionsTypeOK' /\ Tokens'
<1> USE RegistryAssumption, PublishAssumption DEF PublishInv, SessionsTypeOK, Tokens, Stages
<1>1. Found(TupleOf[p]) \in Sources /\ life[Found(TupleOf[p])] # "fresh"
      BY DEF AnswerFound, Found, Alive, RegistryInv, RegistryTypeOK
<1>2. SessionsTypeOK' BY <1>1 DEF AnswerFound
<1>3. Undecided' /\ TokenOfPush' /\ Judged'
      BY <1>1 DEF AnswerFound, Undecided, TokenOfPush, Judged, Free
<1>4. TokensOwn' /\ TokensDiffer' /\ OwnedHasOwner'
      BY DEF AnswerFound, TokensOwn, TokensDiffer, OwnedHasOwner
<1>5. OwnedIsBuilt'
      BY <1>1 DEF AnswerFound, OwnedIsBuilt, registryVars
<1> QED BY <1>2, <1>3, <1>4, <1>5

\* A session gets a source that nobody owns, be it new or taken over.
LEMMA OwnTokens ==
    ASSUME PublishInv, [RegistryNext]_registryVars, NEW p \in Sessions, NEW s \in Sources,
           s \notin owned, life'[s] # "fresh",
           stage[p] \in {"open", "judging"}, push[p] = None,
           p \in asked \/ stage[p] = "judging",
           stage' = [stage EXCEPT ![p] = "open"], asked' = asked \ {p},
           seen' = seen \/ seen' = [seen EXCEPT ![p] = None],
           push' = [push EXCEPT ![p] = s], token' = [token EXCEPT ![p] = s],
           owned' = owned \cup {s}, grace' = grace
    PROVE  SessionsTypeOK' /\ Tokens'
<1> USE RegistryAssumption, PublishAssumption DEF PublishInv, SessionsTypeOK, Tokens, Stages
<1>1. token[p] = None
      BY DEF TokenOfPush
<1>2. SessionsTypeOK' OBVIOUS
<1>3. Undecided' /\ TokenOfPush' /\ Judged'
      BY DEF Undecided, TokenOfPush, Judged
<1>4. TokensOwn' /\ TokensDiffer'
      BY DEF TokensOwn, TokensDiffer
<1>5. OwnedHasOwner'
  <2> SUFFICES ASSUME NEW t \in owned' PROVE \E q \in Sessions : token'[q] = t
      BY DEF OwnedHasOwner
  <2>1. CASE t = s BY <2>1
  <2>2. CASE t # s
    <3>1. PICK q \in Sessions : token[q] = t
          BY <2>2 DEF OwnedHasOwner
    <3>2. q # p BY <1>1, <3>1
    <3> QED BY <3>1, <3>2
  <2> QED BY <2>1, <2>2
<1>6. OwnedIsBuilt'
      BY SourcesBuilt DEF OwnedIsBuilt
<1> QED BY <1>2, <1>3, <1>4, <1>5, <1>6

LEMMA AnswerNewTokens ==
    ASSUME PublishInv, NEW p \in Sessions, NEW s \in Sources, AnswerNew(p, s)
    PROVE  SessionsTypeOK' /\ Tokens'
<1>1. RegistryNext BY DEF AnswerNew, RegistryNext
<1>2. s \notin owned /\ life'[s] # "fresh"
      BY DEF AnswerNew, Build, PublishInv, Tokens, OwnedIsBuilt, RegistryInv, RegistryTypeOK
<1>3. push[p] = None /\ stage[p] = "open"
      BY DEF AnswerNew, Free, PublishInv, Tokens, Undecided
<1>4. stage' = [stage EXCEPT ![p] = "open"]
      BY <1>3 DEF AnswerNew, PublishInv, SessionsTypeOK
<1> QED BY <1>1, <1>2, <1>3, <1>4, OwnTokens DEF AnswerNew

LEMMA TakeOverTokens ==
    ASSUME PublishInv, NEW p \in Sessions, TakeOver(p)
    PROVE  SessionsTypeOK' /\ Tokens'
<1>1. /\ seen[p] \in Sources /\ seen[p] \notin owned /\ push[p] = None
      /\ life[seen[p]] # "fresh" /\ p \notin asked
      BY DEF TakeOver, Claimable, PublishInv, SessionsTypeOK, Tokens, Judged, Undecided, OwnedIsBuilt
<1>2. life' = life /\ registryVars' = registryVars
      BY DEF TakeOver, registryVars
<1> QED BY <1>1, <1>2, OwnTokens DEF TakeOver

\* What was found is let go.
LEMMA RefuseTokens ==
    ASSUME PublishInv, NEW p \in Sessions, NEW ends \in BOOLEAN, Refuse(p, ends)
    PROVE  SessionsTypeOK' /\ Tokens'
<1> USE RegistryAssumption, PublishAssumption DEF PublishInv, SessionsTypeOK, Tokens, Stages
<1>1. SessionsTypeOK' BY DEF Refuse
<1>2. Undecided' /\ TokenOfPush' /\ Judged'
      BY DEF Refuse, Undecided, TokenOfPush, Judged
<1>3. TokensOwn' /\ TokensDiffer' /\ OwnedHasOwner'
      BY DEF Refuse, TokensOwn, TokensDiffer, OwnedHasOwner
<1>4. OwnedIsBuilt'
      BY DEF Refuse, OwnedIsBuilt, registryVars
<1> QED BY <1>1, <1>2, <1>3, <1>4

\* A session gives its token back, with its source or after it.
LEMMA BackTokens ==
    ASSUME PublishInv, NEW p \in Sessions, registryVars' = registryVars, seen' = seen,
           stage[p] # "judging",
           stage' = [stage EXCEPT ![p] = "ending"] \/ stage' = [stage EXCEPT ![p] = "gone"],
           asked' = asked \/ asked' = asked \ {p},
           push' = [push EXCEPT ![p] = None], token' = [token EXCEPT ![p] = None],
           owned' = owned \ {token[p]},
           grace' \in [Sessions -> Sources \cup {None}]
    PROVE  SessionsTypeOK' /\ Tokens'
<1> USE RegistryAssumption, PublishAssumption DEF PublishInv, SessionsTypeOK, Tokens, Stages
<1>1. SessionsTypeOK' OBVIOUS
<1>2. Undecided' /\ TokenOfPush' /\ Judged'
      BY DEF Undecided, TokenOfPush, Judged
<1>3. TokensDiffer' /\ TokensOwn'
      BY DEF TokensOwn, TokensDiffer
<1>4. OwnedHasOwner'
  <2> SUFFICES ASSUME NEW t \in owned' PROVE \E q \in Sessions : token'[q] = t
      BY DEF OwnedHasOwner
  <2>1. PICK q \in Sessions : token[q] = t
        BY DEF OwnedHasOwner
  <2>2. q # p BY <2>1
  <2> QED BY <2>1, <2>2
<1>5. OwnedIsBuilt'
      BY DEF OwnedIsBuilt, registryVars
<1> QED BY <1>1, <1>2, <1>3, <1>4, <1>5

\* A session ends and keeps its token until it is destroyed.
LEMMA EndingTokens ==
    ASSUME PublishInv, NEW p \in Sessions, registryVars' = registryVars,
           stage[p] = "open", stage' = [stage EXCEPT ![p] = "ending"],
           push' = push \/ push' = [push EXCEPT ![p] = None],
           UNCHANGED <<asked, seen, token, grace, owned>>
    PROVE  SessionsTypeOK' /\ Tokens'
<1> USE RegistryAssumption, PublishAssumption DEF PublishInv, SessionsTypeOK, Tokens, Stages
<1>1. SessionsTypeOK' OBVIOUS
<1>2. Undecided' /\ TokenOfPush' /\ Judged'
      BY DEF Undecided, TokenOfPush, Judged
<1>3. TokensOwn' /\ TokensDiffer' /\ OwnedHasOwner'
      BY DEF TokensOwn, TokensDiffer, OwnedHasOwner
<1>4. OwnedIsBuilt'
      BY DEF OwnedIsBuilt, registryVars
<1> QED BY <1>1, <1>2, <1>3, <1>4

LEMMA BreakTokens ==
    ASSUME PublishInv, NEW p \in Sessions, NEW intended \in BOOLEAN, Break(p, intended)
    PROVE  SessionsTypeOK' /\ Tokens'
<1>1. stage[p] = "open" /\ token[p] = push[p] /\ registryVars' = registryVars
      BY DEF Break, Free, PublishInv, Tokens, TokenOfPush
<1>2. CASE push[p] # None /\ p \in Continues /\ ~intended
  <2>1. grace' \in [Sessions -> Sources \cup {None}]
        BY <1>2 DEF Break, PublishInv, SessionsTypeOK
  <2> QED BY <1>1, <1>2, <2>1, BackTokens DEF Break
<1>3. CASE ~(push[p] # None /\ p \in Continues /\ ~intended)
      BY <1>1, <1>3, EndingTokens DEF Break
<1> QED BY <1>2, <1>3

LEMMA StopTokens ==
    ASSUME PublishInv, NEW p \in Sessions, Stop(p)
    PROVE  SessionsTypeOK' /\ Tokens'
BY EndingTokens DEF Stop, Free

LEMMA LeaveTokens ==
    ASSUME PublishInv, NEW p \in Sessions, Leave(p)
    PROVE  SessionsTypeOK' /\ Tokens'
BY BackTokens DEF Leave, PublishInv, SessionsTypeOK

\* A step of sources alone.
LEMMA SourceTokens ==
    ASSUME PublishInv, [RegistryNext]_registryVars, UNCHANGED sessionVars
    PROVE  SessionsTypeOK' /\ Tokens'
<1>1. SessionsTypeOK' BY DEF sessionVars, PublishInv, SessionsTypeOK
<1>2. Undecided' /\ TokenOfPush' /\ Judged' /\ TokensOwn' /\ TokensDiffer' /\ OwnedHasOwner'
      BY DEF sessionVars, PublishInv, Tokens, Undecided, TokenOfPush, Judged, TokensOwn,
             TokensDiffer, OwnedHasOwner
<1>3. OwnedIsBuilt'
      BY SourcesBuilt DEF sessionVars, OwnedIsBuilt
<1> QED BY <1>1, <1>2, <1>3 DEF Tokens

-----------------------------------------------------------------------------
LEMMA PublishInitInv == PublishInit => PublishInv
<1> SUFFICES ASSUME PublishInit PROVE PublishInv
    OBVIOUS
<1>1. RegistryInv BY RegistryInitInv DEF PublishInit
<1>2. SessionsTypeOK BY DEF PublishInit, SessionsTypeOK, Stages
<1>3. Tokens
      BY DEF PublishInit, Tokens, Undecided, TokenOfPush, Judged, TokensOwn, TokensDiffer,
             OwnedIsBuilt, OwnedHasOwner
<1> QED BY <1>1, <1>2, <1>3 DEF PublishInv

LEMMA PublishStepInv == PublishInv /\ [PublishNext]_publishVars => PublishInv'
<1> SUFFICES ASSUME PublishInv, [PublishNext]_publishVars PROVE PublishInv'
    OBVIOUS
<1>1. [RegistryNext]_registryVars
      BY RegistryStep DEF PublishInv, RegistryInv, PublishTypeOK, SessionsTypeOK
<1>2. RegistryInv'
      BY <1>1, RegistryStepInv DEF PublishInv
<1>3. SessionsTypeOK' /\ Tokens'
  <2>1. CASE UNCHANGED publishVars
        BY <1>1, <2>1, SourceTokens DEF publishVars
  <2>2. ASSUME NEW p \in Sessions, Ask(p) \/ Deny(p) \/ GraceEnds(p)
        PROVE  SessionsTypeOK' /\ Tokens'
        BY <1>1, <2>2, QuietTokens
  <2>3. ASSUME NEW p \in Sessions,
               \/ AnswerFound(p) \/ (\E s \in Sources : AnswerNew(p, s)) \/ TakeOver(p)
               \/ \E ends \in BOOLEAN : Refuse(p, ends)
        PROVE  SessionsTypeOK' /\ Tokens'
        BY <2>3, AnswerFoundTokens, AnswerNewTokens, TakeOverTokens, RefuseTokens
  <2>4. ASSUME NEW p \in Sessions,
               (\E intended \in BOOLEAN : Break(p, intended)) \/ Conflict(p)
        PROVE  SessionsTypeOK' /\ Tokens'
        BY <2>4, BreakTokens DEF Conflict
  <2>5. ASSUME NEW p \in Sessions, Stop(p) \/ Leave(p)
        PROVE  SessionsTypeOK' /\ Tokens'
        BY <2>5, StopTokens, LeaveTokens
  <2>6. ASSUME NEW p \in Sessions, FirstPacket(p)
        PROVE  SessionsTypeOK' /\ Tokens'
        BY <1>1, <2>6, SourceTokens DEF FirstPacket
  <2>7. ASSUME NEW s \in Sources, SourceStep(s)
        PROVE  SessionsTypeOK' /\ Tokens'
        BY <1>1, <2>7, SourceTokens DEF SourceStep
  <2> QED BY <2>1, <2>2, <2>3, <2>4, <2>5, <2>6, <2>7 DEF PublishNext
<1> QED BY <1>2, <1>3 DEF PublishInv

LEMMA PublishInvHolds == PublishSpec => []PublishInv
BY PublishInitInv, PublishStepInv, PTL DEF PublishSpec

-----------------------------------------------------------------------------
\* The state is of its type, in every behaviour.
THEOREM PublishTypeCorrect == PublishSpec => []PublishTypeOK
<1>1. PublishInv => PublishTypeOK
      BY DEF PublishInv, RegistryInv, SessionsTypeOK, PublishTypeOK
<1> QED BY <1>1, PublishInvHolds, PTL

\* A source that a token marks as owned has the session with that token.
THEOREM PublishOwnersExist == PublishSpec => []OwnedHasOwner
<1>1. PublishInv => OwnedHasOwner
      BY DEF PublishInv, Tokens
<1> QED BY <1>1, PublishInvHolds, PTL

\* No two publishers write into one source, however their lookups and their
\* claims interleave and whoever breaks off in between.
THEOREM PublishOneWriter == PublishSpec => []OneWriter
<1>1. PublishInv => OneWriter
      BY DEF PublishInv, Tokens, TokenOfPush, TokensDiffer, OneWriter
<1> QED BY <1>1, PublishInvHolds, PTL

\* With publishers, too, a tuple finds the source that registered for it.
THEOREM PublishReachable == PublishSpec => []Reachable
<1>1. PublishInv => Reachable
      BY DEF PublishInv, RegistryInv
<1> QED BY <1>1, PublishInvHolds, PTL

\* Seen from outside, the map that publishers take over from one another and
\* leave is still the atomic directory.
THEOREM PublishImplementsDirectory == PublishSpec => ImplementsDirectory
<1>1. PublishInit => RegistryInit
      BY DEF PublishInit
<1>2. PublishInv /\ [PublishNext]_publishVars => [RegistryNext]_registryVars
      BY RegistryStep DEF PublishInv, RegistryInv, PublishTypeOK, SessionsTypeOK
<1> QED BY <1>1, <1>2, PublishInvHolds, DirectorySteps, PTL DEF PublishSpec
=============================================================================
