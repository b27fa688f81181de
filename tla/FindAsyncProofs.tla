--------------------------- MODULE FindAsyncProofs ---------------------------
(***************************************************************************)
(* Theorems about FindAsync, for any set of sources, calls, sessions and   *)
(* listener tags.                                                          *)
(***************************************************************************)
EXTENDS FindAsync, MediaRegistryProofs

\* How far a call is decides what may still be under way for it.
StageInv ==
    \A r \in Requests :
        /\ pc[r] \in {"idle", "missed"} =>
              /\ r \notin closable
              /\ tasks[r] = <<>>
        /\ pc[r] # "waiting" => r \notin timer \cup listening
        /\ pc[r] # "done" => calls[r] = 0 /\ r \notin invoked
        /\ calls[r] \in {0, 1}
        /\ calls[r] = 1 /\ r \notin invoked => r \notin closable /\ tasks[r] = <<>>
        /\ calls[r] = 0 => r \notin invoked

\* Nobody but the call itself removes a listener whose tag is its own.
ListenInv ==
    \A r \in Requests : pc[r] = "waiting" /\ Undisturbed(r) => r \in listening

FindInv == FindTypeOK /\ StageInv

LEMMA FindInitInv == FindInit => FindInv
<1> SUFFICES ASSUME FindInit PROVE FindInv
    OBVIOUS
<1>1. RegistryTypeOK BY RegistryInitInv DEF FindInit, RegistryInv
<1>2. FindTypeOK BY <1>1, FindAssumption DEF FindInit, FindTypeOK
<1>3. StageInv BY DEF FindInit, StageInv
<1> QED BY <1>2, <1>3 DEF FindInv

\* The directory does not know of the calls: their steps leave it alone.
LEMMA FindRefinesRegistry == FindNext => [RegistryNext]_registryVars
<1> SUFFICES ASSUME FindNext PROVE [RegistryNext]_registryVars
    OBVIOUS
<1>1. ASSUME NEW s \in Sources, SourceStep(s) \/ AnnounceTo(s)
      PROVE  RegistryNext
      BY <1>1 DEF SourceStep, AnnounceTo, RegistryNext
<1>2. ASSUME NEW r \in Requests,
             LookUp(r) \/ StartWait(r) \/ OnTimeout(r) \/ ClosePlayer(r)
                \/ OnRegister(r) \/ OnClose(r)
      PROVE  UNCHANGED registryVars
      BY <1>2 DEF LookUp, StartWait, OnTimeout, ClosePlayer, OnRegister,
                  OnClose, RunTask
<1>3. ASSUME NEW x \in Sessions, SessionGone(x) PROVE UNCHANGED registryVars
      BY <1>3 DEF SessionGone
<1> QED BY <1>1, <1>2, <1>3 DEF FindNext

LEMMA FoundType ==
    ASSUME RegistryTypeOK, NEW k \in Keys
    PROVE  Found(k) \in Sources \cup {None}
BY DEF RegistryTypeOK, Found

LEMMA CallOnceType ==
    ASSUME FindTypeOK, NEW r \in Requests, NEW src \in Sources \cup {None},
           CallOnce(r, src)
    PROVE  /\ answer' \in [Requests -> Sources \cup {None, Pending}]
           /\ calls' \in [Requests -> Nat]
           /\ invoked' \subseteq Requests
<1>1. CASE r \in invoked BY <1>1 DEF CallOnce, FindTypeOK
<1>2. CASE r \notin invoked
  <2>1. /\ answer' = [answer EXCEPT ![r] = src]
        /\ calls' = [calls EXCEPT ![r] = @ + 1]
        /\ invoked' = invoked \cup {r}
        BY <1>2 DEF CallOnce, Call
  <2>2. src \in Sources \cup {None, Pending} OBVIOUS
  <2>3. answer' \in [Requests -> Sources \cup {None, Pending}]
        BY <2>1, <2>2 DEF FindTypeOK
  <2>4. calls' \in [Requests -> Nat] BY <2>1 DEF FindTypeOK
  <2>5. invoked' \subseteq Requests BY <2>1 DEF FindTypeOK
  <2> QED BY <2>3, <2>4, <2>5
<1> QED BY <1>1, <1>2

LEMMA FindStepInv == RegistryInv /\ FindInv /\ [FindNext]_findVars => FindInv'
<1> SUFFICES ASSUME RegistryInv, FindInv, [FindNext]_findVars PROVE FindInv'
    OBVIOUS
<1> USE FindAssumption
<1>0. RegistryTypeOK'
  <2>1. [RegistryNext]_registryVars
        BY FindRefinesRegistry DEF findVars
  <2> QED BY <2>1, RegistryStepInv DEF RegistryInv
<1>1. CASE UNCHANGED findVars
      BY <1>1, <1>0 DEF findVars, waitVars, FindInv, FindTypeOK, StageInv
<1>2. ASSUME NEW s \in Sources, SourceStep(s) PROVE FindInv'
      BY <1>2, <1>0 DEF SourceStep, waitVars, FindInv, FindTypeOK, StageInv
<1>3. ASSUME NEW s \in Sources, AnnounceTo(s) PROVE FindInv'
  <2>1. FindTypeOK' BY <1>3, <1>0 DEF AnnounceTo, FindInv, FindTypeOK
  <2>2. StageInv' BY <1>3 DEF AnnounceTo, FindInv, FindTypeOK, StageInv
  <2> QED BY <2>1, <2>2 DEF FindInv
<1>4. ASSUME NEW r \in Requests, LookUp(r) PROVE FindInv'
  <2>0. Found(Wants[r]) \in Sources \cup {None}
        BY FoundType DEF FindInv, FindTypeOK
  <2>3. answer' \in [Requests -> Sources \cup {None, Pending}]
    <3>1. CASE UNCHANGED <<answer, calls>> BY <3>1 DEF FindInv, FindTypeOK
    <3>2. CASE Call(r, Found(Wants[r])) BY <3>2, <2>0 DEF Call, FindInv, FindTypeOK
    <3> QED BY <1>4, <3>1, <3>2 DEF LookUp
  <2>4. calls' \in [Requests -> Nat]
        BY <1>4 DEF LookUp, Call, FindInv, FindTypeOK
  <2>5. pc' \in [Requests -> {"idle", "missed", "waiting", "done"}]
        BY <1>4 DEF LookUp, FindInv, FindTypeOK
  <2>1. FindTypeOK'
        BY <1>4, <1>0, <2>3, <2>4, <2>5 DEF LookUp, FindInv, FindTypeOK
  <2>2. StageInv' BY <1>4 DEF LookUp, Call, FindInv, FindTypeOK, StageInv
  <2> QED BY <2>1, <2>2 DEF FindInv
<1>5. ASSUME NEW r \in Requests, StartWait(r) PROVE FindInv'
  <2>0. Found(Wants[r]) \in Sources \cup {None}
        BY FoundType DEF FindInv, FindTypeOK
  <2>1. FindTypeOK' BY <1>5, <1>0, <2>0 DEF StartWait, FindInv, FindTypeOK
  <2>2. StageInv' BY <1>5 DEF StartWait, FindInv, FindTypeOK, StageInv
  <2> QED BY <2>1, <2>2 DEF FindInv
<1>6. ASSUME NEW r \in Requests, OnTimeout(r) PROVE FindInv'
  <2>3. CallOnce(r, None) BY <1>6 DEF OnTimeout
  <2>4. /\ answer' \in [Requests -> Sources \cup {None, Pending}]
        /\ calls' \in [Requests -> Nat]
        /\ invoked' \subseteq Requests
        BY <2>3, CallOnceType DEF FindInv
  <2>1. FindTypeOK'
        BY <1>6, <1>0, <2>4 DEF OnTimeout, DelListener, FindInv, FindTypeOK
  <2>2. StageInv'
        BY <1>6 DEF OnTimeout, DelListener, CallOnce, Call, FindInv, FindTypeOK, StageInv
  <2> QED BY <2>1, <2>2 DEF FindInv
<1>7. ASSUME NEW r \in Requests, ClosePlayer(r) PROVE FindInv'
  <2>1. FindTypeOK' BY <1>7, <1>0 DEF ClosePlayer, FindInv, FindTypeOK
  <2>2. StageInv' BY <1>7 DEF ClosePlayer, FindInv, FindTypeOK, StageInv
  <2> QED BY <2>1, <2>2 DEF FindInv
<1>8. ASSUME NEW r \in Requests, OnRegister(r) \/ OnClose(r) PROVE FindInv'
  <2>0. Found(Wants[r]) \in Sources \cup {None}
        BY FoundType DEF FindInv, FindTypeOK
  <2>3. PICK kind \in {"register", "close"} : RunTask(r, kind)
        BY <1>8 DEF OnRegister, OnClose
  <2>4. tasks' \in [Requests -> Seq({"register", "close"})]
    <3>1. tasks[r] \in Seq({"register", "close"}) /\ tasks[r] # <<>>
          BY <2>3 DEF RunTask, FindInv, FindTypeOK
    <3>2. Tail(tasks[r]) \in Seq({"register", "close"}) BY <3>1
    <3> QED BY <2>3, <3>2 DEF RunTask, FindInv, FindTypeOK
  <2>5. /\ answer' \in [Requests -> Sources \cup {None, Pending}]
        /\ calls' \in [Requests -> Nat]
        /\ invoked' \subseteq Requests
    <3>1. CASE UNCHANGED <<invoked, answer, calls>>
          BY <3>1 DEF FindInv, FindTypeOK
    <3>2. ASSUME NEW src \in Sources \cup {None}, CallOnce(r, src)
          PROVE  /\ answer' \in [Requests -> Sources \cup {None, Pending}]
                 /\ calls' \in [Requests -> Nat]
                 /\ invoked' \subseteq Requests
          BY <3>2, CallOnceType DEF FindInv
    <3> QED BY <1>8, <2>0, <3>1, <3>2 DEF OnRegister, OnClose
  <2>1. FindTypeOK'
        BY <2>3, <1>0, <2>4, <2>5 DEF RunTask, DelListener, FindInv, FindTypeOK
  <2>6. ASSUME NEW q \in Requests, q # r
        PROVE  /\ pc'[q] = pc[q] /\ calls'[q] = calls[q] /\ tasks'[q] = tasks[q]
               /\ q \in timer' <=> q \in timer
               /\ q \in listening' => q \in listening
               /\ q \in invoked' <=> q \in invoked
               /\ closable' = closable
        BY <1>8, <2>6 DEF OnRegister, OnClose, RunTask, DelListener, CallOnce,
           Call, FindInv, FindTypeOK
  <2>7. /\ pc'[r] = "done" /\ r \notin timer' \cup listening'
        /\ tasks[r] # <<>> /\ closable' = closable
        BY <2>3 DEF RunTask, DelListener, FindInv, FindTypeOK
  <2>8. \/ calls'[r] = calls[r] /\ invoked' = invoked
        \/ calls'[r] = calls[r] + 1 /\ r \notin invoked /\ r \in invoked'
        \/ calls'[r] = calls[r] /\ r \in invoked /\ r \in invoked'
        BY <1>8 DEF OnRegister, OnClose, CallOnce, Call, FindInv, FindTypeOK
  <2>2. StageInv' BY <2>6, <2>7, <2>8 DEF FindInv, FindTypeOK, StageInv
  <2> QED BY <2>1, <2>2 DEF FindInv
<1>9. ASSUME NEW x \in Sessions, SessionGone(x) PROVE FindInv'
      BY <1>9, <1>0 DEF SessionGone, FindInv, FindTypeOK, StageInv
<1> QED BY <1>1, <1>2, <1>3, <1>4, <1>5, <1>6, <1>7, <1>8, <1>9 DEF FindNext

LEMMA FindInvHolds == FindSpec => [](RegistryInv /\ FindInv)
<1>1. FindInit => RegistryInv /\ FindInv
      BY RegistryInitInv, FindInitInv DEF FindInit
<1>2. RegistryInv /\ FindInv /\ [FindNext]_findVars => (RegistryInv /\ FindInv)'
  <2>1. [FindNext]_findVars => [RegistryNext]_registryVars
        BY FindRefinesRegistry DEF findVars
  <2> QED BY <2>1, RegistryStepInv, FindStepInv
<1> QED BY <1>1, <1>2, PTL DEF FindSpec

-----------------------------------------------------------------------------
\* Whatever races for it, a findAsync call runs its callback at most once.
THEOREM FindAnswersOnce == FindSpec => []AnswerAtMostOnce
<1>1. FindInv => AnswerAtMostOnce
      BY DEF FindInv, StageInv, AnswerAtMostOnce
<1> QED BY <1>1, FindInvHolds, PTL

\* A call that is over has no timer armed and no listener registered.
THEOREM FindLeavesNothing == FindSpec => []NothingLeftBehind
<1>1. FindInv => NothingLeftBehind
      BY DEF FindInv, StageInv, NothingLeftBehind
<1> QED BY <1>1, FindInvHolds, PTL

-----------------------------------------------------------------------------
(***************************************************************************)
(* The wakeup.  Once a call listens, a source can only come into its slot  *)
(* through Regist, which leaves the announcement to be made, and the       *)
(* announcement finds the listener that ListenInv keeps in place.          *)
(***************************************************************************)
WakeupInv == ListenInv /\ WakeupNotLost

LEMMA WakeupStepInv ==
    RegistryInv /\ FindInv /\ WakeupInv /\ [FindNext]_findVars => WakeupInv'
<1> SUFFICES ASSUME RegistryInv, FindInv, WakeupInv, [FindNext]_findVars
             PROVE  WakeupInv'
    OBVIOUS
<1> USE FindAssumption
<1>a. FindTypeOK /\ StageInv /\ RegistryTypeOK /\ Occupants
      BY DEF FindInv, RegistryInv
<1>b. \A r \in Requests : Wants[r] \in Keys OBVIOUS
<1> DEFINE Posted(r) == \E i \in DOMAIN tasks[r] : tasks[r][i] = "register"
           Awake(r) == Found(Wants[r]) # None /\ Found(Wants[r]) # blind[r]
                          => life[Found(Wants[r])] = "announcing" \/ Posted(r)
\* A call that is over stays so.
<1>d. \A r \in Requests : Undisturbed(r)' => Undisturbed(r)
  <2>1. \A q \in Requests : pc[q] = "done" => pc'[q] = "done"
        BY <1>a DEF FindNext, findVars, waitVars, SourceStep, AnnounceTo, LookUp, StartWait,
           OnTimeout, ClosePlayer, OnRegister, OnClose, RunTask, SessionGone, FindTypeOK
  <2> QED BY <2>1 DEF Undisturbed
\* What a step that posts nothing and lets no call start to wait preserves.
<1>c. ASSUME NEW r \in Requests, pc'[r] = "waiting" => pc[r] = "waiting",
             tasks'[r] = tasks[r], blind'[r] = blind[r],
             UNCHANGED registryVars, pc'[r] = "waiting", Undisturbed(r)
      PROVE  Awake(r)'
  <2>1. Found(Wants[r])' = Found(Wants[r]) BY <1>c DEF registryVars, Found, Alive
  <2>2. Awake(r) BY <1>c DEF WakeupInv, WakeupNotLost
  <2> QED BY <1>c, <2>1, <2>2 DEF registryVars
<1>1. CASE UNCHANGED findVars
  <2>1. ListenInv' BY <1>d, <1>1 DEF findVars, waitVars, WakeupInv, ListenInv, Undisturbed
  <2>2. WakeupNotLost'
        BY <1>d, <1>1, <1>c DEF findVars, waitVars, WakeupNotLost, Undisturbed
  <2> QED BY <1>d, <2>1, <2>2 DEF WakeupInv
<1>2. ASSUME NEW s \in Sources, SourceStep(s) PROVE WakeupInv'
  <2>1. ListenInv' BY <1>d, <1>2 DEF SourceStep, waitVars, WakeupInv, ListenInv, Undisturbed
  <2>2. ASSUME NEW r \in Requests, pc'[r] = "waiting", Undisturbed(r)' PROVE Awake(r)'
    <3>1. Awake(r)
          BY <1>d, <1>2, <2>2 DEF SourceStep, waitVars, WakeupInv, WakeupNotLost
    <3>2. tasks' = tasks /\ blind' = blind BY <1>2 DEF SourceStep, waitVars
    <3>3. CASE Build(s)
          BY <3>1, <3>2, <3>3, <1>a, <1>b
          DEF Build, Found, Alive, Occupants, RegistryTypeOK, Lives
    <3>4. CASE Regist(s)
          BY <3>1, <3>2, <3>4, <1>a, <1>b
          DEF Regist, Found, Alive, Occupants, RegistryTypeOK, Lives
    <3>5. CASE Expire(s)
          BY <3>1, <3>2, <3>5, <1>a, <1>b
          DEF Expire, Found, Alive, Occupants, RegistryTypeOK, Lives
    <3>6. CASE Unregist(s)
          BY <3>1, <3>2, <3>6, <1>a, <1>b
          DEF Unregist, Erasable, Found, Alive, Occupants, RegistryTypeOK, Lives
    <3>7. CASE Retire(s)
          BY <3>1, <3>2, <3>7, <1>a, <1>b
          DEF Retire, Found, Alive, Occupants, RegistryTypeOK, Lives
    <3> QED BY <1>2, <3>3, <3>4, <3>5, <3>6, <3>7 DEF SourceStep
  <2> QED BY <1>d, <2>1, <2>2 DEF WakeupInv, WakeupNotLost, Undisturbed
<1>3. ASSUME NEW s \in Sources, AnnounceTo(s) PROVE WakeupInv'
  <2>1. ListenInv' BY <1>d, <1>3 DEF AnnounceTo, WakeupInv, ListenInv, Undisturbed
  <2>2. ASSUME NEW r \in Requests, pc'[r] = "waiting", Undisturbed(r)' PROVE Awake(r)'
    <3>1. Awake(r) /\ r \in listening
          BY <1>d, <1>3, <2>2 DEF AnnounceTo, WakeupInv, WakeupNotLost, ListenInv
    <3>2. Found(Wants[r])' = Found(Wants[r]) /\ blind' = blind
          BY <1>3, <1>a DEF AnnounceTo, Announce, Found, Alive, RegistryTypeOK, Lives
    <3>0. tasks[r] \in Seq({"register", "close"}) BY <1>a DEF FindTypeOK
    <3>3. CASE Found(Wants[r]) = s
      <4>1. KeyOf[s] = Wants[r] BY <3>3, <1>a, <1>b, RegistryAssumption DEF Found, Occupants
      <4>2. tasks'[r] = Append(tasks[r], "register")
            BY <1>3, <3>1, <4>1 DEF AnnounceTo
      <4>3. Len(tasks[r]) + 1 \in DOMAIN tasks'[r]
            /\ tasks'[r][Len(tasks[r]) + 1] = "register"
            BY <3>0, <4>2
      <4> QED BY <4>3
    <3>4. CASE Found(Wants[r]) # s
      <4>1. Found(Wants[r]) # None
                => life'[Found(Wants[r])] = life[Found(Wants[r])]
            BY <1>3, <3>4, <1>a, <1>b, FoundType
            DEF AnnounceTo, Announce, RegistryTypeOK
      <4>2. Posted(r) => Posted(r)'
        <5>1. tasks'[r] = tasks[r] \/ tasks'[r] = Append(tasks[r], "register")
              BY <1>3 DEF AnnounceTo
        <5> QED BY <5>1, <3>0
      <4> QED BY <3>1, <3>2, <4>1, <4>2
    <3> QED BY <3>3, <3>4
  <2> QED BY <1>d, <2>1, <2>2 DEF WakeupInv, WakeupNotLost, Undisturbed
<1>4. ASSUME NEW r \in Requests, LookUp(r) PROVE WakeupInv'
  <2>1. \A q \in Requests : pc'[q] = "waiting" => pc[q] = "waiting"
        BY <1>4, <1>a DEF LookUp, FindTypeOK
  <2>2. ListenInv' BY <1>d, <1>4, <2>1 DEF LookUp, WakeupInv, ListenInv, Undisturbed
  <2>3. WakeupNotLost' BY <1>d, <1>4, <1>c, <2>1 DEF LookUp, WakeupNotLost, Undisturbed
  <2> QED BY <1>d, <2>2, <2>3 DEF WakeupInv
<1>5. ASSUME NEW r \in Requests, StartWait(r) PROVE WakeupInv'
  <2>1. \A q \in Requests \ {r} : pc'[q] = "waiting" => pc[q] = "waiting"
        BY <1>5, <1>a DEF StartWait, FindTypeOK
  <2>2. ListenInv' BY <1>d, <1>5, <2>1 DEF StartWait, WakeupInv, ListenInv, Undisturbed
  <2>3. ASSUME NEW q \in Requests, pc'[q] = "waiting", Undisturbed(q)' PROVE Awake(q)'
    <3>1. CASE q # r
      <4>1. blind'[q] = blind[q] /\ tasks'[q] = tasks[q] /\ UNCHANGED registryVars
            BY <1>5, <3>1, <1>a DEF StartWait, FindTypeOK
      <4> QED BY <1>d, <2>1, <2>3, <3>1, <4>1, <1>c
    <3>2. CASE q = r
      <4>1. Found(Wants[r])' = Found(Wants[r]) /\ life' = life
            BY <1>5 DEF StartWait, registryVars, Found, Alive
      <4>2. Found(Wants[r]) # None
                => life[Found(Wants[r])] \in {"announcing", "registered"}
            BY <1>a, <1>b DEF Found, Alive, Occupants
      <4>3. Found(Wants[r]) # None /\ life[Found(Wants[r])] = "registered"
                => blind'[r] = Found(Wants[r])
            BY <1>5, <1>a DEF StartWait, FindTypeOK
      <4> QED BY <3>2, <4>1, <4>2, <4>3
    <3> QED BY <3>1, <3>2
  <2> QED BY <1>d, <2>2, <2>3 DEF WakeupInv, WakeupNotLost, Undisturbed
<1>6. ASSUME NEW r \in Requests, OnTimeout(r) \/ OnRegister(r) \/ OnClose(r)
      PROVE  WakeupInv'
  <2>1. \A q \in Requests :
            pc'[q] = "waiting" => q # r /\ pc[q] = "waiting"
        BY <1>6, <1>a DEF OnTimeout, OnRegister, OnClose, RunTask, FindTypeOK
  <2>2. ListenInv'
    <3>1. \A q \in listening : Undisturbed(q)' /\ q # r => q \in listening'
          BY <1>6, <1>a DEF OnTimeout, OnRegister, OnClose, RunTask, DelListener,
             Undisturbed, FindTypeOK
    <3> QED BY <1>d, <2>1, <3>1 DEF WakeupInv, ListenInv, Undisturbed
  <2>3. ASSUME NEW q \in Requests, pc'[q] = "waiting", Undisturbed(q)' PROVE Awake(q)'
    <3>0. pc[q] = "waiting" /\ q # r BY <1>d, <2>1, <2>3
    <3>1. blind'[q] = blind[q] /\ tasks'[q] = tasks[q] /\ UNCHANGED registryVars
          BY <1>6, <3>0, <1>a
          DEF OnTimeout, OnRegister, OnClose, RunTask, FindTypeOK
    <3> QED BY <1>d, <3>0, <2>3, <3>1, <1>c
  <2> QED BY <1>d, <2>2, <2>3 DEF WakeupInv, WakeupNotLost, Undisturbed
<1>7. ASSUME NEW r \in Requests, ClosePlayer(r) PROVE WakeupInv'
  <2>1. ListenInv' BY <1>d, <1>7 DEF ClosePlayer, WakeupInv, ListenInv, Undisturbed
  <2>2. ASSUME NEW q \in Requests, pc'[q] = "waiting", Undisturbed(q)' PROVE Awake(q)'
    <3>1. Awake(q)
          BY <1>d, <1>7, <2>2 DEF ClosePlayer, WakeupInv, WakeupNotLost
    <3>2. Found(Wants[q])' = Found(Wants[q]) /\ life' = life /\ blind' = blind
          BY <1>7 DEF ClosePlayer, registryVars, Found, Alive
    <3>3. Posted(q) => Posted(q)'
      <4>0. tasks[q] \in Seq({"register", "close"}) BY <1>a DEF FindTypeOK
      <4>1. tasks'[q] = tasks[q] \/ tasks'[q] = Append(tasks[q], "close")
            BY <1>7, <1>a DEF ClosePlayer, FindTypeOK
      <4> QED BY <4>0, <4>1
    <3> QED BY <3>1, <3>2, <3>3
  <2> QED BY <1>d, <2>1, <2>2 DEF WakeupInv, WakeupNotLost, Undisturbed
<1>8. ASSUME NEW x \in Sessions, SessionGone(x) PROVE WakeupInv'
  <2>1. ListenInv' BY <1>d, <1>8 DEF SessionGone, WakeupInv, ListenInv, Undisturbed
  <2>2. WakeupNotLost' BY <1>d, <1>8, <1>c DEF SessionGone, WakeupNotLost, Undisturbed
  <2> QED BY <1>d, <2>1, <2>2 DEF WakeupInv
<1> QED BY <1>1, <1>2, <1>3, <1>4, <1>5, <1>6, <1>7, <1>8 DEF FindNext

\* Once a call listens, the registration of its stream reaches it.
THEOREM FindWakeup == FindSpec => []WakeupNotLost
<1>1. FindInit => WakeupInv
      BY DEF FindInit, WakeupInv, ListenInv, WakeupNotLost
<1> QED BY <1>1, WakeupStepInv, FindInvHolds, PTL DEF FindSpec, WakeupInv
=============================================================================
