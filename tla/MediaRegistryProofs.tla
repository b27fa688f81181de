------------------------- MODULE MediaRegistryProofs -------------------------
(***************************************************************************)
(* Theorems about MediaRegistry, for any set of sources and tuples.        *)
(*                                                                         *)
(* The inductive invariant says who may occupy a slot: only a source that  *)
(* registered under that very tuple and whose destructor has not yet come  *)
(* through the mutex.  It is needed because Reachable alone does not say   *)
(* why erase_media_source never meets a live source of another object.     *)
(***************************************************************************)
EXTENDS MediaRegistry, FiniteSetTheorems, TLAPS

Occupants ==
    \A k \in Keys :
        slot[k] # None => /\ KeyOf[slot[k]] = k
                          /\ life[slot[k]] \in {"announcing", "registered", "expired"}

RegistryInv == RegistryTypeOK /\ Reachable /\ Occupants

\* The initial directory satisfies the invariant.
LEMMA RegistryInitInv == RegistryInit => RegistryInv
BY RegistryAssumption DEF RegistryInit, RegistryInv, RegistryTypeOK, Reachable,
                          Occupants, Lives

\* Every step of every source keeps it, one action at a time.
LEMMA RegistryStepInv == RegistryInv /\ [RegistryNext]_registryVars => RegistryInv'
<1> SUFFICES ASSUME RegistryInv, [RegistryNext]_registryVars
             PROVE  RegistryInv'
    OBVIOUS
<1> USE RegistryAssumption DEF RegistryInv, RegistryTypeOK, Lives
<1>1. CASE UNCHANGED registryVars
      BY <1>1 DEF registryVars, Reachable, Occupants
<1>2. ASSUME NEW s \in Sources, Build(s)
      PROVE  RegistryInv'
  <2>1. RegistryTypeOK' BY <1>2 DEF Build
  <2>2. Reachable' BY <1>2 DEF Build, Reachable
  <2>3. Occupants' BY <1>2 DEF Build, Occupants
  <2> QED BY <2>1, <2>2, <2>3
<1>3. ASSUME NEW s \in Sources, Regist(s)
      PROVE  RegistryInv'
  <2>1. RegistryTypeOK' BY <1>3 DEF Regist
  <2>2. Reachable'
    <3> SUFFICES ASSUME NEW t \in Sources, life'[t] \in {"announcing", "registered"}
                 PROVE  slot'[KeyOf[t]] = t
        BY DEF Reachable
    <3>1. CASE t = s BY <1>3, <3>1 DEF Regist
    <3>2. CASE t # s
      <4>1. slot[KeyOf[t]] = t BY <1>3, <3>2 DEF Regist, Reachable
      <4>2. Found(KeyOf[t]) = t BY <1>3, <3>2, <4>1 DEF Regist, Found, Alive
      <4>3. KeyOf[t] # KeyOf[s] BY <1>3, <4>2 DEF Regist
      <4> QED BY <1>3, <4>1, <4>3 DEF Regist
    <3> QED BY <3>1, <3>2
  <2>3. Occupants' BY <1>3 DEF Regist, Occupants
  <2> QED BY <2>1, <2>2, <2>3
<1>4. ASSUME NEW s \in Sources, Announce(s)
      PROVE  RegistryInv'
  <2>1. RegistryTypeOK' BY <1>4 DEF Announce
  <2>2. Reachable' BY <1>4 DEF Announce, Reachable
  <2>3. Occupants' BY <1>4 DEF Announce, Occupants
  <2> QED BY <2>1, <2>2, <2>3
<1>5. ASSUME NEW s \in Sources, Expire(s)
      PROVE  RegistryInv'
  <2>1. RegistryTypeOK' BY <1>5 DEF Expire
  <2>2. Reachable' BY <1>5 DEF Expire, Reachable
  <2>3. Occupants' BY <1>5 DEF Expire, Occupants
  <2> QED BY <2>1, <2>2, <2>3
<1>6. ASSUME NEW s \in Sources, Unregist(s)
      PROVE  RegistryInv'
  <2>1. RegistryTypeOK' BY <1>6 DEF Unregist
  <2>2. Reachable'
    <3> SUFFICES ASSUME NEW t \in Sources, life'[t] \in {"announcing", "registered"}
                 PROVE  slot'[KeyOf[t]] = t
        BY DEF Reachable
    <3>1. t # s /\ life[t] \in {"announcing", "registered"}
          BY <1>6 DEF Unregist
    <3>2. slot[KeyOf[t]] = t BY <3>1 DEF Reachable
    <3>3. Erasable(s) => KeyOf[t] # KeyOf[s]
          BY <3>1, <3>2 DEF Erasable, Alive
    <3> QED BY <1>6, <3>2, <3>3 DEF Unregist
  <2>3. Occupants' BY <1>6 DEF Unregist, Occupants, Erasable
  <2> QED BY <2>1, <2>2, <2>3
<1>7. ASSUME NEW s \in Sources, Retire(s)
      PROVE  RegistryInv'
  <2>1. RegistryTypeOK' BY <1>7 DEF Retire
  <2>2. Reachable' BY <1>7 DEF Retire, Reachable
  <2>3. Occupants' BY <1>7 DEF Retire, Occupants
  <2> QED BY <2>1, <2>2, <2>3
<1> QED BY <1>1, <1>2, <1>3, <1>4, <1>5, <1>6, <1>7 DEF RegistryNext

LEMMA RegistryInvHolds == RegistrySpec => []RegistryInv
BY RegistryInitInv, RegistryStepInv, PTL DEF RegistrySpec

-----------------------------------------------------------------------------
\* The state is of its type, in every behaviour.
THEOREM RegistryTypeCorrect == RegistrySpec => []RegistryTypeOK
BY RegistryInvHolds, PTL DEF RegistryInv

\* A registered source that is alive is the one a lookup of its tuple finds,
\* whatever other sources of the tuple register, fail to, or are destroyed.
THEOREM RegistryReachable == RegistrySpec => []Reachable
BY RegistryInvHolds, PTL DEF RegistryInv

\* When the destructors of a tuple's sources are through, its slot is empty.
THEOREM RegistryNoStaleSlot == RegistrySpec => []NoStaleSlot
<1>1. RegistryInv => NoStaleSlot
      BY RegistryAssumption DEF RegistryInv, RegistryTypeOK, Occupants, NoStaleSlot
<1> QED BY <1>1, RegistryInvHolds, PTL

-----------------------------------------------------------------------------
(***************************************************************************)
(* The count of events.  A slot that is occupied, and an emitEvent(false)  *)
(* still to come, are each backed by a registration of their own.          *)
(***************************************************************************)
Came(k) == Of(k, on \cup {s \in Sources : life[s] = "announcing"})
Left(k) == Of(k, off \cup {s \in Sources : life[s] = "retiring"})
Occupied(k) == IF slot[k] = None THEN 0 ELSE 1

\* What the events say of an object agrees with where it is in its life.
EventsInv ==
    /\ \A s \in on : life[s] \notin {"fresh", "built", "announcing"}
    /\ \A s \in off : life[s] = "dead"

CountInv ==
    /\ EventsInv
    /\ \A k \in Keys : Cardinality(Left(k)) + Occupied(k) <= Cardinality(Came(k))

LEMMA OfFinite ==
    ASSUME NEW k, NEW S \in SUBSET Sources
    PROVE  IsFiniteSet(Of(k, S)) /\ Cardinality(Of(k, S)) \in Nat
<1>1. Of(k, S) \in SUBSET Sources BY DEF Of
<1> QED BY <1>1, FS_Subset, FS_CardinalityType, RegistryAssumption

LEMMA CountInitInv == RegistryInit => CountInv
<1> SUFFICES ASSUME RegistryInit PROVE CountInv
    OBVIOUS
<1>1. EventsInv BY DEF RegistryInit, EventsInv
<1>2. ASSUME NEW k \in Keys
      PROVE  Cardinality(Left(k)) + Occupied(k) <= Cardinality(Came(k))
  <2>1. Left(k) = {} /\ Came(k) = {} /\ Occupied(k) = 0
        BY <1>2 DEF RegistryInit, Left, Came, Of, Occupied
  <2> QED BY <2>1, FS_EmptySet
<1> QED BY <1>1, <1>2 DEF CountInv

LEMMA CountStepInv ==
    RegistryInv /\ CountInv /\ [RegistryNext]_registryVars => CountInv'
<1> SUFFICES ASSUME RegistryInv, CountInv, [RegistryNext]_registryVars
             PROVE  CountInv'
    OBVIOUS
<1> USE RegistryAssumption DEF RegistryInv, RegistryTypeOK, Lives
<1> DEFINE Same(k) == Left(k)' = Left(k) /\ Came(k)' = Came(k)
                      /\ Occupied(k)' = Occupied(k)
           Fits(k) == Cardinality(Left(k)) + Occupied(k) <= Cardinality(Came(k))
<1>0. ASSUME \A k \in Keys : Same(k) PROVE \A k \in Keys : Fits(k)'
      BY <1>0 DEF CountInv
<1>1. CASE UNCHANGED registryVars
  <2>1. EventsInv' BY <1>1 DEF registryVars, CountInv, EventsInv
  <2>2. \A k \in Keys : Same(k)
        BY <1>1 DEF registryVars, Left, Came, Of, Occupied
  <2> QED BY <2>1, <2>2, <1>0 DEF CountInv
<1>2. ASSUME NEW s \in Sources, Build(s) \/ Expire(s) \/ Announce(s) \/ Retire(s)
      PROVE  CountInv'
  <2>1. EventsInv'
        BY <1>2 DEF CountInv, EventsInv, Build, Expire, Announce, Retire
  <2>2. ASSUME NEW k \in Keys PROVE Same(k)
    <3>1. Left(k)' = Left(k)
          BY <1>2 DEF Left, Of, Build, Expire, Announce, Retire
    <3>2. Came(k)' = Came(k)
          BY <1>2 DEF Came, Of, Build, Expire, Announce, Retire
    <3>3. Occupied(k)' = Occupied(k)
          BY <1>2 DEF Occupied, Build, Expire, Announce, Retire
    <3> QED BY <3>1, <3>2, <3>3
  <2> QED BY <2>1, <2>2, <1>0 DEF CountInv
<1>3. ASSUME NEW s \in Sources, Regist(s)
      PROVE  CountInv'
  <2>1. EventsInv' BY <1>3 DEF CountInv, EventsInv, Regist
  <2>2. ASSUME NEW k \in Keys PROVE Fits(k)'
    <3>1. Left(k)' = Left(k) BY <1>3 DEF Left, Of, Regist
    <3>2. CASE k # KeyOf[s]
      <4>1. Came(k)' = Came(k) BY <1>3, <3>2 DEF Came, Of, Regist
      <4>2. Occupied(k)' = Occupied(k) BY <1>3, <3>2 DEF Occupied, Regist
      <4> QED BY <3>1, <4>1, <4>2 DEF CountInv
    <3>3. CASE k = KeyOf[s]
      <4>1. Came(k)' = Came(k) \cup {s} BY <1>3, <3>3 DEF Came, Of, Regist
      <4>2. s \notin Came(k) BY <1>3 DEF Came, Of, Regist, CountInv, EventsInv
      <4>3. IsFiniteSet(Came(k)) /\ Cardinality(Came(k)) \in Nat
            BY OfFinite DEF Came
      <4>4. Cardinality(Came(k)') = Cardinality(Came(k)) + 1
            BY <4>1, <4>2, <4>3, FS_AddElement
      <4>5. Cardinality(Left(k)) \in Nat BY OfFinite DEF Left
      <4>6. Occupied(k) \in {0, 1} /\ Occupied(k)' \in {0, 1} BY DEF Occupied
      <4>7. Cardinality(Left(k)) + Occupied(k) <= Cardinality(Came(k))
            BY DEF CountInv
      <4>8. Occupied(k)' <= Occupied(k) + 1 BY <4>6
      <4> QED BY <3>1, <4>3, <4>4, <4>5, <4>6, <4>7, <4>8
    <3> QED BY <3>2, <3>3
  <2> QED BY <2>1, <2>2 DEF CountInv
<1>4. ASSUME NEW s \in Sources, Unregist(s)
      PROVE  CountInv'
  <2>1. EventsInv' BY <1>4 DEF CountInv, EventsInv, Unregist
  <2>2. ASSUME NEW k \in Keys PROVE Fits(k)'
    <3>1. Came(k)' = Came(k) BY <1>4 DEF Came, Of, Unregist
    <3>2. CASE k # KeyOf[s] \/ ~Erasable(s)
      <4>1. Left(k)' = Left(k) BY <1>4, <3>2 DEF Left, Of, Unregist
      <4>2. Occupied(k)' = Occupied(k) BY <1>4, <3>2 DEF Occupied, Unregist
      <4> QED BY <3>1, <4>1, <4>2 DEF CountInv
    <3>3. CASE k = KeyOf[s] /\ Erasable(s)
      <4>1. Left(k)' = Left(k) \cup {s} BY <1>4, <3>3 DEF Left, Of, Unregist
      <4>2. s \notin Left(k) BY <1>4 DEF Left, Of, Unregist, CountInv, EventsInv
      <4>3. IsFiniteSet(Left(k)) /\ Cardinality(Left(k)) \in Nat
            BY OfFinite DEF Left
      <4>4. Cardinality(Left(k)') = Cardinality(Left(k)) + 1
            BY <4>1, <4>2, <4>3, FS_AddElement
      <4>5. Occupied(k) = 1 /\ Occupied(k)' = 0
            BY <1>4, <3>3 DEF Occupied, Unregist, Erasable
      <4>6. Cardinality(Came(k)) \in Nat BY OfFinite DEF Came
      <4>7. Cardinality(Left(k)) + Occupied(k) <= Cardinality(Came(k))
            BY DEF CountInv
      <4> QED BY <3>1, <4>3, <4>4, <4>5, <4>6, <4>7
    <3> QED BY <3>2, <3>3
  <2> QED BY <2>1, <2>2 DEF CountInv
<1> QED BY <1>1, <1>2, <1>3, <1>4 DEF RegistryNext

\* A source that is announcing is the one in its slot, so a tuple's emitted
\* registrations are one short of those made only while the slot is taken.
LEMMA CountEmitted == RegistryInv /\ CountInv => NeverMoreOffThanOn
<1> SUFFICES ASSUME RegistryInv, CountInv, NEW k \in Keys
             PROVE  Cardinality(Of(k, off)) <= Cardinality(Of(k, on))
    BY DEF NeverMoreOffThanOn
<1> USE RegistryAssumption DEF RegistryInv, RegistryTypeOK, Lives
<1>1. Cardinality(Of(k, off)) <= Cardinality(Left(k))
  <2>1. Of(k, off) \in SUBSET Left(k) BY DEF Of, Left
  <2>2. IsFiniteSet(Left(k)) BY OfFinite DEF Left
  <2> QED BY <2>1, <2>2, FS_Subset
<1>2. Cardinality(Of(k, off)) \in Nat /\ Cardinality(Of(k, on)) \in Nat
      /\ Cardinality(Left(k)) \in Nat /\ Cardinality(Came(k)) \in Nat
      BY OfFinite DEF Left, Came
<1>3. Cardinality(Left(k)) + Occupied(k) <= Cardinality(Came(k)) BY DEF CountInv
<1>4. CASE \A s \in Sources : KeyOf[s] = k => life[s] # "announcing"
  <2>1. Came(k) = Of(k, on) BY <1>4 DEF Came, Of
  <2>2. Occupied(k) \in {0, 1} BY DEF Occupied
  <2> QED BY <2>1, <2>2, <1>1, <1>2, <1>3
<1>5. ASSUME NEW s \in Sources, KeyOf[s] = k, life[s] = "announcing"
      PROVE  Cardinality(Of(k, off)) <= Cardinality(Of(k, on))
  <2>1. slot[k] = s BY <1>5 DEF Reachable
  <2>2. Occupied(k) = 1 BY <2>1, <1>5 DEF Occupied
  <2>3. \A t \in Sources : KeyOf[t] = k /\ life[t] = "announcing" => t = s
        BY <2>1 DEF Reachable
  <2>4. Came(k) = Of(k, on) \cup {s} BY <1>5, <2>3 DEF Came, Of
  <2>5. Cardinality(Came(k)) <= Cardinality(Of(k, on)) + 1
    <3>1. IsFiniteSet(Of(k, on)) BY OfFinite
    <3>2. Cardinality(Of(k, on) \cup {s})
              = IF s \in Of(k, on) THEN Cardinality(Of(k, on))
                                   ELSE Cardinality(Of(k, on)) + 1
          BY <3>1, FS_AddElement
    <3> HIDE DEF RegistryInv, RegistryTypeOK
    <3> QED BY <2>4, <1>2, <3>2
  <2> QED BY <2>2, <2>5, <1>1, <1>2, <1>3
<1> QED BY <1>4, <1>5

\* Those who count streams by their events never go below zero.
THEOREM RegistryEventsBalance == RegistrySpec => []NeverMoreOffThanOn
BY RegistryInitInv, RegistryStepInv, CountInitInv, CountStepInv, CountEmitted,
   PTL DEF RegistrySpec

-----------------------------------------------------------------------------
\* The map of weak pointers, cleaned up lazily, is the atomic directory: each
\* step of a source is one of the directory's, or changes nothing of it.
LEMMA DirectorySteps ==
    RegistryInit /\ [][RegistryNext]_registryVars => ImplementsDirectory
<1> USE RegistryAssumption DEF RegistryInv, RegistryTypeOK, Lives
<1> DEFINE retired == {s \in Sources : life[s] \in {"expired", "retiring", "dead"}}
           holder == [k \in Keys |-> Found(k)]
<1>1. RegistryInit => Directory!Init
      BY DEF RegistryInit, Directory!Init, Found
<1>2. RegistryInv /\ [RegistryNext]_registryVars
          => [Directory!Next]_<<holder, retired>>
  <2> SUFFICES ASSUME RegistryInv, [RegistryNext]_registryVars
               PROVE  [Directory!Next]_<<holder, retired>>
      OBVIOUS
  <2>1. CASE UNCHANGED registryVars
        BY <2>1 DEF registryVars, Found, Alive
  <2>2. ASSUME NEW s \in Sources, Build(s) \/ Announce(s) \/ Unregist(s) \/ Retire(s)
        PROVE  holder' = holder /\ retired' = retired
    <3>1. retired' = retired BY <2>2 DEF Build, Announce, Unregist, Retire
    <3>2. ASSUME NEW k \in Keys PROVE Found(k)' = Found(k)
      <4>1. CASE Build(s)
            BY <4>1 DEF Build, Found, Alive, Occupants
      <4>2. CASE Announce(s) BY <4>2 DEF Announce, Found, Alive
      <4>3. CASE Unregist(s) BY <4>3 DEF Unregist, Erasable, Found, Alive
      <4>4. CASE Retire(s) BY <4>4 DEF Retire, Found, Alive
      <4> QED BY <2>2, <4>1, <4>2, <4>3, <4>4
    <3> QED BY <3>1, <3>2
  <2>3. ASSUME NEW s \in Sources, Regist(s)
        PROVE  Directory!Claim(s)
    <3>1. retired' = retired BY <2>3 DEF Regist
    <3>2. s \notin retired /\ holder[KeyOf[s]] = None BY <2>3 DEF Regist
    <3>3. holder' = [holder EXCEPT ![KeyOf[s]] = s]
          BY <2>3 DEF Regist, Found, Alive, Occupants
    <3> QED BY <3>1, <3>2, <3>3 DEF Directory!Claim
  <2>4. ASSUME NEW s \in Sources, Expire(s)
        PROVE  Directory!Release(s)
    <3>1. s \notin retired BY <2>4 DEF Expire
    <3>2. retired' = retired \cup {s} BY <2>4 DEF Expire
    <3>3. holder' = [holder EXCEPT ![KeyOf[s]] = IF @ = s THEN None ELSE @]
          BY <2>4 DEF Expire, Found, Alive, Occupants
    <3> QED BY <3>1, <3>2, <3>3 DEF Directory!Release
  <2> QED BY <2>1, <2>2, <2>3, <2>4 DEF RegistryNext, Directory!Next
<1> QED BY <1>1, <1>2, RegistryInitInv, RegistryStepInv, PTL
        DEF ImplementsDirectory, Directory!Spec

\* Users of the map of weak pointers see the atomic directory.
THEOREM RegistryImplementsDirectory == RegistrySpec => ImplementsDirectory
BY DirectorySteps, PTL DEF RegistrySpec
=============================================================================
