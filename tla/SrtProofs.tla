----------------------------- MODULE SrtProofs -----------------------------
(***************************************************************************)
(* Theorems about SrtRecvQueue and SrtLink, for rings and streams of any   *)
(* size, whatever the network loses, repeats and overtakes.                *)
(*                                                                         *)
(* They are about streams whose sequence numbers do not wrap: over the     *)
(* wrap the distances the code computes are one short, and the ring is no  *)
(* in-order buffer then (README).                                          *)
(***************************************************************************)
EXTENDS SrtLink, FiniteSetTheorems, WellFoundedInduction, TLAPS

\* The stream's numbers do not wrap, wherever in the cycle it begins, and a
\* packet from its beginning is not, by the distance over the wrap, one of the
\* next the ring may take.
NoWrap ==
    /\ First <= MaxSent /\ MaxSent <= MaxSeq
    /\ MaxSent - First <= MaxSeq - Cap

\* How far slot i is from the slot s of the expected packet, and back.
Off(s, i) == IF i >= s THEN i - s ELSE i - s + Cap
At(s, d) == IF s + d < Cap THEN s + d ELSE s + d - Cap

\* A slot that is filled holds the packet its distance stands for, one that
\* was sent: of n packets sent, with what the ring has passed.
SlotsOK(q, n) ==
    \A i \in Slots :
        q.buf[i] # Empty => q.buf[i] = q.expected + Off(q.start, i) /\ q.buf[i] < n

RingTyped(q) ==
    /\ q.expected \in Nat /\ q.passed \in Nat
    /\ q.start \in Slots /\ q.end \in Slots
    /\ q.buf \in [Slots -> Nat \cup {Empty}]

\* The slot before _end is the last one that is filled.
IsLast(q, l) ==
    /\ q.end = At(l, 1)
    /\ q.buf[l] # Empty
    /\ \A i \in Slots : q.buf[i] # Empty => Off(q.start, i) <= Off(q.start, l)
EndOK(q) ==
    IF Filled(q.buf) = {} THEN q.start = q.end ELSE \E l \in Slots : IsLast(q, l)

RingOK(q, n) ==
    /\ RingTyped(q)
    /\ q.expected = First + q.passed /\ q.expected <= n
    /\ q.size = Cardinality(Filled(q.buf))
    /\ SlotsOK(q, n)
    /\ EndOK(q)

\* Moving over k slots does not leave the range of the filled ones.
Within(q, k) == k > 0 => \E i \in Slots : q.buf[i] # Empty /\ k <= Off(q.start, i) + 1

\* What the ring holds, and what a step of the ring may do to it: advance, and
\* hand out what it passes over.
Held(q) == {q.buf[i] : i \in Filled(q.buf)}
Advances(q, r) ==
    /\ r.expected >= q.expected
    /\ r.given = q.given \cup {p \in Held(q) : p < r.expected}
    /\ Held(r) = {p \in Held(q) : p >= r.expected}

-----------------------------------------------------------------------------
(* Places in the ring. *)

LEMMA Sizes ==
  /\ Cap \in Nat /\ Cap > 1 /\ MaxSeq \in Nat /\ 4 * Cap < MaxSeq
  /\ First \in Nat /\ MaxSent \in Nat /\ Half \in Nat /\ 2 * Half <= MaxSeq
BY RecvAssumption DEF Half

LEMMA Places ==
  ASSUME NEW s \in Slots, NEW d \in Slots
  PROVE  /\ (s + d) % Cap = At(s, d) /\ At(s, d) \in Slots
         /\ Off(s, At(s, d)) = d
         /\ Off(s, d) \in Slots /\ At(s, Off(s, d)) = d
<1> DEFINE x == s + d
<1>1. Cap \in Nat /\ Cap > 1 /\ s \in Int /\ d \in Int /\ 0 <= s /\ s < Cap /\ 0 <= d /\ d < Cap
  BY Sizes DEF Slots
<1>2. x \in Int /\ 0 <= x /\ x < 2 * Cap
  BY <1>1
<1>3. x % Cap = IF x < Cap THEN x ELSE x - Cap
  <2> HIDE DEF x
  <2>1. CASE x < Cap
    BY <1>1, <1>2, <2>1
  <2>2. CASE ~(x < Cap)
    <3>1. Cap <= x
      BY <1>1, <1>2, <2>2
    <3> QED
      BY <1>1, <1>2, <2>2, <3>1
  <2> QED
    BY <2>1, <2>2
<1>4. (s + d) % Cap = At(s, d)
  <2>1. At(s, d) = IF x < Cap THEN x ELSE x - Cap
    BY <1>1 DEF At, x
  <2>2. (s + d) % Cap = x % Cap
    BY DEF x
  <2> HIDE DEF x
  <2> QED
    BY <1>3, <2>1, <2>2
<1> QED
  BY <1>1, <1>4 DEF At, Off, Slots

LEMMA SlotOfNumber ==
  ASSUME NEW x \in Nat
  PROVE  x % Cap \in Slots
BY Sizes DEF Slots

\* The k slots from s on: those less than k away from it.
LEMMA PassedSlots ==
  ASSUME NEW s \in Slots, NEW k \in Nat
  PROVE  {(s + d) % Cap : d \in 0 .. k - 1} = {i \in Slots : Off(s, i) < k}
<1>1. Cap \in Nat /\ Cap > 1 /\ s \in Nat
  BY Sizes DEF Slots
<1>2. ASSUME NEW d \in 0 .. k - 1
      PROVE  (s + d) % Cap \in Slots /\ Off(s, (s + d) % Cap) < k
  <2>1. (s + d) % Cap \in Slots
    BY <1>1, SlotOfNumber
  <2>2. CASE d \in Slots
    <3>1. Off(s, (s + d) % Cap) = d
      BY <2>2, Places
    <3> QED
      BY <2>1, <3>1
  <2>3. CASE d \notin Slots
    <3>1. Off(s, (s + d) % Cap) \in Slots
      BY <2>1, Places
    <3>2. Off(s, (s + d) % Cap) < Cap /\ Cap <= d /\ d < k /\ Off(s, (s + d) % Cap) \in Int
      BY <1>1, <2>3, <3>1 DEF Slots
    <3> HIDE DEF Off
    <3> QED
      BY <1>1, <2>1, <3>2
  <2> QED
    BY <2>2, <2>3
<1>3. ASSUME NEW i \in Slots, Off(s, i) < k
      PROVE  \E d \in 0 .. k - 1 : (s + d) % Cap = i
  <2>1. Off(s, i) \in Slots /\ (s + Off(s, i)) % Cap = i
    BY Places
  <2>2. Off(s, i) \in 0 .. k - 1
    BY <1>1, <1>3, <2>1 DEF Slots
  <2> QED
    BY <2>1, <2>2
<1> QED
  BY <1>2, <1>3

LEMMA LeastNumber ==
  ASSUME NEW T, T \subseteq Nat, T # {}
  PROVE  \E n \in T : \A m \in T : n <= m
<1> DEFINE R == OpToRel(<, Nat)
<1>1. IsWellFoundedOn(R, Nat)
  BY NatLessThanWellFounded
<1> HIDE DEF R
<1>2. PICK n \in T : \A m \in T : ~ (<<m, n>> \in R)
  BY <1>1, WFMin
<1>3. \A m \in T : ~(m < n)
  <2> SUFFICES ASSUME NEW m \in T, m < n PROVE FALSE
    OBVIOUS
  <2>1. <<m, n>> \in Nat \X Nat /\ <<m, n>>[1] = m /\ <<m, n>>[2] = n
    OBVIOUS
  <2>2. <<m, n>> \in R
    BY <2>1 DEF R, OpToRel
  <2> QED
    BY <1>2, <2>2
<1> QED
  BY <1>3

LEMMA MaxExists ==
  ASSUME NEW n \in Nat, NEW S, S \subseteq 0 .. n, S # {}
  PROVE  Max(S) \in S /\ \A y \in S : Max(S) >= y
<1> DEFINE Left == {n - x : x \in S}
<1>1. Left \subseteq Nat /\ Left # {}
  OBVIOUS
<1>2. PICK l \in Left : \A m \in Left : l <= m
  <2> HIDE DEF Left
  <2> QED
    BY <1>1, LeastNumber
<1>3. PICK x \in S : l = n - x
  BY <1>2
<1>4. \A y \in S : n - y \in Left
  OBVIOUS
<1>5. \A y \in S : x >= y
  BY <1>2, <1>3, <1>4
<1>6. \E z \in S : \A y \in S : z >= y
  BY <1>5
<1> QED
  BY <1>6 DEF Max

-----------------------------------------------------------------------------
(* What the steps of the ring do. *)

LEMMA FilledFinite ==
  ASSUME NEW b
  PROVE  IsFiniteSet(Filled(b)) /\ Cardinality(Filled(b)) \in 0 .. Cap
<1>1. IsFiniteSet(Slots) /\ Cardinality(Slots) = Cap
  <2>1. 0 \in Int /\ Cap - 1 \in Int /\ ~(0 > Cap - 1) /\ Cap - 1 - 0 + 1 = Cap
    BY Sizes
  <2> QED
    BY <2>1, FS_Interval DEF Slots
<1>2. Filled(b) \in SUBSET Slots
  BY DEF Filled
<1>3. IsFiniteSet(Filled(b)) /\ Cardinality(Filled(b)) <= Cap
  BY <1>1, <1>2, FS_Subset
<1> QED
  BY <1>3, FS_CardinalityType, Sizes

LEMMA SomeFilled ==
  ASSUME NEW q, NEW n, RingOK(q, n), q.size > 0
  PROVE  \E i \in Slots : q.buf[i] # Empty
<1>1. Filled(q.buf) # {}
  BY FS_EmptySet DEF RingOK
<1> QED
  BY <1>1 DEF Filled

\* A slot that is filled holds a packet that was sent.
LEMMA FilledIsSent ==
  ASSUME NEW q, NEW n \in Nat, RingOK(q, n), NEW i \in Slots, q.buf[i] # Empty
  PROVE  q.expected + Off(q.start, i) + 1 <= n
<1>1. q.expected \in Nat /\ q.start \in Slots /\ q.buf[i] = q.expected + Off(q.start, i) /\ q.buf[i] < n
  BY DEF RingOK, RingTyped, SlotsOK
<1>2. Off(q.start, i) \in Nat
  <2>1. Off(q.start, i) \in Slots
    BY <1>1, Places
  <2> QED
    BY <2>1, Sizes DEF Slots
<1> HIDE DEF Off
<1> QED
  BY <1>1, <1>2

\* Past the last filled slot the ring is empty, and its start at its end.
LEMMA PassToEnd ==
  ASSUME NEW s \in Slots, NEW l \in Slots
  PROVE  (s + (Off(s, l) + 1)) % Cap = At(l, 1)
<1> DEFINE k == Off(s, l) + 1
           x == s + k
<1>1. Cap \in Nat /\ Cap > 1 /\ s \in Int /\ l \in Int /\ 0 <= s /\ s < Cap /\ 0 <= l /\ l < Cap
  BY Sizes DEF Slots
<1>2. CASE l >= s
  <2>1. x = l + 1
    BY <1>1, <1>2 DEF Off
  <2>2. CASE l + 1 < Cap
    <3>1. (l + 1) % Cap = l + 1
      BY <1>1, <2>2
    <3> QED
      BY <1>1, <2>1, <2>2, <3>1 DEF At
  <2>3. CASE l + 1 = Cap
    <3>1. Cap % Cap = 0
      BY <1>1
    <3> QED
      BY <1>1, <2>1, <2>3, <3>1 DEF At
  <2> QED
    BY <1>1, <2>2, <2>3
<1>3. CASE l < s
  <2>1. x = Cap + (l + 1) /\ l + 1 < Cap
    BY <1>1, <1>3 DEF Off
  <2>2. (Cap + (l + 1)) % Cap = l + 1
    <3> DEFINE y == l + 1
    <3>1. y \in Nat /\ y < Cap
      BY <1>1, <2>1
    <3> HIDE DEF y
    <3>2. (Cap + y) % Cap = y
      BY <1>1, <3>1
    <3> QED
      BY <3>2 DEF y
  <2> QED
    BY <1>1, <2>1, <2>2 DEF At
<1> QED
  BY <1>1, <1>2, <1>3

\* Passing k slots, none beyond the last filled one: the ring stays in order
\* and hands out what it passes over.
LEMMA PassKeeps ==
  ASSUME NoWrap, NEW q, NEW n \in Nat, n <= MaxSent, RingOK(q, n),
         NEW k \in Nat, Within(q, k)
  PROVE  RingOK(Pass(q, k), n) /\ Advances(q, Pass(q, k)) /\ Pass(q, k).expected = q.expected + k
<1> DEFINE slots == {i \in Slots : Off(q.start, i) < k}
           r == Pass(q, k)
<1>1. /\ q.expected \in Nat /\ q.passed \in Nat /\ q.start \in Slots /\ q.end \in Slots
      /\ q.buf \in [Slots -> Nat \cup {Empty}] /\ q.expected = First + q.passed
      /\ q.size = Cardinality(Filled(q.buf)) /\ q.expected <= n
  BY DEF RingOK, RingTyped
<1>0. q.expected + k <= n
  <2>1. CASE k = 0
    BY <1>1, <2>1
  <2>2. CASE k > 0
    <3>1. PICK i \in Slots : q.buf[i] # Empty /\ k <= Off(q.start, i) + 1
      BY <2>2 DEF Within
    <3>2. q.expected + Off(q.start, i) + 1 <= n
      BY <3>1, FilledIsSent
    <3>3. Off(q.start, i) \in Slots
      BY <1>1, Places
    <3>4. Off(q.start, i) \in Nat
      BY <3>3, Sizes DEF Slots
    <3> HIDE DEF Off
    <3> QED
      BY <1>1, <3>1, <3>2, <3>4
  <2> QED
    BY <2>1, <2>2
<1>2. slots = {(q.start + d) % Cap : d \in 0 .. k - 1}
  BY <1>1, PassedSlots
<1> DEFINE kept == [i \in Slots |-> IF i \in slots THEN Empty ELSE q.buf[i]]
<1> HIDE DEF slots
<1>3. /\ r.expected = (q.expected + k) % (MaxSeq + 1) /\ r.start = (q.start + k) % Cap
      /\ r.end = q.end /\ r.size = q.size - Cardinality(slots \cap Filled(q.buf))
      /\ r.buf = kept /\ r.passed = q.passed + k
      /\ r.given = q.given \cup {q.buf[i] : i \in slots \cap Filled(q.buf)}
  BY <1>2 DEF Pass, Ring
<1> HIDE DEF r
<1>4. r.expected = q.expected + k
  <2> DEFINE x == q.expected + k
  <2>1. x \in 0 .. MaxSeq /\ MaxSeq \in Nat
    BY <1>0, <1>1, Sizes DEF NoWrap
  <2>2. x % (MaxSeq + 1) = x
    <3> HIDE DEF x
    <3> QED
      BY <2>1
  <2> QED
    BY <1>3, <2>2
<1>5. r.start \in Slots
  <2>1. q.start + k \in Nat
    BY <1>1, Sizes DEF Slots
  <2> QED
    BY <1>3, <2>1, SlotOfNumber
<1>6. kept \in [Slots -> Nat \cup {Empty}]
  BY <1>1
<1>7. Filled(kept) = Filled(q.buf) \ slots
  BY DEF Filled, Empty
<1>8. \A i \in Filled(q.buf) : i \in Slots /\ q.buf[i] \in Nat /\ q.buf[i] # Empty
                            /\ q.buf[i] = q.expected + Off(q.start, i) /\ q.buf[i] < n
  BY <1>1 DEF Filled, RingOK, SlotsOK
<1>9. \A i \in Slots : Off(q.start, i) \in Slots
  BY <1>1, Places
<1>10. \A i \in Filled(q.buf) : i \in slots <=> q.buf[i] < r.expected
  <2> SUFFICES ASSUME NEW i \in Filled(q.buf)
               PROVE  Off(q.start, i) < k <=> q.expected + Off(q.start, i) < q.expected + k
    BY <1>4, <1>8 DEF slots
  <2>1. Off(q.start, i) \in Nat
    BY <1>8, <1>9, Sizes DEF Slots
  <2> HIDE DEF Off
  <2> QED
    BY <1>1, <2>1
<1>11. ASSUME NEW i \in Slots, r.buf[i] # Empty
       PROVE  /\ r.buf[i] = r.expected + Off(r.start, i) /\ r.buf[i] < n
              /\ Off(r.start, i) = Off(q.start, i) - k
  <2>1. i \in Filled(q.buf) /\ i \notin slots /\ r.buf[i] = q.buf[i]
    BY <1>3, <1>11 DEF Filled
  <2>2. q.buf[i] = q.expected + Off(q.start, i) /\ q.buf[i] < n
    BY <1>8, <2>1
  <2>3. Off(q.start, i) >= k /\ k \in Slots
    BY <1>9, <2>1, Sizes DEF slots, Slots
  <2>4. r.start = At(q.start, k)
    <3>1. (q.start + k) % Cap = At(q.start, k)
      BY <1>1, <2>3, Places
    <3> QED
      BY <1>3, <3>1
  <2>5. Off(r.start, i) = Off(q.start, i) - k
    <3>1. Cap \in Nat /\ q.start \in 0 .. Cap - 1 /\ i \in 0 .. Cap - 1 /\ k \in 0 .. Cap - 1
      BY <1>1, <2>3, Sizes DEF Slots
    <3> QED
      BY <2>3, <2>4, <3>1 DEF Off, At
  <2>6. Off(q.start, i) \in Int
    BY <1>9, Sizes DEF Slots
  <2> HIDE DEF Off
  <2>7. r.buf[i] = r.expected + Off(r.start, i)
    BY <1>1, <1>4, <2>1, <2>2, <2>5, <2>6
  <2> QED
    BY <2>1, <2>2, <2>5, <2>7
<1>12. r.size = Cardinality(Filled(r.buf))
  <2>1. slots \cap Filled(q.buf) = Filled(q.buf) \cap slots
    OBVIOUS
  <2>2. Cardinality(Filled(q.buf) \ slots) = Cardinality(Filled(q.buf)) - Cardinality(Filled(q.buf) \cap slots)
    BY FilledFinite, FS_Difference
  <2> QED
    BY <1>1, <1>3, <1>7, <2>1, <2>2
<1>20. EndOK(r)
  <2>1. Filled(r.buf) = Filled(q.buf) \ slots
    BY <1>3, <1>7
  <2>2. CASE Filled(q.buf) = {}
    <3>1. k = 0
      BY <2>2 DEF Within, Filled
    <3>2. r.start = q.start
      <4> DEFINE st == q.start
      <4>0. st \in Slots
        BY <1>1
      <4> HIDE DEF st
      <4>1. 0 \in Slots /\ st \in Nat /\ Cap \in Nat /\ st < Cap
        BY <4>0, Sizes DEF Slots
      <4>2. (st + 0) % Cap = st
        BY <4>1
      <4> QED
        BY <1>3, <3>1, <4>2 DEF st
    <3>3. q.start = q.end
      BY <2>2 DEF RingOK, EndOK
    <3> QED
      BY <1>3, <2>1, <2>2, <3>2, <3>3 DEF EndOK
  <2>3. CASE Filled(q.buf) # {}
    <3>1. PICK l \in Slots : IsLast(q, l)
      BY <2>3 DEF RingOK, EndOK
    <3>2. \A i \in Slots : Off(q.start, i) \in Nat
      BY <1>9, Sizes DEF Slots
    <3>3. k <= Off(q.start, l) + 1
      <4>1. CASE k = 0
        BY <3>2, <4>1
      <4>2. CASE k > 0
        <5>1. PICK i \in Slots : q.buf[i] # Empty /\ k <= Off(q.start, i) + 1
          BY <4>2 DEF Within
        <5>2. Off(q.start, i) <= Off(q.start, l)
          BY <3>1, <5>1 DEF IsLast
        <5> HIDE DEF Off
        <5> QED
          BY <3>2, <5>1, <5>2
      <4> QED
        BY <4>1, <4>2
    <3>4. CASE Off(q.start, l) >= k
      <4>1. l \in Filled(q.buf) /\ l \notin slots
        BY <3>1, <3>2, <3>4 DEF slots, Filled, IsLast
      <4>2. r.buf[l] # Empty /\ Filled(r.buf) # {}
        BY <2>1, <4>1 DEF Filled
      <4>3. ASSUME NEW i \in Slots, r.buf[i] # Empty
            PROVE  Off(r.start, i) <= Off(r.start, l)
        <5>1. q.buf[i] # Empty
          BY <1>3, <4>3
        <5>2. Off(q.start, i) <= Off(q.start, l)
          BY <3>1, <5>1 DEF IsLast
        <5>3. Off(r.start, i) = Off(q.start, i) - k /\ Off(r.start, l) = Off(q.start, l) - k
          BY <1>11, <4>2, <4>3
        <5> HIDE DEF Off
        <5> QED
          BY <3>2, <5>2, <5>3
      <4> QED
        BY <1>3, <3>1, <4>2, <4>3 DEF EndOK, IsLast
    <3>5. CASE ~(Off(q.start, l) >= k)
      <4>1. k = Off(q.start, l) + 1
        BY <3>2, <3>3, <3>5
      <4>2. \A i \in Filled(q.buf) : i \in slots
        <5> SUFFICES ASSUME NEW i \in Filled(q.buf) PROVE Off(q.start, i) < k
          BY <1>8 DEF slots
        <5>1. i \in Slots /\ Off(q.start, i) <= Off(q.start, l)
          BY <1>8, <3>1 DEF IsLast
        <5> HIDE DEF Off
        <5> QED
          BY <3>2, <4>1, <5>1
      <4>3. Filled(r.buf) = {}
        BY <2>1, <4>2
      <4>4. r.start = r.end
        BY <1>1, <1>3, <3>1, <4>1, PassToEnd DEF IsLast
      <4> QED
        BY <4>3, <4>4 DEF EndOK
    <3> QED
      BY <3>4, <3>5
  <2> QED
    BY <2>2, <2>3
<1>13. RingOK(r, n)
  <2>1. r.passed \in Nat /\ r.expected \in Nat /\ r.expected = First + r.passed /\ r.expected <= n
    BY <1>0, <1>1, <1>3, <1>4, Sizes
  <2>2. RingTyped(r)
    BY <1>1, <1>3, <1>5, <1>6, <2>1 DEF RingTyped
  <2> QED
    BY <1>11, <1>12, <1>20, <2>1, <2>2 DEF RingOK, SlotsOK
<1>14. r.given = q.given \cup {p \in Held(q) : p < r.expected}
  BY <1>3, <1>10 DEF Held
<1>15. \A i \in Filled(kept) : kept[i] = q.buf[i]
  BY <1>7 DEF Filled
<1>16. Held(r) = {q.buf[i] : i \in Filled(q.buf) \ slots}
  BY <1>3, <1>7, <1>15 DEF Held
<1>17. \A i \in Filled(q.buf) : q.buf[i] >= r.expected <=> i \notin slots
  BY <1>1, <1>4, <1>8, <1>10
<1>18. Held(r) = {p \in Held(q) : p >= r.expected}
  BY <1>16, <1>17 DEF Held
<1>19. r.expected >= q.expected
  BY <1>1, <1>4
<1> QED
  BY <1>4, <1>13, <1>14, <1>18, <1>19 DEF Advances, r

\* Doing nothing is advancing, when nothing that is held is behind.
LEMMA HeldIsAhead ==
  ASSUME NEW q, NEW n, RingOK(q, n)
  PROVE  \A p \in Held(q) : p \in Nat /\ p >= q.expected /\ p < n
<1> SUFFICES ASSUME NEW i \in Slots, q.buf[i] # Empty
             PROVE  q.buf[i] \in Nat /\ q.buf[i] >= q.expected /\ q.buf[i] < n
  BY DEF Held, Filled
<1>1. q.expected \in Nat /\ q.start \in Slots /\ q.buf[i] = q.expected + Off(q.start, i) /\ q.buf[i] < n
  BY DEF RingOK, RingTyped, SlotsOK
<1>2. Off(q.start, i) \in Nat
  <2>1. Off(q.start, i) \in Slots
    BY <1>1, Places
  <2> QED
    BY <2>1, Sizes DEF Slots
<1> HIDE DEF Off
<1> QED
  BY <1>1, <1>2

LEMMA StayAdvances ==
  ASSUME NEW q, NEW n, RingOK(q, n)
  PROVE  Held(q) = {p \in Held(q) : p >= q.expected} /\ {p \in Held(q) : p < q.expected} = {}
<1>1. \A p \in Held(q) : p \in Nat /\ p >= q.expected
  BY HeldIsAhead
<1>2. q.expected \in Nat
  BY DEF RingOK, RingTyped
<1> QED
  BY <1>1, <1>2

LEMMA MakeRoomKeeps ==
  ASSUME NoWrap, NEW q, NEW n \in Nat, n <= MaxSent, RingOK(q, n), q.given = {}
  PROVE  /\ RingOK(MakeRoom(q), n) /\ Advances(q, MakeRoom(q))
         /\ MakeRoom(q).size > 0 => MakeRoom(q).start # MakeRoom(q).end
<1>1. CASE q.size > 0 /\ q.start = q.end
  <2>1. PICK i \in Slots : q.buf[i] # Empty
    BY <1>1, SomeFilled
  <2>2. q.start \in Slots
    BY DEF RingOK, RingTyped
  <2>3. Off(q.start, i) \in Nat
    <3>1. Off(q.start, i) \in Slots
      BY <2>2, Places
    <3> QED
      BY <3>1, Sizes DEF Slots
  <2>4. Within(q, 1)
    BY <2>1, <2>3 DEF Within
  <2>5. RingOK(Pass(q, 1), n) /\ Advances(q, Pass(q, 1))
    BY <2>4, PassKeeps
  <2>6. Pass(q, 1).start # Pass(q, 1).end
    <3>1. Pass(q, 1).start = (q.start + 1) % Cap /\ Pass(q, 1).end = q.start
      BY <1>1 DEF Pass, Ring
    <3>2. 1 \in Slots /\ Cap \in Nat /\ Cap > 1 /\ q.start \in Nat
      BY <2>2, Sizes DEF Slots
    <3>3. (q.start + 1) % Cap = At(q.start, 1)
      BY <2>2, <3>2, Places
    <3> QED
      BY <3>1, <3>2, <3>3 DEF At
  <2> QED
    BY <1>1, <2>5, <2>6 DEF MakeRoom
<1>2. CASE ~(q.size > 0 /\ q.start = q.end)
  <2>1. MakeRoom(q) = q
    BY <1>2 DEF MakeRoom
  <2>2. q.expected >= q.expected
    BY DEF RingOK, RingTyped
  <2> QED
    BY <1>2, <2>1, <2>2, StayAdvances DEF Advances
<1> QED
  BY <1>1, <1>2

\* What taking packet p in may do: hold it, if the ring is not past it.
Takes(q, r, p) ==
    /\ r.expected = q.expected /\ r.given = q.given
    /\ \E T \in SUBSET {p} : Held(r) = Held(q) \cup T /\ (T # {} => p >= q.expected)

LEMMA InsertKeeps ==
  ASSUME NEW q, NEW n \in Nat, RingOK(q, n), NEW p \in Nat, p < n,
         NEW d \in Slots, p = q.expected + d, q.size > 0 => q.start # q.end
  PROVE  RingOK(Insert(q, p, d), n) /\ Takes(q, Insert(q, p, d), p)
<1> DEFINE pos == (q.start + d) % Cap
           r == Insert(q, p, d)
<1>1. /\ q.expected \in Nat /\ q.passed \in Nat /\ q.start \in Slots /\ q.end \in Slots
      /\ q.buf \in [Slots -> Nat \cup {Empty}] /\ q.expected = First + q.passed
      /\ q.expected <= n /\ q.size = Cardinality(Filled(q.buf))
  BY DEF RingOK, RingTyped
<1>2. pos \in Slots /\ Off(q.start, pos) = d
  BY <1>1, Places
<1>3. CASE q.buf[pos] # Empty
  <2>1. r = q
    BY <1>3 DEF Insert
  <2>2. Held(q) = Held(q) \cup {} /\ {} \in SUBSET {p}
    OBVIOUS
  <2> QED
    BY <2>1, <2>2 DEF Takes, r
<1>4. CASE q.buf[pos] = Empty
  <2> DEFINE full == [q.buf EXCEPT ![pos] = p]
  <2> HIDE DEF pos
  <2>1. /\ r.expected = q.expected /\ r.given = q.given /\ r.passed = q.passed
        /\ r.start = q.start /\ r.size = q.size + 1 /\ r.buf = full
        /\ r.end = IF IF q.start <= q.end THEN pos >= q.end \/ pos < q.start
                                          ELSE q.end <= pos /\ pos < q.start
                     THEN (pos + 1) % Cap ELSE q.end
    BY <1>4 DEF Insert, pos
  <2> HIDE DEF r
  <2>2. r.end \in Slots
    <3>1. pos + 1 \in Nat
      BY <1>2, Sizes DEF Slots
    <3> QED
      BY <1>1, <2>1, <3>1, SlotOfNumber
  <2>3. full \in [Slots -> Nat \cup {Empty}] /\ full[pos] = p
        /\ \A i \in Slots \ {pos} : full[i] = q.buf[i]
    BY <1>1, <1>2
  <2> HIDE DEF full
  <2>4. p # Empty
    BY DEF Empty
  <2>5. Filled(full) = Filled(q.buf) \cup {pos} /\ pos \notin Filled(q.buf)
    BY <1>2, <1>4, <2>3, <2>4 DEF Filled
  <2>6. r.size = Cardinality(Filled(r.buf))
    <3>1. Cardinality(Filled(q.buf) \cup {pos}) = Cardinality(Filled(q.buf)) + 1
      BY <2>5, FilledFinite, FS_AddElement
    <3> QED
      BY <1>1, <2>1, <2>5, <3>1
  <2>7. ASSUME NEW i \in Slots, r.buf[i] # Empty
        PROVE  r.buf[i] = r.expected + Off(r.start, i) /\ r.buf[i] < n
    <3>1. CASE i = pos
      BY <1>2, <2>1, <2>3, <3>1
    <3>2. CASE i # pos
      <4>1. r.buf[i] = q.buf[i] /\ q.buf[i] # Empty
        BY <2>1, <2>3, <2>7, <3>2
      <4> QED
        BY <2>1, <4>1 DEF RingOK, SlotsOK
    <3> QED
      BY <3>1, <3>2
  <2>10. Cap \in Nat /\ Cap > 1 /\ pos \in 0 .. Cap - 1 /\ q.start \in 0 .. Cap - 1
        /\ q.end \in 0 .. Cap - 1
    BY <1>1, <1>2, Sizes DEF Slots
  <2>11. (pos + 1) % Cap = At(pos, 1)
    <3>1. 1 \in Slots
      BY <2>10 DEF Slots
    <3> QED
      BY <1>2, <3>1, Places
  <2>12. full[pos] # Empty /\ \A i \in Slots : full[i] # Empty => i = pos \/ q.buf[i] # Empty
    BY <2>3, <2>4
  <2>13. ASSUME Filled(q.buf) = {} PROVE EndOK(r)
    <3>1. q.start = q.end
      BY <2>13 DEF RingOK, EndOK
    <3>2. r.end = At(pos, 1)
      BY <2>1, <2>10, <2>11, <3>1
    <3>3. \A i \in Slots : full[i] # Empty => i = pos
      BY <2>12, <2>13 DEF Filled
    <3>4. IsLast(r, pos)
      <4>1. Off(r.start, pos) \in Int
        BY <2>1, <2>10 DEF Off
      <4> QED
        BY <2>1, <2>12, <3>2, <3>3, <4>1 DEF IsLast
    <3> QED
      BY <1>2, <2>1, <2>5, <3>4 DEF EndOK
  <2>14. ASSUME Filled(q.buf) # {} PROVE EndOK(r)
    <3>1. PICK l \in Slots : IsLast(q, l)
      BY <2>14 DEF RingOK, EndOK
    <3>2. q.start # q.end
      <4>1. q.size # 0
        BY <1>1, <2>14, FilledFinite, FS_EmptySet
      <4> QED
        BY <1>1, <4>1, FilledFinite, Sizes
    <3>3. l \in 0 .. Cap - 1 /\ q.end = At(l, 1) /\ l # pos /\ q.buf[l] # Empty
          /\ full[l] # Empty
      BY <1>4, <2>3, <3>1, Sizes DEF IsLast, Slots, pos
    <3>4. (IF q.start <= q.end THEN pos >= q.end \/ pos < q.start
                              ELSE q.end <= pos /\ pos < q.start)
            <=> Off(q.start, l) < Off(q.start, pos)
      BY <2>10, <3>2, <3>3 DEF At, Off
    <3>5. \A i \in Slots : Off(q.start, i) \in Int
      BY <2>10 DEF Off, Slots
    <3>6. CASE Off(q.start, l) < Off(q.start, pos)
      <4>1. r.end = At(pos, 1)
        BY <2>1, <2>11, <3>4, <3>6
      <4>2. ASSUME NEW i \in Slots, full[i] # Empty PROVE Off(q.start, i) <= Off(q.start, pos)
        <5>1. i = pos \/ Off(q.start, i) <= Off(q.start, l)
          BY <2>12, <3>1, <4>2 DEF IsLast
        <5> HIDE DEF Off
        <5> QED
          BY <1>2, <3>5, <3>6, <5>1
      <4>3. IsLast(r, pos)
        BY <2>1, <2>12, <4>1, <4>2 DEF IsLast
      <4> QED
        BY <1>2, <2>1, <2>5, <4>3 DEF EndOK
    <3>7. CASE ~(Off(q.start, l) < Off(q.start, pos))
      <4>1. r.end = q.end
        BY <2>1, <3>4, <3>7
      <4>2. ASSUME NEW i \in Slots, full[i] # Empty PROVE Off(q.start, i) <= Off(q.start, l)
        <5>1. i = pos \/ Off(q.start, i) <= Off(q.start, l)
          BY <2>12, <3>1, <4>2 DEF IsLast
        <5> HIDE DEF Off
        <5> QED
          BY <1>2, <3>5, <3>7, <5>1
      <4>3. IsLast(r, l)
        BY <2>1, <3>3, <4>1, <4>2 DEF IsLast
      <4> QED
        BY <2>1, <2>5, <4>3 DEF EndOK
    <3> QED
      BY <3>6, <3>7
  <2>8. RingOK(r, n)
    <3>1. RingTyped(r)
      BY <1>1, <2>1, <2>2, <2>3 DEF RingTyped
    <3> QED
      BY <1>1, <2>1, <2>6, <2>7, <2>13, <2>14, <3>1 DEF RingOK, SlotsOK
  <2>9. Held(r) = Held(q) \cup {p}
    <3>1. \A i \in Filled(q.buf) : full[i] = q.buf[i]
      BY <2>3, <2>5 DEF Filled
    <3> QED
      BY <2>1, <2>3, <2>5, <3>1 DEF Held
  <2>15. p >= q.expected
    <3>1. d \in Nat
      BY Sizes DEF Slots
    <3> QED
      BY <1>1, <3>1
  <2> QED
    BY <2>1, <2>8, <2>9, <2>15 DEF Takes, r
<1> QED
  BY <1>3, <1>4

\* Without a wrap the distance of a packet is how far it is ahead.
LEMMA DistanceAhead ==
  ASSUME NoWrap, NEW q, NEW n \in Nat, n <= MaxSent, RingOK(q, n), NEW p \in Nat, First <= p, p < n
  PROVE  \A d \in Distance(q, p) : d \in Slots /\ p = q.expected + d
<1>1. SeqOf(p) = p
  <2>1. p \in 0 .. MaxSeq /\ MaxSeq \in Nat
    BY Sizes DEF NoWrap
  <2> QED
    BY <2>1 DEF SeqOf
<1>2. q.expected \in Nat /\ q.expected <= n
  BY DEF RingOK, RingTyped
<1>3. q.expected - p <= MaxSeq - Cap
  <2>1. q.expected <= MaxSent
    BY <1>2, Sizes
  <2>2. MaxSent - First <= MaxSeq - Cap
    BY DEF NoWrap
  <2> QED
    BY <1>2, <2>1, <2>2, Sizes
<1> SUFFICES ASSUME NEW d \in Slots, \/ p - q.expected >= 0 /\ p - q.expected < Half /\ d = p - q.expected
                                     \/ /\ p - q.expected < 0 /\ -(p - q.expected) >= Half
                                        /\ d = MaxSeq + (p - q.expected)
             PROVE  p = q.expected + d
  BY <1>1 DEF Distance
<1> QED
  BY <1>2, <1>3, Sizes DEF Slots

LEMMA TryInsertKeeps ==
  ASSUME NoWrap, NEW q, NEW n \in Nat, n <= MaxSent, RingOK(q, n), NEW p \in Nat, First <= p, p < n,
         q.size > 0 => q.start # q.end
  PROVE  RingOK(TryInsert(q, p), n) /\ Takes(q, TryInsert(q, p), p)
<1>1. CASE Distance(q, p) = {}
  <2>1. TryInsert(q, p) = q
    BY <1>1 DEF TryInsert
  <2>2. Held(q) = Held(q) \cup {} /\ {} \in SUBSET {p}
    OBVIOUS
  <2> QED
    BY <2>1, <2>2 DEF Takes
<1>2. CASE Distance(q, p) # {}
  <2> DEFINE d == CHOOSE e \in Distance(q, p) : TRUE
  <2>1. d \in Distance(q, p) /\ TryInsert(q, p) = Insert(q, p, d)
    BY <1>2 DEF TryInsert
  <2> HIDE DEF d
  <2>2. d \in Slots /\ p = q.expected + d
    BY <2>1, DistanceAhead
  <2> QED
    BY <2>1, <2>2, InsertKeeps
<1> QED
  BY <1>1, <1>2

\* A filled slot at distance d holds a packet that was sent.
LEMMA FilledAt ==
  ASSUME NEW q, NEW n \in Nat, RingOK(q, n), NEW d \in Slots, q.buf[(q.start + d) % Cap] # Empty
  PROVE  q.expected + d + 1 <= n /\ Within(q, d + 1)
<1>1. q.expected \in Nat /\ q.start \in Slots
  BY DEF RingOK, RingTyped
<1> DEFINE i == (q.start + d) % Cap
<1>2. i \in Slots /\ Off(q.start, i) = d
  BY <1>1, Places
<1> HIDE DEF i
<1>3. q.buf[i] # Empty
  BY DEF i
<1>4. q.buf[i] = q.expected + d /\ q.buf[i] < n
  BY <1>2, <1>3 DEF RingOK, SlotsOK
<1>5. d \in Nat
  BY Sizes DEF Slots
<1>6. Within(q, d + 1)
  BY <1>2, <1>3, <1>5 DEF Within
<1> QED
  BY <1>1, <1>4, <1>5, <1>6

LEMMA PopReadyKeeps ==
  ASSUME NoWrap, NEW q, NEW n \in Nat, n <= MaxSent, RingOK(q, n)
  PROVE  RingOK(PopReady(q), n) /\ Advances(q, PopReady(q))
<1> DEFINE runs == {k \in 0 .. Cap : \A d \in 0 .. k - 1 : q.buf[(q.start + d) % Cap] # Empty}
<1>1. Cap \in Nat /\ Cap > 1 /\ q.expected \in Nat /\ q.expected <= n
  BY Sizes DEF RingOK, RingTyped
<1>2. 0 \in runs /\ runs \subseteq 0 .. Cap
  BY <1>1
<1>3. Ready(q) \in runs
  <2> HIDE DEF runs
  <2>1. Max(runs) \in runs
    BY <1>1, <1>2, MaxExists
  <2> QED
    BY <2>1 DEF Ready, runs
<1>4. Ready(q) \in Nat
  BY <1>1, <1>3
<1>5. Within(q, Ready(q))
  <2>1. CASE Ready(q) = 0
    BY <2>1 DEF Within
  <2>2. CASE Ready(q) # 0
    <3> DEFINE d == Ready(q) - 1
    <3>1. d \in 0 .. Ready(q) - 1 /\ d \in 0 .. Cap - 1
      BY <1>1, <1>3, <1>4, <2>2
    <3>2. q.buf[(q.start + d) % Cap] # Empty
      BY <1>3, <3>1
    <3>3. Within(q, d + 1)
      <4> HIDE DEF d
      <4> QED
        BY <3>1, <3>2, FilledAt DEF Slots
    <3> QED
      BY <1>1, <1>4, <3>3
  <2> QED
    BY <2>1, <2>2
<1> QED
  BY <1>4, <1>5, PassKeeps DEF PopReady

LEMMA SpanIsWithin ==
  ASSUME NEW q, NEW n \in Nat, RingOK(q, n)
  PROVE  Span(q) \in Nat /\ Within(q, Span(q))
<1>1. q.expected \in Nat /\ q.expected <= n /\ q.start \in Slots
  BY DEF RingOK, RingTyped
<1>2. CASE q.size <= 0
  BY <1>2 DEF Span, Within
<1>3. CASE ~(q.size <= 0)
  <2> DEFINE places == {d \in Slots : q.buf[(q.start + d) % Cap] # Empty}
  <2>1. q.size > 0
    <3>1. q.size \in Nat
      BY FilledFinite, Sizes DEF RingOK
    <3> QED
      BY <1>3, <3>1
  <2>2. PICK i \in Slots : q.buf[i] # Empty
    BY <2>1, SomeFilled
  <2>3. Off(q.start, i) \in places
    <3>1. Off(q.start, i) \in Slots /\ (q.start + Off(q.start, i)) % Cap = i
      BY <1>1, Places
    <3> QED
      BY <2>2, <3>1
  <2>4. places \subseteq 0 .. Cap - 1 /\ Cap - 1 \in Nat
    BY Sizes DEF Slots
  <2>5. Max(places) \in places
    <3> HIDE DEF places
    <3> QED
      BY <2>3, <2>4, MaxExists
  <2>6. Span(q) = 1 + Max(places)
    BY <1>3 DEF Span
  <2>7. Max(places) \in Slots /\ q.buf[(q.start + Max(places)) % Cap] # Empty
    BY <2>5
  <2> HIDE DEF places
  <2>8. Max(places) \in Nat
    BY <2>7, Sizes DEF Slots
  <2>9. Within(q, Max(places) + 1)
    BY <2>7, FilledAt
  <2>10. Span(q) = Max(places) + 1
    BY <2>6, <2>8
  <2> QED
    BY <2>8, <2>9, <2>10
<1> QED
  BY <1>2, <1>3

LEMMA DropLateKeeps ==
  ASSUME NoWrap, NEW q, NEW n \in Nat, n <= MaxSent, RingOK(q, n), NEW r \in DropLate(q)
  PROVE  RingOK(r, n) /\ Advances(q, r)
<1>1. q.expected \in Nat /\ q.expected <= n
  BY DEF RingOK, RingTyped
<1>2. CASE TooLateDrop
  <2>1. PICK k \in 0 .. Span(q) : r = Pass(q, k)
    BY <1>2 DEF DropLate
  <2>2. Span(q) \in Nat /\ Within(q, Span(q))
    BY SpanIsWithin
  <2>3. k \in Nat /\ Within(q, k)
    <3>1. k \in Nat /\ k <= Span(q)
      BY <2>2
    <3>2. \A i \in Slots : Off(q.start, i) \in Int
      <4>1. q.start \in Slots
        BY DEF RingOK, RingTyped
      <4> QED
        BY <4>1, Sizes DEF Off, Slots
    <3> HIDE DEF Off
    <3> QED
      BY <2>2, <3>1, <3>2 DEF Within
  <2> QED
    BY <2>1, <2>3, PassKeeps
<1>3. CASE ~TooLateDrop
  <2>1. r = q
    BY <1>3 DEF DropLate
  <2>2. r.given = q.given \cup {}
    BY <2>1
  <2> QED
    BY <1>1, <2>1, <2>2, StayAdvances DEF Advances
<1> QED
  BY <1>2, <1>3

\* What one call may do to the ring: take in the packets of T, one at most,
\* then advance.
Moves(q, r) ==
    \E T : /\ T \subseteq Nat
           /\ \A x \in T : x >= q.expected
           /\ \A x, y \in T : x = y
           /\ r.expected >= q.expected
           /\ r.given = {x \in Held(q) \cup T : x < r.expected}
           /\ Held(r) = {x \in Held(q) \cup T : x >= r.expected}

LEMMA AdvancesMoves ==
  ASSUME NEW q, NEW r, q.given = {}, Advances(q, r)
  PROVE  Moves(q, r)
<1>1. Held(q) \cup {} = Held(q)
  OBVIOUS
<1>2. r.given = {p \in Held(q) : p < r.expected}
  BY DEF Advances
<1>3. {} \subseteq Nat
  OBVIOUS
<1> QED
  BY <1>1, <1>2, <1>3 DEF Moves, Advances

\* Two advances are one.
LEMMA Splits ==
  ASSUME NEW H, \A x \in H : x \in Nat, NEW a \in Nat, NEW c \in Nat, c >= a,
         NEW G, G = {x \in H : x < a}, NEW K, K = {x \in H : x >= a},
         NEW g, g = G \cup {x \in K : x < c}
  PROVE  g = {x \in H : x < c}
<1>1. \A x \in H : x < c <=> (x < a \/ (x >= a /\ x < c))
  OBVIOUS
<1>2. \A x : x \in g <=> x \in G \/ (x \in K /\ x < c)
  OBVIOUS
<1>3. \A x : x \in g <=> x \in H /\ x < c
  BY <1>1, <1>2
<1> QED
  BY <1>3

LEMMA InputKeeps ==
  ASSUME NoWrap, NEW q, NEW n \in Nat, n <= MaxSent, RingOK(q, n), q.given = {},
         NEW p \in Nat, First <= p, p < n, NEW r \in DropLate(PopReady(TryInsert(MakeRoom(q), p)))
  PROVE  RingOK(r, n) /\ Moves(q, r)
<1> DEFINE a == MakeRoom(q)
           b == TryInsert(a, p)
           c == PopReady(b)
<1>1. RingOK(a, n) /\ Advances(q, a) /\ (a.size > 0 => a.start # a.end)
  BY MakeRoomKeeps
<1> HIDE DEF a
<1>2. RingOK(b, n) /\ Takes(a, b, p)
  BY <1>1, TryInsertKeeps
<1> HIDE DEF b
<1>3. RingOK(c, n) /\ Advances(b, c)
  BY <1>2, PopReadyKeeps
<1> HIDE DEF c
<1>4. RingOK(r, n) /\ Advances(c, r)
  <2>1. r \in DropLate(c)
    BY DEF c, b, a
  <2> QED
    BY <1>3, <2>1, DropLateKeeps
<1>5. PICK T \in SUBSET {p} : Held(b) = Held(a) \cup T /\ (T # {} => p >= a.expected)
  BY <1>2 DEF Takes
<1>6. \A x \in Held(q) \cup T : x \in Nat
  BY HeldIsAhead
<1>7. /\ q.expected \in Nat /\ a.expected \in Nat /\ b.expected = a.expected
      /\ c.expected \in Nat /\ r.expected \in Nat
      /\ a.expected >= q.expected /\ c.expected >= b.expected /\ r.expected >= c.expected
  BY <1>1, <1>2, <1>3, <1>4 DEF RingOK, RingTyped, Advances, Takes
<1>8. \A x \in T : x = p /\ x >= a.expected
  BY <1>5
<1>9. Held(b) = {x \in Held(q) \cup T : x >= a.expected}
  BY <1>1, <1>5, <1>6, <1>7, <1>8 DEF Advances
<1>10. Held(c) = {x \in Held(q) \cup T : x >= c.expected}
  BY <1>3, <1>6, <1>7, <1>9 DEF Advances
<1>11. Held(r) = {x \in Held(q) \cup T : x >= r.expected}
  BY <1>4, <1>6, <1>7, <1>10 DEF Advances
<1>12. b.given = {x \in Held(q) \cup T : x < a.expected}
  <2>1. b.given = {x \in Held(q) : x < a.expected}
    BY <1>1, <1>2 DEF Advances, Takes
  <2>2. \A x \in T : ~(x < a.expected)
    BY <1>6, <1>7, <1>8
  <2> QED
    BY <2>1, <2>2
<1>13. c.given = {x \in Held(q) \cup T : x < c.expected}
  <2>1. c.given = b.given \cup {x \in Held(b) : x < c.expected}
    BY <1>3 DEF Advances
  <2> QED
    BY <1>6, <1>7, <1>9, <1>12, <2>1, Splits
<1>14. r.given = {x \in Held(q) \cup T : x < r.expected}
  <2>1. r.given = c.given \cup {x \in Held(c) : x < r.expected}
    BY <1>4 DEF Advances
  <2> QED
    BY <1>6, <1>7, <1>10, <1>13, <2>1, Splits
<1>15. r.expected >= q.expected /\ (\A x \in T : x >= q.expected) /\ (\A x, y \in T : x = y)
  <2>1. r.expected >= q.expected
    BY <1>7
  <2>2. \A x \in T : x >= q.expected
    BY <1>6, <1>7, <1>8
  <2> QED
    BY <1>8, <2>1, <2>2
<1>16. T \subseteq Nat
  BY <1>6
<1> QED
  BY <1>4, <1>11, <1>14, <1>15, <1>16 DEF Moves

-----------------------------------------------------------------------------
(* The stream and its reports. *)

Here == Ring(expected, start, end, size, buf, given, passed)

\* What a NAK and a drop request name was sent.
Lost(list, n) == \A r \in list : r \in Nat \X Nat /\ First <= r[1] /\ r[1] < r[2] /\ r[2] < n
Asked(r, n) == r \in Nat \X Nat /\ First <= r[1] /\ r[1] <= r[2] /\ r[2] < n

SenderOK ==
    /\ sent \in Nat /\ sent <= MaxSent
    /\ oldest \in First .. sent /\ acked \in First .. oldest
    /\ losses \in 0 .. MaxLosses

UnderWay ==
    /\ \A p \in data : p \in Nat /\ First <= p /\ p < sent
    /\ \A a \in acks : a \in Nat /\ First <= a /\ a <= expected
    /\ lastAck \in Nat /\ First <= lastAck /\ lastAck <= expected
    /\ \A list \in naks : Lost(list, sent)
    /\ \A r \in requests : Asked(r, sent)

GivenOK == given \subseteq Nat

LinkInv == RingOK(Here, sent) /\ SenderOK /\ UnderWay /\ GivenOK /\ AckedIsPassed

LEMMA Fields ==
  /\ Here.expected = expected /\ Here.start = start /\ Here.end = end /\ Here.size = size
  /\ Here.buf = buf /\ Here.given = given /\ Here.passed = passed
  /\ Now.expected = expected /\ Now.start = start /\ Now.end = end /\ Now.size = size
  /\ Now.buf = buf /\ Now.given = {} /\ Now.passed = passed
BY DEF Here, Now, Ring

LEMMA RingLike ==
  ASSUME NEW q, NEW r, NEW n, RingOK(q, n),
         r.expected = q.expected, r.start = q.start, r.end = q.end, r.size = q.size,
         r.buf = q.buf, r.passed = q.passed
  PROVE  RingOK(r, n) /\ Held(r) = Held(q)
BY DEF RingOK, RingTyped, SlotsOK, EndOK, IsLast, Held

LEMMA RingGrows ==
  ASSUME NEW q, NEW n \in Nat, NEW m \in Nat, n <= m, RingOK(q, n)
  PROVE  RingOK(q, m)
<1>1. q.expected \in Nat /\ q.expected <= n
  BY DEF RingOK, RingTyped
<1>2. \A i \in Slots : q.buf[i] # Empty => q.buf[i] \in Nat /\ q.buf[i] < n
  BY DEF RingOK, RingTyped, SlotsOK
<1>3. \A i \in Slots : q.buf[i] # Empty => q.buf[i] < m
  BY <1>2
<1> QED
  BY <1>1, <1>3 DEF RingOK, SlotsOK

\* A packet comes in; a range is given up.
LEMMA InputSteps ==
  ASSUME NoWrap, LinkInv, NEW p \in data, InputPacket(p)
  PROVE  RingOK(Here', sent) /\ Moves(Here, Here')
<1>1. PICK r \in DropLate(PopReady(TryInsert(MakeRoom(Now), p))) : Become(r)
  BY DEF InputPacket
<1>2. RingOK(Now, sent) /\ Held(Now) = Held(Here)
  BY Fields, RingLike DEF LinkInv
<1>3. p \in Nat /\ First <= p /\ p < sent /\ sent \in Nat /\ sent <= MaxSent
  BY DEF LinkInv, SenderOK, UnderWay
<1>4. RingOK(r, sent) /\ Moves(Now, r)
  BY <1>2, <1>3, Fields, InputKeeps
<1>5. /\ Here'.expected = r.expected /\ Here'.start = r.start /\ Here'.end = r.end
      /\ Here'.size = r.size /\ Here'.buf = r.buf /\ Here'.given = r.given /\ Here'.passed = r.passed
  BY <1>1 DEF Become, Here, Ring
<1>6. RingOK(Here', sent) /\ Held(Here') = Held(r)
  BY <1>4, <1>5, RingLike
<1> QED
  BY <1>2, <1>4, <1>5, <1>6, Fields DEF Moves

\* The ring's range ends at its last packet.
LEMMA RangeEnds ==
  ASSUME NoWrap, LinkInv
  PROVE  ExpectedSize \in 0 .. Cap /\ Within(Now, ExpectedSize)
<1>1. RingOK(Now, sent)
  BY Fields, RingLike DEF LinkInv
<1>2. /\ expected \in Nat /\ expected <= sent /\ sent \in Nat /\ sent <= MaxSent /\ start \in Slots
      /\ end \in Slots /\ size = Cardinality(Filled(buf)) /\ Cap \in Nat /\ Cap > 1
  BY <1>1, Fields, Sizes DEF LinkInv, SenderOK, RingOK, RingTyped
<1>3. CASE size <= 0
  BY <1>2, <1>3 DEF ExpectedSize, Within
<1>4. CASE ~(size <= 0)
  <2>1. Filled(buf) # {}
    BY <1>2, <1>4, FS_EmptySet
  <2>2. PICK l \in Slots : IsLast(Now, l)
    BY <1>1, <2>1, Fields DEF RingOK, EndOK
  <2>3. l \in Nat /\ l < Cap /\ end = At(l, 1) /\ buf[l] # Empty
    BY <1>2, <2>2, Fields DEF IsLast, Slots
  <2>4. (end + Cap - 1) % Cap = l
    <3>1. CASE l + 1 < Cap
      <4>1. end + Cap - 1 = Cap + l
        BY <1>2, <2>3, <3>1 DEF At
      <4>2. (Cap + l) % Cap = l
        BY <1>2, <2>3
      <4> QED
        BY <4>1, <4>2
    <3>2. CASE ~(l + 1 < Cap)
      <4>1. end + Cap - 1 = l
        BY <1>2, <2>3, <3>2 DEF At
      <4>2. l % Cap = l
        BY <1>2, <2>3
      <4> QED
        BY <4>1, <4>2
    <3> QED
      BY <3>1, <3>2
  <2>5. Last = expected + Off(start, l) /\ Last < sent
    BY <1>1, <2>3, <2>4, Fields DEF Last, RingOK, SlotsOK
  <2>6. Off(start, l) \in Nat /\ Off(start, l) < Cap
    <3>1. Off(start, l) \in Slots
      BY <1>2, Places
    <3> QED
      BY <1>2, <3>1 DEF Slots
  <2> HIDE DEF Off
  <2>7. SeqOf(Last) = Last
    <3> DEFINE x == Last
    <3>1. x \in 0 .. MaxSeq /\ MaxSeq \in Nat
      BY <1>2, <2>5, <2>6, Sizes DEF NoWrap
    <3> HIDE DEF x
    <3>2. x % (MaxSeq + 1) = x
      BY <3>1
    <3> QED
      BY <3>2 DEF SeqOf, x
  <2>8. Cap <= Half
    BY RecvAssumption DEF Half
  <2>9. ExpectedSize = Off(start, l) + 1
    <3>1. Last >= expected /\ ~(Last - expected >= Half) /\ Last - expected + 1 = Off(start, l) + 1
      BY <1>2, <2>5, <2>6, <2>8, Sizes
    <3> QED
      BY <1>4, <2>7, <3>1 DEF ExpectedSize
  <2>10. Now.buf[l] # Empty /\ Now.start = start
    BY <2>3, Fields
  <2>11. Within(Now, Off(start, l) + 1)
    BY <2>6, <2>10 DEF Within
  <2> QED
    BY <1>2, <2>6, <2>9, <2>11
<1> QED
  BY <1>3, <1>4

LEMMA DropSteps ==
  ASSUME NoWrap, LinkInv, NEW last \in Nat, First <= last, last < sent, Drop(last)
  PROVE  RingOK(Here', sent) /\ Moves(Here, Here')
<1> DEFINE k == DropCount(last)
           a == Pass(Now, k)
           b == [a EXCEPT !.expected = (last + 1) % (MaxSeq + 1)]
           r == [b EXCEPT !.end = IF b.size <= 0 THEN b.start ELSE @]
<1>1. RingOK(Now, sent) /\ Held(Now) = Held(Here)
  BY Fields, RingLike DEF LinkInv
<1>2. sent \in Nat /\ sent <= MaxSent /\ expected \in Nat /\ expected <= sent
  BY <1>1, Fields DEF LinkInv, SenderOK, RingOK, RingTyped
<1>3. Droppable(last) /\ Become(r)
  BY DEF Drop
<1>14. ExpectedSize \in 0 .. Cap /\ Within(Now, ExpectedSize) /\ k <= ExpectedSize
  BY <1>3, RangeEnds DEF Droppable
<1>4. ~Cycle(last) /\ k = last - expected + 1
  <2>1. SUFFICES ASSUME Cycle(last) PROVE FALSE
    BY DEF DropCount
  <2>2. last < expected /\ k = MaxSeq - expected + last + 1
    BY <1>2, <1>3, <2>1 DEF Droppable, DropCount
  <2>3. expected - last <= MaxSeq - Cap
    <3>1. expected <= MaxSent /\ MaxSent - First <= MaxSeq - Cap
      BY <1>2, Sizes DEF NoWrap
    <3> QED
      BY <1>2, <3>1, Sizes
  <2> QED
    BY <1>2, <1>14, <2>2, <2>3, Sizes
<1>5. last >= expected
  BY <1>3, <1>4 DEF Droppable
<1>6. k \in Nat /\ expected + k = last + 1
  BY <1>2, <1>4, <1>5
<1>15. Within(Now, k)
  <2>1. \A i \in Slots : Off(start, i) \in Int
    <3>1. start \in Slots
      BY <1>1, Fields DEF RingOK, RingTyped
    <3> QED
      BY <3>1, Sizes DEF Off, Slots
  <2> HIDE DEF k, Off
  <2> QED
    BY <1>6, <1>14, <2>1, Fields, Sizes DEF Within
<1> HIDE DEF k
<1>7. RingOK(a, sent) /\ Advances(Now, a) /\ a.expected = last + 1
  BY <1>1, <1>2, <1>6, <1>15, Fields, PassKeeps
<1>8. (last + 1) % (MaxSeq + 1) = last + 1
  <2> DEFINE x == last + 1
  <2>1. x \in 0 .. MaxSeq /\ MaxSeq \in Nat
    BY <1>2, Sizes DEF NoWrap
  <2> HIDE DEF x
  <2>2. x % (MaxSeq + 1) = x
    BY <2>1
  <2> QED
    BY <2>2 DEF x
<1>9. /\ r.expected = a.expected /\ r.start = a.start /\ r.size = a.size /\ r.buf = a.buf
      /\ r.passed = a.passed /\ r.given = a.given
      /\ r.end = IF a.size <= 0 THEN a.start ELSE a.end
  BY <1>7, <1>8 DEF Pass, Ring
<1> HIDE DEF a, b, r
<1>10. RingOK(r, sent) /\ Held(r) = Held(a)
  <2>1. RingTyped(r)
    BY <1>7, <1>9 DEF RingOK, RingTyped
  <2>2. r.end = a.end
    <3>1. CASE Filled(a.buf) = {}
      BY <1>7, <1>9, <3>1 DEF RingOK, EndOK
    <3>2. CASE Filled(a.buf) # {}
      <4>1. a.size # 0 /\ a.size \in 0 .. Cap
        BY <1>7, <3>2, FilledFinite, FS_EmptySet DEF RingOK
      <4> QED
        BY <1>9, <4>1, Sizes
    <3> QED
      BY <3>1, <3>2
  <2>3. EndOK(r)
    BY <1>7, <1>9, <2>2 DEF RingOK, EndOK, IsLast
  <2> QED
    BY <1>7, <1>9, <2>1, <2>3 DEF RingOK, SlotsOK, Held
<1>11. Moves(Now, r)
  <2>1. Moves(Now, a)
    BY <1>7, Fields, AdvancesMoves
  <2> QED
    BY <1>9, <1>10, <2>1 DEF Moves
<1>12. /\ Here'.expected = r.expected /\ Here'.start = r.start /\ Here'.end = r.end
       /\ Here'.size = r.size /\ Here'.buf = r.buf /\ Here'.given = r.given /\ Here'.passed = r.passed
  BY <1>3 DEF Become, Here, Ring, r, b, a, k
<1>13. RingOK(Here', sent) /\ Held(Here') = Held(r)
  BY <1>10, <1>12, RingLike
<1> QED
  BY <1>1, <1>11, <1>12, <1>13, Fields DEF Moves

\* Nothing happens to the ring, but what the last step gave is forgotten.
LEMMA IdleSteps ==
  ASSUME LinkInv, given' = {}, UNCHANGED <<expected, start, end, size, buf, passed>>
  PROVE  RingOK(Here', sent) /\ Moves(Here, Here')
<1>1. /\ Here'.expected = Here.expected /\ Here'.start = Here.start /\ Here'.end = Here.end
      /\ Here'.size = Here.size /\ Here'.buf = Here.buf /\ Here'.given = {} /\ Here'.passed = Here.passed
  BY DEF Here, Ring
<1>2. RingOK(Here', sent) /\ Held(Here') = Held(Here)
  BY <1>1, RingLike DEF LinkInv
<1>3. Held(Here) = {p \in Held(Here) : p >= Here.expected} /\ {p \in Held(Here) : p < Here.expected} = {}
  BY StayAdvances DEF LinkInv
<1>4. Held(Here) \cup {} = Held(Here) /\ {} \subseteq Nat
  OBVIOUS
<1>5. Here.expected >= Here.expected
  BY DEF LinkInv, RingOK, RingTyped
<1> QED
  BY <1>1, <1>2, <1>3, <1>4, <1>5 DEF Moves

\* What is reported lost was sent: a packet that came later is in the ring.
LEMMA LostWasSent ==
  NoWrap /\ sent \in Nat /\ sent <= MaxSent /\ RingOK(Here, sent) => Lost(LostSeq, sent)
<1> SUFFICES ASSUME NoWrap, sent \in Nat, sent <= MaxSent, RingOK(Here, sent),
                    NEW r \in LostSeq
             PROVE  r \in Nat \X Nat /\ First <= r[1] /\ r[1] < r[2] /\ r[2] < sent
  BY DEF Lost
<1>1. expected \in Nat /\ First <= expected /\ expected <= sent /\ start \in Slots
  BY Fields, Sizes DEF RingOK, RingTyped
<1>2. PICK a \in Slots, b \in Slots :
        /\ b + 1 \in Slots /\ a <= b /\ buf[(start + (b + 1)) % Cap] # Empty
        /\ r = <<expected + a, (expected + b + 1) % (MaxSeq + 1)>>
  <2> DEFINE range == {d \in Slots : d < (end - start + Cap) % Cap}
             missing(d) == buf[(start + d) % Cap] = Empty
             first == {d \in range : missing(d) /\ (d = 0 \/ ~missing(d - 1))}
             last == {d \in range : missing(d) /\ d + 1 \in range /\ ~missing(d + 1)}
             gaps == {g \in first \X last : g[1] <= g[2] /\ \A m \in g[1] .. g[2] : missing(m)}
  <2>1. PICK g \in gaps : r = <<expected + g[1], (expected + g[2] + 1) % (MaxSeq + 1)>>
    BY DEF LostSeq
  <2>2. g[1] \in first /\ g[2] \in last /\ g[1] <= g[2]
    BY <2>1
  <2>3. /\ g[1] \in Slots /\ g[2] \in Slots /\ g[2] + 1 \in Slots
        /\ buf[(start + (g[2] + 1)) % Cap] # Empty
    BY <2>2
  <2> QED
    BY <2>1, <2>2, <2>3
<1>3. a \in Nat /\ b \in Nat /\ b + 1 \in Slots
  BY <1>2, Sizes DEF Slots
<1>4. expected + (b + 1) + 1 <= sent
  <2> DEFINE d == b + 1
  <2>1. d \in Slots /\ Here.buf[(Here.start + d) % Cap] # Empty
    BY <1>2, Fields
  <2> HIDE DEF d
  <2>2. Here.expected + d + 1 <= sent
    BY <2>1, FilledAt
  <2> QED
    BY <2>2, Fields DEF d
<1>5. (expected + b + 1) % (MaxSeq + 1) = expected + b + 1
  <2> DEFINE x == expected + b + 1
  <2>1. x \in 0 .. MaxSeq /\ MaxSeq \in Nat
    BY <1>1, <1>3, <1>4, Sizes DEF NoWrap
  <2> HIDE DEF x
  <2>2. x % (MaxSeq + 1) = x
    BY <2>1
  <2> QED
    BY <2>2 DEF x
<1>6. r = <<expected + a, expected + b + 1>> /\ expected + a \in Nat /\ expected + b + 1 \in Nat
  BY <1>1, <1>2, <1>3, <1>5
<1>7. First <= expected + a /\ expected + a < expected + b + 1 /\ expected + b + 1 < sent
  BY <1>1, <1>2, <1>3, <1>4, Sizes
<1> QED
  BY <1>6, <1>7

LEMMA LaterLost ==
  ASSUME NEW n \in Nat, NEW list, Lost(list, n)
  PROVE  Lost(list, n + 1)
BY DEF Lost

\* The receiver's handlers: the ring moves, then reports are made.
LEMMA ReceiverKeeps ==
  ASSUME NoWrap, LinkInv, RingOK(Here', sent), Moves(Here, Here'),
         NEW nakDue, NEW ackDue, ReportBack(nakDue, ackDue),
         UNCHANGED <<sent, oldest, acked, losses>>, data' \subseteq data, requests' \subseteq requests
  PROVE  LinkInv'
<1>1. /\ Here'.expected = expected' /\ Here'.given = given' /\ Here'.passed = passed'
  BY DEF Here, Ring
<1>2. expected' \in Nat /\ expected \in Nat /\ expected' >= expected /\ First <= expected
      /\ First + passed' = expected' /\ First + passed = expected
  BY <1>1, Fields, Sizes DEF LinkInv, RingOK, RingTyped, Moves
<1>3. SenderOK'
  BY DEF LinkInv, SenderOK
<1>4. \A list \in naks' : Lost(list, sent')
  <2>1. sent' = sent /\ sent \in Nat /\ sent <= MaxSent
    BY DEF LinkInv, SenderOK
  <2>2. (NoWrap /\ sent \in Nat /\ sent <= MaxSent /\ RingOK(Here, sent) => Lost(LostSeq, sent))'
    BY LostWasSent, PTL
  <2>3. Lost(LostSeq', sent')
    BY <2>1, <2>2
  <2>4. \A list \in naks : Lost(list, sent')
    BY <2>1 DEF LinkInv, UnderWay
  <2>5. naks' \subseteq naks \cup {LostSeq'}
    BY DEF ReportBack
  <2> QED
    BY <2>3, <2>4, <2>5
<1>5. \A a \in acks' : a \in Nat /\ First <= a /\ a <= expected'
  <2>1. acks' \subseteq acks \cup {expected'}
    BY DEF ReportBack
  <2>2. \A a \in acks : a \in Nat /\ First <= a /\ a <= expected
    BY DEF LinkInv, UnderWay
  <2>3. \A a \in acks : a <= expected'
    BY <1>2, <2>2
  <2>4. First <= expected' /\ expected' <= expected'
    BY <1>2, Sizes
  <2> QED
    BY <1>2, <2>1, <2>2, <2>3, <2>4
<1>6. lastAck' \in Nat /\ First <= lastAck' /\ lastAck' <= expected'
  <2>1. lastAck' \in {lastAck, expected'}
    BY DEF ReportBack
  <2>2. lastAck \in Nat /\ First <= lastAck /\ lastAck <= expected
    BY DEF LinkInv, UnderWay
  <2> QED
    BY <1>2, <2>1, <2>2, Sizes
<1>7. UnderWay'
  <2>1. \A p \in data' : p \in Nat /\ First <= p /\ p < sent'
    BY DEF LinkInv, UnderWay
  <2>2. \A r \in requests' : Asked(r, sent')
    BY DEF LinkInv, UnderWay
  <2> QED
    BY <1>4, <1>5, <1>6, <2>1, <2>2 DEF UnderWay
<1>8. GivenOK'
  <2>1. \A x \in Held(Here) : x \in Nat
    BY HeldIsAhead DEF LinkInv
  <2> QED
    BY <1>1, <2>1 DEF Moves, GivenOK
<1>9. AckedIsPassed'
  <2>1. acked' = acked /\ acked \in Nat /\ acked <= First + passed
    BY Sizes DEF LinkInv, AckedIsPassed, SenderOK
  <2> QED
    BY <1>2, <2>1 DEF AckedIsPassed
<1>10. RingOK(Here, sent)'
  <2>1. sent' = sent
    OBVIOUS
  <2> QED
    BY <2>1
<1> QED
  BY <1>3, <1>7, <1>8, <1>9, <1>10 DEF LinkInv

-----------------------------------------------------------------------------
LEMMA SameRing ==
  ASSUME UNCHANGED queueVars
  PROVE  Here' = Here
BY DEF queueVars, Here, Ring

LEMMA SendDataKeeps == ASSUME LinkInv, SendData PROVE LinkInv'
<1>1. sent \in Nat /\ sent < MaxSent /\ sent' = sent + 1 /\ oldest \in First .. sent
      /\ acked \in First .. oldest
  BY DEF LinkInv, SenderOK, SendData
<1>2. UNCHANGED queueVars /\ UNCHANGED <<acked, lastAck, requests, acks, naks, losses>>
  BY DEF SendData
<1>3. RingOK(Here, sent)'
  <2>1. Here' = Here /\ sent + 1 \in Nat /\ sent <= sent + 1
    BY <1>1, <1>2, SameRing
  <2>2. RingOK(Here, sent + 1)
    BY <1>1, <2>1, RingGrows DEF LinkInv
  <2> QED
    BY <1>1, <2>1, <2>2
<1>4. SenderOK'
  <2>1. oldest' \in oldest .. sent
    <3>1. oldest' \in Trimmed(sent)
      BY DEF SendData
    <3> QED
      BY <1>1, <3>1, Sizes DEF Trimmed
  <2>2. sent' \in Nat /\ sent' <= MaxSent /\ oldest' \in First .. sent' /\ acked' \in First .. oldest'
    BY <1>1, <1>2, <2>1, Sizes
  <2>3. losses' \in 0 .. MaxLosses
    BY <1>2 DEF LinkInv, SenderOK
  <2> QED
    BY <2>2, <2>3 DEF SenderOK
<1>5. UnderWay'
  <2>1. expected' = expected
    BY <1>2 DEF queueVars
  <2>2. \A p \in data' : p \in Nat /\ First <= p /\ p < sent'
    <3>1. data' = data \cup {sent}
      BY DEF SendData
    <3>2. \A p \in data : p \in Nat /\ First <= p /\ p < sent
      BY DEF LinkInv, UnderWay
    <3> QED
      BY <1>1, <3>1, <3>2, Sizes
  <2>3. \A list \in naks' : Lost(list, sent')
    BY <1>1, <1>2, LaterLost DEF LinkInv, UnderWay
  <2>4. \A r \in requests' : Asked(r, sent')
    BY <1>1, <1>2 DEF LinkInv, UnderWay, Asked
  <2> QED
    BY <1>2, <2>1, <2>2, <2>3, <2>4 DEF UnderWay, LinkInv
<1>6. GivenOK' /\ AckedIsPassed'
  BY <1>2 DEF LinkInv, GivenOK, AckedIsPassed, queueVars
<1> QED
  BY <1>3, <1>4, <1>5, <1>6 DEF LinkInv

LEMMA HandleACKKeeps ==
  ASSUME NoWrap, LinkInv, NEW seq \in acks, HandleACK(seq)
  PROVE  LinkInv'
<1>1. /\ sent \in Nat /\ sent <= MaxSent /\ oldest \in First .. sent /\ acked \in First .. oldest
      /\ First \in Nat /\ seq \in Nat /\ seq <= expected /\ acked <= First + passed
      /\ expected = First + passed /\ expected \in Nat
  BY Fields, Sizes DEF LinkInv, SenderOK, UnderWay, AckedIsPassed, RingOK, RingTyped
<1>2. UNCHANGED queueVars /\ UNCHANGED <<sent, lastAck, data, requests, naks, losses>>
      /\ acks' = acks \ {seq}
  BY DEF HandleACK, recvVars
<1>3. Acknowledged(seq) = oldest \/ (Acknowledged(seq) = seq /\ seq \in Cached)
  <2> DEFINE hit == {p \in Cached : SeqOf(p) = seq}
  <2>1. \A p \in Cached : SeqOf(p) = p
    <3> SUFFICES ASSUME NEW p \in Cached PROVE p % (MaxSeq + 1) = p
      BY DEF SeqOf
    <3>1. p \in 0 .. MaxSeq /\ MaxSeq \in Nat
      BY <1>1, Sizes DEF Cached, NoWrap
    <3> QED
      BY <3>1
  <2>2. hit = {} \/ (hit = {seq} /\ seq \in Cached)
    BY <2>1
  <2>3. Min({seq}) = seq
    BY <1>1 DEF Min
  <2>4. Acknowledged(seq) = IF hit = {} THEN oldest ELSE Min(hit)
    BY DEF Acknowledged
  <2> HIDE DEF hit
  <2> QED
    BY <2>2, <2>3, <2>4
<1>4. oldest' \in oldest .. sent /\ acked' \in First .. oldest' /\ acked' <= First + passed
  <2>1. oldest' = Acknowledged(seq) /\ acked' = IF Acknowledged(seq) > oldest THEN oldest' ELSE acked
    BY DEF HandleACK
  <2> QED
    BY <1>1, <1>3, <2>1 DEF Cached
<1>5. SenderOK'
  <2>1. losses' \in 0 .. MaxLosses
    BY <1>2 DEF LinkInv, SenderOK
  <2>2. sent' \in Nat /\ sent' <= MaxSent /\ oldest' \in First .. sent' /\ acked' \in First .. oldest'
    BY <1>1, <1>2, <1>4
  <2> QED
    BY <2>1, <2>2 DEF SenderOK
<1>6. UnderWay' /\ GivenOK'
  BY <1>2 DEF LinkInv, UnderWay, GivenOK, queueVars
<1>7. AckedIsPassed'
  BY <1>2, <1>4 DEF AckedIsPassed, queueVars
<1>8. RingOK(Here, sent)'
  <2>1. Here' = Here /\ sent' = sent
    BY <1>2, SameRing
  <2> QED
    BY <2>1 DEF LinkInv
<1> QED
  BY <1>5, <1>6, <1>7, <1>8 DEF LinkInv

LEMMA HandleNAKKeeps ==
  ASSUME LinkInv, NEW list \in naks, HandleNAK(list)
  PROVE  LinkInv'
<1>1. UNCHANGED queueVars /\ UNCHANGED <<sent, oldest, acked, lastAck, acks, losses>>
      /\ naks' = naks \ {list}
  BY DEF HandleNAK, recvVars
<1>2. sent \in Nat /\ oldest \in Nat /\ First <= oldest /\ First \in Nat
  BY Sizes DEF LinkInv, SenderOK
<1>3. \A p \in data' : p \in Nat /\ First <= p /\ p < sent'
  <2>1. data' \subseteq data \cup Cached
    BY DEF HandleNAK, FindPackets
  <2>2. \A p \in Cached : p \in Nat /\ First <= p /\ p < sent
    BY <1>2 DEF Cached
  <2> QED
    BY <1>1, <2>1, <2>2 DEF LinkInv, UnderWay
<1>4. \A r \in requests' : Asked(r, sent')
  <2>1. \A r \in list : Asked(<<r[1], r[2] - 1>>, sent)
    <3> SUFFICES ASSUME NEW r \in list PROVE Asked(<<r[1], r[2] - 1>>, sent)
      OBVIOUS
    <3>1. r[1] \in Nat /\ r[2] \in Nat /\ First <= r[1] /\ r[1] < r[2] /\ r[2] < sent
      BY DEF LinkInv, UnderWay, Lost
    <3>2. r[2] - 1 \in Nat /\ r[1] <= r[2] - 1 /\ r[2] - 1 < sent
      BY <1>2, <3>1
    <3> QED
      BY <3>1, <3>2 DEF Asked
  <2>2. requests' \subseteq requests \cup {<<r[1], r[2] - 1>> : r \in list}
    BY DEF HandleNAK, Refused
  <2> QED
    BY <1>1, <2>1, <2>2 DEF LinkInv, UnderWay
<1>5. UnderWay'
  BY <1>1, <1>3, <1>4 DEF LinkInv, UnderWay, queueVars
<1>6. SenderOK' /\ GivenOK' /\ AckedIsPassed'
  BY <1>1 DEF LinkInv, SenderOK, GivenOK, AckedIsPassed, queueVars
<1>7. RingOK(Here, sent)'
  <2>1. Here' = Here /\ sent' = sent
    BY <1>1, SameRing
  <2> QED
    BY <2>1 DEF LinkInv
<1> QED
  BY <1>5, <1>6, <1>7 DEF LinkInv

LEMMA LoseKeeps == ASSUME LinkInv, Lose PROVE LinkInv'
<1>1. UNCHANGED <<recvVars, oldest, acked, lastAck>> /\ losses' = losses + 1 /\ losses < MaxLosses
      /\ data' \subseteq data /\ requests' \subseteq requests /\ acks' \subseteq acks /\ naks' \subseteq naks
  BY DEF Lose
<1>2. UNCHANGED queueVars /\ sent' = sent
  BY <1>1 DEF recvVars
<1>3. losses' \in 0 .. MaxLosses
  BY <1>1, LinkAssumption DEF LinkInv, SenderOK
<1>4. SenderOK' /\ UnderWay' /\ GivenOK' /\ AckedIsPassed'
  BY <1>1, <1>2, <1>3 DEF LinkInv, SenderOK, UnderWay, GivenOK, AckedIsPassed, queueVars
<1>5. RingOK(Here, sent)'
  <2>1. Here' = Here
    BY <1>2, SameRing
  <2> QED
    BY <1>2, <2>1 DEF LinkInv
<1> QED
  BY <1>4, <1>5 DEF LinkInv

\* Every step keeps the invariant, and moves the ring or leaves it alone.
LEMMA LinkStep ==
  ASSUME NoWrap, LinkInv, [LinkNext]_linkVars
  PROVE  LinkInv' /\ (Moves(Here, Here') \/ UNCHANGED queueVars)
<1>1. CASE UNCHANGED linkVars
  <2>1. UNCHANGED queueVars /\ UNCHANGED <<sent, oldest, acked, lastAck, data, requests, acks, naks, losses>>
    BY <1>1 DEF linkVars, recvVars, networkVars
  <2>2. RingOK(Here, sent)'
    <3>1. Here' = Here /\ sent' = sent
      BY <2>1, SameRing
    <3> QED
      BY <3>1 DEF LinkInv
  <2>3. SenderOK' /\ UnderWay' /\ GivenOK' /\ AckedIsPassed'
    BY <2>1 DEF LinkInv, SenderOK, UnderWay, GivenOK, AckedIsPassed, queueVars
  <2> QED
    BY <2>1, <2>2, <2>3 DEF LinkInv
<1>2. CASE SendData
  BY <1>2, SendDataKeeps DEF SendData
<1>3. CASE \E seq \in acks : HandleACK(seq)
  BY <1>3, HandleACKKeeps DEF HandleACK, recvVars
<1>4. CASE \E list \in naks : HandleNAK(list)
  BY <1>4, HandleNAKKeeps DEF HandleNAK, recvVars
<1>5. CASE Lose
  BY <1>5, LoseKeeps DEF Lose, recvVars
<1>6. ASSUME NEW nakDue \in BOOLEAN, NEW ackDue \in BOOLEAN, NEW p \in data, NEW again \in BOOLEAN,
             ReceiveData(p, again, nakDue, ackDue)
      PROVE  LinkInv' /\ Moves(Here, Here')
  <2>1. RingOK(Here', sent) /\ Moves(Here, Here')
    BY <1>6, InputSteps DEF ReceiveData
  <2>2. UNCHANGED <<sent, oldest, acked, losses>> /\ data' \subseteq data /\ requests' \subseteq requests
        /\ ReportBack(nakDue, ackDue)
    BY <1>6 DEF ReceiveData
  <2> QED
    BY <2>1, <2>2, ReceiverKeeps
<1>7. ASSUME NEW nakDue \in BOOLEAN, NEW ackDue \in BOOLEAN, NEW range \in requests,
             HandleDropReq(range, nakDue, ackDue)
      PROVE  LinkInv' /\ Moves(Here, Here')
  <2>1. RingOK(Here', sent) /\ Moves(Here, Here')
    <3>1. CASE Drop(range[2])
      <4>1. range[2] \in Nat /\ First <= range[2] /\ range[2] < sent
        <5>1. range[1] \in Nat /\ range[2] \in Nat /\ First <= range[1] /\ range[1] <= range[2]
              /\ range[2] < sent
          BY DEF LinkInv, UnderWay, Asked
        <5> QED
          BY <5>1, Sizes
      <4> QED
        BY <3>1, <4>1, DropSteps
    <3>2. CASE given' = {} /\ UNCHANGED <<expected, start, end, size, buf, passed>>
      BY <3>2, IdleSteps
    <3> QED
      BY <1>7, <3>1, <3>2 DEF HandleDropReq
  <2>2. UNCHANGED <<sent, oldest, acked, losses>> /\ data' \subseteq data /\ requests' \subseteq requests
        /\ ReportBack(nakDue, ackDue)
    BY <1>7 DEF HandleDropReq
  <2> QED
    BY <2>1, <2>2, ReceiverKeeps
<1>8. ASSUME NEW nakDue \in BOOLEAN, NEW ackDue \in BOOLEAN, HandleKeepalive(nakDue, ackDue)
      PROVE  LinkInv' /\ Moves(Here, Here')
  <2>1. RingOK(Here', sent) /\ Moves(Here, Here')
    BY <1>8, IdleSteps DEF HandleKeepalive
  <2>2. UNCHANGED <<sent, oldest, acked, losses>> /\ data' \subseteq data /\ requests' \subseteq requests
        /\ ReportBack(nakDue, ackDue)
    BY <1>8 DEF HandleKeepalive
  <2> QED
    BY <2>1, <2>2, ReceiverKeeps
<1> QED
  BY <1>1, <1>2, <1>3, <1>4, <1>5, <1>6, <1>7, <1>8 DEF LinkNext

LEMMA LinkStart == ASSUME NoWrap, LinkInit PROVE LinkInv
<1>1. SeqOf(First) = First
  <2>1. First \in 0 .. MaxSeq /\ MaxSeq \in Nat
    BY Sizes DEF NoWrap
  <2> QED
    BY <2>1 DEF SeqOf
<1>2. /\ Here.expected = First /\ Here.start = 0 /\ Here.end = 0 /\ Here.size = 0 /\ Here.passed = 0
      /\ Here.buf = [i \in Slots |-> Empty] /\ sent = First /\ given = {}
      /\ oldest = First /\ acked = First /\ lastAck = First /\ data = {} /\ requests = {}
      /\ acks = {} /\ naks = {} /\ losses = 0 /\ expected = First /\ passed = 0
  BY <1>1, Fields DEF LinkInit, RecvInit
<1>3. 0 \in Slots
  BY Sizes DEF Slots
<1>4. Here.buf \in [Slots -> Nat \cup {Empty}] /\ \A i \in Slots : Here.buf[i] = Empty
  BY <1>2
<1>5. Filled(Here.buf) = {}
  BY <1>4 DEF Filled
<1>6. RingOK(Here, sent)
  <2>1. RingTyped(Here)
    BY <1>2, <1>3, <1>4, Sizes DEF RingTyped
  <2>2. SlotsOK(Here, sent)
    BY <1>4 DEF SlotsOK
  <2>3. Cardinality(Filled(Here.buf)) = 0
    BY <1>5, FS_EmptySet
  <2> QED
    BY <1>2, <1>5, <2>1, <2>2, <2>3, Sizes DEF RingOK, EndOK
<1>7. SenderOK
  BY <1>2, Sizes, LinkAssumption DEF SenderOK, NoWrap
<1>8. UnderWay /\ GivenOK /\ AckedIsPassed
  BY <1>2, Sizes DEF UnderWay, GivenOK, AckedIsPassed
<1> QED
  BY <1>6, <1>7, <1>8 DEF LinkInv

LEMMA LinkInvariance == ASSUME NoWrap PROVE LinkSpec => []LinkInv
<1>1. LinkInit => LinkInv
  BY LinkStart
<1>2. LinkInv /\ [LinkNext]_linkVars => LinkInv'
  BY LinkStep
<1> QED
  BY <1>1, <1>2, PTL DEF LinkSpec

\* The types of what SrtLink keeps: the ring, the queue, and the numbers on the
\* way between them.
THEOREM LinkTypeCorrect == ASSUME NoWrap PROVE LinkSpec => []LinkTypeOK
<1>1. LinkInv => LinkTypeOK
  <2> SUFFICES ASSUME LinkInv PROVE LinkTypeOK
    OBVIOUS
  <2>1. sent \in Nat /\ sent <= MaxSent /\ sent <= MaxSeq /\ MaxSent <= MaxSeq
        /\ First \in Nat /\ MaxSent \in Nat /\ MaxSeq \in Nat
    BY Sizes DEF LinkInv, SenderOK, NoWrap
  <2>2. RecvTypeOK
    <3>1. expected \in Nat /\ expected <= sent /\ start \in Slots /\ end \in Slots /\ passed \in Nat
          /\ buf \in [Slots -> Nat \cup {Empty}] /\ size = Cardinality(Filled(buf))
      BY Fields DEF LinkInv, RingOK, RingTyped
    <3>2. size \in 0 .. Cap
      BY <3>1, FilledFinite
    <3>3. expected \in 0 .. MaxSeq
      BY <2>1, <3>1
    <3> QED
      BY <2>1, <3>1, <3>2, <3>3 DEF RecvTypeOK, LinkInv, GivenOK
  <2>3. expected \in Nat /\ expected <= sent
    BY Fields DEF LinkInv, RingOK, RingTyped
  <2>4. data \subseteq Packets
    BY <2>1 DEF LinkInv, UnderWay, Packets
  <2>5. requests \subseteq Packets \X Packets
    <3> SUFFICES ASSUME NEW r \in requests PROVE r \in Packets \X Packets
      OBVIOUS
    <3>1. r \in Nat \X Nat /\ First <= r[1] /\ r[1] <= r[2] /\ r[2] < sent
      BY DEF LinkInv, UnderWay, Asked
    <3>2. r[1] \in Packets /\ r[2] \in Packets
      BY <2>1, <3>1 DEF Packets
    <3> QED
      BY <3>1, <3>2
  <2>6. acks \subseteq 0 .. MaxSeq /\ lastAck \in 0 .. MaxSeq
    BY <2>1, <2>3 DEF LinkInv, UnderWay
  <2>7. \A list \in naks : list \subseteq (0 .. MaxSeq + 1) \X (0 .. MaxSeq)
    <3> SUFFICES ASSUME NEW list \in naks, NEW r \in list
                 PROVE  r \in (0 .. MaxSeq + 1) \X (0 .. MaxSeq)
      OBVIOUS
    <3>1. r \in Nat \X Nat /\ First <= r[1] /\ r[1] < r[2] /\ r[2] < sent
      BY DEF LinkInv, UnderWay, Lost
    <3>2. r[1] \in 0 .. MaxSeq + 1 /\ r[2] \in 0 .. MaxSeq
      BY <2>1, <3>1
    <3> QED
      BY <3>1, <3>2
  <2> QED
    BY <2>2, <2>4, <2>5, <2>6, <2>7 DEF LinkTypeOK, LinkInv, SenderOK
<1> QED
  BY <1>1, LinkInvariance, PTL

\* What an ACK made the sender drop, the receiver is past: whatever is lost,
\* repeated or overtaken, and whenever the ACK arrives.
THEOREM AckedArePassed == ASSUME NoWrap PROVE LinkSpec => []AckedIsPassed
<1>1. LinkInv => AckedIsPassed
  BY DEF LinkInv
<1> QED
  BY <1>1, LinkInvariance, PTL

\* The ring is an in-order buffer, with whatever data and drop requests it is
\* fed: a packet goes out once, in order, and none that is held is passed over.
THEOREM LinkImplementsBuffer == ASSUME NoWrap PROVE LinkSpec => ImplementsBuffer
<1>1. LinkInit => Buffer!Init
  <2> SUFFICES ASSUME LinkInit PROVE Buffer!Init
    OBVIOUS
  <2>1. passed = 0 /\ given = {} /\ \A i \in Slots : buf[i] = Empty
    BY DEF LinkInit, RecvInit
  <2>2. First + passed = First
    BY <2>1, Sizes
  <2>3. Filled(buf) = {}
    BY <2>1 DEF Filled
  <2>4. {buf[i] : i \in Filled(buf)} = {}
    BY <2>3
  <2> QED
    BY <2>1, <2>2, <2>4 DEF Buffer!Init
<1>2. LinkInv /\ [LinkNext]_linkVars
        => [Buffer!Step]_<<First + passed, {buf[i] : i \in Filled(buf)}, given>>
  <2> SUFFICES ASSUME LinkInv, [LinkNext]_linkVars
               PROVE  [Buffer!Step]_<<First + passed, {buf[i] : i \in Filled(buf)}, given>>
    OBVIOUS
  <2>1. CASE UNCHANGED queueVars
    BY <2>1 DEF queueVars, Filled
  <2>2. CASE Moves(Here, Here')
    <3>1. Here.expected = First + passed /\ Held(Here) = {buf[i] : i \in Filled(buf)}
      BY Fields DEF LinkInv, RingOK, Held
    <3>2. Here'.expected = First + passed' /\ Held(Here') = {buf'[i] : i \in Filled(buf')}
          /\ Here'.given = given'
      <4>1. LinkInv'
        BY LinkStep
      <4> QED
        BY <4>1 DEF LinkInv, RingOK, Held, Here, Ring
    <3> DEFINE base == First + passed
               base2 == First + passed'
               held == {buf[i] : i \in Filled(buf)}
               held2 == {buf'[i] : i \in Filled(buf')}
    <3>3. PICK T : /\ T \subseteq Nat /\ (\A x \in T : x >= base) /\ (\A x, y \in T : x = y)
                   /\ base2 >= base
                   /\ given' = {x \in held \cup T : x < base2}
                   /\ held2 = {x \in held \cup T : x >= base2}
      <4>1. PICK T : /\ T \subseteq Nat /\ (\A x \in T : x >= Here.expected) /\ (\A x, y \in T : x = y)
                     /\ Here'.expected >= Here.expected
                     /\ Here'.given = {x \in Held(Here) \cup T : x < Here'.expected}
                     /\ Held(Here') = {x \in Held(Here) \cup T : x >= Here'.expected}
        BY <2>2 DEF Moves
      <4>2. Here.expected = base /\ Here'.expected = base2 /\ Held(Here) = held /\ Held(Here') = held2
        BY <3>1, <3>2
      <4> HIDE DEF base, base2, held, held2, Here
      <4>3. /\ T \subseteq Nat /\ (\A x \in T : x >= base) /\ (\A x, y \in T : x = y)
            /\ base2 >= base
        BY <4>1, <4>2
      <4>4. given' = {x \in held \cup T : x < base2}
        BY <3>2, <4>1, <4>2
      <4>5. held2 = {x \in held \cup T : x >= base2}
        BY <4>1, <4>2
      <4> QED
        BY <4>3, <4>4, <4>5
    <3>4. base2 \in Nat /\ base \in Nat
      <4>1. LinkInv'
        BY LinkStep
      <4> QED
        BY <4>1, <3>1, <3>2, Fields DEF LinkInv, RingOK, RingTyped
    <3>5. T \subseteq held2 \cup given'
      <4> HIDE DEF held, held2, base, base2
      <4> QED
        BY <3>3, <3>4
    <3>6. Buffer!Step
      BY <3>3, <3>5 DEF Buffer!Step
    <3> QED
      BY <3>6
  <2> QED
    BY <2>1, <2>2, LinkStep
<1> QED
  BY <1>1, <1>2, LinkInvariance, PTL DEF LinkSpec, ImplementsBuffer, Buffer!Spec
=============================================================================
