--------------------------- MODULE StreamDirectory ---------------------------
(***************************************************************************)
(* What MediaSource's map promises to those who look a stream up: at any   *)
(* moment a tuple has at most one holder; a source holds its own tuple,    *)
(* takes it only when it is free, gives it up only when it goes away, and  *)
(* never comes back.                                                       *)
(***************************************************************************)
CONSTANTS Sources, Keys, KeyOf, None

VARIABLES holder, retired

Init ==
    /\ holder = [k \in Keys |-> None]
    /\ retired = {}

Claim(s) ==
    /\ s \notin retired
    /\ holder[KeyOf[s]] = None
    /\ holder' = [holder EXCEPT ![KeyOf[s]] = s]
    /\ UNCHANGED retired

Release(s) ==
    /\ s \notin retired
    /\ retired' = retired \cup {s}
    /\ holder' = [holder EXCEPT ![KeyOf[s]] = IF @ = s THEN None ELSE @]

Next == \E s \in Sources : Claim(s) \/ Release(s)

Spec == Init /\ [][Next]_<<holder, retired>>
=============================================================================
