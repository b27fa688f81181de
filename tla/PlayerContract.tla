--------------------------- MODULE PlayerContract ---------------------------
(***************************************************************************)
(* What a player promises whoever calls play() (Player/PlayerBase.h): one  *)
(* result, and one shutdown; none after a failure, and nothing once the    *)
(* caller has torn the player down.  The shutdown comes after a success;   *)
(* but a player that waits for its tracks may be shut down before they are *)
(* ready, and then they may still be.                                      *)
(***************************************************************************)
VARIABLES waits, phase, told

ContractInit == phase = "idle" /\ told = "nothing"

\* The caller plays.
Try == phase = "idle" /\ phase' = "trying" /\ UNCHANGED told

\* onPlayResult with success.
Succeed ==
    /\ told' = "success"
    /\ \/ phase = "trying" /\ phase' = "playing"
       \/ phase = "late" /\ phase' = "over"

\* onPlayResult with an error; that may be before play() returns.
Fail == phase \in {"idle", "trying"} /\ phase' = "over" /\ told' = "failure"

\* onShutdown.
Break ==
    /\ told' = "broken"
    /\ \/ phase = "playing" /\ phase' = "over"
       \/ waits /\ phase = "trying" /\ phase' = "late"

\* The caller tears the player down, and is told nothing of it.
GiveUp == phase # "idle" /\ phase' = "over" /\ UNCHANGED told

ContractNext == (Try \/ Succeed \/ Fail \/ Break \/ GiveUp) /\ UNCHANGED waits
ContractSpec == ContractInit /\ [][ContractNext]_<<waits, phase, told>>
=============================================================================
