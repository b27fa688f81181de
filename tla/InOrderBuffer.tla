---------------------------- MODULE InOrderBuffer ----------------------------
(***************************************************************************)
(* What a receive buffer owes the stream above it: every packet it takes   *)
(* in goes out at most once and in the order it was sent; it may pass over *)
(* a packet that is missing, never over one it holds, and once it has      *)
(* passed over a packet it takes it no more.                               *)
(***************************************************************************)
EXTENDS Naturals

CONSTANTS Base          \* index of the first packet

VARIABLES
    base,               \* everything before this index was put out or given up
    held,               \* packets taken in and not put out yet
    given               \* packets put out by the last step

Init == base = Base /\ held = {} /\ given = {}

\* Take in one packet at most, then advance over any part of the window.
Step ==
    \E taken \in SUBSET (held' \cup given') :
        /\ \A p \in taken : p >= base
        /\ \A p, q \in taken \ held : p = q
        /\ base' >= base
        /\ given' = {p \in held \cup taken : p < base'}
        /\ held' = {p \in held \cup taken : p >= base'}

Spec == Init /\ [][Step]_<<base, held, given>>
=============================================================================
