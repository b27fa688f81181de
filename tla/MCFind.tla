------------------------------- MODULE MCFind -------------------------------
(* Publishers of one tuple and players that look for it. *)
EXTENDS FindAsync
CONSTANTS a, b, live, r1, r2, p1, addr
MCKeys == {live}
MCKeyOf == [s \in Sources |-> live]
MCWants == [r \in Requests |-> live]
MCSessions == {p1}
\* Both calls are made for one session, so they share its tag.  (A session at
\* the address of one that is gone shares its tag likewise.)
MCSessionOf == [r \in Requests |-> p1]
MCOneTag == [x \in MCSessions |-> addr]
=============================================================================
