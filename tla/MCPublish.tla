------------------------------ MODULE MCPublish ------------------------------
(* Three publishers of one tuple, two of which may come first and make a      *)
(* source, and a source of another kind.                                      *)
EXTENDS PublishSession
CONSTANTS a, b, d, live, p1, p2, p3
MCSources == {a, b, d}
MCKeys == {live}
MCKeyOf == [s \in MCSources |-> live]
MCSessions == {p1, p2, p3}
MCTupleOf == [p \in MCSessions |-> live]
MCContinues == {p1, p2}
MCMaker == [s \in MCSources |-> IF s = a THEN p1 ELSE IF s = b THEN p2 ELSE None]
=============================================================================
