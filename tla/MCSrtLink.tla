------------------------------ MODULE MCSrtLink ------------------------------
(* A sender and a receiver with rings of three, and a network between them. *)
EXTENDS SrtLink
=============================================================================
