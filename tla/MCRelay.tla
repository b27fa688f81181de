------------------------------- MODULE MCRelay -------------------------------
(* Pushers retry for as long as their source lives, the API's default.       *)
EXTENDS PusherProxy
MCForever == -1
=============================================================================
