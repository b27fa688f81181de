------------------------------ MODULE MCSortor ------------------------------
(* A stream that crosses the wrap of its sequence numbers; the network may   *)
(* repeat any packet.  At next number 0 no filter stops a late or repeated   *)
(* packet from just before the wrap (RtpReceiver.h:73): it stays in the cache *)
(* until the stream comes round to its number, which is beyond MaxSent.      *)
EXTENDS PacketSortor
MCRepeats == 0 .. MaxSent
=============================================================================
