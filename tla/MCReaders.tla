------------------------------ MODULE MCReaders ------------------------------
(* One stream with an rtsp source and two successive HLS sources, and two RTP
   senders that share an ssrc, one of them started through the C API. *)
EXTENDS NoneReader
CONSTANTS rtsp, h1, h2, x, y
MCSourceOf == [z \in Senders |-> IF z = x THEN rtsp ELSE NullSource]
=============================================================================
