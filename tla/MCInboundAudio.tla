--------------------------- MODULE MCInboundAudio ---------------------------
(* Small instances of InboundAudio for TLC: eight sequence numbers.         *)
EXTENDS InboundAudio
=============================================================================
