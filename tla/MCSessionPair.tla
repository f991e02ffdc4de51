---------------------------- MODULE MCSessionPair ----------------------------
(* Small instances of SessionPair for TLC: a handful of session ids.        *)
EXTENDS SessionPair

FewSessions == 1 .. 8
=============================================================================
