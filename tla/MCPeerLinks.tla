---------------------------- MODULE MCPeerLinks ----------------------------
(* Small instances of PeerLinks for TLC; peers and session ids are          *)
(* interchangeable.                                                         *)
EXTENDS PeerLinks, TLC

InterchangeSymmetry == Permutations(Peers) \cup Permutations(Sessions)
=============================================================================
