--------------------------- MODULE MCHostTransport ---------------------------
(* Small instances of HostTransport for TLC; peers are interchangeable.     *)
EXTENDS HostTransport, TLC

PeerSymmetry == Permutations(Peers)
=============================================================================
