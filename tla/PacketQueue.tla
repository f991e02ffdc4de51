----------------------------- MODULE PacketQueue -----------------------------
(***************************************************************************)
(* The packet queues of both transports are arrays that close up: packets  *)
(* are taken out of any place and those behind them move forward, so that  *)
(* the ones that stay keep their order (drop_peer_packets of               *)
(* bluetooth_transport.c, remove_outbound_at of bluetooth_le_audio.c).     *)
(***************************************************************************)
EXTENDS Naturals, FiniteSets, Sequences

\* The k-th smallest number of K.
Place(K, k) == CHOOSE i \in K : Cardinality({j \in K : j <= i}) = k

\* What is left of q when only the places of K stay.
Kept(q, K) == [k \in 1 .. Cardinality(K) |-> q[Place(K, k)]]

=============================================================================
