------------------------------ MODULE Transport ------------------------------
(***************************************************************************)
(* What the session layer (bluetooth.c) may rely on below it, whichever    *)
(* transport is built in: the calls of bluetooth_transport.h, stated on    *)
(* the connected list and the packet queue alone.  TargetBackend and       *)
(* HostTransport implement it; PeerLinks takes its connected list as       *)
(* input.                                                                  *)
(*                                                                         *)
(* A packet is the set of the peers it touches.                            *)
(***************************************************************************)
EXTENDS Naturals, FiniteSets, Sequences, PacketQueue

CONSTANTS
  Peers,       \* the headsets that may turn up
  Ends,        \* the ends a packet may have, this device included
  MaxPeers,    \* INTERCOM_MAX_PEERS
  QueueDepth   \* BLUETOOTH_TRANSPORT_QUEUE_DEPTH

VARIABLES
  listed,      \* connected_peers
  remembered,  \* remembered_peers
  queue,       \* the packets still to be sent
  cut          \* disconnected on request and not asked for since

vars == <<listed, remembered, queue, cut>>

Fits == Cardinality(listed') <= MaxPeers /\ Cardinality(remembered') <= MaxPeers

Without(p) == Kept(queue, {i \in DOMAIN queue : p \notin queue[i]})

Init ==
  /\ listed = {} /\ queue = <<>> /\ cut = {}
  /\ remembered \in SUBSET Peers /\ Cardinality(remembered) <= MaxPeers

\* connect and restore_pairing: about p alone.  One that lists p ends its cut.
AskFor(p) ==
  /\ listed' \in {listed, listed \cup {p}}
  /\ remembered' \in {remembered, remembered \cup {p}}
  /\ cut' \in {cut, cut \ {p}}
  /\ p \in listed' \ listed => p \notin cut'
  /\ Fits
  /\ UNCHANGED queue

\* p goes at once, with its packets, or later, when its channel has closed.
Leaves(p) ==
  /\ listed' \in {listed, listed \ {p}}
  /\ queue' \in {queue, Without(p)}
  /\ p \in listed \ listed' => queue' = Without(p)

Disconnect(p) ==
  /\ Leaves(p)
  /\ cut' \in {cut, cut \cup {p}}
  /\ UNCHANGED remembered

\* clear_pairing: p alone is forgotten.
Forget(p) ==
  /\ Leaves(p)
  /\ remembered' = remembered \ {p}
  /\ cut' \ {p} = cut \ {p}

\* queue_packet never takes a packet that touches no listed peer.
Queue(ends) ==
  /\ ends \cap listed # {} /\ Len(queue) < QueueDepth
  /\ queue' = Append(queue, ends)
  /\ UNCHANGED <<listed, remembered, cut>>

\* The headset calls: its cut ends.
CallIn(p) ==
  /\ listed' \in {listed, listed \cup {p}}
  /\ cut' = cut \ {p}
  /\ Fits
  /\ UNCHANGED <<remembered, queue>>

(***************************************************************************)
(* poll and the stack's own events, dequeue included: peers come and go,   *)
(* but none comes back that was cut; packets leave in the order queued,    *)
(* those of a peer that goes with it.                                      *)
(***************************************************************************)
Poll ==
  /\ listed' \in SUBSET Peers
  /\ (listed' \ listed) \cap cut = {}
  /\ \E K \in SUBSET DOMAIN queue : queue' = Kept(queue, K)
  /\ \A i \in DOMAIN queue' : queue'[i] \cap listed' # {}
  /\ Fits
  /\ cut' \subseteq cut
  /\ UNCHANGED remembered

Next ==
  \/ \E p \in Peers : AskFor(p) \/ Disconnect(p) \/ Forget(p) \/ CallIn(p)
  \/ \E ends \in SUBSET Ends : Queue(ends)
  \/ Poll

Spec == Init /\ [][Next]_vars

=============================================================================
