---------------------------- MODULE HostTransport ----------------------------
(***************************************************************************)
(* The transport of the host build (src/src/bluetooth_transport.c), which  *)
(* the tests run the session layer on: a table of discovered peers with    *)
(* holes, the remembered and the connected list, and one packet queue, all *)
(* called by the session layer and by the test that plays the headsets.    *)
(*                                                                         *)
(* Time is counted in polls of 100 ms.  A row's age is the time since      *)
(* last_seen_ms and stops just past the discovery timeout; "unseen" is     *)
(* last_seen_ms = 0, which also a report before the first poll leaves.     *)
(* disconnect_requested and reconnect_blocked are set and reset together   *)
(* and are one field.  Left out: names, error codes, counters for reports, *)
(* fields that are only reported (paired, pending_pair_peer_id), payloads, *)
(* and the wrap of the millisecond clock.                                  *)
(***************************************************************************)
EXTENDS Naturals, FiniteSets, Sequences, PacketQueue

CONSTANTS
  Peers,        \* peer ids of headsets
  NoPeer,       \* peer id 0
  InReach,      \* headsets that are reported ready again and again
  Local,        \* local_peer_id
  MaxPeers,     \* INTERCOM_MAX_PEERS, the size of every table
  QueueDepth,   \* BLUETOOTH_TRANSPORT_QUEUE_DEPTH
  Timeout       \* polls in BLUETOOTH_TRANSPORT_DISCOVERY_TIMEOUT_MS

ASSUME PeersAssumption ==
  /\ IsFiniteSet(Peers) /\ NoPeer \notin Peers /\ InReach \subseteq Peers
  /\ Local \notin Peers \cup {NoPeer}
ASSUME BoundsAssumption ==
  MaxPeers \in Nat \ {0} /\ QueueDepth \in Nat /\ Timeout \in Nat

VARIABLES
  rows,        \* discovered_peers
  count,       \* discovered_peer_count
  remembered,  \* remembered_peers
  listed,      \* connected_peers
  queue,       \* the packets, each as <<source, target>>
  enabled,     \* transport.enabled
  now,         \* last_poll_ms, up to just past the timeout
  cut          \* history: disconnected on request and not asked for since

vars == <<rows, count, remembered, listed, queue, enabled, now, cut>>

(***************************************************************************)
(* The table of discovered peers.                                          *)
(***************************************************************************)
Indices == 1 .. MaxPeers
Ages == 0 .. (Timeout + 1)

Row == [peer : Peers \cup {NoPeer}, ready : BOOLEAN, pending : BOOLEAN,
        blocked : BOOLEAN, unseen : BOOLEAN, age : Ages]

EmptyRow == [peer |-> NoPeer, ready |-> FALSE, pending |-> FALSE,
             blocked |-> FALSE, unseen |-> FALSE, age |-> 0]

NewRow(p) == [EmptyRow EXCEPT !.peer = p, !.unseen = TRUE, !.age = now]

Known(R, p) == \E i \in Indices : R[i].peer = p

IndexOf(R, p) == CHOOSE i \in Indices : R[i].peer = p

\* get_discovered_peer(create): the row there is, else the first free one.
WithRow(R, p) ==
  LET free == {i \in Indices : R[i].peer = NoPeer}
      first == CHOOSE i \in free : \A j \in free : i <= j
  IN  IF Known(R, p) \/ free = {} THEN R ELSE [R EXCEPT ![first] = NewRow(p)]

CountWith(p) ==
  IF Known(WithRow(rows, p), p) /\ ~Known(rows, p) /\ count < MaxPeers
  THEN count + 1 ELSE count

Older(age) == IF age > Timeout THEN age ELSE age + 1

Init ==
  /\ rows = [i \in Indices |-> EmptyRow] /\ count = 0
  /\ remembered = {} /\ listed = {} /\ queue = <<>>
  /\ enabled = TRUE /\ now = 0 /\ cut = {}

(***************************************************************************)
(* connect.  The peer is remembered first, and stays so when the rest      *)
(* fails.  A row that was never seen passes for ready.                     *)
(***************************************************************************)
MayRemember(p) == p \in remembered \/ Cardinality(remembered) < MaxPeers

\* mark_connected of the rows in I, of which the peers of S find room.
Marked(R, I) ==
  [i \in Indices |->
     IF i \in I THEN [R[i] EXCEPT !.pending = FALSE, !.blocked = FALSE]
     ELSE R[i]]

Connect(p) ==
  LET R == WithRow(rows, p)
      i == IndexOf(R, p)
      ready == R[i].ready \/ (R[i].unseen /\ ~R[i].pending)
  IN  /\ enabled /\ MayRemember(p)
      /\ remembered' = remembered \cup {p}
      /\ \/ /\ p \in listed \/ ~Known(R, p)
            /\ UNCHANGED <<rows, count, listed, cut>>
         \/ /\ p \notin listed /\ Known(R, p) /\ ~ready
            /\ rows' = [R EXCEPT ![i].pending = TRUE]
            /\ count' = CountWith(p)
            /\ UNCHANGED <<listed, cut>>
         \/ /\ p \notin listed /\ Known(R, p) /\ ready
            /\ rows' = Marked([R EXCEPT ![i].ready = TRUE], {i})
            /\ count' = CountWith(p)
            /\ listed' = IF Cardinality(listed) < MaxPeers
                         THEN listed \cup {p} ELSE listed
            /\ cut' = cut \ {p}
      /\ UNCHANGED <<queue, enabled, now>>

(***************************************************************************)
(* disconnect, clear_pairing and the end of a silent session.              *)
(***************************************************************************)

\* drop_peer_packets
Without(q, p) ==
  Kept(q, {i \in DOMAIN q : q[i][1] # p /\ q[i][2] # p})

\* Mutants: the row may be reconnected at once, or not after a silence either.
HungUpUnblocked(R, p, block) ==
  [i \in Indices |->
     IF R[i].peer = p THEN [R[i] EXCEPT !.pending = FALSE] ELSE R[i]]

HungUpBlocked(R, p, block) ==
  [i \in Indices |->
     IF R[i].peer = p
     THEN [R[i] EXCEPT !.pending = FALSE, !.blocked = TRUE] ELSE R[i]]

HungUp(R, p, block) ==
  [i \in Indices |->
     IF R[i].peer = p
     THEN [R[i] EXCEPT !.pending = FALSE, !.blocked = block] ELSE R[i]]

OffTheList(p) == listed' = listed \ {p} /\ queue' = Without(queue, p)

Disconnect(p) ==
  /\ p \in listed
  /\ OffTheList(p)
  /\ rows' = HungUp(rows, p, TRUE)
  /\ cut' = cut \cup {p}
  /\ UNCHANGED <<count, remembered, enabled, now>>

\* service_protocol_links: a session that fell silent is disconnected, and
\* clear_transport_disconnect_flags lets a poll reconnect it.
SessionTimeout(p) ==
  /\ enabled /\ p \in listed
  /\ OffTheList(p)
  /\ rows' = HungUp(rows, p, FALSE)
  /\ UNCHANGED <<count, remembered, enabled, now, cut>>

\* Mutant: the last row is not wiped after the others moved up.
ErasedUnwiped(R, p) ==
  LET doomed == {i \in 1 .. count : R[i].peer = p}
      d == CHOOSE i \in doomed : TRUE
  IN  IF doomed = {} THEN R
      ELSE [i \in Indices |->
              IF i < d \/ i >= count THEN R[i] ELSE R[i + 1]]

\* The first count rows are looked at and moved up, holes included: a row
\* behind a hole may lie outside of them, and stays.
Erased(R, p) ==
  LET doomed == {i \in 1 .. count : R[i].peer = p}
      d == CHOOSE i \in doomed : TRUE
  IN  IF doomed = {} THEN R
      ELSE [i \in Indices |->
              IF i < d \/ i > count THEN R[i]
              ELSE IF i < count THEN R[i + 1] ELSE EmptyRow]

\* clear_pairing of the session layer disconnects a listed peer first.  A row
\* that stays keeps its block, and with it the disconnect.
Clear(p) ==
  /\ IF p \in listed THEN OffTheList(p) ELSE UNCHANGED <<listed, queue>>
  /\ rows' = Erased(IF p \in listed THEN HungUp(rows, p, TRUE) ELSE rows, p)
  /\ count' = IF \E i \in 1 .. count : rows[i].peer = p
              THEN count - 1 ELSE count
  /\ remembered' = remembered \ {p}
  /\ cut' = IF ~Known(rows', p) THEN cut \ {p}
            ELSE IF p \in listed THEN cut \cup {p} ELSE cut
  /\ UNCHANGED <<enabled, now>>

\* restore_pairing
Restore(p) ==
  LET R == WithRow(rows, p)
  IN  /\ MayRemember(p)
      /\ remembered' = remembered \cup {p}
      /\ rows' = [i \in Indices |->
                    IF R[i].peer = p THEN [R[i] EXCEPT !.blocked = FALSE]
                    ELSE R[i]]
      /\ count' = CountWith(p)
      /\ cut' = cut \ {p}
      /\ UNCHANGED <<listed, queue, enabled, now>>

\* report_peer: a headset was seen, refused when there is no row for it.
Report(p, ready) ==
  LET R == WithRow(rows, p)
  IN  /\ Known(R, p)
      /\ rows' = [R EXCEPT ![IndexOf(R, p)].ready = ready,
                           ![IndexOf(R, p)].unseen = (now = 0),
                           ![IndexOf(R, p)].age = 0]
      /\ count' = CountWith(p)
      /\ UNCHANGED <<remembered, listed, queue, enabled, now, cut>>

(***************************************************************************)
(* poll: the clock advances, rows out of date are purged unless someone    *)
(* needs them, and remembered peers are connected in the table's order.    *)
(***************************************************************************)
Stale(r) == r.peer # NoPeer /\ r.age > Timeout

\* Mutant: rows still needed are purged as well.
PurgeableNeeded(r) == Stale(r) /\ ~r.pending

Purgeable(r) ==
  Stale(r) /\ r.peer \notin listed \cup remembered /\ ~r.pending

Due(r) ==
  /\ r.peer \in remembered \ listed /\ ~Stale(r)
  /\ r.ready /\ ~r.blocked

Poll ==
  LET aged == [i \in Indices |->
                 IF rows[i].peer = NoPeer THEN rows[i]
                 ELSE [rows[i] EXCEPT !.age = Older(@)]]
      purged == {i \in Indices : Purgeable(aged[i])}
      due == {i \in Indices : Due(aged[i])}
      seated == {i \in due : Cardinality({j \in due : j < i})
                               < MaxPeers - Cardinality(listed)}
  IN  /\ enabled
      /\ now' = Older(now)
      /\ rows' = [i \in Indices |-> IF i \in purged THEN EmptyRow
                                    ELSE Marked(aged, due)[i]]
      /\ count' = IF Cardinality(purged) > count
                  THEN 0 ELSE count - Cardinality(purged)
      /\ listed' = listed \cup {rows[i].peer : i \in seated}
      /\ cut' = cut \ {rows[i].peer : i \in purged}
      /\ UNCHANGED <<remembered, queue, enabled>>

(***************************************************************************)
(* The queue, and the switch.                                              *)
(***************************************************************************)
\* Mutant: the queue is not checked for room.
QueueUnchecked(source, target) ==
  /\ enabled /\ {source, target} \cap listed # {}
  /\ queue' = Append(queue, <<source, target>>)
  /\ UNCHANGED <<rows, count, remembered, listed, enabled, now, cut>>

\* queue_packet, whose own end may be either of the two.
Queue(source, target) ==
  /\ enabled /\ {source, target} \cap listed # {}
  /\ Len(queue) < QueueDepth
  /\ queue' = Append(queue, <<source, target>>)
  /\ UNCHANGED <<rows, count, remembered, listed, enabled, now, cut>>

Dequeue ==
  /\ queue # <<>>
  /\ queue' = Tail(queue)
  /\ UNCHANGED <<rows, count, remembered, listed, enabled, now, cut>>

SetEnabled(on) ==
  /\ enabled # on /\ enabled' = on
  /\ UNCHANGED <<rows, count, remembered, listed, queue, now, cut>>

Call(p) ==
  \/ Connect(p) \/ Disconnect(p) \/ SessionTimeout(p) \/ Clear(p) \/ Restore(p)
  \/ \E ready \in BOOLEAN : Report(p, ready)

Next ==
  \/ \E p \in Peers : Call(p)
  \/ \E source, target \in Peers \cup {Local} : Queue(source, target)
  \/ \E on \in BOOLEAN : SetEnabled(on)
  \/ Poll \/ Dequeue

Spec == Init /\ [][Next]_vars

(***************************************************************************)
(* Fairness: the runtime is polled for ever, and now and then right after  *)
(* a headset that may be reconnected was reported ready.                   *)
(***************************************************************************)
Reconnectable(p) == \E i \in Indices : rows[i].peer = p /\ Due(rows[i])

FairSpec ==
  /\ Spec
  /\ WF_vars(Poll)
  /\ \A p \in InReach : /\ SF_vars(Report(p, TRUE))
                        /\ SF_vars(Reconnectable(p) /\ Poll)

-----------------------------------------------------------------------------
TypeOK ==
  /\ rows \in [Indices -> Row]
  /\ count \in 0 .. MaxPeers
  /\ remembered \subseteq Peers /\ listed \subseteq Peers /\ cut \subseteq Peers
  /\ queue \in Seq((Peers \cup {Local}) \X (Peers \cup {Local}))
  /\ Len(queue) <= QueueDepth
  /\ enabled \in BOOLEAN /\ now \in Ages

\* However rows are created, purged and moved up, no peer has two rows and the
\* count kept beside the table is the number of rows in use.
TableExact ==
  /\ count = Cardinality({i \in Indices : rows[i].peer # NoPeer})
  /\ \A i, j \in Indices :
       rows[i].peer = rows[j].peer /\ rows[i].peer # NoPeer => i = j

\* A connected headset is a remembered one and keeps its row, also when it is
\* not reported for long and whatever is cleared, so the list never overflows.
ListedKeepsRow ==
  \A p \in listed : p \in remembered /\ Known(rows, p)

\* The calls keep the contract the session layer relies on (Transport).
Contract ==
  INSTANCE Transport WITH
    Ends <- Peers \cup {Local},
    queue <- [i \in DOMAIN queue |-> {queue[i][1], queue[i][2]}]

ImplementsTransport == Contract!Spec

\* README: the firmware "reconnects automatically when a remembered compatible
\* headset becomes available again": here, as long as it is reported and has
\* a row, and was not disconnected on request.
Reconnects ==
  \A p \in InReach :
    []<>(\/ p \in listed \/ p \notin remembered \/ p \in cut
         \/ ~enabled \/ ~Known(rows, p))

=============================================================================
