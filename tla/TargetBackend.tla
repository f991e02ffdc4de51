---------------------------- MODULE TargetBackend ----------------------------
(***************************************************************************)
(* The headset backend of the target build (src/src/bluetooth_le_audio.c): *)
(* inquiry, SDP lookup, dialling, automatic reconnect and the outbound     *)
(* queue, between the session layer above (PeerLinks takes this module's   *)
(* connected list as its tconn) and BTstack below.                         *)
(*                                                                         *)
(* BTstack's events are handlers that run while the stack is polled; the   *)
(* housekeeping of the poll follows them, and the session layer's calls    *)
(* come between polls.  chan and asked are the external side: the RFCOMM   *)
(* channels with each headset, one dialled ("out") and one opened by the   *)
(* headset ("in"), and the channels that owe a CAN_SEND_NOW event.         *)
(*                                                                         *)
(* The retry windows of SDP and of dialling are "passed or not": a poll    *)
(* may start none or any one of the eligible peers.  Left out: switching   *)
(* Bluetooth off, received data (see InboundAudio), peer names, addresses  *)
(* whose peer ids collide, and disconnect_requested, which only a listed   *)
(* peer has and which is read only for peers that are not listed.          *)
(***************************************************************************)
EXTENDS Naturals, FiniteSets, Sequences, PacketQueue

CONSTANTS
  Peers,           \* peer ids
  NoPeer,          \* peer id 0
  Headsets,        \* the peer ids that belong to a headset
  Reachable,       \* headsets that have the service and accept every dial
  DialIn,          \* headsets that open a channel by themselves
  Clearable,       \* peer ids whose pairing the held button clears
  MaxPeers,        \* INTERCOM_MAX_PEERS, the size of every table
  QueueDepth,      \* BLUETOOTH_TRANSPORT_QUEUE_DEPTH
  SdpMaxAttempts,  \* BLUETOOTH_LE_AUDIO_SDP_MAX_ATTEMPTS
  AbortReports     \* how BTstack ends a dial that was disconnected

ASSUME PeersAssumption ==
  /\ IsFiniteSet(Peers) /\ NoPeer \notin Peers /\ Headsets \subseteq Peers
  /\ Reachable \subseteq Headsets /\ DialIn \subseteq Headsets
  /\ Clearable \subseteq Peers
ASSUME BoundsAssumption ==
  /\ MaxPeers \in Nat \ {0} /\ QueueDepth \in Nat
  /\ SdpMaxAttempts \in Nat \ {0}
ASSUME ReportsAssumption ==
  AbortReports # {} /\ AbortReports \subseteq {"opened", "closed"}

VARIABLES
  table,       \* what the firmware keeps of each peer (Record)
  remembered,  \* transport.remembered_peers
  outq,        \* outbound_queue, as the target of each packet
  canSend,     \* can_send_pending
  dialling,    \* connect_peer_id
  sdp,         \* sdp_query_peer_id, of the active query
  inquiry,     \* inquiry_active
  polling,     \* events of the current poll have been handled
  chan,        \* external: state of the channels with each peer
  asked,       \* external: channels with an unanswered send request
  cut          \* history: peers disconnected on request, until asked for
               \* again or calling in themselves

firmware == <<table, remembered, outq, canSend, dialling, sdp, inquiry>>
vars == <<firmware, polling, chan, asked, cut>>

(***************************************************************************)
(* One peer's row: discovered_peers (known, ready, pending, blocked,       *)
(* tries), the backend's peers (backend, addr, cid, service, wantSdp,      *)
(* wantDial) and the connected list (slot).                                *)
(***************************************************************************)
Directions == {"out", "in"}
Slots == {"none", "reserved", "connecting", "connected", "disconnecting"}

Record == [known : BOOLEAN, ready : BOOLEAN, pending : BOOLEAN,
           blocked : BOOLEAN, tries : 0 .. SdpMaxAttempts,
           backend : BOOLEAN, addr : BOOLEAN, service : BOOLEAN,
           cid : Directions \cup {"none"}, wantSdp : BOOLEAN,
           wantDial : BOOLEAN, slot : Slots]

Blank == [known |-> FALSE, ready |-> FALSE, pending |-> FALSE,
          blocked |-> FALSE, tries |-> 0, backend |-> FALSE, addr |-> FALSE,
          service |-> FALSE, cid |-> "none", wantSdp |-> FALSE,
          wantDial |-> FALSE, slot |-> "none"]

Listed(T) == {p \in Peers : T[p].slot # "none"}

\* get_peer and backend_peer_by_id with create: the row, if a table has room.
WithInfo(T, p) ==
  IF Cardinality({q \in Peers : T[q].known}) < MaxPeers
  THEN [T EXCEPT ![p].known = TRUE]
  ELSE T

WithBackend(T, p) ==
  IF Cardinality({q \in Peers : T[q].backend}) < MaxPeers
  THEN [T EXCEPT ![p].backend = TRUE]
  ELSE T

\* reserve_connected_slot
Reserve(T, p) ==
  IF p \in Listed(T) \/ Cardinality(Listed(T)) >= MaxPeers
  THEN T
  ELSE [T EXCEPT ![p].slot = "reserved"]

MarkConnecting(T, p) ==
  LET U == Reserve(WithInfo(T, p), p)
  IN  IF U[p].known /\ p \in Listed(U)
      THEN [U EXCEPT ![p].pending = TRUE, ![p].blocked = FALSE,
                     ![p].slot = "connecting"]
      ELSE U

\* Mutant: the slot keeps its state.
MarkDisconnectingQuietly(T, p) ==
  LET U == Reserve(T, p)
  IN  IF p \in Listed(U) THEN [U EXCEPT ![p].pending = FALSE] ELSE U

MarkDisconnecting(T, p) ==
  LET U == Reserve(T, p)
  IN  IF p \in Listed(U)
      THEN [U EXCEPT ![p].pending = FALSE, ![p].slot = "disconnecting"]
      ELSE U

MarkConnected(T, p) ==
  LET U == WithInfo(T, p)
      V == Reserve([U EXCEPT ![p].pending = FALSE, ![p].blocked = FALSE,
                             ![p].ready = TRUE, ![p].tries = 0], p)
  IN  IF ~U[p].known THEN U
      ELSE IF p \in Listed(V) THEN [V EXCEPT ![p].slot = "connected"]
      ELSE V

\* mark_disconnected, whose drop_outbound_for_peer is Without.
MarkDisconnected(T, p) ==
  [T EXCEPT ![p].slot = "none", ![p].pending = FALSE]

\* Mutant: the packets stay in the queue.
WithoutNone(q, p) == Kept(q, {i \in DOMAIN q : q[i] # NoPeer})

Without(q, p) == Kept(q, {i \in DOMAIN q : q[i] # p})

\* backend_peer_by_address and report_backend_peer
Addressed(T, p) ==
  LET U == WithBackend(T, p)
  IN  IF U[p].backend THEN [U EXCEPT ![p].addr = TRUE] ELSE U

\* Mutant: no row in the other table.
ReportBackendOnly(T, p, ready) ==
  LET U == Addressed(T, p)
  IN  IF U[p].backend THEN [U EXCEPT ![p].ready = ready] ELSE U

Report(T, p, ready) ==
  LET U == WithInfo(Addressed(T, p), p)
  IN  IF U[p].backend /\ U[p].known THEN [U EXCEPT ![p].ready = ready] ELSE U

(***************************************************************************)
(* maybe_request_send_now: one request is outstanding at a time, for the   *)
(* first packet whose target has a channel id.                             *)
(***************************************************************************)
HasCid(T, p) == T[p].backend /\ T[p].cid # "none"

Sendable(T, q) == {i \in DOMAIN q : HasCid(T, q[i])}

FirstSendable(T, q) ==
  CHOOSE i \in Sendable(T, q) : \A j \in Sendable(T, q) : i <= j

\* Mutant: a request that BTstack refused counts as pending.
RequestSendRefused(T, q, pendingSend, waiting) ==
  canSend' = (pendingSend \/ Sendable(T, q) # {}) /\ asked' = waiting

RequestSend(T, q, pendingSend, waiting) ==
  IF ~pendingSend /\ Sendable(T, q) # {}
  THEN LET p == q[FirstSendable(T, q)]
       IN  canSend' = TRUE /\ asked' = waiting \cup {<<p, T[p].cid>>}
  ELSE canSend' = pendingSend /\ asked' = waiting

\* The channel the firmware knows for p is open.
Linked(p) == HasCid(table, p) /\ chan[p][table[p].cid] = "open"

(***************************************************************************)
(* Boot: restore_pairing of the stored pairings, then power on.            *)
(***************************************************************************)
RestoredRecord == [Blank EXCEPT !.known = TRUE, !.backend = TRUE]

Init ==
  /\ remembered \in {R \in SUBSET Peers : Cardinality(R) <= MaxPeers}
  /\ table = [p \in Peers |-> IF p \in remembered THEN RestoredRecord ELSE Blank]
  /\ outq = <<>> /\ canSend = FALSE
  /\ dialling = NoPeer /\ sdp = NoPeer
  /\ inquiry \in BOOLEAN
  /\ polling = FALSE
  /\ chan = [p \in Peers |-> [d \in Directions |-> "none"]]
  /\ asked = {} /\ cut = {}

(***************************************************************************)
(* Calls of the session layer.                                             *)
(***************************************************************************)
\* stack_connect
Connect(p) ==
  LET T == WithInfo(table, p)
      U == WithBackend(T, p)
  IN  /\ ~polling
      /\ \/ ~(T[p].known /\ U[p].backend) /\ table' = T /\ UNCHANGED cut
         \/ /\ T[p].known /\ U[p].backend
            /\ table' = MarkConnecting(
                 [U EXCEPT ![p].wantDial = TRUE, ![p].wantSdp = ~U[p].service,
                           ![p].pending = TRUE, ![p].blocked = FALSE], p)
            /\ cut' = cut \ {p}
      /\ UNCHANGED <<remembered, outq, canSend, dialling, sdp, inquiry>>
      /\ UNCHANGED <<polling, chan, asked>>

\* rfcomm_disconnect: a channel being opened is aborted, an open one closed.
Hangup(p, d) ==
  [chan EXCEPT ![p][d] = IF @ = "opening" THEN "aborting"
                         ELSE IF @ = "open" THEN "closing" ELSE @]

\* Mutants: a row without a channel waits for the channel to close, and the
\* dial that was asked for stays asked for.
HungUpWaits(T, p) ==
  LET U == MarkDisconnecting(
             [T EXCEPT ![p].blocked = T[p].known,
                       ![p].wantDial = FALSE, ![p].wantSdp = FALSE], p)
  IN  IF ~T[p].backend THEN T ELSE U

HungUpStillDials(T, p) ==
  LET U == MarkDisconnecting(
             [T EXCEPT ![p].blocked = T[p].known, ![p].wantSdp = FALSE], p)
  IN  IF ~T[p].backend THEN T
      ELSE IF HasCid(T, p) THEN U
      ELSE MarkDisconnected(U, p)

\* stack_disconnect: the row without a channel is taken off the list at once,
\* the others when BTstack reports their channel closed.
HungUp(T, p) ==
  LET U == MarkDisconnecting(
             [T EXCEPT ![p].blocked = T[p].known,
                       ![p].wantDial = FALSE, ![p].wantSdp = FALSE], p)
  IN  IF ~T[p].backend THEN T
      ELSE IF HasCid(T, p) THEN U
      ELSE MarkDisconnected(U, p)

HangUpPeer(p) ==
  /\ chan' = IF HasCid(table, p) THEN Hangup(p, table[p].cid) ELSE chan
  /\ outq' = IF table[p].backend /\ ~HasCid(table, p)
             THEN Without(outq, p) ELSE outq

OtherCalls ==
  UNCHANGED <<canSend, dialling, sdp, inquiry, polling, asked>>

\* disconnect_peer of a listed peer, or a GOODBYE, perhaps a late one, of a
\* headset: either side asked for the disconnect.
Disconnect(p) ==
  /\ ~polling
  /\ table[p].backend /\ (p \in Listed(table) \/ table[p].addr)
  /\ table' = HungUp(table, p) /\ HangUpPeer(p)
  /\ cut' = cut \cup {p}
  /\ OtherCalls /\ UNCHANGED remembered

\* Mutant: the flags of the disconnect stay.
SessionTimeoutBlocks(p) ==
  /\ ~polling
  /\ Linked(p)
  /\ table' = HungUp(table, p)
  /\ HangUpPeer(p)
  /\ OtherCalls /\ UNCHANGED <<remembered, cut>>

\* service_protocol_links: a session that fell silent is disconnected, and
\* clear_transport_disconnect_flags lets the stack reconnect it.
SessionTimeout(p) ==
  /\ ~polling
  /\ Linked(p)
  /\ table' = [HungUp(table, p) EXCEPT ![p].blocked = FALSE]
  /\ HangUpPeer(p)
  /\ OtherCalls /\ UNCHANGED <<remembered, cut>>

\* clear_pairing of the session layer: disconnect a listed peer, then erase
\* its rows (stack_clear_pairing), which leaves its slot in the list.
Clear(p) ==
  /\ ~polling /\ p \in Clearable
  /\ \/ /\ p \in Listed(table)
        /\ table' = [table EXCEPT ![p] =
                        [Blank EXCEPT !.slot = HungUp(table, p)[p].slot]]
        /\ HangUpPeer(p)
     \/ /\ p \notin Listed(table)
        /\ table' = [table EXCEPT ![p] = Blank]
        /\ UNCHANGED <<chan, outq>>
  /\ remembered' = remembered \ {p}
  /\ cut' = cut \ {p}
  /\ OtherCalls

\* Mutant: the queue is not checked for room.
QueueUnchecked(p) ==
  /\ ~polling
  /\ p \in Listed(table)
  /\ outq' = Append(outq, p)
  /\ UNCHANGED <<table, remembered, canSend, dialling, sdp, inquiry>>
  /\ UNCHANGED <<polling, chan, asked, cut>>

\* stack_queue_packet, refused for a peer that is not listed or a full queue
Queue(p) ==
  /\ ~polling
  /\ p \in Listed(table) /\ Len(outq) < QueueDepth
  /\ outq' = Append(outq, p)
  /\ UNCHANGED <<table, remembered, canSend, dialling, sdp, inquiry>>
  /\ UNCHANGED <<polling, chan, asked, cut>>

(***************************************************************************)
(* Events of BTstack, dispatched to backend_packet_handler during a poll.  *)
(***************************************************************************)
Ended(p, d) == [chan EXCEPT ![p][d] = "none"]

InquiryResult(h) ==
  LET T == Report(table, h, FALSE)
  IN  /\ inquiry
      /\ table' = IF T[h].known /\ T[h].backend
                  THEN [T EXCEPT ![h].wantSdp = TRUE] ELSE T
      /\ polling' = TRUE
      /\ UNCHANGED <<remembered, outq, canSend, dialling, sdp, inquiry>>
      /\ UNCHANGED <<chan, asked, cut>>

InquiryComplete ==
  /\ inquiry /\ inquiry' = FALSE
  /\ polling' = TRUE
  /\ UNCHANGED <<table, remembered, outq, canSend, dialling, sdp>>
  /\ UNCHANGED <<chan, asked, cut>>

\* INCOMING_CONNECTION: the channel of the headset replaces the one known.
Incoming(h) ==
  LET T == Addressed(table, h)
      U == Report([T EXCEPT ![h].service = TRUE, ![h].cid = "in",
                            ![h].wantDial = TRUE], h, TRUE)
  IN  /\ h \in DialIn /\ chan[h]["in"] = "none"
      /\ T[h].backend
      /\ table' = MarkConnecting(U, h)
      /\ chan' = [chan EXCEPT ![h]["in"] = "opening"]
      /\ cut' = cut \ {h}
      /\ polling' = TRUE
      /\ UNCHANGED <<remembered, outq, canSend, dialling, sdp, inquiry>>
      /\ UNCHANGED <<asked>>

\* CHANNEL_OPENED with success; no row for the headset: the event is ignored.
Opened(h, d) ==
  LET T == Addressed(table, h)
      U == Report([T EXCEPT ![h].cid = d, ![h].wantDial = FALSE], h, TRUE)
  IN  /\ chan[h][d] = "opening"
      /\ chan' = [chan EXCEPT ![h][d] = "open"]
      /\ table' = IF T[h].backend THEN MarkConnected(U, h) ELSE T
      /\ dialling' = NoPeer
      /\ cut' = IF d = "in" THEN cut \ {h} ELSE cut
      /\ polling' = TRUE
      /\ UNCHANGED <<remembered, outq, canSend, sdp, inquiry>>
      /\ UNCHANGED <<asked>>

\* Mutant: the id of the channel stays.
NoChannelKeepsCid(r, dial) ==
  [r EXCEPT !.wantDial = dial, !.wantSdp = dial /\ ~r.service]

\* The backend's row after its channel is gone, dialled again or not.
NoChannel(r, dial) ==
  [r EXCEPT !.cid = "none", !.wantDial = dial, !.wantSdp = dial /\ ~r.service]

\* CHANNEL_OPENED with an error: the dial failed, or was disconnected.
OpenFails(h, d) ==
  LET T == Addressed(table, h)
  IN  /\ \/ chan[h][d] = "opening" /\ ~(d = "out" /\ h \in Reachable)
         \/ chan[h][d] = "aborting" /\ "opened" \in AbortReports
      /\ table' = IF T[h].backend
                  THEN MarkDisconnected([T EXCEPT ![h] = NoChannel(@, TRUE)], h)
                  ELSE T
      /\ outq' = IF T[h].backend THEN Without(outq, h) ELSE outq
      /\ dialling' = NoPeer
      /\ chan' = Ended(h, d) /\ asked' = asked \ {<<h, d>>}
      /\ polling' = TRUE
      /\ UNCHANGED <<remembered, canSend, sdp, inquiry, cut>>

\* CHANNEL_CLOSED: the peer is found by the channel id, if it is still known.
ChannelClosed(h, d) ==
  LET r == table[h]
      wanted == ~r.blocked /\ (h \in remembered \/ r.pending)
      known == HasCid(table, h) /\ r.cid = d
  IN  /\ \/ chan[h][d] \in {"open", "closing"}
         \/ chan[h][d] = "aborting" /\ "closed" \in AbortReports
      /\ \/ /\ known
            /\ table' = MarkDisconnected(
                 [table EXCEPT ![h] =
                    [NoChannel(r, wanted) EXCEPT !.ready = r.known /\ r.service]], h)
            /\ outq' = Without(outq, h)
         \/ ~known /\ UNCHANGED <<table, outq>>
      /\ canSend' = FALSE
      /\ chan' = Ended(h, d) /\ asked' = asked \ {<<h, d>>}
      /\ polling' = TRUE
      /\ UNCHANGED <<remembered, dialling, sdp, inquiry, cut>>

(***************************************************************************)
(* CAN_SEND_NOW: packets for peers without a row are dropped on the way to *)
(* the first packet for this channel, which is sent (or dropped as too     *)
(* large), or whose sending fails.                                         *)
(***************************************************************************)
Backed(q) == {i \in DOMAIN q : table[q[i]].backend}

CanSendNow(h, d) ==
  LET mine == {i \in DOMAIN outq : outq[i] = h /\ HasCid(table, h)
                                     /\ table[h].cid = d}
      first == CHOOSE i \in mine : \A j \in mine : i <= j
      unsent == {i \in DOMAIN outq : i > first}
                  \cup {i \in Backed(outq) : i < first}
      waiting == asked \ {<<h, d>>}
  IN  /\ <<h, d>> \in asked /\ chan[h][d] = "open"
      /\ \/ /\ mine = {}
            /\ outq' = Kept(outq, Backed(outq))
            /\ canSend' = FALSE /\ asked' = waiting
            /\ UNCHANGED <<table, chan>>
         \/ /\ mine # {}
            /\ outq' = Kept(outq, unsent)
            /\ RequestSend(table, outq', FALSE, waiting)
            /\ UNCHANGED <<table, chan>>
         \/ /\ mine # {} /\ h \notin Reachable
            /\ outq' = Kept(outq, {i \in unsent : outq[i] # h})
            /\ canSend' = FALSE /\ asked' = waiting
            /\ table' = MarkDisconnecting(table, h)
            /\ chan' = Hangup(h, d)
      /\ polling' = TRUE
      /\ UNCHANGED <<remembered, dialling, sdp, inquiry, cut>>

\* The SDP query finds the headset's service (note_channel) ...
SdpService(p) ==
  LET T == WithBackend(table, p)
      U == WithInfo([T EXCEPT ![p].service = TRUE, ![p].wantSdp = FALSE], p)
  IN  /\ sdp = p /\ p \in Headsets
      /\ table' = IF ~T[p].backend THEN T
                  ELSE IF U[p].known THEN [U EXCEPT ![p].ready = TRUE] ELSE U
      /\ polling' = TRUE
      /\ UNCHANGED <<remembered, outq, canSend, dialling, sdp, inquiry>>
      /\ UNCHANGED <<chan, asked, cut>>

\* ... and completes: without a service, after the last attempt, the peer is
\* given up and its reconnect blocked.
SdpComplete(p) ==
  LET r == table[p]
      retry == r.known /\ r.tries < SdpMaxAttempts
      missing == r.backend /\ ~r.service
  IN  /\ sdp = p /\ (missing => p \notin Reachable)
      /\ sdp' = NoPeer
      /\ table' =
           IF ~missing THEN table
           ELSE IF retry THEN [table EXCEPT ![p].wantSdp = TRUE]
           ELSE [table EXCEPT ![p].wantSdp = FALSE, ![p].wantDial = FALSE,
                              ![p].ready = FALSE, ![p].pending = FALSE,
                              ![p].blocked = r.known]
      /\ polling' = TRUE
      /\ UNCHANGED <<remembered, outq, canSend, dialling, inquiry>>
      /\ UNCHANGED <<chan, asked, cut>>

(***************************************************************************)
(* The housekeeping at the end of stack_poll, in its order: automatic      *)
(* reconnect, an SDP query (q), a dial (d), a send request, an inquiry.    *)
(* NoPeer stands for "none is due".  The session layer then sees the list. *)
(***************************************************************************)

\* Mutant: only a pairing in progress is reconnected.
WantingPairing(T) ==
  {p \in Peers \ Listed(T) :
     /\ T[p].known /\ T[p].ready /\ ~T[p].blocked /\ T[p].backend
     /\ T[p].pending}

\* Mutant: a blocked peer is reconnected like any other.
WantingBlocked(T) ==
  {p \in Peers \ Listed(T) :
     /\ T[p].known /\ T[p].ready /\ T[p].backend
     /\ T[p].pending \/ p \in remembered}

Wanting(T) ==
  {p \in Peers \ Listed(T) :
     /\ T[p].known /\ T[p].ready /\ ~T[p].blocked /\ T[p].backend
     /\ T[p].pending \/ p \in remembered}

\* Each of them asks for a dial; as many as there is room for are listed.
Reconnecting(T, seated) ==
  [p \in Peers |->
     IF p \notin Wanting(T) THEN T[p]
     ELSE IF ~T[p].service THEN [T[p] EXCEPT !.wantSdp = TRUE]
     ELSE IF p \in seated
          THEN [T[p] EXCEPT !.wantDial = TRUE, !.pending = TRUE,
                            !.slot = "connecting"]
          ELSE [T[p] EXCEPT !.wantDial = TRUE]]

Seatings(T) ==
  LET callers == {p \in Wanting(T) : T[p].service}
      room == MaxPeers - Cardinality(Listed(T))
  IN  {S \in SUBSET callers :
         Cardinality(S) <= room /\ (S = callers \/ Cardinality(S) = room)}

SdpDue(T, q) ==
  sdp = NoPeer /\ T[q].backend /\ T[q].wantSdp /\ T[q].addr

Querying(T, q) ==
  [T EXCEPT ![q].wantSdp = FALSE,
            ![q].tries = IF T[q].known /\ @ < SdpMaxAttempts THEN @ + 1 ELSE @]

\* Mutant: the dial under way is not looked at.
DialDueAnyway(T, p) ==
  /\ T[p].backend /\ T[p].wantDial /\ T[p].cid = "none" /\ T[p].service
  /\ chan[p]["out"] = "none"

\* rfcomm_create_channel refuses a second dial of a headset.
DialDue(T, p) ==
  /\ dialling = NoPeer
  /\ T[p].backend /\ T[p].wantDial /\ T[p].cid = "none" /\ T[p].service
  /\ chan[p]["out"] = "none"

Dialled(T, p) == MarkConnecting([T EXCEPT ![p].cid = "out"], p)

Housekeep(q, d) ==
  /\ sdp' = IF q = NoPeer THEN sdp ELSE q
  /\ \E seated \in Seatings(table) :
       LET T == Reconnecting(table, seated)
           U == IF q = NoPeer THEN T ELSE Querying(T, q)
           V == IF d = NoPeer THEN U ELSE Dialled(U, d)
       IN  /\ q # NoPeer => SdpDue(T, q)
           /\ d # NoPeer => DialDue(U, d)
           /\ table' = V
           /\ RequestSend(V, outq, canSend, asked)
           /\ inquiry' = (inquiry \/ (sdp' = NoPeer /\
                                      Cardinality(Listed(V)) < MaxPeers))
  /\ dialling' = IF d = NoPeer THEN dialling ELSE d
  /\ chan' = IF d = NoPeer THEN chan
             ELSE [chan EXCEPT ![d]["out"] = "opening"]
  /\ polling' = FALSE
  /\ UNCHANGED <<remembered, outq, cut>>

Call(p) ==
  \/ Connect(p) \/ Disconnect(p) \/ SessionTimeout(p)
  \/ Clear(p) \/ Queue(p)

Event(h) ==
  \/ InquiryResult(h) \/ Incoming(h) \/ SdpService(h) \/ SdpComplete(h)
  \/ \E d \in Directions :
       Opened(h, d) \/ OpenFails(h, d) \/ ChannelClosed(h, d) \/ CanSendNow(h, d)

Poll == \E q, d \in Peers \cup {NoPeer} : Housekeep(q, d)

Next ==
  \/ \E p \in Peers : Call(p)
  \/ \E h \in Headsets : Event(h)
  \/ InquiryComplete
  \/ Poll

(***************************************************************************)
(* Fairness.  The main loop polls for ever and retry windows pass, so a    *)
(* query or dial that stays due is started, though not for every peer in   *)
(* turn.  BTstack ends what it was asked for: a query, a dial, a hang-up,  *)
(* a send request on an open channel.  A reachable headset answers the     *)
(* inquiry now and then, and its SDP record has the service.               *)
(***************************************************************************)
Queries(q) == \E d \in Peers \cup {NoPeer} : Housekeep(q, d)
Dials == \E q \in Peers \cup {NoPeer}, d \in Peers : Housekeep(q, d)

Redials(h) == h \in Wanting(table) /\ table[h].service /\ Poll

DialEnds(h, d) ==
  \/ Opened(h, d) \/ OpenFails(h, d)
  \/ chan[h][d] \in {"aborting", "closing"} /\ ChannelClosed(h, d)

Fairness ==
  /\ WF_vars(Poll) /\ SF_vars(Dials)
  /\ \A h \in Headsets :
       /\ SF_vars(Queries(h)) /\ WF_vars(SdpComplete(h))
       /\ \A d \in Directions :
            WF_vars(DialEnds(h, d)) /\ WF_vars(CanSendNow(h, d))
  /\ \A h \in Reachable :
       /\ SF_vars(InquiryResult(h)) /\ SF_vars(SdpService(h))
       /\ SF_vars(Redials(h))

Spec == Init /\ [][Next]_vars
FairSpec == Spec /\ Fairness

-----------------------------------------------------------------------------
TypeOK ==
  /\ table \in [Peers -> Record]
  /\ remembered \subseteq Peers
  /\ outq \in Seq(Peers) /\ Len(outq) <= QueueDepth
  /\ canSend \in BOOLEAN
  /\ dialling \in Peers \cup {NoPeer} /\ sdp \in Peers \cup {NoPeer}
  /\ inquiry \in BOOLEAN /\ polling \in BOOLEAN
  /\ chan \in [Peers -> [Directions ->
                  {"none", "opening", "aborting", "open", "closing"}]]
  /\ asked \subseteq Peers \X Directions
  /\ cut \subseteq Peers

\* A peer listed as connected has an open channel, and it is the one packets
\* for the peer are sent on, also when both sides open a channel at once and
\* channels fail, close or are replaced in any order.
ConnectedHasChannel ==
  \A p \in Peers : table[p].slot = "connected" => Linked(p)

\* The channel id kept of a peer names a channel BTstack still has: nothing is
\* sent to, or hung up on, an id that another channel may reuse.
CidIsLive ==
  \A p \in Peers : HasCid(table, p) => chan[p][table[p].cid] # "none"

\* No packet waits for a peer that is off the list: what a session queued does
\* not go out on a later channel of the same headset.
QueuedForListed == \A i \in DOMAIN outq : outq[i] \in Listed(table)

\* While headsets only answer, one dial is under way at a time, whatever is
\* disconnected, asked for again or reconnected meanwhile.
OneDial ==
  Cardinality({p \in Peers :
                 chan[p]["out"] \in {"opening", "aborting"}}) <= 1

\* A peer being disconnected still has a channel whose end will take it off
\* the list, where it holds a place and keeps reconnects away.
DisconnectingEnds ==
  \A p \in Peers : table[p].slot = "disconnecting" =>
    \E d \in Directions : chan[p][d] # "none"

StartsDial(p) == chan[p]["out"] = "none" /\ chan'[p]["out"] = "opening"

GetsListed(p) == p \notin Listed(table) /\ p \in Listed(table')

\* Automatic reconnect is blocked for a headset only by a disconnect that was
\* asked for, or after its last SDP attempt: no failed dial, silent session or
\* closed channel blocks it, in whatever order they come.
BlockedForCause ==
  \A p \in Peers : table[p].blocked =>
    p \in cut \/ table[p].tries = SdpMaxAttempts

\* The firmware keeps two tables of peers and the list, all of one size and
\* filled by different calls and events.  A peer with a row in one table has it
\* in the other, and is listed or finds room on the list: no full table makes a
\* connect stop halfway, and no dial is started for a peer without a place.
RowsHavePlaces ==
  \A p \in Peers : table[p].known \/ table[p].backend =>
    /\ table[p].known /\ table[p].backend
    /\ p \in Listed(table) \/ Cardinality(Listed(table)) < MaxPeers

\* The backend keeps the contract the session layer relies on (Transport): the
\* list and the queue change only as its calls and its polls may change them.
Contract ==
  INSTANCE Transport WITH
    Ends <- Peers, listed <- Listed(table),
    queue <- [i \in DOMAIN outq |-> {outq[i]}]

ImplementsTransport == Contract!Spec

\* README: "Explicit disconnect requests suppress automatic reconnect until
\* the headset is paired or connected again deliberately": from the disconnect
\* on no dial is started for a peer, and no step puts it back on the list, until
\* it is asked for again.
DisconnectSticks ==
  [][\A p \in Peers : StartsDial(p) \/ GetsListed(p) => p \notin cut']_vars

\* README: the firmware "reconnects automatically when a remembered compatible
\* headset becomes available again": a remembered headset that stays reachable
\* and was not disconnected on request is linked again and again.
Reconnects ==
  \A h \in Reachable :
    []<>(Linked(h) \/ h \notin remembered \/ h \in cut)

\* README: it "relays encoded intercom audio frames to each operational
\* Bluetooth headset session": packets do not wait for ever for a headset with
\* an open channel while the queue stands still.
OutboundMoves ==
  \A h \in Headsets :
    \/ []<>~(Linked(h) /\ \E i \in DOMAIN outq : outq[i] = h)
    \/ []<><<Len(outq') < Len(outq)>>_vars

=============================================================================
