------------------------------ MODULE PeerLinks ------------------------------
(***************************************************************************)
(* The session layer of the firmware (src/src/bluetooth.c): the table of   *)
(* peer links with their HELLO / HELLO_ACK handshake, keepalive timeout    *)
(* and teardown, the copy the runtime keeps of the transport's connected   *)
(* list, the relay list of intercom.c and the pairing in progress, driven  *)
(* by the main loop, the button and packets from headsets.                 *)
(*                                                                         *)
(* The stack below is a contract: a poll may change the connected list in  *)
(* any way, connect and disconnect of one peer touch that peer's entry     *)
(* only, a queue may refuse a message.  The inbound queue may hold packets *)
(* of a peer whose channel has closed since.  Messages carry what the      *)
(* session layer tells apart; the sequence numbers are in InboundAudio.    *)
(*                                                                         *)
(* Time is counted in polls.  A link has one age: of last_activity_ms      *)
(* while its session is active and of last_handshake_ms otherwise, the one *)
(* of the two the service pass reads; it stops at the bound compared with. *)
(***************************************************************************)
EXTENDS Naturals, FiniteSets

CONSTANTS
  Peers,            \* the headsets that may turn up
  NoPeer,           \* peer id 0
  Sessions,         \* the non-zero session ids
  NoSession,        \* session id 0
  MaxPeers,         \* INTERCOM_MAX_PEERS, the size of every peer table
  QueueDepth,       \* BLUETOOTH_TRANSPORT_QUEUE_DEPTH, packets of one drain
  HandshakeRetry,   \* polls in BLUETOOTH_HANDSHAKE_RETRY_MS
  SessionTimeout    \* polls in BLUETOOTH_SESSION_TIMEOUT_MS

ASSUME PeersAssumption == IsFiniteSet(Peers) /\ NoPeer \notin Peers
ASSUME SessionsAssumption == Sessions # {} /\ NoSession \notin Sessions
ASSUME BoundsAssumption ==
  /\ MaxPeers \in Nat \ {0} /\ QueueDepth \in Nat \ {0}
  /\ HandshakeRetry \in Nat \ {0} /\ SessionTimeout \in Nat \ {0}

VARIABLES
  link,        \* peer_links, as the link each peer has (EmptyLink: no slot)
  tconn,       \* transport.connected_peers
  mirror,      \* runtime.connected_peers, copied from tconn by a sync
  relay,       \* intercom_state_t.peers, whom audio is relayed to
  readyCount,  \* session_ready_peer_count
  pairing,     \* the pairing_* fields of the runtime
  enabled,     \* runtime.enabled; the transport is ready exactly then
  inbound      \* packets the drain loop of this poll has still to handle

vars == <<link, tconn, mirror, relay, readyCount, pairing, enabled, inbound>>

LinkStates == {"idle", "connecting", "handshaking", "ready", "degraded"}

Link == [valid : BOOLEAN, remembered : BOOLEAN, active : BOOLEAN,
         helloSent : BOOLEAN, sid : Sessions \cup {NoSession},
         state : LinkStates, age : Nat]

PairingPhases == {"none", "progress", "completed", "failed"}
NoPairing == [phase |-> "none", peer |-> NoPeer]

(***************************************************************************)
(* Links.                                                                  *)
(***************************************************************************)
EmptyLink == [valid |-> FALSE, remembered |-> FALSE, active |-> FALSE,
              helloSent |-> FALSE, sid |-> NoSession,
              state |-> "idle", age |-> 0]

NewLink == [EmptyLink EXCEPT !.valid = TRUE]

ValidPeers(L) == {p \in Peers : L[p].valid}
ActivePeers(L) == {p \in Peers : L[p].active}

\* Mutant: a link whose handshake is under way counts as ready.
ReadyPeersEarly(L) ==
  {p \in Peers : L[p].valid /\ L[p].state \in {"handshaking", "ready"}}

ReadyPeers(L) ==
  {p \in Peers : L[p].valid /\ L[p].active /\ L[p].state = "ready"}

\* Mutant: a link is made without looking for a free slot.
WithLinkUnchecked(L, p) == IF L[p].valid THEN L ELSE [L EXCEPT ![p] = NewLink]

\* get_peer_link(create): the existing link, a free slot, or no link at all.
WithLink(L, p) ==
  IF L[p].valid \/ Cardinality(ValidPeers(L)) >= MaxPeers
  THEN L
  ELSE [L EXCEPT ![p] = NewLink]

\* Mutant: the teardown forgets the session id.
DroppedKeepsSession(l) ==
  [l EXCEPT !.active = FALSE, !.helloSent = FALSE, !.age = 0,
            !.state = IF l.remembered THEN "idle" ELSE "degraded"]

\* Mutant: the teardown leaves the session active.
DroppedStaysActive(l) ==
  [l EXCEPT !.sid = NoSession, !.helloSent = FALSE, !.age = 0,
            !.state = IF l.remembered THEN "idle" ELSE "degraded"]

\* note_disconnected_link: the next handshake starts a session of its own.
Dropped(l) ==
  [l EXCEPT !.active = FALSE, !.sid = NoSession, !.helloSent = FALSE,
            !.age = 0, !.state = IF l.remembered THEN "idle" ELSE "degraded"]

\* Mutant: a link is never released.
CutOffUnreleased(l) == IF l.valid THEN Dropped(l) ELSE l

\* note_disconnected_link and release_peer_link, which keeps remembered peers.
CutOff(l) == IF l.remembered THEN Dropped(l) ELSE EmptyLink

\* mark_session_ready, its effect on the link.
ReadyLink(l, s) ==
  [l EXCEPT !.active = TRUE, !.helloSent = TRUE, !.sid = s,
            !.state = "ready", !.age = 0]

(***************************************************************************)
(* reconcile_peer_links against the connected list C.                      *)
(***************************************************************************)
Unconnected(L, C) == {p \in Peers : L[p].valid /\ p \notin C}

ReconciledLink(l, connected) ==
  IF ~connected THEN CutOff(l)
  ELSE IF l.valid /\ ~l.active /\ l.state = "idle"
       THEN [l EXCEPT !.state = "connecting"]
       ELSE l

Reconciled(L, C) == [p \in Peers |-> ReconciledLink(L[p], p \in C)]

\* refresh_session_ready_count runs only where a session was marked or noted.
Recount(changed, L, count) ==
  IF changed THEN Cardinality(ReadyPeers(L)) ELSE count

(***************************************************************************)
(* service_protocol_links: HELLO (first, or again after the retry time) to *)
(* a connected link without a session, teardown of a silent session.  A    *)
(* keepalive changes counters only.  sent: the HELLOs the stack accepted.  *)
(***************************************************************************)
NeedsHello(l) ==
  l.valid /\ ~l.active /\ (~l.helloSent \/ l.age >= HandshakeRetry)

\* Mutants: the wrong bound for silence, and no timeout at all.
TimedOutEarly(l) == l.valid /\ l.active /\ l.age >= HandshakeRetry
TimedOutNever(l) == l.valid /\ l.active /\ l.age > SessionTimeout

TimedOut(l) == l.valid /\ l.active /\ l.age >= SessionTimeout

HelloLink(l, accepted, fresh) ==
  LET named == [l EXCEPT !.sid = IF @ = NoSession THEN fresh ELSE @]
  IN  IF accepted
      THEN [named EXCEPT !.helloSent = TRUE, !.age = 0,
                         !.state = "handshaking"]
      ELSE named

\* Mutant: a silent session ends without note_disconnected_link.
ServicedUnnoted(L, C, sent, fresh) ==
  [p \in Peers |->
     IF p \in C /\ NeedsHello(L[p]) THEN HelloLink(L[p], p \in sent, fresh[p])
     ELSE IF p \in C /\ TimedOut(L[p])
          THEN [L[p] EXCEPT !.active = FALSE, !.state = "degraded"]
     ELSE L[p]]

Serviced(L, C, sent, fresh) ==
  [p \in Peers |->
     IF p \in C /\ NeedsHello(L[p]) THEN HelloLink(L[p], p \in sent, fresh[p])
     ELSE IF p \in C /\ TimedOut(L[p]) THEN Dropped(L[p])
     ELSE L[p]]

\* The clock advances by one poll; an age stops at the bound compared with.
Older(l) ==
  LET bound == IF l.active THEN SessionTimeout ELSE HandshakeRetry
  IN  IF (l.active \/ l.helloSent) /\ l.age < bound
      THEN [l EXCEPT !.age = @ + 1]
      ELSE l

(***************************************************************************)
(* Messages.  "duplicate" is any message the sequence filter drops, and    *)
(* "undecodable" one that fails decoding or routing (its error reply makes *)
(* a link for the sender).                                                 *)
(***************************************************************************)
Messages ==
  [type : {"hello", "hello_ack", "keepalive"},
   sid : Sessions \cup {NoSession}]
  \cup [type : {"audio", "error", "goodbye", "duplicate", "undecodable"},
        sid : {NoSession}]

\* The messages that mark the session ready: a HELLO takes over the sender's
\* session id, a HELLO_ACK and a KEEPALIVE must name the session of the link.
Establishes(l, m) ==
  \/ m.type = "hello" /\ m.sid # NoSession
  \/ m.type = "hello_ack" /\ l.sid # NoSession /\ m.sid = l.sid
  \/ m.type = "keepalive" /\ m.sid = l.sid

Touched(l) == IF l.active THEN [l EXCEPT !.age = 0] ELSE l

HandledLink(l, m) ==
  IF Establishes(l, m) THEN ReadyLink(l, m.sid)
  ELSE IF m.type = "goodbye" THEN Dropped(l)
  ELSE IF m.type = "error" THEN [Touched(l) EXCEPT !.state = "degraded"]
  ELSE IF m.type = "undecodable" THEN l
  ELSE Touched(l)

(***************************************************************************)
(* Boot: bluetooth_init and restore_pairing of every stored pairing R.     *)
(* enabled is FALSE when the controller could not be initialised.          *)
(***************************************************************************)
RestoredLink == [NewLink EXCEPT !.remembered = TRUE]

Init ==
  /\ \E R \in SUBSET Peers :
       /\ Cardinality(R) <= MaxPeers
       /\ link = [p \in Peers |-> IF p \in R THEN RestoredLink ELSE EmptyLink]
  /\ tconn = {} /\ mirror = {} /\ relay = {}
  /\ readyCount = 0
  /\ pairing = NoPairing
  /\ enabled \in BOOLEAN
  /\ inbound = 0

(***************************************************************************)
(* bluetooth_poll up to its drain loop: clock, stack poll (any new list    *)
(* C), sync, reconcile, service.  The stack removes the peers of closed at *)
(* once, those with an open channel when it reports the channel closed.    *)
(***************************************************************************)
Poll ==
  /\ enabled /\ inbound = 0
  /\ \E C \in SUBSET Peers, fresh \in [Peers -> Sessions] :
       LET aged  == [p \in Peers |-> Older(link[p])]
           rec   == Reconciled(aged, C)
           quiet == {p \in C : TimedOut(rec[p])}
           cut   == Unconnected(aged, C) \cup quiet
       IN  /\ Cardinality(C) <= MaxPeers
           /\ \E sent \in SUBSET {p \in C : NeedsHello(rec[p])} :
                link' = Serviced(rec, C, sent, fresh)
           /\ \E closed \in SUBSET quiet : tconn' = C \ closed
           /\ mirror' = C
           /\ relay' = relay \ cut
           /\ readyCount' = Recount(cut # {}, link', readyCount)
  /\ inbound' \in 0 .. QueueDepth
  /\ UNCHANGED <<pairing, enabled>>

(***************************************************************************)
(* One turn of the drain loop: handle_transport_payload of a packet from   *)
(* p, then sync and reconcile.                                             *)
(***************************************************************************)
ReceiveFrom(p) ==
  /\ inbound > 0
  /\ inbound' = inbound - 1
  /\ \E m \in Messages :
       LET found    == WithLink(link, p)
           known    == found[p].valid
           marked   == known /\ Establishes(found[p], m)
           goodbye  == known /\ m.type = "goodbye"
           handled  == IF known
                       THEN [found EXCEPT ![p] = HandledLink(found[p], m)]
                       ELSE found
           listed   == IF marked /\ Cardinality(relay) < MaxPeers
                       THEN relay \cup {p}
                       ELSE IF goodbye THEN relay \ {p} ELSE relay
           counted  == Recount(marked \/ goodbye, handled, readyCount)
       IN  /\ \/ ~goodbye /\ tconn' = tconn
              \/ goodbye /\ tconn' \in {tconn, tconn \ {p}}
           /\ mirror' = tconn'
           /\ link' = Reconciled(handled, tconn')
           /\ relay' = listed \ Unconnected(handled, tconn')
           /\ readyCount' =
                Recount(Unconnected(handled, tconn') # {}, link', counted)
           /\ pairing' =
                IF marked /\ pairing = [phase |-> "progress", peer |-> p]
                THEN [pairing EXCEPT !.phase = "completed"]
                ELSE pairing
  /\ UNCHANGED enabled

(***************************************************************************)
(* connect_peer.  It fails without a link slot or when the stack refuses   *)
(* (then the new link stays); on success the stack lists the peer, unless  *)
(* its table is full.                                                      *)
(***************************************************************************)
AlreadyUp(p) == link[p].active /\ p \in mirror

ConnectFails(p) ==
  /\ ~AlreadyUp(p)
  /\ link' = WithLink(link, p)
  /\ UNCHANGED tconn

ConnectSucceeds(p) ==
  \/ AlreadyUp(p) /\ UNCHANGED <<link, tconn>>
  \/ /\ ~AlreadyUp(p)
     /\ WithLink(link, p)[p].valid
     /\ link' = [WithLink(link, p) EXCEPT ![p].state = "connecting",
                                          ![p].age = HandshakeRetry]
     /\ tconn' = IF Cardinality(tconn) < MaxPeers THEN tconn \cup {p} ELSE tconn

Connect(p) ==
  /\ enabled /\ inbound = 0
  /\ \/ ConnectFails(p) /\ UNCHANGED mirror
     \/ /\ ConnectSucceeds(p)
        /\ mirror' = IF AlreadyUp(p) THEN mirror ELSE tconn'
  /\ UNCHANGED <<relay, readyCount, pairing, enabled, inbound>>

\* handle_pairing_button: p is the candidate selected, or the button's peer.
PressPairButton(p) ==
  /\ inbound = 0
  /\ \/ /\ ~enabled
        /\ pairing' = [phase |-> "failed", peer |-> p]
        /\ UNCHANGED <<link, tconn, mirror>>
     \/ /\ enabled
        /\ ConnectFails(p)
        /\ pairing' = [phase |-> "failed", peer |-> p]
        /\ UNCHANGED mirror
     \/ /\ enabled
        /\ ConnectSucceeds(p)
        /\ mirror' = tconn'
        /\ pairing' = [phase |-> "progress", peer |-> p]
  /\ UNCHANGED <<relay, readyCount, enabled, inbound>>

(***************************************************************************)
(* disconnect_peer; the stack keeps an open channel's peer listed until it *)
(* is told that the channel closed.                                        *)
(***************************************************************************)
StackDisconnect(p) == tconn' \in {tconn, tconn \ {p}} /\ mirror' = tconn'

Disconnect(p) ==
  /\ inbound = 0
  /\ p \in mirror
  /\ StackDisconnect(p)
  /\ link' = [link EXCEPT ![p] = CutOff(@)]
  /\ relay' = relay \ {p}
  /\ readyCount' = Recount(link[p].valid, link', readyCount)
  /\ UNCHANGED <<pairing, enabled, inbound>>

\* clear_pairing, from the held button.
ClearPairing(p) ==
  /\ inbound = 0
  /\ \/ p \in mirror /\ StackDisconnect(p) /\ relay' = relay \ {p}
     \/ p \notin mirror /\ UNCHANGED <<tconn, mirror, relay>>
  /\ link' = [link EXCEPT ![p] = EmptyLink]
  /\ readyCount' = 0
  /\ pairing' = NoPairing
  /\ UNCHANGED <<enabled, inbound>>

\* The main loop takes a completed pairing, to store it.
TakeCompletedPairing ==
  /\ inbound = 0
  /\ pairing.phase = "completed"
  /\ pairing' = NoPairing
  /\ UNCHANGED <<link, tconn, mirror, relay, readyCount, enabled, inbound>>

(***************************************************************************)
(* set_enabled.  Disabling powers the controller off and empties the       *)
(* connected list; a failed enable leaves everything as it was.            *)
(***************************************************************************)
Disable ==
  /\ inbound = 0
  /\ enabled' = FALSE
  /\ tconn' = {} /\ mirror' = {}
  /\ link' = Reconciled(link, {})
  /\ relay' = relay \ Unconnected(link, {})
  /\ readyCount' = Recount(Unconnected(link, {}) # {}, link', 0)
  /\ pairing' = IF pairing.phase = "failed" THEN pairing ELSE NoPairing
  /\ UNCHANGED inbound

Enable ==
  /\ inbound = 0
  /\ enabled' = TRUE
  /\ mirror' = tconn
  /\ link' = Reconciled(link, tconn)
  /\ relay' = relay \ Unconnected(link, tconn)
  /\ readyCount' = Recount(Unconnected(link, tconn) # {}, link', readyCount)
  /\ UNCHANGED <<tconn, pairing, inbound>>

Next ==
  \/ Poll
  \/ \E p \in Peers :
       \/ ReceiveFrom(p) \/ Connect(p) \/ PressPairButton(p)
       \/ Disconnect(p) \/ ClearPairing(p)
  \/ TakeCompletedPairing \/ Disable \/ Enable

\* The main loop polls for ever, and the drain loop ends: a finite queue.
Fairness == WF_vars(Poll) /\ WF_vars(\E p \in Peers : ReceiveFrom(p))

Spec == Init /\ [][Next]_vars
FairSpec == Spec /\ Fairness

-----------------------------------------------------------------------------
\* The type invariant; a link slot that is not valid is all zero (memset).
TypeOK ==
  /\ link \in [Peers -> Link]
  /\ \A p \in Peers : ~link[p].valid => link[p] = EmptyLink
  /\ Cardinality(ValidPeers(link)) <= MaxPeers
  /\ tconn \subseteq Peers /\ mirror \subseteq Peers /\ relay \subseteq Peers
  /\ readyCount \in Nat
  /\ pairing \in [phase : PairingPhases, peer : Peers \cup {NoPeer}]
  /\ enabled \in BOOLEAN
  /\ inbound \in 0 .. QueueDepth

\* Audio is relayed to exactly the peers with an active session: intercom.c
\* and the link table are updated at different places and never disagree
\* between two handlers, whatever order packets, drops and buttons come in.
RelayMatchesSessions == relay = ActivePeers(link)

Clean(l) == ~l.active /\ l.sid = NoSession /\ ~l.helloSent

\* A link whose peer the runtime sees as not connected holds nothing of its
\* last session, also after packets of that peer were handled late.
NoStaleSession == \A p \in Peers \ mirror : Clean(link[p])

\* The peers the runtime still believes connected although the transport has
\* already dropped them have no session either (a resync outside a poll does
\* not reconcile the links).
NoSessionBehindMirror == \A p \in mirror \ tconn : Clean(link[p])

\* The ready count never claims a session that does not exist, so the runtime
\* is not reported operational without one.
ReadyCountBounded == readyCount <= Cardinality(ActivePeers(link))

\* A session over a link that stays connected ends only by the peer's own
\* packet, an explicit disconnect or clear of that peer, or SessionTimeout
\* polls of silence: no event of another peer ends it.
SessionEndsForCause ==
  [][\A p \in Peers :
       link[p].active /\ ~link'[p].active /\ p \in mirror' =>
         \/ link[p].age + 1 >= SessionTimeout
         \/ ReceiveFrom(p) \/ Disconnect(p) \/ ClearPairing(p)]_vars

\* A peer that falls silent loses its session: again and again each peer has
\* no session, has just been heard, or polling is switched off.
SilentSessionEnds ==
  \A p \in Peers :
    []<>(~link[p].active \/ link[p].age = 0 \/ ~enabled)

\* A link slot does not leak: again and again each peer has no slot, is
\* remembered, is connected, or polling is switched off.
LinkSlotReclaimed ==
  \A p \in Peers :
    []<>(~link[p].valid \/ link[p].remembered \/ p \in tconn \/ ~enabled)

=============================================================================
