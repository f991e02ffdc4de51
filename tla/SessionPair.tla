----------------------------- MODULE SessionPair -----------------------------
(***************************************************************************)
(* Both ends of one session: the firmware and a headset that keeps to the  *)
(* same rules, the handlers of PeerLinks at each end, joined by an RFCOMM  *)
(* channel that keeps messages in order and delivers them within a poll.   *)
(*                                                                         *)
(* The two ends poll at the same rate.  In each poll an end services its   *)
(* link and may send one audio frame; what it sends is refused when the    *)
(* queue is full.  The channel may be closed, or replaced so quickly that  *)
(* one end misses it: the other end's link is new, its own is not.         *)
(*                                                                         *)
(* Left out: the sequence numbers (see InboundAudio), and messages still   *)
(* under way when the channel closes (see PeerLinks).                      *)
(***************************************************************************)
EXTENDS Naturals, FiniteSets, Sequences

CONSTANTS
  Ends,            \* the firmware and the headset
  NoEnd,           \* peer id 0
  Initiates,       \* the ends that send HELLOs of their own
  Sessions,        \* the non-zero session ids, as numbers
  QueueDepth,      \* BLUETOOTH_TRANSPORT_QUEUE_DEPTH
  HandshakeRetry,  \* polls in BLUETOOTH_HANDSHAKE_RETRY_MS
  Keepalive,       \* polls in BLUETOOTH_KEEPALIVE_MS
  SessionTimeout,  \* polls in BLUETOOTH_SESSION_TIMEOUT_MS
  MaxFaults        \* bound: channels that are closed or replaced

ASSUME EndsAssumption ==
  /\ IsFiniteSet(Ends) /\ Cardinality(Ends) = 2
  /\ NoEnd \notin Ends /\ Initiates \subseteq Ends
ASSUME SessionsAssumption ==   \* so many that a new one is always there
  Cardinality(Sessions) > 2 * QueueDepth + 2
ASSUME NumbersAssumption ==
  /\ Sessions \subseteq Nat \ {0} /\ IsFiniteSet(Sessions)
  /\ QueueDepth \in Nat \ {0} /\ MaxFaults \in Nat
  /\ Keepalive \in 1 .. SessionTimeout

VARIABLES
  link,    \* the link each end has with the other
  wire,    \* the messages on their way to each end
  up,      \* the channel is open
  due,     \* ends that have still to poll in this round
  faults   \* channels closed or replaced so far

vars == <<link, wire, up, due, faults>>

NoSession == 0

\* The rules of one link, whose peer is the end that has it.
Rules ==
  INSTANCE PeerLinks WITH
    Peers <- Ends, NoPeer <- NoEnd, MaxPeers <- 1,
    tconn <- IF up THEN Ends ELSE {}, mirror <- IF up THEN Ends ELSE {},
    relay <- {e \in Ends : link[e].active}, readyCount <- 0,
    pairing <- [phase |-> "none", peer |-> NoEnd], enabled <- TRUE, inbound <- 0

Other(e) == CHOOSE o \in Ends : o # e

Message(type, sid) == [type |-> type, sid |-> sid]

Init ==
  /\ link = [e \in Ends |-> Rules!NewLink] /\ wire = [e \in Ends |-> <<>>]
  /\ up = TRUE /\ due = {} /\ faults = 0

(***************************************************************************)
(* queue_protocol_message: a message other than a HELLO needs a session    *)
(* id, and the queue may be full.                                          *)
(***************************************************************************)
InUse ==
  {link[e].sid : e \in Ends}
    \cup UNION {{wire[e][i].sid : i \in DOMAIN wire[e]} : e \in Ends}

\* generate_session_id: an id that neither end knows.
FreshSession == CHOOSE s \in Sessions : s \notin InUse

HasRoom(e) == Len(wire[Other(e)]) < QueueDepth

\* Mutant: a message is queued whether or not there is room.
SentUnchecked(w, e, m) ==
  IF m.sid = NoSession THEN w ELSE [w EXCEPT ![Other(e)] = Append(@, m)]

Sent(w, e, m) ==
  IF m.sid = NoSession \/ Len(w[Other(e)]) >= QueueDepth THEN w
  ELSE [w EXCEPT ![Other(e)] = Append(@, m)]

(***************************************************************************)
(* service_protocol_links for the one link, then the main loop's local     *)
(* audio: at most one frame.                                               *)
(***************************************************************************)
KeepaliveDue(l) == l.active /\ l.age >= Keepalive

Talks(e, w) ==
  \/ wire' = w
  \/ link[e].active /\ wire' = Sent(w, e, Message("audio", link[e].sid))

SendHello(e) ==
  LET l == Rules!HelloLink(link[e], HasRoom(e), FreshSession)
  IN  /\ e \in Initiates /\ Rules!NeedsHello(link[e])
      /\ link' = [link EXCEPT ![e] = l]
      /\ wire' = Sent(wire, e, Message("hello", l.sid))
      /\ UNCHANGED up

SendKeepalive(e) ==
  /\ KeepaliveDue(link[e]) /\ ~Rules!TimedOut(link[e])
  /\ Talks(e, Sent(wire, e, Message("keepalive", link[e].sid)))
  /\ UNCHANGED <<link, up>>

NothingDue(e) ==
  /\ ~KeepaliveDue(link[e])
  /\ ~(e \in Initiates /\ Rules!NeedsHello(link[e]))
  /\ Talks(e, wire)
  /\ UNCHANGED <<link, up>>

\* The channel is gone at both ends: note_disconnected_link, release_peer_link.
ChannelGone ==
  /\ link' = [e \in Ends |-> Rules!EmptyLink]
  /\ wire' = [e \in Ends |-> <<>>]
  /\ up' = FALSE

TimeOut(e) == Rules!TimedOut(link[e]) /\ ChannelGone

Poll(e) ==
  /\ up /\ e \in due /\ due' = due \ {e}
  /\ SendHello(e) \/ SendKeepalive(e) \/ NothingDue(e) \/ TimeOut(e)
  /\ UNCHANGED faults

(***************************************************************************)
(* handle_transport_payload: the effect on the link is PeerLinks', a HELLO *)
(* is acknowledged, audio outside its session is answered with an ERROR.   *)
(***************************************************************************)
\* Mutant: a HELLO does not replace the session in progress.
HandledFirst(l, m) ==
  IF m.type = "hello" /\ l.active THEN Rules!Touched(l)
  ELSE Rules!HandledLink(l, m)

Handled(l, m) == Rules!HandledLink(l, m)

Reply(l, m) ==
  IF m.type = "hello" THEN Message("hello_ack", m.sid)
  ELSE IF m.type = "audio" /\ ~(l.active /\ l.sid = m.sid)
       THEN Message("error", l.sid)
  ELSE Message("none", NoSession)

Receive(e) ==
  LET m == Head(wire[e])
      rest == [wire EXCEPT ![e] = Tail(@)]
  IN  /\ wire[e] # <<>>
      /\ link' = [link EXCEPT ![e] = Handled(link[e], m)]
      /\ wire' = Sent(rest, e, Reply(link[e], m))
      /\ UNCHANGED <<up, due, faults>>

(***************************************************************************)
(* The channel and the clock, which waits for the messages under way.      *)
(***************************************************************************)
Open ==
  /\ ~up /\ up' = TRUE
  /\ link' = [e \in Ends |-> Rules!NewLink]
  /\ due' = {}
  /\ UNCHANGED <<wire, faults>>

Fault == faults < MaxFaults /\ faults' = faults + 1

Close == up /\ Fault /\ ChannelGone /\ UNCHANGED due

\* The channel is replaced by a new one before end e looks.
Replace(e) ==
  /\ up /\ Fault
  /\ link' = [link EXCEPT ![Other(e)] = Rules!NewLink]
  /\ wire' = [f \in Ends |-> <<>>]
  /\ UNCHANGED <<up, due>>

Tick ==
  /\ up /\ due = {} /\ \A e \in Ends : wire[e] = <<>>
  /\ due' = Ends
  /\ link' = [e \in Ends |-> Rules!Older(link[e])]
  /\ UNCHANGED <<wire, up, faults>>

Next ==
  \/ \E e \in Ends : Poll(e) \/ Receive(e) \/ Replace(e)
  \/ Open \/ Close \/ Tick

Spec == Init /\ [][Next]_vars

\* Both ends poll for ever, messages arrive and a lost channel is opened again.
FairSpec ==
  /\ Spec
  /\ \A e \in Ends : WF_vars(Poll(e)) /\ WF_vars(Receive(e))
  /\ WF_vars(Open) /\ WF_vars(Tick)

-----------------------------------------------------------------------------
TypeOK ==
  /\ link \in [Ends -> Rules!Link]
  /\ \A e \in Ends :
       /\ Len(wire[e]) <= QueueDepth
       /\ \A i \in DOMAIN wire[e] :
            wire[e][i] \in [type : {"hello", "hello_ack", "keepalive",
                                    "audio", "error"}, sid : Sessions]
  /\ up \in BOOLEAN /\ due \subseteq Ends
  /\ faults \in 0 .. MaxFaults

Agreed ==
  \E s \in Sessions : \A e \in Ends : link[e].active /\ link[e].sid = s

\* Two ends with nothing under way never take each other's messages for those
\* of another session: whichever of them missed that the channel was replaced
\* and whichever reply found a full queue, both sessions are the same one.
QuietEndsAgree ==
  (\A e \in Ends : wire[e] = <<>> /\ link[e].active) => Agreed

\* README: "Dead sessions are torn down and stale headset state is cleared so
\* reconnects can establish a fresh session cleanly": whatever one end misses,
\* both ends come to hold the same session again and again.
Heals == []<>Agreed

\* README: KEEPALIVE "keeps an established session alive and helps detect
\* stale links": a session both ends hold is not timed out while the channel
\* works and both ends poll.
KeepalivesSuffice ==
  [][Agreed /\ up /\ ~up' => faults' # faults]_vars

=============================================================================
