----------------------------- MODULE InboundAudio -----------------------------
(***************************************************************************)
(* The sequence numbers of one link: the filter and the gap counter of     *)
(* bluetooth_handle_transport_payload against a headset that numbers its   *)
(* messages as the firmware's own queue_protocol_message does.  The channel *)
(* may lose messages; unless it keeps their order, as RFCOMM does, it may  *)
(* also duplicate and reorder them, which the filter is there for.         *)
(*                                                                         *)
(* The headset may start again (numbering from 1 under a new session id)   *)
(* with or without the firmware noticing that the channel was gone.  The   *)
(* messages of an earlier run are handled before those of the next one, as *)
(* the inbound queue keeps their order, so a restart empties the channel.  *)
(***************************************************************************)
EXTENDS SerialNumbers, FiniteSets

CONSTANTS
  Window,     \* messages sent since the last one that arrived, at most
  MaxSent,    \* bound on the messages of one run of the headset
  MaxRuns     \* bound on the runs of the headset

ASSUME WindowAssumption == Window \in Nat \ {0} /\ Window < Half
ASSUME MaxAssumption == MaxSent \in Nat /\ MaxRuns \in Nat \ {0}

VARIABLES
  inOrder,   \* the channel neither reorders nor duplicates
  run,       \* which run of the headset this is: also its session id
  sent,      \* messages the headset has sent in this run
  accepted,  \* the headset has seen its session confirmed
  net,       \* messages under way
  link,      \* the link's session and its two sequence numbers
  missing,   \* link->missing_audio_frames
  heard,     \* history: run and number of the last audio frame handled
  top,       \* history: highest number received in this run
  unheard    \* history: fresh audio frames of this run dropped in a row

vars ==
  <<inOrder, run, sent, accepted, net, link, missing, heard, top, unheard>>

Types == {"hello", "keepalive", "audio"}

Fresh == [active |-> FALSE, sid |-> 0, rx |-> 0, audio |-> 0]

Init ==
  /\ inOrder \in BOOLEAN
  /\ run = 1 /\ sent = 0 /\ accepted = FALSE /\ net = {}
  /\ link = Fresh
  /\ missing = 0
  /\ heard = [run |-> 0, no |-> 0]
  /\ top = 0 /\ unheard = 0

(***************************************************************************)
(* The headset.  Message number n travels as n modulo the counter's width. *)
(***************************************************************************)

\* Mutant: a counter that does not wrap.
WireUnwrapped(n) == n

Wire(n) == n % Modulus

Send(type) ==
  /\ sent < MaxSent
  /\ sent < top + Window
  /\ type # "hello" => accepted
  /\ sent' = sent + 1
  /\ \/ net' = net \cup {[type |-> type, no |-> sent + 1]}
     \/ net' = net
  /\ UNCHANGED <<inOrder, run, accepted, link, missing, heard, top, unheard>>

Lose ==
  /\ \E m \in net : net' = net \ {m}
  /\ UNCHANGED <<inOrder, run, sent, accepted, link, missing, heard, top,
                 unheard>>

NextRun ==
  /\ run < MaxRuns
  /\ run' = run + 1
  /\ sent' = 0 /\ accepted' = FALSE /\ net' = {} /\ top' = 0 /\ unheard' = 0
  /\ UNCHANGED <<inOrder, heard>>

\* The headset starts again and the link table does not notice, which is looked
\* at over RFCOMM only: the numbers of the runs are then no more than unrelated.
RestartUnseen ==
  inOrder /\ NextRun /\ UNCHANGED <<link, missing>>

\* Both ends drop the link: note_disconnected_link, sequence numbers included.
Teardown ==
  /\ NextRun
  /\ link' = Fresh
  /\ UNCHANGED missing

(***************************************************************************)
(* bluetooth_handle_transport_payload.                                     *)
(***************************************************************************)

\* Mutants: stale audio passes, and a comparison that does not wrap.
FilteredRepeats(m) == Wire(m.no) = link.rx
FilteredUnwrapped(m) ==
  LET seq == Wire(m.no)
  IN  seq = link.rx \/ (m.type = "audio" /\ seq < link.rx)

\* The filter drops a repeated number of any type and stale audio.
Filtered(m) ==
  LET seq == Wire(m.no)
  IN  ~IsNewer(seq, link.rx)
      /\ \/ seq = link.rx
         \/ m.type = "audio" /\ IsStale(seq, link.rx)

RxAfter(m) ==
  IF IsNewer(Wire(m.no), link.rx) THEN Wire(m.no) ELSE link.rx

\* Mutant: the gap is taken from the last number, not from the one expected.
AudioGapFromLast(seq) ==
  LET gap == Delta(seq, link.audio)
  IN  IF link.audio # 0 /\ gap < Half THEN gap ELSE 0

\* An audio gap of the lower half counts; 0 stands for no audio frame yet.
AudioGap(seq) ==
  LET gap == Delta(seq, After(link.audio, 1))
  IN  IF link.audio # 0 /\ gap < Half THEN gap ELSE 0

Establish(m) ==
  /\ link' = [link EXCEPT !.active = TRUE, !.sid = run, !.rx = RxAfter(m)]
  /\ accepted' \in {accepted, TRUE}
  /\ UNCHANGED <<missing, heard, unheard>>

HandleAudio(m) ==
  /\ link' = [link EXCEPT !.rx = RxAfter(m), !.audio = Wire(m.no)]
  /\ missing' = missing + AudioGap(Wire(m.no))
  /\ heard' = [run |-> run, no |-> m.no]
  /\ unheard' = 0
  /\ UNCHANGED accepted

\* Audio without its session, and a keepalive that names another session.
Reject(m) ==
  /\ link' = [link EXCEPT !.rx = RxAfter(m)]
  /\ UNCHANGED <<accepted, missing, heard, unheard>>

\* A frame of the session in progress that is newer than all received.
IsFresh(m) ==
  m.type = "audio" /\ link.active /\ link.sid = run /\ m.no > top

Drop(m) ==
  /\ unheard' = IF IsFresh(m) THEN unheard + 1 ELSE unheard
  /\ UNCHANGED <<link, accepted, missing, heard>>

\* A message that arrives may arrive again, until it is too old to be under way.
Arrives(m) ==
  /\ inOrder => \A k \in net : m.no <= k.no
  /\ top' = IF m.no > top THEN m.no ELSE top
  /\ \E left \in IF inOrder THEN {net \ {m}} ELSE {net, net \ {m}} :
       net' = {k \in left : k.no + Window > top'}

Receive(m) ==
  /\ Arrives(m)
  /\ \/ Filtered(m) /\ Drop(m)
     \/ ~Filtered(m) /\ m.type = "hello" /\ Establish(m)
     \/ ~Filtered(m) /\ m.type = "keepalive"
        /\ IF link.sid = run THEN Establish(m) ELSE Reject(m)
     \/ ~Filtered(m) /\ m.type = "audio"
        /\ IF link.active /\ link.sid = run THEN HandleAudio(m) ELSE Reject(m)
  /\ UNCHANGED <<inOrder, run, sent>>

Next ==
  \/ \E type \in Types : Send(type)
  \/ \E m \in net : Receive(m)
  \/ Lose \/ RestartUnseen \/ Teardown

Spec == Init /\ [][Next]_vars
-----------------------------------------------------------------------------
TypeOK ==
  /\ inOrder \in BOOLEAN /\ accepted \in BOOLEAN
  /\ run \in 1 .. MaxRuns /\ sent \in 0 .. MaxSent
  /\ \A m \in net : m.type \in Types /\ m.no \in 1 .. sent
  /\ link \in [active : BOOLEAN, sid : 0 .. MaxRuns,
              rx : Sequences, audio : Sequences]
  /\ heard \in [run : 0 .. MaxRuns, no : 0 .. MaxSent]
  /\ missing \in Nat /\ unheard \in Nat /\ top \in 0 .. sent

\* No audio frame is handled twice, or after one that was sent later, however
\* the channel duplicates and reorders and wherever the 16 bit counter wraps.
AudioInOrder ==
  [][heard' # heard =>
       \/ heard'.run > heard.run
       \/ heard'.run = heard.run /\ heard'.no > heard.no]_vars

\* Between two audio frames of one run the gap counter grows by the numbers
\* skipped, as long as these are fewer than half of the numbers there are; it
\* misses a gap, and never invents one, after a frame numbered 0.
GapsCounted ==
  [][heard' # heard /\ heard'.run = heard.run /\ heard'.no - heard.no <= Half =>
       missing' - missing =
         IF link.audio = 0 THEN 0 ELSE heard'.no - heard.no - 1]_vars

\* When the headset starts again unseen its first frames pass for old ones,
\* but it is heard again before half of the numbers have gone by.
ResumesSoon == unheard <= Half

=============================================================================
