# Verification of the pico-intercom firmware

TLA+ models of the firmware in `src/`, TLC configurations that check them on
small instances, and TLAPS proofs about each of them for every value of the
constants. Paths below are those of the repository; `bluetooth.c` means
`src/src/bluetooth.c`, and so on.

The firmware runs on a Pico 2 W and relays intercom audio between Bluetooth
headsets. It is one C program: a main loop, a session layer, a headset backend
on top of BTstack, and a flash store of paired headsets. The host build, which
the tests run, has a transport of its own in place of the backend.

## Inventory

| Component | Code | State | Operations | Module |
| --- | --- | --- | --- | --- |
| Session layer | `bluetooth.c` | link table, copy of the connected list, ready count, pairing in progress | poll, drain loop, HELLO / HELLO_ACK / KEEPALIVE / GOODBYE, connect, disconnect, clear, button, enable | `PeerLinks`, `InboundAudio`, `SessionPair` |
| Relay list | `intercom.c` | peers to relay to | add, remove, rebroadcast | part of `PeerLinks` |
| Headset backend | `bluetooth_le_audio.c` | two tables of peers, connected list, outbound queue, the dial, query and send request under way | BTstack's events, housekeeping of a poll, connect, disconnect, restore, clear, queue | `TargetBackend`, contract `Transport` |
| Host transport | `bluetooth_transport.c` | discovered, remembered and connected peers, packet queue | connect, disconnect, clear, restore, report, poll, queue, dequeue, enable | `HostTransport`, contract `Transport` |
| Pairing store | `pairings.c` | one flash sector | save, load, clear | `PairingFlash` |
| Main loop | `main.c` | button, error flags, LED | sample, poll, store, press, hold, show | `MainLoop` |
| Protocol | `intercom_protocol.c` | none | encode, decode | message kinds in `PeerLinks` |
| Audio | `audio.c` | playback queue | capture, encode, playback | not modelled |
| Call control | part of `bluetooth_le_audio.c` | one call's state | opcodes, notifications | not modelled |

How they interact. The main loop calls `bluetooth_poll`, which polls the stack
(BTstack's events run there and change the tables), copies the connected list,
reconciles the link table with it, sends HELLOs and keepalives and ends silent
sessions, and then drains the inbound queue packet by packet. Between polls the
main loop stores a completed pairing and serves the button. State is shared
rather than passed: the session layer reads and writes the transport's tables,
and the relay list is changed from five places of the session layer.

What is hard: packets that outlive their channel, timeouts that meet late
packets, channels opened from both sides, disconnects during a dial, flags for
the one operation under way that must be given back, tables and queues of fixed
size shared by all peers, 16 bit sequence numbers, and a flash sector that is
erased before it is written. `PROJECT.json` lists each such hazard at its line
with the properties that cover it.

What makes each component correct:

- session layer: audio goes to exactly the peers with a session; no session
  outlives its connection; no session ends without a cause; a silent one ends;
  slots do not leak; audio is handled in order and gaps are counted; the two ends
  of a session agree which one it is, and come to agree again after a fault;
- backend: the list, the channel ids and the queue agree with the channels
  there are; a disconnect completes and sticks; nothing else blocks a reconnect;
  a remembered headset comes back; the queue moves;
- host transport: no peer has two rows, the count beside the table is exact, a
  connected headset keeps its row; both transports keep one contract;
- store: a boot finds an old image, a new one or nothing, and a success that is
  reported is one;
- main loop: each press of the button asks for one thing; a clear is not undone
  by a pairing that was under way; a pairing that was not stored shows.

## Modules

**`PeerLinks`** (`bluetooth.c`, `intercom.c`). `link` is `peer_links`, indexed
by peer: a peer without a slot has `EmptyLink`, which is what `memset` leaves.
`tconn`, `mirror` and `relay` are the transport's list, the runtime's copy and
the relay list. One action per handler: `Poll` (clock, stack poll, sync,
reconcile, service), `ReceiveFrom` (one turn of the drain loop with the sync and
reconcile that follow it), `Connect`, `PressPairButton`, `Disconnect`,
`ClearPairing`, `TakeCompletedPairing`, `Disable`, `Enable`. The stack below is
a contract: a poll may change the list in any way, connect and disconnect of a
peer touch its entry only, a queue may refuse. Session ids are model values; the
order of slots in the table is left out.

Time is counted in polls. A link has one `age`, of `last_activity_ms` while its
session is active and of `last_handshake_ms` otherwise, since the service pass
reads only that one; it stops at the bound it is compared with.

**`SerialNumbers`**, **`InboundAudio`** (`bluetooth.c:72-80`, `1121-1220`). The
comparison of sequence numbers, and one link's filter and gap counter against a
headset that numbers its messages as the firmware does. `Half` stands for
0x8000: the arithmetic is modulo `2 * Half`. The channel, the headset's restarts
and the loss of messages are external.

**`SessionPair`** (`bluetooth.c`). Both ends of one session. Each end's link
follows the rules of `PeerLinks`, taken by `INSTANCE`: `HelloLink`, `HandledLink`,
`TimedOut`, `Older`. The headset is assumed to keep to the same rules, as the
README's protocol section asks. A channel between them keeps messages in order;
it may be closed, or replaced so fast that one end misses it (`Replace`). What is
sent into a full queue is lost, as in `queue_protocol_message`. `Initiates` are
the ends that send HELLOs of their own.

**`PairingFlash`** (`pairings.c`, flash build; `main.c` boot and clear). The
sector page by page; a write is refused, or erased, programmed page by page and
verified, and the power may go at each step. A page knows the image it belongs
to, so the checksum matches a sector whose pages all belong to one image;
collisions of the 32 bit checksum are left out. It has no run of its own: it is
checked inside `MainLoop`.

**`MainLoop`** (`main.c`), which EXTENDS `PairingFlash`. One iteration in the
code's order: `SampleAndPoll`, then a completed pairing is stored (`StorePairing`,
the store's own steps in `StoreWrites`, `SaveEnds`), then the button (`NoRequest`,
`HoldClears` with the steps of the clear and `ClearEnds`, `ReleaseAsks`), then the
LED (`ShowAndSleep`); `LoopPowerCut` may come anywhere. An iteration takes any
time, since a flash write or a poll may be slow.

**`TargetBackend`** (`bluetooth_le_audio.c`, target build). `table` holds one row
per peer: its `discovered_peers` entry, its backend entry and its slot in the
connected list. The session layer's calls (`Connect`, `Disconnect`,
`SessionTimeout`, `Clear`, `Queue`) come between polls; BTstack's events
(`InquiryResult`, `InquiryComplete`, `Incoming`, `Opened`, `OpenFails`,
`ChannelClosed`, `CanSendNow`, `SdpService`, `SdpComplete`) come in a poll, and
`Housekeep` ends it in the code's order: automatic reconnect, SDP query, dial,
send request, inquiry. `chan` and `asked` are BTstack's side: at most one
dialled and one incoming channel per headset, and the channels that owe a
CAN_SEND_NOW. Retry windows are "passed or not", and which eligible row comes
first is any of them, unless a fairness condition says otherwise.

BTstack is not in the repository. Two of its ways are taken as inputs: a send
request is accepted for a channel that is still opening (and answered only when
it is open), and a dial that is disconnected ends as a failed open or as a
closed channel (`AbortReports`; the runs say which).

**`HostTransport`** (`bluetooth_transport.c`), all of its calls. `rows` is the
table of discovered peers with its holes, so that `clear_pairing`, which moves up
only the first `discovered_peer_count` rows, is what the code does. `cut` is
history: disconnected on request and not asked for since.

**`PacketQueue`** is the one operator both queues are written with: `Kept(q, K)`
is what is left of the packets `q` when only those at the places `K` stay, in
their order. Both C queues are arrays that close up behind a packet that is taken
out (`drop_peer_packets`, `remove_outbound_at`).

**`Transport`** is the abstract specification of both: what a connect, a
disconnect, a clear, a poll and a queued packet may change of the connected list,
the remembered list and the packet queue, and that a poll never brings back a
peer that was cut. `HostTransport` and `TargetBackend` each instantiate it under a
refinement mapping (`Contract`) and are checked to implement it
(`ImplementsTransport`).

`MC*` modules only add the symmetry sets and, for `SessionPair`, numbers as
session ids. Operators marked "Mutant" are faulty
variants of the operator that follows them; each is named in `PROJECT.json` and
makes the property it is listed for fail.

`PeerLinks` takes the connected list as input: any list a poll may leave, and
changes of one peer's entry by connect, disconnect and clear. `Transport` states
the same of the two transports that are built below it, with what they do to the
queue besides.

## Runs that pass

| Run | Instance | Shows |
| --- | --- | --- |
| `PeerLinks` | 3 headsets, 2 slots, 2 sessions, 2 packets per drain, retry 1 and timeout 2 polls | relay list = active sessions, no stale session, ready count never too high, full tables lose nothing, no session ends without a cause |
| `PeerLinksLive` | 2 headsets, fairness | silent sessions end, slots come back |
| `InboundAudio` | 8 numbers, 2 runs of 10 messages, window 3, in order or with duplicates and reordering | order, exact gaps across the wrap, and after an unseen restart audio is heard again within half of the numbers |
| `MainLoop` | 3 headsets, 2 entries, 3 pages, hold 3 | all or nothing at every power cut, a successful save loses nothing, one request per press, a clear sticks, a failed save shows |
| `SessionPair` | retry 2, keepalive 3, timeout 10 polls; queue 2; 4 channels lost or replaced; fairness | two ends with nothing under way hold one session, and come to hold one again and again |
| `HostTransport` | 3 headsets, 2 rows, queue 1, timeout 1; fairness | exact table, connected headsets keep their rows, the contract `Transport`, a reported headset is connected again |
| `TargetBackend` | 2 headsets, 1 slot; one dials in and may be cleared; both reports of an aborted dial | list, channel ids and queue agree with the channels, also when the list is full |
| `TargetTwo` | 3 headsets that only answer, 2 slots | one dial at a time, the two tables fill up together, a disconnect completes and sticks, blocks have a cause |
| `TargetReconnect` | 1 reachable headset, fairness | a remembered headset is linked again and again |
| `TargetSend` | 1 reachable headset, fairness | the outbound queue moves; the contract `Transport` with packets queued |

Bounds. Peers are treated alike by the session layer, and every interference in
it is between one peer and the tables or between two peers; three peers with two
slots give both, and the full table. Two packets per drain are enough
for one to change what the next one meets. Times matter only by their order, so
the smallest bounds with retry before timeout are taken; only in `SessionPair`,
where three times run into each other, they are in the code's ratio (1000, 1500
and 5000 ms as polls of 500 ms). Its queue holds two messages so that replies are
lost, and `MaxFaults` is four so that a second fault meets the recovery from the
first at each end. Eight sequence numbers
keep all the cases of the comparison (newer, equal, stale, exactly half) and ten
messages pass the wrap; `Window` bounds how far the channel may reorder.
`MaxSent` and `MaxRuns` end runs of `InboundAudio`, hence no deadlock check
there; nor in `TargetBackend` and `HostTransport`, where a poll is always
possible. In the flash, a first page, a middle and a last page are the cases a
cut can tell apart; the image of two entries is full with the third headset. The
host's table has two rows for three headsets: holes, rows moved up, and a full
table all occur. So do, in `TargetTwo`, a third headset found, dialled or
connected while both tables and the list are full. The contract of the backend is
checked on `TargetSend`, where packets are queued; for several headsets, whose queues
are beyond a run, `TargetTwo` has what it says of the list (`DisconnectSticks`,
`RowsHavePlaces`), and the theorem has the rest.

`TargetTwo`, `TargetReconnect` and `TargetSend` each leave something out that a
violation run or divergence below is about (headsets that dial in, held buttons,
the other report of an aborted dial, a second, unreachable headset): they say
what the code does achieve, and the sections below say where it ends. So does
`SessionPair`, where the firmware alone initiates.

## Fairness

- `PeerLinks`: `Poll` and the drain loop, because `main` loops for ever and the
  inbound queue is finite. Nothing is assumed of headsets, buttons or the stack.
- `TargetBackend`: polls go on; a query or a dial that stays due is started
  (retry windows pass), dials collectively, not each peer in turn, since the
  code starts from the first row; BTstack ends queries, dials and hang-ups and
  answers send requests on open channels; a `Reachable` headset answers the
  inquiry now and then and has the service. Fairness of `Queries` is per headset,
  which is more than the code's loop promises when there are several; the runs
  that use it have one.
- `SessionPair`: both ends poll for ever, messages arrive, the clock ticks and a
  lost channel is opened again (the backend's `Reconnects`). Faults are bounded in
  number, not in when they come.
- `HostTransport`: the runtime is polled for ever; a headset `InReach` is reported
  ready again and again, and now and then polled right after (strong fairness of
  the test that plays the headset, not of the code).

## What the violation runs show

Each checks one statement of the README, and TLC finds a behaviour of the code
that breaks it; `PROJECT.json` has the quotes under "findings".

- `ClearLeaksSlot`: clearing a linked headset erases the row with its channel id
  before the channel is closed, so its slot stays in the list for good.
- `KeepalivesStarve`: an end sends a KEEPALIVE only after hearing nothing for the
  keepalive time, everything it hears restarts that time, and no KEEPALIVE is
  answered. The end that is due first silences the other and then times out a
  session that works; audio in one direction does the same.

## Other divergences met while modelling

Found with properties the modules no longer carry; each is a short behaviour of
the model, given here with the line of the code and of what it departs from.

Sessions:

- A KEEPALIVE with session id 0 equals the zeroed id of a link without a
  handshake and makes it ready (`bluetooth.c:1194`; README:69-70, "does not mark
  the link operational until the session handshake completes").
- A HELLO drained after its channel closed completes the pairing in progress,
  which `main.c:219` stores (`bluetooth.c:1262`; README:80, "only persisted once
  the headset session is actually operational").
- A HELLO takes over the session id but not the sequence number, so a headset
  that restarted unnoticed has its first audio dropped as stale
  (`bluetooth.c:1175`; README:60, 68). `ResumesSoon` bounds the loss.
- All types of message share one counter, so keepalives between two frames count
  as missing audio (`bluetooth.c:1211`; README:69).
- 0 means "no frame yet" and is also a number the counter takes: the gap behind
  that frame is not counted (`bluetooth.c:1210`). `GapsCounted` says so: a gap is
  missed there, none is invented.
- A clear sets the ready count to 0 while other sessions go on, and an ERROR
  message degrades a link without a recount (`bluetooth.c:240`; README:40, "keeps
  the active headset session state in sync").
- When both ends send HELLOs of their own and these cross, each takes over the
  other's session id: the ids are swapped, and no message puts it right, as each
  end answers the other's ERRORs by degrading only (`bluetooth.c:1175`).
  `QuietEndsAgree` and `Heals` hold when one end initiates.
- A pairing whose handshake never completes has no end: a session of that headset
  long after is taken for it and stored (`bluetooth.c:203`).
- After an unseen restart over a channel that reorders, the numbers the link kept
  may let an older frame pass for a newer one. RFCOMM keeps the order, so
  `RestartUnseen` is looked at over such a channel only.

Store and what is remembered:

- A save into a full image reports success without storing its headset
  (`pairings.c:297`; the host store returns false, `pairings.c:393`).
  `SaveKeepsOthers` names the case.
- A clear that is done reports failure, as an image of zeros is not a valid one
  (`pairings.c:309`; `tests/test_intercom.c:776` asserts success).
- A power cut while one pairing is saved loses all: the only copy is erased first
  (`pairings.c:52`; README:78). `AllOrNothing` allows "nothing" for this.
- A held button empties the store, but the runtime forgets the button's peer only
  (`main.c:247`; README:184-185).
- A headset paired with the button since boot is not one the runtime remembers,
  so it is not reconnected before a reboot (`bluetooth_le_audio.c:1315`;
  README:37).

Backend (`bluetooth_le_audio.c`):

- A channel that closes may be listed again by the automatic reconnect of the
  same poll, and the session layer never sees the drop (`:1436`; README:87).
- Three SDP queries without a result block the reconnect of a remembered headset
  that nobody disconnected (`:1114`; README:37, 85-86).
- A dial that is disconnected, if BTstack ends it as a failed open, is asked for
  again at once (`:1037`; README:85-86); if BTstack ends it as a closed channel,
  `connect_peer_id` stays set and nobody is dialled again (`:799`; README:37).
  One of the two holds whichever way it is.
- A headset that never answers is dialled over and over, and one in a later row
  never gets its turn (`:803`; README:37).
- HELLOs to the button's default peer, which no headset has, fill the outbound
  queue for good (`:503`; README:43).
- When both sides open a channel at once, the failure of one makes the backend
  forget the open other one (`:1035`; README:40). Such crossings may also lead to a
  dial of a headset that was disconnected on request, so `ImplementsTransport` and
  `DisconnectSticks` are checked with headsets that only answer.
- Clearing a headset whose dial is under way leaves a dial nobody owns (`:1404`);
  for the contract, too, the clear is left out. The count of discovered peers is not
  reduced by a clear.
- A send request for a channel whose dial then fails is never answered and never
  withdrawn, and nothing is sent to anyone again (`:848`; README:43).
  `OutboundMoves` is checked with aborted dials that end as a closed channel.

Host transport (`bluetooth_transport.c`):

- A clear moves up the first `discovered_peer_count` rows only: a row of the
  cleared headset behind a hole survives with its block, and a surviving row with a
  pairing pending is never purged (`:388`, `:173`).
- A headset reported as not ready before the first poll passes for never seen, and
  a connect makes it ready (`:281`).
- A connect that fails still remembers its headset (`:260`), and `set_enabled(false)`
  leaves the connected list as it is (`:236`).

Main loop (`main.c`):

- The LED is steady as soon as a headset is on the connected list, also without a
  session (`:135`; README:125, "a steady LED once a headset session is operational").

## Proofs

The assumptions are the named `ASSUME`s of each module and nothing else, except
where a theorem states hypotheses of its own.

`PeerLinks_proofs` proves, for every finite set of headsets, set of session ids,
table size, queue depth and timeouts that satisfy the `ASSUME`s of `PeerLinks`:

| Theorem | Property |
| --- | --- |
| `TypeCorrect` | `TypeOK`, with the bound on the number of slots |
| `RelayCorrect` | `RelayMatchesSessions` |
| `StaleSessionsCleared` | `NoStaleSession` |
| `MirrorHidesNoSession` | `NoSessionBehindMirror` |
| `ReadyCountCorrect` | `ReadyCountBounded` |
| `SessionsEndForCause` | `SessionEndsForCause` |

The inductive invariant `IInv` is the conjunction of these properties: they need
each other. The relay list is full exactly when `MaxPeers` links are active, so
`intercom_add_peer` never fails for a peer with a slot: that is the step where
`RelayMatchesSessions` needs the slot bound of `TypeOK`. The ready count is
recomputed only when a link is noted as disconnected or marked ready, and in
between stays a bound because every other step leaves the active links alone;
`connect_peer` may work on a link whose peer is behind the mirror, which is why
`NoSessionBehindMirror` is part of it.

Layout: lemmas about one link (`DroppedLink`, `OlderLink`, `HandledLinkSound`,
...), about the table (`WithLinkTable`, `ReconciledTable`, `RecountBounded`,
...), one lemma per action, and the temporal theorems from `Invariance`. The
library's facts on cardinalities of finite sets are used.

`SessionsEndForCause` needs no more than `IInv`: one lemma per handler says which
sessions it keeps (`SessionsKept`), and `PollEndsSilentOnly` that a poll ends the
silent ones alone.

`PairingFlash_proofs` proves, for every number of headsets, entries and flash
pages:

| Theorem | Property |
| --- | --- |
| `TypeCorrect` | `TypeOK` |
| `WritesAllOrNothing` | `AllOrNothing` |
| `SavesKeepOthers` | `SaveKeepsOthers` |

`AllOrNothing` is not inductive: a programmed page must be known to be of the
image being written. `Progress` says where a write is (the pages before the
current one hold the image or are damaged, the others are blank; before the erase
the sector is untouched), `ProperJob` what is being written. `UnreadablePage` and
`StoredIsHeader` carry the checksum argument: one damaged or blank page makes
the whole image unacceptable. The abstraction of the checksum (a page knows its
image) is an assumption of these theorems.

`MainLoop_proofs` shows that the main loop implements the store
(`LoopImplementsStore`, `LoopSpec => Spec` of `PairingFlash`: each part of an
iteration is a step of the store or leaves its variables alone), so that
`LoopStoreTypeCorrect`, `LoopAllOrNothing` and `LoopSavesKeepOthers` follow from
the store's theorems without a new induction. Of the loop itself:

| Theorem | Property |
| --- | --- |
| `LoopTypeCorrect` | `LoopTypeOK` |
| `PressAsksOnce` | `OneRequestPerPress` |
| `ClearLasts` | `ClearSticks` |
| `UnstoredShows` | `UnstoredIsShown` |

`ButtonInv` ties the requests of a press to the place in the iteration
(`PressCounted`): `holdDone` is the request already made. `LoopInv` adds what is
being written (`WriteAt`), that a cleared store rests while a pairing can still
complete (`ClearedRests`), and where a pairing taken for storing is accounted for
(`TakenAccounted`).

`InboundAudio_proofs` proves, for every even number of sequence numbers, every
window below half of them and any number of messages and runs:

| Theorem | Property |
| --- | --- |
| `TypeCorrect` | `TypeOK` |
| `AudioKeepsOrder` | `AudioInOrder` |
| `GapsAreCounted` | `GapsCounted` |
| `MuteEnds` | `ResumesSoon` |

`WireDelta` is the arithmetic: the difference of two numbers on the wire tells
which message is the later one as long as they are less than half of the numbers
apart. The invariant says that messages under way are that close to what was sent
(`NetInv`), that the link's numbers are those of messages received (`LinkInv`), and
how long an unnoticed restart has lasted (`MuteInv`).

`SessionPair_proofs` proves, for every queue depth, all times and any number of
faults, with more session ids than can be in use at once:

| Theorem | Property |
| --- | --- |
| `TypeCorrect` | `TypeOK` |
| `EndsAgree` | `QuietEndsAgree`, if one end alone initiates |

The hypothesis is needed: with two initiating ends the property is false (above).
`PairInv` looks at both links and both directions at once. The session the other
end will hold when all has arrived is the last HELLO under way, or what it holds
(`Follows`); that it is the initiating end's session holds once that end has heard
of it (`Heard`), and a session once asked for is not followed by another request
(`Settled`), which is why a lost or repeated HELLO does no harm. One lemma says
what each message sent or taken does to it, and one per action which of these it is.

`PacketQueue_proofs` has the lemmas about `Kept`. `Place(K, k)`, the k-th smallest
place, is defined by counting the places up to it instead of by recursion. That the
counts of places rise with them, from 1 to the number of places and leaving none
out (`BelowOrders`, `PlaceCounts`), is a fact of cardinalities, so nothing has to be
proved by induction over the queue. From it follows that what is left is a queue of
packets that were there, no longer than before, in the order they had
(`KeptQueue`), that no packet is lost whose place stays (`KeptAll`), and what the
two extreme cases do (`KeptWhole`, `KeptTail`).

`HostTransport_proofs` proves, for any number of headsets, table size, queue depth
and timeout:

| Theorem | Property |
| --- | --- |
| `TypeCorrect` | `TypeOK` |
| `TableStaysExact` | `TableExact` |
| `ListedRowsStay` | `ListedKeepsRow` |
| `KeepsContract` | `ImplementsTransport` |

The rows in use are a set of indices; a clear that moves rows up is a bijection
between the indices before, without the cleared one, and those after. For the
contract, `CallsInv` adds what a step of `Transport` needs and the properties do
not say: no packet waits that touches no connected headset (`QueueInv`), who was
cut is off the list and its rows are blocked (`CutInv`), which is why a poll cannot
bring it back, and no more headsets are remembered than a table holds. That the
list fits its table follows from the rows: each connected headset has one of its own
(`ListedFits`). The refinement mapping reads a queued packet as the set of its two
ends (`Seen`).

`TargetBackend_proofs` proves, for any number of headsets, table size, queue
depth and number of SDP attempts:

| Theorem | Property | Hypotheses |
| --- | --- | --- |
| `TypeCorrect` | `TypeOK` | |
| `CidStaysLive` | `CidIsLive` | |
| `ConnectedIsLinked` | `ConnectedHasChannel` | |
| `QueueIsForListed` | `QueuedForListed` | |
| `OneDialAtATime` | `OneDial` | `DialIn = {}` |
| `BlocksHaveCause` | `BlockedForCause` | `DialIn = {}` or `Clearable = {}` |
| `DisconnectsEnd` | `DisconnectingEnds` | `Clearable = {}` |
| `RowsFindPlaces` | `RowsHavePlaces` | `Clearable = {}` |
| `DisconnectsStick` | `DisconnectSticks` | `DialIn = {}`, `Clearable = {}`, `AbortReports = {"closed"}` |
| `KeepsContract` | `ImplementsTransport` | `DialIn = {}`, `Clearable = {}`, `AbortReports = {"closed"}` |

The runs check each property under its hypotheses or stronger ones, and the
hypotheses are needed: without any one of them TLC finds a counterexample, which is
one of the divergences above or follows from one. They say which headsets there are
and what is done with them, and how BTstack ends an aborted dial, of which the
repository does not tell; with a headset that dials in, TLC finds a disconnected one
listed again when the dial it crossed opens. `BlocksHaveCause` fails where one
headset dials in and another is erased: the slot that the erased one leaves is the
place the caller lacks, and its block stays. So its proof has two arguments, from
`OnlyDialled` where nobody dials in and from `FitInv` where nothing is erased. The
invariant is one predicate of a peer's row, its channels and the dial under way
(`RowInv`), so that an action about one peer disturbs one instance of it: `RowSound`
(ids and slots name channels), `HangsUp` (a disconnect has its channel),
`OnlyDialled` (the remembered dial is the dial), `StaysCut` (a cut peer is neither
dialled nor waiting to be).

What each operation does to a row is said once, by a lemma named for it
(`ConnectRow`, `OpenedRow`, `ReconnectingRow`, ...); the lemmas that it preserves
the invariants, and the refinement, are drawn from that. `FullInv` adds the queue:
each step either keeps everybody on the list (`AllStay`) or takes out the packets
of the one that leaves (`LeavesQueued`). `FitInv` adds what ties the tables to each
other. A row has its other half, a channel id is kept of listed peers only, and only
peers with a row have channels (`Paired`); so the listed peers are among those with a
row, and one with a row that is not listed leaves room on the list (`PlacesGive`).
So `reserve_connected_slot` never fails for a peer with a row, which the contract
rests on: a peer with a channel is a listed peer, and a dial that opens late lists
nobody. That a cut peer is not listed again (`NobodyCutIsListed`) follows from the
refinement, that it is not dialled from `StaysCut`; together they are
`DisconnectsStick`.

Checked by TLC only: the liveness properties, which are out of the prover's
reach with `ENABLED` and fairness. Every invariant, action property and refinement
that a passing run checks is also proved.

## Not modelled

- the interrupt context of BTstack: `CMakeLists.txt` links
  `pico_cyw43_arch_none`; the models follow the comment in
  `bluetooth_le_audio_stack_poll` that events are dispatched in the poll;
- audio: a frame is generated, encoded, queued and drained within one call, with
  no state another part reads; which peers a frame is relayed to is `relay`;
- call control: nothing in the firmware enables it; a table from opcodes to fields;
- `set_enabled` of the backend, `stack_pair` and `report_headset`, which only
  tests call on the target build;
- the host build's text file of pairings, which is rewritten as a whole;
- peer ids that two headset addresses share, RFCOMM channel numbers, packet
  contents and the byte layout of messages, names, the error record, the counters
  and the reports over USB serial. The layout and the filters of names are pure
  functions with tests of their own.

Two extensions would need another kind of model: events inside a call of the
session layer, which need the statements of the shifted queues and tables one by
one, and several silent headsets under fairness, where the state space is beyond
what a run can hold.
