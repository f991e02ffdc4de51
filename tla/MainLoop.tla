------------------------------ MODULE MainLoop ------------------------------
(***************************************************************************)
(* The main loop of the firmware (src/src/main.c, target build) around the *)
(* pairing store of PairingFlash: each iteration samples the button, polls *)
(* the session layer, stores a pairing that completed, acts on the button  *)
(* and drives the status LED.  A short press asks for a pairing, a held    *)
(* button clears; the power may go at any moment.                          *)
(*                                                                         *)
(* The session layer is the part of PeerLinks the loop reads: the pairing  *)
(* in progress, the transport and whether a headset is connected.  An      *)
(* iteration may take long (a flash write, a slow poll), so that the time  *)
(* since the press grows by any amount.  The local audio frame and the     *)
(* reports over USB serial are left out.                                   *)
(***************************************************************************)
EXTENDS PairingFlash

CONSTANT Hold    \* PICO_INTERCOM_PAIR_BUTTON_HOLD_MS, in shortest iterations

ASSUME HoldAssumption == Hold \in Nat \ {0}
ASSUME ButtonAssumption == ButtonPeer \in Headsets

VARIABLES
  at,            \* where the iteration is
  pressed,       \* pairing_button_pressed, sampled at the top
  wasPressed,    \* pairing_button_was_pressed
  heldFor,       \* now_ms - pairing_button_press_started_ms, up to Hold
  holdDone,      \* pairing_button_hold_triggered
  showPairing,   \* pairing_in_progress of main, for the LED
  pairingError,  \* pairing_error of main
  storageError,  \* bluetooth.storage_error
  transport,     \* bluetooth_runtime_has_transport
  warning,       \* transport_warning
  pairing,       \* the runtime's pairing in progress and its headset
  led,           \* what the status LED shows
  requests,      \* history: requests made by the last press of the button
  taken,         \* history: the pairing taken for storing since a request
  cleared        \* history: the store was cleared, no pairing asked since

loopVars ==
  <<vars, at, pressed, wasPressed, heldFor, holdDone, showPairing,
    pairingError, storageError, transport, warning, pairing, led,
    requests, taken, cleared>>

button == <<pressed, wasPressed, heldFor, holdDone>>
errors == <<pairingError, storageError, warning>>

NoPairing == [phase |-> "none", peer |-> NoHeadset]

\* The locals of main, and a runtime that was just initialised.
PoweredUp ==
  /\ at = "top" /\ pressed = FALSE /\ wasPressed = FALSE /\ heldFor = 0
  /\ holdDone = FALSE /\ showPairing = FALSE /\ pairingError = FALSE
  /\ storageError = FALSE /\ transport = FALSE /\ warning = FALSE
  /\ pairing = NoPairing /\ led = "off"
  /\ requests = 1 /\ taken = NoHeadset

LoopInit == Init /\ PoweredUp /\ cleared = FALSE

LoopBoot ==
  /\ Boot
  /\ UNCHANGED <<at, button, showPairing, errors, transport, pairing, led,
                 requests, taken, cleared>>

(***************************************************************************)
(* The top of an iteration: the button is sampled, bluetooth_poll may      *)
(* finish the handshake of the headset being paired and may find the       *)
(* transport up or down; a transport that stays down is warned of.         *)
(***************************************************************************)
SampleAndPoll ==
  /\ on /\ at = "top" /\ at' = "store"
  /\ pressed' \in BOOLEAN
  /\ \E time \in 1 .. Hold :
       heldFor' = IF heldFor + time > Hold THEN Hold ELSE heldFor + time
  /\ requests' = IF pressed' /\ ~pressed THEN 0 ELSE requests
  /\ transport' \in BOOLEAN
  /\ warning' \in IF transport' THEN {FALSE} ELSE {warning, TRUE}
  /\ \/ UNCHANGED pairing
     \/ /\ pairing.phase = "progress"
        /\ pairing' = [pairing EXCEPT !.phase = "completed"]
  /\ UNCHANGED <<vars, wasPressed, holdDone, showPairing, pairingError,
                 storageError, led, taken, cleared>>

(***************************************************************************)
(* A completed pairing is stored, and taken whether or not that worked.    *)
(***************************************************************************)
NothingToStore ==
  /\ on /\ at = "store" /\ at' = "button"
  /\ pairing.phase # "completed"
  /\ UNCHANGED <<vars, button, showPairing, errors, transport, pairing, led,
                 requests, taken, cleared>>

StorePairing ==
  /\ at = "store" /\ at' = "saving"
  /\ pairing.phase = "completed"
  /\ Save(pairing.peer)
  /\ taken' = pairing.peer
  /\ UNCHANGED <<button, showPairing, errors, transport, pairing, led,
                 requests, cleared>>

\* The store writes, in a save or in a clear.
Write == Refused \/ Erase \/ (\E i \in 1 .. Pages : Program(i)) \/ Verify

StoreWrites ==
  /\ at \in {"saving", "clearing"}
  /\ Write
  /\ cleared' = (cleared \/ (job.op = "clear" /\ job.step > Pages))
  /\ UNCHANGED <<at, button, showPairing, errors, transport, pairing, led,
                 requests, taken>>

\* Mutant: the answer of the save is not looked at.
SaveFailedIgnored(a) == FALSE

SaveFailed(a) == ~a.ok

SaveEnds ==
  /\ on /\ at = "saving" /\ at' = "button"
  /\ job = Idle
  /\ pairingError' = (pairingError \/ SaveFailed(answer))
  /\ storageError' = (storageError \/ SaveFailed(answer))
  /\ pairing' = NoPairing
  /\ UNCHANGED <<vars, button, showPairing, transport, warning, led,
                 requests, taken, cleared>>

(***************************************************************************)
(* The button.  A press starts the hold time; holding it that long clears, *)
(* once; a release asks for a pairing unless it ended a hold.              *)
(***************************************************************************)
\* Mutant: a press does not start the hold afresh.
HoldDoneKept(edge) == holdDone

HoldDoneAfter(edge) == holdDone /\ ~edge

HoldTime(edge) == IF edge THEN 0 ELSE heldFor

Edge == pressed /\ ~wasPressed

\* Mutant: a hold clears again in every iteration.
HoldsNowAgain == pressed /\ HoldTime(Edge) >= Hold

HoldsNow == pressed /\ ~HoldDoneAfter(Edge) /\ HoldTime(Edge) >= Hold
ReleasesNow == ~pressed /\ wasPressed /\ ~holdDone

NoRequest ==
  /\ on /\ at = "button" /\ at' = "led"
  /\ ~HoldsNow /\ ~ReleasesNow
  /\ holdDone' = HoldDoneAfter(Edge) /\ heldFor' = HoldTime(Edge)
  /\ UNCHANGED <<vars, pressed, wasPressed, showPairing, errors, transport,
                 pairing, led, requests, taken, cleared>>

\* Mutant: the clear leaves a pairing that is in progress alone.
ClearedPairingKept(p) == p

\* bluetooth_clear_pairing, its effect on the pairing in progress.
ClearedPairing(p) == NoPairing

\* bluetooth_clear_pairing of a linked peer cannot fail; the store's answer
\* is only printed.
HoldClears ==
  /\ at = "button" /\ at' = "clearing"
  /\ HoldsNow
  /\ Clear
  /\ holdDone' = TRUE /\ heldFor' = HoldTime(Edge)
  /\ showPairing' = FALSE /\ pairingError' = FALSE
  /\ pairing' = ClearedPairing(pairing)
  /\ requests' = requests + 1 /\ taken' = NoHeadset
  /\ UNCHANGED <<pressed, wasPressed, storageError, transport, warning, led,
                 cleared>>

ClearEnds ==
  /\ on /\ at = "clearing" /\ at' = "led"
  /\ job = Idle
  /\ UNCHANGED <<vars, button, showPairing, errors, transport, pairing, led,
                 requests, taken, cleared>>

\* bluetooth_handle_pairing_button: the candidate selected, or the button's
\* peer; it fails without a transport and when the connect fails.
ReleaseAsks ==
  /\ on /\ at = "button" /\ at' = "led"
  /\ ReleasesNow
  /\ showPairing' = TRUE /\ storageError' = FALSE
  /\ \/ /\ pairingError' = TRUE
        /\ pairing' = NoPairing
     \/ /\ transport
        /\ pairingError' = FALSE
        /\ \E h \in Headsets : pairing' = [phase |-> "progress", peer |-> h]
  /\ requests' = requests + 1 /\ taken' = NoHeadset /\ cleared' = FALSE
  /\ UNCHANGED <<vars, pressed, wasPressed, heldFor, holdDone, transport,
                 warning, led>>

(***************************************************************************)
(* The end of an iteration: update_status_led.  The display of a pairing   *)
(* ends by itself, but not in the iteration of its press.                  *)
(***************************************************************************)
LedShows(connected) ==
  IF ~transport THEN "off"
  ELSE IF pairingError \/ warning \/ storageError THEN "error"
  ELSE IF showPairing' THEN "pairing"
  ELSE IF pressed THEN (IF holdDone THEN "held" ELSE "pressed")
  ELSE IF connected THEN "on"
  ELSE "idle"

ShowAndSleep ==
  /\ on /\ at = "led" /\ at' = "top"
  /\ \/ UNCHANGED showPairing
     \/ showPairing' = FALSE /\ ~(wasPressed /\ ~pressed)
  /\ \E connected \in BOOLEAN : led' = LedShows(connected)
  /\ wasPressed' = pressed
  /\ UNCHANGED <<vars, pressed, heldFor, holdDone, errors, transport, pairing,
                 requests, taken, cleared>>

\* The power goes: main starts afresh.
LoopPowerCut ==
  /\ PowerCut
  /\ at' = "top" /\ pressed' = FALSE /\ wasPressed' = FALSE /\ heldFor' = 0
  /\ holdDone' = FALSE /\ showPairing' = FALSE /\ pairingError' = FALSE
  /\ storageError' = FALSE /\ transport' = FALSE /\ warning' = FALSE
  /\ pairing' = NoPairing /\ led' = "off"
  /\ requests' = 1 /\ taken' = NoHeadset
  /\ UNCHANGED cleared

LoopNext ==
  \/ LoopBoot \/ SampleAndPoll
  \/ NothingToStore \/ StorePairing \/ StoreWrites \/ SaveEnds
  \/ NoRequest \/ HoldClears \/ ClearEnds \/ ReleaseAsks
  \/ ShowAndSleep \/ LoopPowerCut

LoopSpec == LoopInit /\ [][LoopNext]_loopVars

-----------------------------------------------------------------------------
LoopTypeOK ==
  /\ at \in {"top", "store", "saving", "button", "clearing", "led"}
  /\ pressed \in BOOLEAN /\ wasPressed \in BOOLEAN /\ holdDone \in BOOLEAN
  /\ heldFor \in 0 .. Hold
  /\ showPairing \in BOOLEAN /\ pairingError \in BOOLEAN
  /\ storageError \in BOOLEAN /\ transport \in BOOLEAN /\ warning \in BOOLEAN
  /\ pairing \in [phase : {"none", "progress", "completed"},
                  peer : Headsets \cup {NoHeadset}]
  /\ pairing.phase # "none" => pairing.peer \in Headsets
  /\ led \in {"off", "error", "pairing", "held", "pressed", "on", "idle"}
  /\ requests \in 0 .. 2
  /\ taken \in Headsets \cup {NoHeadset}
  /\ cleared \in BOOLEAN

\* Each press of the button that the loop sees asks for one thing: a hold
\* clears and does not ask for a pairing when it is let go, a short press asks
\* for a pairing, whatever press came before it and however slow the loop is.
OneRequestPerPress ==
  /\ requests <= 1
  /\ at = "top" /\ ~pressed => requests = 1

\* A cleared store stays empty, over restarts too, until the button asks for
\* a pairing: a pairing that was under way at the hold is not stored later.
ClearSticks == cleared => Stored(sector) = {}

\* A pairing that completed and is not in the store, so that the next boot
\* will not know it, is shown by the LED until the button is used again; but
\* not when the image was full, which the store reports as a success.
UnstoredIsShown ==
  at = "top" /\ taken # NoHeadset =>
    \/ taken \in Stored(sector)
    \/ Cardinality(Stored(sector)) >= MaxCount
    \/ led = "error" \/ ~transport

=============================================================================
