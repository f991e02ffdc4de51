--------------------------- MODULE MainLoop_proofs ---------------------------
(***************************************************************************)
(* The main loop for any hold time and any store: it drives the store only *)
(* by the store's own actions, so that what is proved of the store holds   *)
(* in the firmware; each press of the button asks for one thing; a cleared *)
(* store stays empty; a pairing that could not be stored is shown.         *)
(***************************************************************************)
EXTENDS MainLoop, PairingFlash_proofs

(***************************************************************************)
(* The inductive invariant.                                                *)
(***************************************************************************)

\* What the last press has asked for, by where the iteration is: before the
\* button is looked at, a release is still to be answered and a new press has
\* not ended the hold of the one before.
PressCounted ==
  /\ at \in {"store", "saving", "button"} =>
       requests = IF pressed
                    THEN IF wasPressed /\ holdDone THEN 1 ELSE 0
                    ELSE IF wasPressed /\ ~holdDone THEN 0 ELSE 1
  /\ at \in {"clearing", "led", "top"} =>
       requests = IF pressed /\ ~holdDone THEN 0 ELSE 1
  /\ at = "top" => pressed = wasPressed

ButtonInv == LoopTypeOK /\ PressCounted

\* The loop waits for the store: there is a write only while it saves or
\* clears, and that write is the one it began.
WriteAt ==
  /\ at \notin {"saving", "clearing"} => job = Idle
  /\ at = "saving" /\ job # Idle => job.op = "save" /\ job.for = taken
  /\ at = "saving" /\ job = Idle => answer.op = "save" /\ answer.for = taken
  /\ at = "clearing" /\ job # Idle => job.op = "clear" /\ job.image = ZeroImage

\* After a clear no pairing is left that could be stored.
ClearedRests ==
  /\ at = "clearing" => pairing = NoPairing
  /\ cleared => pairing = NoPairing /\ at # "saving" /\ Stored(sector) = {}

\* A pairing taken for storing is stored, found the image full, or left an
\* error behind that lasts until the button is used.
TakenAccounted ==
  /\ at # "saving" /\ taken # NoHeadset =>
       \/ taken \in Stored(sector)
       \/ Cardinality(Stored(sector)) >= MaxCount
       \/ pairingError
  /\ at = "clearing" => taken = NoHeadset
  /\ at = "top" /\ pairingError => led = "error" \/ ~transport

LoopInv == WriteAt /\ ClearedRests /\ TakenAccounted

-----------------------------------------------------------------------------
(***************************************************************************)
(* The button.                                                             *)
(***************************************************************************)

\* The runtime just initialised has no pairing in progress.
LEMMA NoPairingType ==
  /\ NoPairing \in [phase : {"none", "progress", "completed"},
                    peer : Headsets \cup {NoHeadset}]
  /\ NoPairing.phase = "none"
BY DEF NoPairing

\* The bounds of the two counters of the button.
LEMMA ButtonBounds == 0 \in 0 .. Hold /\ 0 \in 0 .. 2 /\ 1 \in 0 .. 2
BY HoldAssumption

LEMMA ButtonInit == LoopInit => ButtonInv
<1> SUFFICES ASSUME LoopInit PROVE ButtonInv
  OBVIOUS
<1>1. LoopTypeOK
  BY NoPairingType, ButtonBounds DEF LoopInit, PoweredUp, LoopTypeOK
<1>2. PressCounted
  BY DEF LoopInit, PoweredUp, PressCounted
<1>3. QED
  BY <1>1, <1>2 DEF ButtonInv

LEMMA ButtonStep == ButtonInv /\ [LoopNext]_loopVars => ButtonInv'
<1> SUFFICES ASSUME ButtonInv, [LoopNext]_loopVars PROVE ButtonInv'
  OBVIOUS
<1> USE DEF ButtonInv, button, errors
<1>1. CASE UNCHANGED loopVars
  BY <1>1 DEF loopVars, LoopTypeOK, PressCounted
<1>2. CASE LoopBoot
  BY <1>2 DEF LoopBoot, LoopTypeOK, PressCounted
<1>3. CASE SampleAndPoll
  <2>1. heldFor' \in 0 .. Hold
    BY <1>3, HoldAssumption DEF SampleAndPoll, LoopTypeOK
  <2>2. /\ pairing' \in [phase : {"none", "progress", "completed"},
                         peer : Headsets \cup {NoHeadset}]
        /\ pairing'.phase # "none" => pairing'.peer \in Headsets
    <3>1. CASE UNCHANGED pairing
      BY <3>1 DEF LoopTypeOK
    <3>2. CASE /\ pairing.phase = "progress"
               /\ pairing' = [pairing EXCEPT !.phase = "completed"]
      BY <3>2 DEF LoopTypeOK
    <3>3. QED
      BY <1>3, <3>1, <3>2 DEF SampleAndPoll
  <2>3. requests' \in 0 .. 2
    BY <1>3 DEF SampleAndPoll, LoopTypeOK
  <2>4. warning' \in BOOLEAN
    BY <1>3 DEF SampleAndPoll, LoopTypeOK
  <2>5. LoopTypeOK'
    BY <1>3, <2>1, <2>2, <2>3, <2>4 DEF SampleAndPoll, LoopTypeOK
  <2>6. PressCounted'
    BY <1>3 DEF SampleAndPoll, LoopTypeOK, PressCounted
  <2>7. QED
    BY <2>5, <2>6
<1>4. CASE NothingToStore
  BY <1>4 DEF NothingToStore, LoopTypeOK, PressCounted
<1>5. CASE StorePairing
  BY <1>5 DEF StorePairing, LoopTypeOK, PressCounted
<1>6. CASE StoreWrites
  BY <1>6 DEF StoreWrites, LoopTypeOK, PressCounted
<1>7. CASE SaveEnds
  BY <1>7 DEF SaveEnds, NoPairing, SaveFailed, LoopTypeOK, PressCounted
<1>8. CASE NoRequest
  <2>1. heldFor' \in 0 .. Hold
    BY <1>8, HoldAssumption DEF NoRequest, HoldTime, LoopTypeOK
  <2>2. LoopTypeOK'
    BY <1>8, <2>1 DEF NoRequest, HoldDoneAfter, Edge, LoopTypeOK
  <2>3. PressCounted'
    BY <1>8 DEF NoRequest, ReleasesNow, HoldDoneAfter, Edge, LoopTypeOK,
                PressCounted
  <2>4. QED
    BY <2>2, <2>3
<1>9. CASE HoldClears
  <2>1. heldFor' \in 0 .. Hold
    BY <1>9, HoldAssumption DEF HoldClears, HoldTime, LoopTypeOK
  <2>2. requests = 0
    BY <1>9 DEF HoldClears, HoldsNow, HoldDoneAfter, Edge, LoopTypeOK, PressCounted
  <2>3. requests' = 1 /\ requests' \in 0 .. 2
    BY <1>9, <2>2 DEF HoldClears
  <2>4. LoopTypeOK'
    BY <1>9, <2>1, <2>3, NoPairingType DEF HoldClears, ClearedPairing, LoopTypeOK
  <2>5. PressCounted'
    BY <1>9, <2>3 DEF HoldClears, PressCounted
  <2>6. QED
    BY <2>4, <2>5
<1>10. CASE ClearEnds
  BY <1>10 DEF ClearEnds, LoopTypeOK, PressCounted
<1>11. CASE ReleaseAsks
  <2>1. requests = 0
    BY <1>11 DEF ReleaseAsks, ReleasesNow, PressCounted
  <2>2. /\ pairing' \in [phase : {"none", "progress", "completed"},
                         peer : Headsets \cup {NoHeadset}]
        /\ pairing'.phase # "none" => pairing'.peer \in Headsets
    BY <1>11 DEF ReleaseAsks, NoPairing
  <2>3. pairingError' \in BOOLEAN
    BY <1>11 DEF ReleaseAsks
  <2>4. LoopTypeOK'
    <3>1. requests' \in 0 .. 2
      BY <1>11, <2>1 DEF ReleaseAsks
    <3>2. QED
      BY <1>11, <2>2, <2>3, <3>1 DEF ReleaseAsks, LoopTypeOK
  <2>5. PressCounted'
    BY <1>11, <2>1 DEF ReleaseAsks, ReleasesNow, PressCounted
  <2>6. QED
    BY <2>4, <2>5
<1>12. CASE ShowAndSleep
  <2>1. led' \in {"off", "error", "pairing", "held", "pressed", "on", "idle"}
    BY <1>12 DEF ShowAndSleep, LedShows
  <2>2. showPairing' \in BOOLEAN
    BY <1>12 DEF ShowAndSleep, LoopTypeOK
  <2>3. LoopTypeOK'
    BY <1>12, <2>1, <2>2 DEF ShowAndSleep, LoopTypeOK
  <2>4. PressCounted'
    BY <1>12 DEF ShowAndSleep, PressCounted
  <2>5. QED
    BY <2>3, <2>4
<1>13. CASE LoopPowerCut
  <2>1. LoopTypeOK'
    BY <1>13, NoPairingType, ButtonBounds DEF LoopPowerCut, LoopTypeOK
  <2>2. PressCounted'
    BY <1>13 DEF LoopPowerCut, PressCounted
  <2>3. QED
    BY <2>1, <2>2
<1>14. QED
  BY <1>1, <1>2, <1>3, <1>4, <1>5, <1>6, <1>7, <1>8, <1>9, <1>10, <1>11, <1>12,
     <1>13 DEF LoopNext

\* What the button's part of the invariant rests on holds in every state.
THEOREM ButtonInvariance == LoopSpec => []ButtonInv
BY ButtonInit, ButtonStep, PTL DEF LoopSpec

\* Every variable of the loop keeps its type.
THEOREM LoopTypeCorrect == LoopSpec => []LoopTypeOK
<1>1. ButtonInv => LoopTypeOK
  BY DEF ButtonInv
<1>2. QED
  BY ButtonInvariance, <1>1, PTL

\* The button handling of main.c: each press asks once, for a clear or for a
\* pairing, however slow the loop is and whatever press came before.
THEOREM PressAsksOnce == LoopSpec => []OneRequestPerPress
<1>1. ButtonInv => OneRequestPerPress
  BY DEF ButtonInv, LoopTypeOK, PressCounted, OneRequestPerPress
<1>2. QED
  BY ButtonInvariance, <1>1, PTL

-----------------------------------------------------------------------------
(***************************************************************************)
(* The loop implements the store.                                          *)
(***************************************************************************)

LEMMA StoreStep == LoopTypeOK /\ [LoopNext]_loopVars => [Next]_vars
<1> SUFFICES ASSUME LoopTypeOK, [LoopNext]_loopVars PROVE Next \/ UNCHANGED vars
  OBVIOUS
<1>1. CASE StorePairing
  <2>1. pairing.peer \in Headsets /\ Save(pairing.peer)
    BY <1>1 DEF StorePairing, LoopTypeOK
  <2>2. QED
    BY <2>1 DEF Next
<1>2. CASE StoreWrites
  BY <1>2 DEF StoreWrites, Write, Next
<1>3. CASE LoopBoot \/ HoldClears \/ LoopPowerCut
  BY <1>3 DEF LoopBoot, HoldClears, LoopPowerCut, Next
<1>4. CASE \/ SampleAndPoll \/ NothingToStore \/ SaveEnds \/ NoRequest
           \/ ClearEnds \/ ReleaseAsks \/ ShowAndSleep
  BY <1>4 DEF SampleAndPoll, NothingToStore, SaveEnds, NoRequest, ClearEnds,
              ReleaseAsks, ShowAndSleep
<1>5. CASE UNCHANGED loopVars
  BY <1>5 DEF loopVars
<1>6. QED
  BY <1>1, <1>2, <1>3, <1>4, <1>5 DEF LoopNext

\* The main loop implements the pairing store: every iteration, and a power
\* cut anywhere in it, is a step of the store or leaves the store alone.
THEOREM LoopImplementsStore == LoopSpec => Spec
<1>1. LoopInit => Init
  BY DEF LoopInit
<1>2. QED
  BY <1>1, StoreStep, LoopTypeCorrect, PTL DEF LoopSpec, Spec

\* In the firmware, too, the store's variables keep their types: what is restored
\* at boot are headsets, whatever state the sector is in.
THEOREM LoopStoreTypeCorrect == LoopSpec => []TypeOK
BY LoopImplementsStore, TypeCorrect, PTL

\* In the firmware, too, a boot finds the old image, the new one or nothing.
THEOREM LoopAllOrNothing == LoopSpec => []AllOrNothing
BY LoopImplementsStore, WritesAllOrNothing, PTL

\* In the firmware, too, a save that reports success has lost nothing.
THEOREM LoopSavesKeepOthers == LoopSpec => []SaveKeepsOthers
BY LoopImplementsStore, SavesKeepOthers, PTL

LEMMA StoreInvariance == LoopSpec => []IInv
BY LoopImplementsStore, Invariance, PTL

-----------------------------------------------------------------------------
(***************************************************************************)
(* What the sector stores, after each step of the store.                   *)
(***************************************************************************)

\* A clear leaves nothing at its erase and nothing in its image of zeros.
LEMMA ClearWrites ==
  ASSUME IInv, job.op = "clear", job.image = ZeroImage, Write
  PROVE  /\ job.step = 0 => Stored(sector)' \in {{}, Stored(sector)}
         /\ job.step > 0 => Stored(sector)' = {}
<1>1. CASE Refused
  BY <1>1 DEF Refused, Writing, Finish, Stored
<1>2. CASE Erase
  <2>1. 1 \in 1 .. Pages /\ sector'[1] = ErasedPage
    BY <1>2, BoundsAssumption DEF Erase
  <2>2. Stored(sector') = {}
    BY <2>1, UnreadablePage
  <2>3. QED
    BY <2>2 DEF Stored
<1>3. ASSUME NEW i \in 1 .. Pages, Program(i)
      PROVE  Stored(sector)' = {}
  <2>1. job.step = i /\ i > 0 /\ job # Idle
    BY <1>3 DEF Program, Writing
  <2>2. PICK page \in {job.image, DamagedPage} : sector' = [sector EXCEPT ![i] = page]
    BY <1>3 DEF Program
  <2>3. \A k \in 1 .. Pages : sector'[k] \in {ZeroImage, DamagedPage, ErasedPage}
    BY <2>1, <2>2 DEF IInv, Progress, TypeOK
  <2>4. Stored(sector') \in {{}, ZeroImage.pairings}
    BY <2>3, WrittenStores, ImageTypes
  <2>5. QED
    BY <2>4 DEF ZeroImage, Stored
<1>4. CASE Verify
  <2>1. job.step = Pages + 1 /\ job # Idle /\ sector' = sector
    BY <1>4 DEF Verify, Writing, Finish
  <2>2. job.step > 0 /\ \A k \in 1 .. Pages : k < job.step
    BY <2>1, BoundsAssumption
  <2>3. \A k \in 1 .. Pages : sector[k] \in {ZeroImage, DamagedPage, ErasedPage}
    BY <2>1, <2>2 DEF IInv, Progress
  <2>4. Stored(sector) \in {{}, ZeroImage.pairings}
    BY <2>3, WrittenStores, ImageTypes
  <2>5. QED
    BY <2>1, <2>4, BoundsAssumption DEF ZeroImage, Stored
<1>5. QED
  <2>1. ASSUME NEW i \in 1 .. Pages, Program(i)
        PROVE  job.step > 0 /\ ~(job.step = 0)
    BY <2>1 DEF Program, Writing
  <2>2. QED
    BY <1>1, <1>2, <1>3, <1>4, <2>1 DEF Write

\* A power cut damages what it hits and adds nothing.
LEMMA PowerCutStores ==
  ASSUME IInv, PowerCut
  PROVE  Stored(sector)' \in {{}, Stored(sector)}
<1> USE DEF PowerCut
<1>1. \A i \in 1 .. Pages : sector'[i] \in {sector[i], DamagedPage}
  BY DEF IInv, TypeOK
<1>2. sector' \in [1 .. Pages -> Content]
  BY ImageTypes DEF IInv, TypeOK
<1>3. CASE \E i \in 1 .. Pages : sector'[i] = DamagedPage
  BY <1>3, UnreadablePage DEF Stored
<1>4. CASE \A i \in 1 .. Pages : sector'[i] # DamagedPage
  <2>1. sector' = sector
    BY <1>1, <1>2, <1>4 DEF IInv, TypeOK
  <2>2. QED
    BY <2>1 DEF Stored
<1>5. QED
  BY <1>3, <1>4

\* A write that ends answers for the headset it was for.
LEMMA WriteGoesOn ==
  ASSUME IInv, Write
  PROVE  /\ job # Idle
         /\ \/ /\ job' # Idle /\ job'.op = job.op /\ job'.for = job.for
               /\ job'.image = job.image
            \/ job' = Idle /\ answer'.op = job.op /\ answer'.for = job.for
<1>1. CASE Refused \/ Verify
  BY <1>1 DEF Refused, Verify, Writing, Finish
<1>2. CASE Erase
  BY <1>2 DEF Erase, Writing, IInv, TypeOK, Idle
<1>3. ASSUME NEW i \in 1 .. Pages, Program(i)
      PROVE  /\ job # Idle /\ job' # Idle /\ job'.op = job.op
             /\ job'.for = job.for /\ job'.image = job.image
  BY <1>3 DEF Program, Writing, IInv, TypeOK, Idle
<1>4. QED
  BY <1>1, <1>2, <1>3 DEF Write

-----------------------------------------------------------------------------
(***************************************************************************)
(* Where the loop is and what it writes.                                   *)
(***************************************************************************)

LEMMA LoopInvInit == LoopInit => LoopInv
BY DEF LoopInit, Init, PoweredUp, LoopInv, WriteAt, ClearedRests, TakenAccounted

LEMMA WriteAtStep ==
  ASSUME ButtonInv, IInv, LoopInv, [LoopNext]_loopVars
  PROVE  WriteAt'
<1> USE DEF WriteAt, LoopInv, button, errors
<1>1. CASE UNCHANGED loopVars
  BY <1>1 DEF loopVars, vars
<1>2. CASE LoopBoot
  BY <1>2 DEF LoopBoot, Boot
<1>3. CASE StorePairing
  <2>1. at' = "saving" /\ job'.op = "save" /\ job'.for = taken' /\ job' # Idle
    BY <1>3 DEF StorePairing, Save, Begin, Idle
  <2>2. QED
    BY <2>1
<1>4. CASE StoreWrites
  BY <1>4, WriteGoesOn DEF StoreWrites
<1>5. CASE HoldClears
  <2>1. at' = "clearing" /\ job'.op = "clear" /\ job'.image = ZeroImage
    BY <1>5 DEF HoldClears, Clear, Begin
  <2>2. QED
    BY <2>1
<1>6. CASE LoopPowerCut
  BY <1>6 DEF LoopPowerCut, PowerCut
<1>7. CASE \/ SampleAndPoll \/ NothingToStore \/ SaveEnds \/ NoRequest
           \/ ClearEnds \/ ReleaseAsks \/ ShowAndSleep
  BY <1>7 DEF SampleAndPoll, NothingToStore, SaveEnds, NoRequest, ClearEnds,
              ReleaseAsks, ShowAndSleep, vars
<1>8. QED
  BY <1>1, <1>2, <1>3, <1>4, <1>5, <1>6, <1>7 DEF LoopNext

\* After a clear only ReleaseAsks starts a pairing, and a pairing is what
\* StorePairing needs.
LEMMA ClearedStep ==
  ASSUME ButtonInv, IInv, LoopInv, [LoopNext]_loopVars
  PROVE  ClearedRests'
<1> USE DEF ClearedRests, LoopInv, button, errors
<1>1. CASE UNCHANGED loopVars
  BY <1>1 DEF loopVars, vars, Stored
<1>2. CASE LoopBoot
  BY <1>2 DEF LoopBoot, Boot, Stored
<1>3. CASE StorePairing
  BY <1>3 DEF StorePairing, NoPairing
<1>4. CASE StoreWrites
  <2>1. CASE at = "saving"
    <3>1. job.op = "save"
      BY <1>4, <2>1, WriteGoesOn DEF StoreWrites, WriteAt
    <3>2. QED
      BY <1>4, <2>1, <3>1 DEF StoreWrites
  <2>2. CASE at = "clearing"
    <3>1. job.op = "clear" /\ job.image = ZeroImage
      BY <1>4, <2>2, WriteGoesOn DEF StoreWrites, WriteAt
    <3>2. /\ job.step = 0 => Stored(sector)' \in {{}, Stored(sector)}
          /\ job.step > 0 => Stored(sector)' = {}
      BY <1>4, <3>1, ClearWrites DEF StoreWrites
    <3>3. job.step = 0 \/ job.step > 0
      BY BoundsAssumption DEF IInv, TypeOK
    <3>4. ~(0 > Pages)
      BY BoundsAssumption
    <3>5. cleared' => Stored(sector)' = {}
      <4>1. CASE job.step > 0
        BY <3>2, <4>1
      <4>2. CASE job.step = 0 /\ cleared
        BY <3>2, <4>2
      <4>3. CASE job.step = 0 /\ ~cleared
        BY <1>4, <3>4, <4>3 DEF StoreWrites
      <4>4. QED
        BY <3>3, <4>1, <4>2, <4>3
    <3>6. QED
      BY <1>4, <2>2, <3>5 DEF StoreWrites
  <2>3. QED
    BY <1>4, <2>1, <2>2 DEF StoreWrites
<1>5. CASE HoldClears
  BY <1>5 DEF HoldClears, ClearedPairing, Clear, Begin, Stored
<1>6. CASE LoopPowerCut
  BY <1>6, PowerCutStores DEF LoopPowerCut
<1>7. CASE SampleAndPoll
  BY <1>7 DEF SampleAndPoll, NoPairing, vars, Stored
<1>8. CASE \/ NothingToStore \/ SaveEnds \/ NoRequest \/ ClearEnds
           \/ ReleaseAsks \/ ShowAndSleep
  BY <1>8 DEF NothingToStore, SaveEnds, NoRequest, ClearEnds, ReleaseAsks,
              ShowAndSleep, vars, Stored
<1>9. QED
  BY <1>1, <1>2, <1>3, <1>4, <1>5, <1>6, <1>7, <1>8 DEF LoopNext

\* A save that succeeded stored its headset, or found a full image that is
\* still full.
LEMMA SaveSucceeded ==
  ASSUME IInv, answer.op = "save", answer.ok
  PROVE  \/ answer.for \in Stored(sector)
         \/ Cardinality(Stored(sector)) >= MaxCount
<1>1. /\ before \subseteq Stored(sector)
      /\ answer.for \in Stored(sector) \/ Cardinality(before) >= MaxCount
  BY DEF IInv, SaveKeepsOthers
<1>2. IsFiniteSet(Stored(sector))
  BY StoredHeadsets, HeadsetsAssumption, FS_Subset DEF IInv
<1>3. /\ IsFiniteSet(before)
      /\ Cardinality(before) <= Cardinality(Stored(sector))
  BY <1>1, <1>2, FS_Subset
<1>4. Cardinality(before) \in Nat /\ Cardinality(Stored(sector)) \in Nat
  BY <1>2, <1>3, FS_CardinalityType
<1>5. QED
  BY <1>1, <1>3, <1>4, BoundsAssumption

LEMMA TakenStep ==
  ASSUME ButtonInv, IInv, LoopInv, [LoopNext]_loopVars
  PROVE  TakenAccounted'
<1> USE DEF TakenAccounted, LoopInv, button, errors
<1>1. CASE UNCHANGED loopVars
  BY <1>1 DEF loopVars, vars, Stored
<1>2. CASE LoopBoot
  BY <1>2 DEF LoopBoot, Boot, Stored
<1>3. CASE StorePairing
  BY <1>3 DEF StorePairing
<1>4. CASE StoreWrites
  BY <1>4 DEF StoreWrites
<1>5. CASE SaveEnds
  <2>1. answer.op = "save" /\ answer.for = taken /\ UNCHANGED <<sector, taken>>
    BY <1>5 DEF SaveEnds, WriteAt, vars
  <2>2. CASE answer.ok
    <3>1. \/ taken \in Stored(sector)
          \/ Cardinality(Stored(sector)) >= MaxCount
      BY <2>1, <2>2, SaveSucceeded
    <3>2. QED
      BY <1>5, <2>1, <3>1 DEF SaveEnds, Stored
  <2>3. CASE ~answer.ok
    BY <1>5, <2>3 DEF SaveEnds, SaveFailed
  <2>4. QED
    BY <2>2, <2>3
<1>6. CASE HoldClears \/ ReleaseAsks \/ LoopPowerCut
  BY <1>6 DEF HoldClears, ReleaseAsks, LoopPowerCut
<1>7. CASE ShowAndSleep
  <2>1. pairingError => led' = "error" \/ ~transport
    BY <1>7 DEF ShowAndSleep, LedShows
  <2>2. QED
    BY <1>7, <2>1 DEF ShowAndSleep, vars, Stored
<1>8. CASE SampleAndPoll \/ NothingToStore \/ NoRequest \/ ClearEnds
  BY <1>8 DEF SampleAndPoll, NothingToStore, NoRequest, ClearEnds, vars, Stored
<1>9. QED
  BY <1>1, <1>2, <1>3, <1>4, <1>5, <1>6, <1>7, <1>8 DEF LoopNext

THEOREM LoopInvariance == LoopSpec => []LoopInv
<1>1. ButtonInv /\ IInv /\ LoopInv /\ [LoopNext]_loopVars => LoopInv'
  BY WriteAtStep, ClearedStep, TakenStep DEF LoopInv
<1>2. QED
  BY LoopInvInit, ButtonInvariance, StoreInvariance, <1>1, PTL DEF LoopSpec

\* bluetooth_clear_pairing and pairing_store_flash_clear on a held button: a
\* cleared store stays empty, over restarts too, until the button asks for a
\* pairing.
THEOREM ClearLasts == LoopSpec => []ClearSticks
<1>1. LoopInv => ClearSticks
  BY DEF LoopInv, ClearedRests, ClearSticks
<1>2. QED
  BY LoopInvariance, <1>1, PTL

\* main's pairing_error and the LED: a pairing that completed and is not
\* stored is shown until the button is used again, unless the image was full.
THEOREM UnstoredShows == LoopSpec => []UnstoredIsShown
<1>1. LoopInv => UnstoredIsShown
  BY DEF LoopInv, TakenAccounted, UnstoredIsShown
<1>2. QED
  BY LoopInvariance, <1>1, PTL
=============================================================================
