----------------------------- MODULE PairingFlash -----------------------------
(***************************************************************************)
(* The pairing store of the firmware (src/src/pairings.c with flash): one  *)
(* sector that holds one checksummed image, erased and programmed again by *)
(* every save and clear, with the power going at any moment; and the list  *)
(* of remembered headsets the runtime restores from it at boot.            *)
(*                                                                         *)
(* An image is abstracted to the set of headsets in it: a save replaces    *)
(* the entry of its headset, and the main loop derives the name from the   *)
(* id.  The first page of an image holds its header, the last one stands   *)
(* for its entries.  A page knows the image it belongs to, so the checksum *)
(* matches exactly a sector whose pages all belong to the image of its     *)
(* header: collisions of the checksum are left out.                        *)
(***************************************************************************)
EXTENDS Naturals, FiniteSets

CONSTANTS
  Headsets,      \* the headsets that may be paired
  ButtonPeer,    \* PICO_INTERCOM_PAIR_BUTTON_PEER_ID, whom a clear is for
  NoHeadset,     \* what the entries of an erased or damaged page read as
  MaxCount,      \* PAIRING_MAX_COUNT
  Pages          \* flash pages of one image

ASSUME HeadsetsAssumption == IsFiniteSet(Headsets) /\ NoHeadset \notin Headsets
ASSUME BoundsAssumption == MaxCount \in Nat \ {0} /\ Pages \in Nat \ {0}

VARIABLES
  sector,      \* the pairing sector, page by page
  job,         \* the write in progress and its next step
  on,          \* the power is on and boot has loaded the store
  remembered,  \* transport.remembered_peers
  answer,      \* history: what the last save or clear answered
  before,      \* history: what was stored when the last write began
  wanted       \* history: what the last write meant to store

vars == <<sector, job, on, remembered, answer, before, wanted>>

(***************************************************************************)
(* Images and the sector.                                                  *)
(***************************************************************************)
Kinds == {"pairings", "zero", "erased", "damaged"}
Content == [kind : Kinds, pairings : SUBSET (Headsets \cup {NoHeadset})]

\* A save writes a proper image, a clear an image of zeros.
PairingImage(S) == [kind |-> "pairings", pairings |-> S]
ZeroImage == [kind |-> "zero", pairings |-> {}]
ErasedPage == [kind |-> "erased", pairings |-> {NoHeadset}]
DamagedPage == [kind |-> "damaged", pairings |-> {NoHeadset}]

\* Mutant: the checksum covers the header only.
ChecksumOfHeader(pages) == pages[1] = pages[1]

\* The checksum is over all of the image.
ChecksumMatches(pages) == \A i \in 1 .. Pages : pages[i] = pages[1]

\* Mutant: the checksum is not compared.
ImageValidUnchecked(pages) ==
  pages[1].kind = "pairings" /\ Cardinality(pages[1].pairings) <= MaxCount

\* pairing_store_flash_image_is_valid: magic, version, count, checksum.
ImageValid(pages) ==
  /\ pages[1].kind = "pairings"
  /\ Cardinality(pages[1].pairings) <= MaxCount
  /\ ChecksumMatches(pages)

\* pairing_store_flash_load: an invalid image loads as no pairings.
Stored(pages) == IF ImageValid(pages) THEN pages[Pages].pairings ELSE {}

Idle == [op |-> "none", for |-> NoHeadset, image |-> ZeroImage, step |-> 0]
NoAnswer == [op |-> "none", for |-> NoHeadset, ok |-> FALSE]

Init ==
  /\ sector = [i \in 1 .. Pages |-> ErasedPage]
  /\ job = Idle /\ on = FALSE /\ remembered = {} /\ answer = NoAnswer
  /\ before = {} /\ wanted = {}

\* main: bluetooth_init, pairing_store_load, bluetooth_restore_pairing of each.
Boot ==
  /\ ~on
  /\ on' = TRUE
  /\ remembered' = Stored(sector)
  /\ UNCHANGED <<sector, job, answer, before, wanted>>

(***************************************************************************)
(* The main loop stores a completed pairing and clears on a held button.   *)
(***************************************************************************)
Begin(op, h, image) ==
  /\ on /\ job = Idle
  /\ job' = [op |-> op, for |-> h, image |-> image, step |-> 0]
  /\ before' = Stored(sector)
  /\ wanted' = image.pairings
  /\ answer' = NoAnswer
  /\ UNCHANGED <<sector, on>>

\* Mutant: a new headset takes the place of the ones stored.
WithPairingOnly(S, h) == IF h \in S THEN S ELSE {h}

\* pairing_store_flash_save builds on the image it reads back; a headset that
\* is new to a full image is left out, and the image is written all the same.
WithPairing(S, h) ==
  IF h \in S \/ Cardinality(S) < MaxCount THEN S \cup {h} ELSE S

Save(h) ==
  /\ Begin("save", h, PairingImage(WithPairing(Stored(sector), h)))
  /\ UNCHANGED remembered

\* bluetooth_clear_pairing of the button's peer, pairing_store_flash_clear.
Clear ==
  /\ Begin("clear", ButtonPeer, ZeroImage)
  /\ remembered' = remembered \ {ButtonPeer}

(***************************************************************************)
(* pairing_store_flash_write_image: erase, program, read back and compare. *)
(* flash_safe_execute may refuse to run the write at all, and a page may   *)
(* fail to take what is programmed.                                        *)
(***************************************************************************)
Writing(step) == on /\ job # Idle /\ job.step = step

Finish(ok) ==
  /\ job' = Idle
  /\ answer' = [op |-> job.op, for |-> job.for, ok |-> ok]
  /\ UNCHANGED <<sector, on, remembered, before, wanted>>

Refused == Writing(0) /\ Finish(FALSE)

Erase ==
  /\ Writing(0)
  /\ sector' = [i \in 1 .. Pages |-> ErasedPage]
  /\ job' = [job EXCEPT !.step = 1]
  /\ UNCHANGED <<on, remembered, answer, before, wanted>>

Program(i) ==
  /\ Writing(i)
  /\ \E page \in {job.image, DamagedPage} : sector' = [sector EXCEPT ![i] = page]
  /\ job' = [job EXCEPT !.step = @ + 1]
  /\ UNCHANGED <<on, remembered, answer, before, wanted>>

ReadsBack == ImageValid(sector) /\ \A i \in 1 .. Pages : sector[i] = job.image

Verify == Writing(Pages + 1) /\ Finish(ReadsBack)

\* The power goes; pages that were being erased or programmed are damaged.
PowerCut ==
  /\ on
  /\ on' = FALSE /\ job' = Idle /\ remembered' = {} /\ answer' = NoAnswer
  /\ \/ sector' = sector
     \/ /\ Writing(0)
        /\ \E hit \in SUBSET (1 .. Pages) :
             sector' = [i \in 1 .. Pages |->
                          IF i \in hit THEN DamagedPage ELSE sector[i]]
     \/ \E i \in 1 .. Pages :
          Writing(i) /\ sector' = [sector EXCEPT ![i] = DamagedPage]
  /\ UNCHANGED <<before, wanted>>

Next ==
  \/ \E h \in Headsets : Save(h)
  \/ \E i \in 1 .. Pages : Program(i)
  \/ Boot \/ Clear \/ Refused \/ Erase \/ Verify \/ PowerCut

Spec == Init /\ [][Next]_vars

-----------------------------------------------------------------------------
TypeOK ==
  /\ sector \in [1 .. Pages -> Content]
  /\ job \in [op : {"none", "save", "clear"}, for : Headsets \cup {NoHeadset, ButtonPeer},
              image : Content, step : 0 .. Pages + 1]
  /\ on \in BOOLEAN
  /\ remembered \subseteq Headsets
  /\ answer \in [op : {"none", "save", "clear"},
                 for : Headsets \cup {NoHeadset, ButtonPeer}, ok : BOOLEAN]
  /\ before \subseteq Headsets /\ wanted \subseteq Headsets

\* Wherever the power goes and whatever page fails, the next boot finds what
\* was stored before the last write, what that write meant to store, or
\* nothing: never a part of it and never an entry that nobody saved.
AllOrNothing == Stored(sector) \in {{}, before, wanted}

\* A save that reports success has lost none of the headsets stored before,
\* and has stored its own, unless the image was full without it: the one case
\* in which the caller is told of a success that stored nothing new.
SaveKeepsOthers ==
  answer.op = "save" /\ answer.ok =>
    /\ before \subseteq Stored(sector)
    /\ answer.for \in Stored(sector) \/ Cardinality(before) >= MaxCount

=============================================================================
