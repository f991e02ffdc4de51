------------------------- MODULE PairingFlash_proofs -------------------------
(***************************************************************************)
(* The pairing store for any number of headsets, entries and flash pages:  *)
(* wherever the power goes, a boot finds the old image, the new one or     *)
(* nothing, and a save that reports success has lost nothing.              *)
(***************************************************************************)
EXTENDS PairingFlash, FiniteSetTheorems, TLAPS

(***************************************************************************)
(* The inductive invariant.                                                *)
(***************************************************************************)

\* The images there are name headsets only, and only they are of the kind a
\* boot accepts.
ProperPages ==
  \A i \in 1 .. Pages :
    sector[i].kind = "pairings" => sector[i].pairings \subseteq Headsets

ProperJob ==
  job # Idle =>
    /\ on /\ answer = NoAnswer
    /\ job.op \in {"save", "clear"}
    /\ job.image.pairings = wanted
    /\ job.op = "save" => job.image = PairingImage(WithPairing(before, job.for))

\* Before the erase the sector is as it was when the write began; from then on
\* the pages behind the one being written are blank, those before it hold the
\* image or are damaged.
Progress ==
  job # Idle =>
    /\ job.step = 0 => Stored(sector) = before
    /\ job.step > 0 =>
         \A i \in 1 .. Pages :
           sector[i] \in IF i < job.step THEN {job.image, DamagedPage}
                         ELSE {ErasedPage}

AnswerOnlyOn == ~on => answer = NoAnswer

IInv ==
  /\ TypeOK /\ ProperPages /\ ProperJob /\ Progress /\ AnswerOnlyOn
  /\ AllOrNothing /\ SaveKeepsOthers

-----------------------------------------------------------------------------
(***************************************************************************)
(* Images.                                                                 *)
(***************************************************************************)

\* The kinds of images and pages are told apart by their headers.
LEMMA ImageTypes ==
  /\ ZeroImage \in Content /\ ErasedPage \in Content /\ DamagedPage \in Content
  /\ \A S \in SUBSET Headsets : PairingImage(S) \in Content
BY DEF ZeroImage, ErasedPage, DamagedPage, PairingImage, Content, Kinds

\* What a sector with an acceptable image stores is the image of its header;
\* otherwise nothing.
LEMMA StoredIsHeader ==
  ASSUME NEW pages
  PROVE  /\ ImageValid(pages) => /\ Stored(pages) = pages[1].pairings
                                 /\ \A i \in 1 .. Pages : pages[i] = pages[1]
                                 /\ pages[1].kind = "pairings"
         /\ ~ImageValid(pages) => Stored(pages) = {}
BY BoundsAssumption DEF ImageValid, ChecksumMatches, Stored

\* A damaged or blank page makes the whole image unacceptable.
LEMMA UnreadablePage ==
  ASSUME NEW pages, NEW i \in 1 .. Pages, pages[i] \in {DamagedPage, ErasedPage}
  PROVE  Stored(pages) = {}
BY BoundsAssumption
   DEF ImageValid, ChecksumMatches, Stored, DamagedPage, ErasedPage

\* What is stored names headsets only.
LEMMA StoredHeadsets ==
  ASSUME ProperPages
  PROVE  Stored(sector) \subseteq Headsets
BY BoundsAssumption, StoredIsHeader DEF ProperPages

\* A save keeps what was stored and adds its headset if there is room.
LEMMA WithPairingKeeps ==
  ASSUME NEW S \in SUBSET Headsets, NEW h
  PROVE  /\ h \in Headsets => WithPairing(S, h) \subseteq Headsets
         /\ S \subseteq WithPairing(S, h)
         /\ h \in WithPairing(S, h) \/ Cardinality(S) >= MaxCount
<1>1. CASE h \in S \/ Cardinality(S) < MaxCount
  BY <1>1 DEF WithPairing
<1>2. CASE ~(h \in S \/ Cardinality(S) < MaxCount)
  <2>1. WithPairing(S, h) = S
    BY <1>2 DEF WithPairing
  <2>2. Cardinality(S) \in Nat
    BY HeadsetsAssumption, FS_Subset, FS_CardinalityType
  <2>3. QED
    BY <1>2, <2>1, <2>2, BoundsAssumption
<1>3. QED
  BY <1>1, <1>2

-----------------------------------------------------------------------------
(***************************************************************************)
(* The initial state and the actions.                                      *)
(***************************************************************************)

\* After manufacture the sector is blank: nothing is stored.
LEMMA InitInvariant == Init => IInv
<1> SUFFICES ASSUME Init PROVE IInv
  OBVIOUS
<1>1. Stored(sector) = {}
  <2>1. 1 \in 1 .. Pages /\ sector[1] = ErasedPage
    BY BoundsAssumption DEF Init
  <2>2. QED
    BY <2>1, UnreadablePage
<1>2. TypeOK
  <2>1. sector \in [1 .. Pages -> Content]
    BY ImageTypes DEF Init
  <2>2. job.image \in Content
    BY ImageTypes DEF Init, Idle
  <2>3. job = [op |-> "none", for |-> NoHeadset, image |-> job.image, step |-> 0]
    BY DEF Init, Idle
  <2>4. 0 \in 0 .. Pages + 1
    BY BoundsAssumption
  <2>5. job \in [op : {"none", "save", "clear"},
                 for : Headsets \cup {NoHeadset, ButtonPeer},
                 image : Content, step : 0 .. Pages + 1]
    BY <2>2, <2>3, <2>4
  <2>6. QED
    BY <2>1, <2>5 DEF Init, TypeOK, NoAnswer
<1>3. ProperPages
  BY DEF Init, ProperPages, ErasedPage
<1>4. ProperJob /\ Progress /\ AnswerOnlyOn /\ AllOrNothing /\ SaveKeepsOthers
  BY <1>1 DEF Init, ProperJob, Progress, AnswerOnlyOn, AllOrNothing,
              SaveKeepsOthers, NoAnswer
<1>5. QED
  BY <1>2, <1>3, <1>4 DEF IInv

\* Boot reads the sector and writes nothing.
LEMMA BootInvariant == IInv /\ Boot => IInv'
<1> SUFFICES ASSUME IInv, Boot PROVE IInv'
  OBVIOUS
<1> USE DEF Boot
<1>1. TypeOK'
  BY StoredHeadsets DEF IInv, TypeOK
<1>2. ProperPages' /\ AllOrNothing' /\ SaveKeepsOthers'
  BY DEF IInv, ProperPages, AllOrNothing, SaveKeepsOthers, Stored
<1>3. ProperJob' /\ Progress' /\ AnswerOnlyOn'
  BY DEF IInv, ProperJob, Progress, AnswerOnlyOn
<1>4. QED
  BY <1>1, <1>2, <1>3 DEF IInv

\* A write begins: the sector is still what it was.
LEMMA BeginInvariant ==
  ASSUME IInv, NEW op \in {"save", "clear"},
         NEW h \in Headsets \cup {ButtonPeer}, NEW image \in Content,
         Begin(op, h, image), remembered' \subseteq Headsets,
         image.pairings \subseteq Headsets,
         op = "save" => image = PairingImage(WithPairing(Stored(sector), h))
  PROVE  IInv'
<1> USE DEF Begin
<1>1. before' = Stored(sector) /\ before' \subseteq Headsets
  BY StoredHeadsets DEF IInv
<1>2. TypeOK'
  BY <1>1, BoundsAssumption DEF IInv, TypeOK, NoAnswer
<1>3. ProperPages' /\ AllOrNothing' /\ SaveKeepsOthers'
  BY <1>1 DEF IInv, ProperPages, AllOrNothing, SaveKeepsOthers, Stored, NoAnswer
<1>4. ProperJob'
  BY <1>1 DEF IInv, ProperJob
<1>5. Progress' /\ AnswerOnlyOn'
  BY <1>1 DEF IInv, Progress, AnswerOnlyOn, Stored
<1>6. QED
  BY <1>2, <1>3, <1>4, <1>5 DEF IInv

LEMMA SaveInvariant ==
  ASSUME IInv, NEW h \in Headsets, Save(h)
  PROVE  IInv'
<1>1. WithPairing(Stored(sector), h) \subseteq Headsets
  BY WithPairingKeeps, StoredHeadsets DEF IInv
<1>2. PairingImage(WithPairing(Stored(sector), h)) \in Content
  BY <1>1, ImageTypes
<1>3. PairingImage(WithPairing(Stored(sector), h)).pairings \subseteq Headsets
  BY <1>1 DEF PairingImage
<1>4. remembered' \subseteq Headsets
  BY DEF Save, IInv, TypeOK
<1>5. QED
  BY <1>2, <1>3, <1>4, BeginInvariant DEF Save

LEMMA ClearInvariant == IInv /\ Clear => IInv'
<1> SUFFICES ASSUME IInv, Clear PROVE IInv'
  OBVIOUS
<1>1. remembered' \subseteq Headsets
  BY DEF Clear, IInv, TypeOK
<1>2. ZeroImage.pairings \subseteq Headsets
  BY DEF ZeroImage
<1>3. QED
  BY <1>1, <1>2, ImageTypes, BeginInvariant DEF Clear

\* A write that ends, done or not: only its answer is new.
LEMMA FinishInvariant ==
  ASSUME IInv, NEW ok \in BOOLEAN, job # Idle, Finish(ok),
         ok /\ job.op = "save" => Stored(sector) = wanted
  PROVE  IInv'
<1> USE DEF Finish
<1>1. TypeOK'
  <2>1. Idle \in [op : {"none", "save", "clear"},
                  for : Headsets \cup {NoHeadset, ButtonPeer},
                  image : Content, step : 0 .. Pages + 1]
    <3>1. 0 \in 0 .. Pages + 1
      BY BoundsAssumption
    <3>2. QED
      BY <3>1, ImageTypes DEF Idle
  <2>2. job.op \in {"none", "save", "clear"}
        /\ job.for \in Headsets \cup {NoHeadset, ButtonPeer}
    BY DEF IInv, TypeOK
  <2>3. QED
    BY <2>1, <2>2 DEF IInv, TypeOK
<1>2. ProperPages' /\ AllOrNothing'
  BY DEF IInv, ProperPages, AllOrNothing, Stored
<1>3. ProperJob' /\ Progress' /\ AnswerOnlyOn'
  BY DEF IInv, ProperJob, Progress, AnswerOnlyOn
<1>4. SaveKeepsOthers'
  <2> SUFFICES ASSUME job.op = "save", ok
               PROVE  SaveKeepsOthers'
    BY DEF SaveKeepsOthers
  <2>1. wanted = WithPairing(before, job.for)
    BY DEF IInv, ProperJob, PairingImage
  <2>2. before \subseteq wanted
        /\ (job.for \in wanted \/ Cardinality(before) >= MaxCount)
    BY <2>1, WithPairingKeeps DEF IInv, TypeOK
  <2>3. QED
    BY <2>2 DEF SaveKeepsOthers, Stored
<1>5. QED
  BY <1>1, <1>2, <1>3, <1>4 DEF IInv

LEMMA RefusedInvariant == IInv /\ Refused => IInv'
<1> SUFFICES ASSUME IInv, Refused PROVE IInv'
  OBVIOUS
<1>1. job # Idle /\ Finish(FALSE)
  BY DEF Refused, Writing
<1>2. QED
  BY <1>1, FinishInvariant

\* A success is reported only when the sector reads back as the image.
LEMMA VerifyInvariant == IInv /\ Verify => IInv'
<1> SUFFICES ASSUME IInv, Verify PROVE IInv'
  OBVIOUS
<1>1. job # Idle /\ Finish(ReadsBack)
  BY DEF Verify, Writing
<1>2. ReadsBack => Stored(sector) = wanted
  BY <1>1, BoundsAssumption, StoredIsHeader DEF IInv, ProperJob, ReadsBack
<1>3. ReadsBack \in BOOLEAN
  BY DEF ReadsBack
<1>4. QED
  BY <1>1, <1>2, <1>3, FinishInvariant

\* From the erase on nothing is stored until the last page is there.
LEMMA EraseInvariant == IInv /\ Erase => IInv'
<1> SUFFICES ASSUME IInv, Erase PROVE IInv'
  OBVIOUS
<1> USE DEF Erase, Writing
<1>1. job' = [job EXCEPT !.step = 1] /\ job' # Idle
  BY DEF IInv, TypeOK, Idle
<1>2. Stored(sector') = {}
  <2>1. 1 \in 1 .. Pages /\ sector'[1] = ErasedPage
    BY BoundsAssumption
  <2>2. QED
    BY <2>1, UnreadablePage
<1>3. TypeOK'
  <2>1. sector' \in [1 .. Pages -> Content]
    BY ImageTypes
  <2>2. 1 \in 0 .. Pages + 1
    BY BoundsAssumption
  <2>3. QED
    BY <2>1, <2>2 DEF IInv, TypeOK
<1>4. ProperPages'
  BY DEF ProperPages, ErasedPage
<1>5. ProperJob' /\ AnswerOnlyOn'
  BY <1>1 DEF IInv, TypeOK, ProperJob, AnswerOnlyOn
<1>6. Progress'
  BY <1>1, BoundsAssumption DEF IInv, TypeOK, Progress
<1>7. AllOrNothing'
  BY <1>2 DEF AllOrNothing, Stored
<1>8. SaveKeepsOthers'
  BY DEF IInv, ProperJob, SaveKeepsOthers, NoAnswer
<1>9. QED
  BY <1>3, <1>4, <1>5, <1>6, <1>7, <1>8 DEF IInv

\* A sector written up to page i stores the image, or nothing.
LEMMA WrittenStores ==
  ASSUME NEW pages, NEW image \in Content,
         \A i \in 1 .. Pages : pages[i] \in {image, DamagedPage, ErasedPage}
  PROVE  Stored(pages) \in {{}, image.pairings}
<1>1. CASE \E i \in 1 .. Pages : pages[i] \in {DamagedPage, ErasedPage}
  BY <1>1, UnreadablePage
<1>2. CASE \A i \in 1 .. Pages : pages[i] = image
  BY <1>2, StoredIsHeader, BoundsAssumption
<1>3. QED
  BY <1>1, <1>2

LEMMA ProgramInvariant ==
  ASSUME IInv, NEW i \in 1 .. Pages, Program(i)
  PROVE  IInv'
<1> USE DEF Program, Writing
<1>1. PICK page \in {job.image, DamagedPage} : sector' = [sector EXCEPT ![i] = page]
  OBVIOUS
<1>2. job' = [job EXCEPT !.step = i + 1] /\ job.step = i /\ i \in Nat /\ i > 0
  OBVIOUS
<1>3. job' # Idle
  BY <1>2 DEF IInv, TypeOK, Idle
<1>4. page \in Content /\ job.image \in Content
  BY <1>1, ImageTypes DEF IInv, TypeOK
<1>5. TypeOK'
  <2>1. sector' \in [1 .. Pages -> Content]
    BY <1>1, <1>4 DEF IInv, TypeOK
  <2>2. i + 1 \in 0 .. Pages + 1
    BY BoundsAssumption
  <2>3. QED
    BY <1>2, <2>1, <2>2 DEF IInv, TypeOK
<1>6. ProperJob' /\ AnswerOnlyOn'
  BY <1>2, <1>3 DEF IInv, TypeOK, ProperJob, AnswerOnlyOn
<1>7. \A k \in 1 .. Pages :
        sector'[k] \in IF k < i + 1 THEN {job.image, DamagedPage}
                       ELSE {ErasedPage}
  <2>1. \A k \in 1 .. Pages :
          sector[k] \in IF k < i THEN {job.image, DamagedPage} ELSE {ErasedPage}
    BY <1>2 DEF IInv, Progress
  <2>2. \A k \in 1 .. Pages : sector'[k] = IF k = i THEN page ELSE sector[k]
    BY <1>1 DEF IInv, TypeOK
  <2>3. QED
    BY <1>1, <2>1, <2>2
<1>8. Progress'
  BY <1>2, <1>7 DEF IInv, TypeOK, Progress
<1>9. ProperPages'
  BY <1>7 DEF IInv, ProperPages, ProperJob, ErasedPage, DamagedPage, TypeOK
<1>10. AllOrNothing'
  <2>1. Stored(sector') \in {{}, job.image.pairings}
    BY <1>4, <1>7, WrittenStores
  <2>2. QED
    BY <2>1 DEF IInv, ProperJob, AllOrNothing, Stored
<1>11. SaveKeepsOthers'
  BY DEF IInv, ProperJob, SaveKeepsOthers, NoAnswer
<1>12. QED
  BY <1>5, <1>6, <1>8, <1>9, <1>10, <1>11 DEF IInv

\* The power goes between two writes, in the erase or in the middle of a page.
LEMMA PowerCutInvariant == IInv /\ PowerCut => IInv'
<1> SUFFICES ASSUME IInv, PowerCut PROVE IInv'
  OBVIOUS
<1> USE DEF PowerCut
<1>1. \A i \in 1 .. Pages : sector'[i] \in {sector[i], DamagedPage}
  BY DEF IInv, TypeOK
<1>2. sector' \in [1 .. Pages -> Content]
  BY ImageTypes DEF IInv, TypeOK
<1>3. TypeOK'
  <2>1. Idle \in [op : {"none", "save", "clear"},
                  for : Headsets \cup {NoHeadset, ButtonPeer},
                  image : Content, step : 0 .. Pages + 1]
    <3>1. 0 \in 0 .. Pages + 1
      BY BoundsAssumption
    <3>2. QED
      BY <3>1, ImageTypes DEF Idle
  <2>2. QED
    BY <1>2, <2>1 DEF IInv, TypeOK, NoAnswer
<1>4. ProperPages'
  BY <1>1 DEF IInv, ProperPages, DamagedPage
<1>5. ProperJob' /\ Progress' /\ AnswerOnlyOn' /\ SaveKeepsOthers'
  BY DEF ProperJob, Progress, AnswerOnlyOn, SaveKeepsOthers, NoAnswer
<1>6. Stored(sector') \in {{}, Stored(sector)}
  <2>1. CASE \E i \in 1 .. Pages : sector'[i] = DamagedPage
    BY <2>1, UnreadablePage
  <2>2. CASE \A i \in 1 .. Pages : sector'[i] # DamagedPage
    <3>1. sector' = sector
      BY <1>1, <1>2, <2>2 DEF IInv, TypeOK
    <3>2. QED
      BY <3>1
  <2>3. QED
    BY <2>1, <2>2
<1>7. AllOrNothing'
  BY <1>6 DEF IInv, AllOrNothing, Stored
<1>8. QED
  BY <1>3, <1>4, <1>5, <1>7 DEF IInv

-----------------------------------------------------------------------------
\* The invariant holds after every step of the main loop, of the flash and of
\* the power.
THEOREM Invariance == Spec => []IInv
<1>1. IInv /\ [Next]_vars => IInv'
  <2> SUFFICES ASSUME IInv, [Next]_vars PROVE IInv'
    OBVIOUS
  <2>1. CASE UNCHANGED vars
    BY <2>1 DEF vars, IInv, TypeOK, ProperPages, ProperJob, Progress,
                AnswerOnlyOn, AllOrNothing, SaveKeepsOthers, Stored
  <2>2. ASSUME NEW h \in Headsets, Save(h) PROVE IInv'
    BY <2>2, SaveInvariant
  <2>3. ASSUME NEW i \in 1 .. Pages, Program(i) PROVE IInv'
    BY <2>3, ProgramInvariant
  <2>4. CASE Boot
    BY <2>4, BootInvariant
  <2>5. CASE Clear
    BY <2>5, ClearInvariant
  <2>6. CASE Refused
    BY <2>6, RefusedInvariant
  <2>7. CASE Erase
    BY <2>7, EraseInvariant
  <2>8. CASE Verify
    BY <2>8, VerifyInvariant
  <2>9. CASE PowerCut
    BY <2>9, PowerCutInvariant
  <2>10. QED
    BY <2>1, <2>2, <2>3, <2>4, <2>5, <2>6, <2>7, <2>8, <2>9 DEF Next
<1>2. QED
  BY InitInvariant, <1>1, PTL DEF Spec

\* Every variable keeps its type, whatever a page reads as.
THEOREM TypeCorrect == Spec => []TypeOK
<1>1. IInv => TypeOK
  BY DEF IInv
<1>2. QED
  BY Invariance, <1>1, PTL

\* pairing_store_flash_write_image and the boot after it: wherever the power
\* goes and whatever page fails, the next boot finds what was stored before the
\* last write, what that write meant to store, or nothing.
THEOREM WritesAllOrNothing == Spec => []AllOrNothing
<1>1. IInv => AllOrNothing
  BY DEF IInv
<1>2. QED
  BY Invariance, <1>1, PTL

\* pairing_store_flash_save: a save that reports success has lost none of the
\* headsets stored before, and its own only to a full image.
THEOREM SavesKeepOthers == Spec => []SaveKeepsOthers
<1>1. IInv => SaveKeepsOthers
  BY DEF IInv
<1>2. QED
  BY Invariance, <1>1, PTL
=============================================================================
