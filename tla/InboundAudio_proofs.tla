------------------------- MODULE InboundAudio_proofs -------------------------
(***************************************************************************)
(* The sequence numbers of one link for any width of the counter, any      *)
(* window of messages under way shorter than half of the numbers, and any  *)
(* number of messages and of runs: the comparisons that wrap tell a newer  *)
(* number from an older one, so that audio is handled in the order it was  *)
(* sent, gaps are counted, and a restart nobody noticed mutes a headset    *)
(* for less than half of the numbers.                                      *)
(***************************************************************************)
EXTENDS InboundAudio, Integers, TLAPS

(***************************************************************************)
(* Numbers on the wire.                                                    *)
(***************************************************************************)

LEMMA ModulusType == Modulus \in Nat \ {0} /\ Modulus = Half + Half
BY HalfAssumption DEF Modulus

\* Division with remainder.
LEMMA Remainder ==
  ASSUME NEW n \in Nat, NEW m \in Nat \ {0}
  PROVE  /\ n \div m \in Nat /\ n % m \in 0 .. m - 1
         /\ n = (m * (n \div m)) + (n % m)
OBVIOUS

\* Two numbers less than m apart have the same quotient or adjacent ones.
LEMMA Quotients ==
  ASSUME NEW m \in Nat \ {0}, NEW p \in Nat, NEW q \in Nat,
         NEW r \in 0 .. m - 1, NEW s \in 0 .. m - 1,
         (m * p) + r >= (m * q) + s, ((m * p) + r) - ((m * q) + s) < m
  PROVE  \/ p = q /\ r - s = ((m * p) + r) - ((m * q) + s)
         \/ p = q + 1 /\ r - s = ((m * p) + r) - ((m * q) + s) - m
<1>1. (m * p) - (m * q) = m * (p - q) /\ p - q \in Int
  OBVIOUS
<1>2. p - q >= 2 => m * (p - q) >= 2 * m
  OBVIOUS
<1>3. p - q <= -1 => m * (p - q) <= -m
  OBVIOUS
<1>4. m * p \in Nat /\ m * q \in Nat
  OBVIOUS
<1>5. p = q \/ p = q + 1
  BY <1>1, <1>2, <1>3, <1>4
<1>6. CASE p = q
  BY <1>4, <1>6
<1>7. CASE p = q + 1
  <2>1. m * p = (m * q) + m
    BY <1>7
  <2>2. QED
    BY <1>4, <1>7, <2>1
<1>8. QED
  BY <1>5, <1>6, <1>7

LEMMA WireType ==
  ASSUME NEW n \in Nat
  PROVE  /\ Wire(n) \in Sequences
         /\ Wire(n) \in Nat /\ Wire(n) < Modulus
BY ModulusType, Remainder DEF Wire, Sequences

LEMMA DeltaType ==
  ASSUME NEW a \in Sequences, NEW b \in Sequences
  PROVE  Delta(a, b) \in Nat /\ Delta(a, b) < Modulus
BY ModulusType DEF Delta, Sequences

\* The distance of two numbers on the wire, in either direction.
LEMMA WireDelta ==
  ASSUME NEW a \in Nat, NEW b \in Nat, a >= b, a - b < Modulus
  PROVE  /\ Delta(Wire(a), Wire(b)) = a - b
         /\ Delta(Wire(b), Wire(a)) = IF a = b THEN 0 ELSE Modulus - (a - b)
<1>1. /\ Wire(a) \in Nat /\ Wire(a) < Modulus
      /\ Wire(b) \in Nat /\ Wire(b) < Modulus
  BY WireType
<1>2. \/ Wire(a) - Wire(b) = a - b
      \/ Wire(a) - Wire(b) = a - b - Modulus
  <2>1. /\ a = (Modulus * (a \div Modulus)) + Wire(a)
        /\ a \div Modulus \in Nat /\ Wire(a) \in 0 .. Modulus - 1
    BY ModulusType, Remainder DEF Wire
  <2>2. /\ b = (Modulus * (b \div Modulus)) + Wire(b)
        /\ b \div Modulus \in Nat /\ Wire(b) \in 0 .. Modulus - 1
    BY ModulusType, Remainder DEF Wire
  <2> DEFINE p == a \div Modulus
             q == b \div Modulus
  <2>3. /\ (Modulus * p) + Wire(a) >= (Modulus * q) + Wire(b)
        /\ ((Modulus * p) + Wire(a)) - ((Modulus * q) + Wire(b)) = a - b
        /\ ((Modulus * p) + Wire(a)) - ((Modulus * q) + Wire(b)) < Modulus
    BY <2>1, <2>2
  <2>4. p \in Nat /\ q \in Nat /\ Modulus \in Nat \ {0}
    BY <2>1, <2>2, ModulusType
  <2>5. Wire(a) \in 0 .. Modulus - 1 /\ Wire(b) \in 0 .. Modulus - 1
    BY <2>1, <2>2
  <2> HIDE DEF p, q
  <2>6. \/ p = q /\ Wire(a) - Wire(b)
                     = ((Modulus * p) + Wire(a)) - ((Modulus * q) + Wire(b))
        \/ p = q + 1 /\ Wire(a) - Wire(b)
              = ((Modulus * p) + Wire(a)) - ((Modulus * q) + Wire(b)) - Modulus
    BY ONLY <2>3, <2>4, <2>5, Quotients
  <2>7. QED
    BY <2>3, <2>6
<1>3. Modulus \in Nat
  BY ModulusType
<1>4. CASE Wire(a) - Wire(b) = a - b
  BY <1>1, <1>3, <1>4 DEF Delta
<1>5. CASE Wire(a) - Wire(b) = a - b - Modulus
  BY <1>1, <1>3, <1>5 DEF Delta
<1>6. QED
  BY <1>2, <1>4, <1>5

\* A number is newer than those fewer than half of the numbers before it, and
\* they are stale against it.
LEMMA WireNewer ==
  ASSUME NEW a \in Nat, NEW b \in Nat, a > b, a - b < Half
  PROVE  /\ IsNewer(Wire(a), Wire(b))
         /\ ~IsNewer(Wire(b), Wire(a))
         /\ IsStale(Wire(b), Wire(a))
         /\ Wire(a) # Wire(b)
<1>1. a - b < Modulus /\ a # b /\ Half \in Nat /\ Modulus = Half + Half
  BY ModulusType, HalfAssumption
<1>2. /\ Delta(Wire(a), Wire(b)) = a - b
      /\ Delta(Wire(b), Wire(a)) = Modulus - (a - b)
  BY <1>1, WireDelta
<1>3. Wire(a) # Wire(b)
  <2>1. Delta(Wire(a), Wire(a)) = 0
    BY WireType DEF Delta
  <2>2. QED
    BY <1>2, <2>1
<1>4. QED
  BY <1>1, <1>2, <1>3 DEF IsNewer, IsStale

\* The number expected next.
LEMMA WireAfter == ASSUME NEW n \in Nat PROVE After(Wire(n), 1) = Wire(n + 1)
<1>1. /\ Wire(n) \in Nat /\ Wire(n) < Modulus
      /\ Wire(n + 1) \in Nat /\ Wire(n + 1) < Modulus
  BY WireType
<1>2. Half \in Nat /\ Half >= 1 /\ Modulus \in Nat /\ Modulus = Half + Half
  BY HalfAssumption, ModulusType
<1>3. Delta(Wire(n + 1), Wire(n)) = 1
  <2>1. n + 1 \in Nat /\ n + 1 >= n /\ (n + 1) - n = 1 /\ (n + 1) - n < Modulus
    BY <1>2
  <2>2. QED
    BY <2>1, WireDelta
<1>4. QED
  BY <1>1, <1>2, <1>3 DEF Delta, After

\* While a link that was muted by a restart hears of messages t + 1 .. n, it
\* comes closer to the number it waits for, or finds n newer.
LEMMA Closer ==
  ASSUME NEW rx \in Sequences, NEW t \in Nat, NEW n \in Nat,
         n > t, n - t < Half, Delta(rx, Wire(t)) < Half
  PROVE  \/ Delta(rx, Wire(n)) = Delta(rx, Wire(t)) - (n - t)
         \/ Delta(rx, Wire(n)) >= Half /\ IsNewer(Wire(n), rx)
<1>1. /\ rx \in Nat /\ rx < Modulus
      /\ Wire(t) \in Nat /\ Wire(t) < Modulus
      /\ Wire(n) \in Nat /\ Wire(n) < Modulus
  BY WireType, ModulusType DEF Sequences
<1>2. Half \in Nat /\ Half >= 1 /\ Modulus \in Nat /\ Modulus = Half + Half
  BY HalfAssumption, ModulusType
<1>3. Delta(Wire(n), Wire(t)) = n - t
  BY <1>2, WireDelta
<1>4. \/ Wire(n) = Wire(t) + (n - t)
      \/ Wire(n) = Wire(t) + (n - t) - Modulus
  BY <1>1, <1>2, <1>3 DEF Delta
<1>5. CASE Wire(n) = Wire(t) + (n - t)
  BY <1>1, <1>2, <1>5 DEF Delta, IsNewer
<1>6. CASE Wire(n) = Wire(t) + (n - t) - Modulus
  BY <1>1, <1>2, <1>6 DEF Delta, IsNewer
<1>7. QED
  BY <1>4, <1>5, <1>6

-----------------------------------------------------------------------------
(***************************************************************************)
(* The inductive invariant.                                                *)
(***************************************************************************)

\* What is under way is recent; a channel that keeps the order has delivered
\* everything it still will of what came before, and has nothing twice.
NetInv ==
  /\ sent <= top + Window
  /\ \A m \in net : m.no + Window > top
  /\ inOrder => \A m \in net : m.no > top
  /\ inOrder => \A k, m \in net : k.no = m.no => k = m

\* Over a channel that reorders the link knows the highest number it received
\* (over one that does not it may keep one of an earlier run), and in any case
\* the last audio frame it handled in this run.
LinkInv ==
  /\ ~inOrder => link.rx = Wire(top)
  /\ heard.run <= run
  /\ heard.run = run => heard.no <= top /\ link.audio = Wire(heard.no)

\* A muted link drops no more than the numbers up to the one it waits for.
MuteInv ==
  unheard > 0 =>
    /\ Delta(link.rx, Wire(top)) < Half
    /\ unheard <= Half - Delta(link.rx, Wire(top))

IInv == TypeOK /\ NetInv /\ LinkInv /\ MuteInv

\* What the assumptions say about the bounds.
LEMMA Bounds ==
  /\ Half \in Nat /\ Half >= 1 /\ Modulus \in Nat /\ Modulus = Half + Half
  /\ Window \in Nat /\ Window >= 1 /\ Window < Half
  /\ MaxSent \in Nat /\ MaxRuns \in Nat /\ MaxRuns >= 1
BY HalfAssumption, ModulusType, WindowAssumption, MaxAssumption

LEMMA WireZero == Wire(0) = 0 /\ 0 \in Sequences
BY Bounds, Remainder DEF Wire, Sequences

Links == [active : BOOLEAN, sid : 0 .. MaxRuns,
          rx : Sequences, audio : Sequences]

LEMMA FreshLink == Fresh \in Links
BY Bounds, WireZero DEF Fresh, Links

LEMMA InitInvariant == Init => IInv
<1> SUFFICES ASSUME Init PROVE IInv
  OBVIOUS
<1>1. TypeOK
  <2>1. run \in 1 .. MaxRuns /\ sent \in 0 .. MaxSent /\ top \in 0 .. sent
    BY Bounds DEF Init
  <2>2. heard \in [run : 0 .. MaxRuns, no : 0 .. MaxSent]
    BY Bounds DEF Init
  <2>3. QED
    BY <2>1, <2>2, FreshLink DEF Init, TypeOK, Links
<1>2. NetInv
  BY Bounds DEF Init, NetInv
<1>3. LinkInv
  BY WireZero DEF Init, LinkInv, Fresh
<1>4. MuteInv
  BY DEF Init, MuteInv
<1>5. QED
  BY <1>1, <1>2, <1>3, <1>4 DEF IInv

-----------------------------------------------------------------------------
(***************************************************************************)
(* The headset and the channel.                                            *)
(***************************************************************************)

LEMMA SendInvariant ==
  ASSUME IInv, NEW type \in Types, Send(type)
  PROVE  IInv'
<1> USE DEF Send, IInv
<1> DEFINE new == [type |-> type, no |-> sent + 1]
<1>1. /\ sent' = sent + 1 /\ sent \in Nat /\ sent' <= MaxSent
      /\ top \in Nat /\ top <= sent /\ top' = top
  BY Bounds DEF TypeOK
<1>2. \A m \in net' : m = new \/ m \in net
  OBVIOUS
<1>3. new.type \in Types /\ new.no = sent + 1
  OBVIOUS
<1>4. \A m \in net :
        m.type \in Types /\ m.no \in Nat /\ m.no >= 1 /\ m.no <= sent
  BY <1>1 DEF TypeOK
<1> HIDE DEF new
<1>5. \A m \in net' : m.type \in Types /\ m.no \in 1 .. sent'
  BY <1>1, <1>2, <1>3, <1>4
<1>6. TypeOK'
  <2>1. sent' \in 0 .. MaxSent /\ top' \in 0 .. sent'
    BY <1>1, Bounds
  <2>2. QED
    BY <1>5, <2>1 DEF TypeOK
<1>7. NetInv'
  <2>1. sent' <= top' + Window
    BY <1>1, Bounds
  <2>2. \A m \in net' : m.no + Window > top'
    BY <1>1, <1>2, <1>3, <1>4, Bounds DEF NetInv
  <2>3. inOrder => \A m \in net' : m.no > top'
    BY <1>1, <1>2, <1>3, <1>4 DEF NetInv
  <2>4. inOrder => \A k, m \in net' : k.no = m.no => k = m
    BY <1>1, <1>2, <1>3, <1>4 DEF NetInv
  <2>5. QED
    BY <2>1, <2>2, <2>3, <2>4 DEF NetInv
<1>8. LinkInv' /\ MuteInv'
  BY DEF LinkInv, MuteInv, Wire, Delta
<1>9. QED
  BY <1>6, <1>7, <1>8

LEMMA LoseInvariant == IInv /\ Lose => IInv'
<1> SUFFICES ASSUME IInv, Lose PROVE IInv'
  OBVIOUS
<1> USE DEF Lose, IInv
<1>1. net' \subseteq net
  OBVIOUS
<1>2. TypeOK' /\ NetInv'
  BY <1>1 DEF TypeOK, NetInv
<1>3. LinkInv' /\ MuteInv'
  BY DEF LinkInv, MuteInv, Wire, Delta
<1>4. QED
  BY <1>2, <1>3

\* A restart: nothing is under way and nothing of the new run was heard.
LEMMA NextRunInvariant ==
  ASSUME IInv, NextRun, UNCHANGED missing,
         link' = Fresh \/ (inOrder /\ link' = link)
  PROVE  IInv'
<1> USE DEF NextRun, IInv
<1>1. run' \in 1 .. MaxRuns /\ run' = run + 1 /\ run \in Nat
  BY Bounds DEF TypeOK
<1>2. TypeOK'
  <2>1. sent' \in 0 .. MaxSent /\ top' \in 0 .. sent' /\ unheard' \in Nat
    BY Bounds
  <2>2. link' \in Links
    BY FreshLink DEF TypeOK, Links
  <2>3. QED
    BY <1>1, <2>1, <2>2 DEF TypeOK, Links
<1>3. NetInv'
  BY Bounds DEF NetInv
<1>4. LinkInv'
  <2>1. ~inOrder => link'.rx = Wire(0)
    BY WireZero DEF Fresh
  <2>2. heard'.run < run'
    BY <1>1 DEF LinkInv, TypeOK
  <2>3. QED
    BY <1>1, <2>1, <2>2 DEF LinkInv, TypeOK, Wire
<1>5. MuteInv'
  BY DEF MuteInv
<1>6. QED
  BY <1>2, <1>3, <1>4, <1>5

-----------------------------------------------------------------------------
(***************************************************************************)
(* A message that arrives.                                                 *)
(***************************************************************************)

\* Where its number lies, and what it leaves under way.
LEMMA Arrival ==
  ASSUME IInv, NEW m \in net, Arrives(m), UNCHANGED <<inOrder, sent>>
  PROVE  /\ m.type \in Types
         /\ m.no \in Nat /\ m.no <= sent /\ m.no <= top + Window
         /\ m.no + Window > top
         /\ inOrder => m.no > top
         /\ top \in Nat /\ sent \in Nat
         /\ top' = IF m.no > top THEN m.no ELSE top
         /\ top' \in 0 .. sent'
         /\ \A k \in net' : k.type \in Types /\ k.no \in 1 .. sent'
         /\ NetInv'
<1> USE DEF Arrives, IInv
<1>1. /\ m.type \in Types /\ m.no \in Nat /\ m.no <= sent
      /\ top \in Nat /\ sent \in Nat /\ top <= sent
  BY DEF TypeOK
<1>2. /\ m.no <= top + Window /\ m.no + Window > top
      /\ inOrder => m.no > top
  BY <1>1, Bounds DEF NetInv
<1>3. top' = (IF m.no > top THEN m.no ELSE top) /\ top' \in 0 .. sent'
  BY <1>1
<1>4. /\ net' \subseteq net /\ \A k \in net' : k.no + Window > top'
      /\ inOrder => m \notin net'
  OBVIOUS
<1>5. \A k \in net' : k.type \in Types /\ k.no \in 1 .. sent'
  BY <1>4 DEF TypeOK
<1>6. NetInv'
  <2>1. sent' <= top' + Window
    BY <1>1, <1>3, Bounds DEF NetInv
  <2>2. inOrder => \A k \in net' : k.no > top'
    <3> SUFFICES ASSUME inOrder, NEW k \in net' PROVE k.no > top'
      OBVIOUS
    <3>1. top' = m.no /\ m.no <= k.no /\ k # m
      BY <1>2, <1>3, <1>4
    <3>2. k.no # m.no
      BY <1>4, <3>1 DEF NetInv
    <3>3. k.no \in Nat
      BY <1>1, <1>4 DEF TypeOK
    <3>4. QED
      BY <1>1, <3>1, <3>2, <3>3
  <2>3. inOrder => \A k, l \in net' : k.no = l.no => k = l
    BY <1>4 DEF NetInv
  <2>4. QED
    BY <1>4, <2>1, <2>2, <2>3 DEF NetInv
<1>7. QED
  BY <1>1, <1>2, <1>3, <1>5, <1>6

\* Over a channel that reorders, a number up to the highest one received is
\* not newer, and audio with it is filtered.
LEMMA OldNumber ==
  ASSUME NEW m, m.no \in Nat, top \in Nat, m.no <= top, top < m.no + Window,
         link.rx = Wire(top)
  PROVE  ~IsNewer(Wire(m.no), link.rx) /\ (m.type = "audio" => Filtered(m))
<1>1. CASE m.no = top
  <2>1. Delta(Wire(m.no), link.rx) = 0
    BY <1>1, Bounds, WireDelta
  <2>2. QED
    BY <1>1, <2>1 DEF IsNewer, Filtered
<1>2. CASE m.no < top
  <2>1. top - m.no < Half
    BY Bounds
  <2>2. ~IsNewer(Wire(m.no), link.rx) /\ IsStale(Wire(m.no), link.rx)
    BY <1>2, <2>1, WireNewer
  <2>3. QED
    BY <2>2 DEF Filtered
<1>3. QED
  BY <1>1, <1>2

\* Audio that gets past the filter has a number above all received before.
LEMMA HandledIsNew ==
  ASSUME IInv, NEW m \in net, Arrives(m), UNCHANGED <<inOrder, sent>>,
         m.type = "audio", ~Filtered(m)
  PROVE  m.no > top
<1>1. /\ m.no \in Nat /\ top \in Nat /\ m.no + Window > top
      /\ inOrder => m.no > top
  BY Arrival
<1>2. CASE inOrder
  BY <1>1, <1>2
<1>3. CASE ~inOrder
  <2>1. link.rx = Wire(top)
    BY <1>3 DEF IInv, LinkInv
  <2>2. ~(m.no <= top)
    BY <1>1, <2>1, OldNumber
  <2>3. QED
    BY <1>1, <2>2
<1>4. QED
  BY <1>2, <1>3

\* The link's highest number, over a channel that reorders.
LEMMA RxIsTop ==
  ASSUME IInv, NEW m \in net, Arrives(m), UNCHANGED <<inOrder, sent>>, ~inOrder
  PROVE  RxAfter(m) = Wire(top')
<1>1. /\ m.no \in Nat /\ top \in Nat /\ m.no + Window > top
      /\ m.no <= top + Window
      /\ top' = IF m.no > top THEN m.no ELSE top
  BY Arrival
<1>2. link.rx = Wire(top)
  BY DEF IInv, LinkInv
<1>3. CASE m.no > top
  <2>1. m.no - top < Half
    BY <1>1, Bounds
  <2>2. IsNewer(Wire(m.no), link.rx)
    BY <1>1, <1>2, <1>3, <2>1, WireNewer
  <2>3. QED
    BY <1>1, <1>3, <2>2 DEF RxAfter
<1>4. CASE m.no <= top
  <2>1. ~IsNewer(Wire(m.no), link.rx)
    BY <1>1, <1>2, <1>4, OldNumber
  <2>2. top' = top
    BY <1>1, <1>4
  <2>3. QED
    BY <1>2, <2>1, <2>2 DEF RxAfter
<1>5. QED
  BY <1>1, <1>3, <1>4

LEMMA RxType ==
  ASSUME IInv, NEW m \in net
  PROVE  RxAfter(m) \in Sequences /\ Wire(m.no) \in Sequences
<1>1. m.no \in Nat
  BY DEF IInv, TypeOK
<1>2. QED
  BY <1>1, WireType DEF IInv, TypeOK, RxAfter

\* How far a muted link is from the number it waits for, after any message.
LEMMA MuteNext ==
  ASSUME IInv, NEW m \in net, Arrives(m), UNCHANGED <<inOrder, sent>>,
         unheard > 0
  PROVE  /\ Delta(RxAfter(m), Wire(top')) < Half
         /\ unheard <= Half - Delta(RxAfter(m), Wire(top'))
         /\ m.no > top /\ ~IsNewer(Wire(m.no), link.rx) =>
              unheard + 1 <= Half - Delta(link.rx, Wire(m.no))
<1>1. /\ m.no \in Nat /\ top \in Nat
      /\ m.no <= top + Window /\ m.no + Window > top
      /\ inOrder => m.no > top
      /\ top' = IF m.no > top THEN m.no ELSE top
  BY Arrival
<1>2. /\ link.rx \in Sequences /\ unheard \in Nat
      /\ Delta(link.rx, Wire(top)) < Half
      /\ unheard <= Half - Delta(link.rx, Wire(top))
  BY DEF IInv, TypeOK, MuteInv
<1>3. Delta(link.rx, Wire(top)) \in Nat
  BY <1>1, <1>2, DeltaType, WireType
<1>4. CASE m.no > top /\ IsNewer(Wire(m.no), link.rx)
  <2>1. RxAfter(m) = Wire(m.no) /\ top' = m.no
    BY <1>1, <1>4 DEF RxAfter
  <2>2. Delta(Wire(m.no), Wire(m.no)) = 0
    BY <1>1, WireType DEF Delta
  <2>3. QED
    BY <1>2, <1>3, <1>4, <2>1, <2>2, Bounds
<1>5. CASE m.no > top /\ ~IsNewer(Wire(m.no), link.rx)
  <2>1. RxAfter(m) = link.rx /\ top' = m.no
    BY <1>1, <1>5 DEF RxAfter
  <2>2. m.no - top < Half
    BY <1>1, Bounds
  <2>3. Delta(link.rx, Wire(m.no)) = Delta(link.rx, Wire(top)) - (m.no - top)
    BY <1>1, <1>2, <1>5, <2>2, Closer
  <2>4. QED
    BY <1>1, <1>2, <1>3, <1>5, <2>1, <2>3, Bounds
<1>6. CASE m.no <= top
  <2>1. link.rx = Wire(top)
    BY <1>1, <1>6 DEF IInv, LinkInv
  <2>2. ~IsNewer(Wire(m.no), link.rx)
    BY <1>1, <1>6, <2>1, OldNumber
  <2>3. RxAfter(m) = link.rx /\ top' = top
    BY <1>1, <1>6, <2>2 DEF RxAfter
  <2>4. QED
    BY <1>1, <1>2, <1>6, <2>3
<1>7. QED
  BY <1>1, <1>4, <1>5, <1>6

-----------------------------------------------------------------------------
(***************************************************************************)
(* bluetooth_handle_transport_payload.                                     *)
(***************************************************************************)

\* A message that is not handled as audio, filtered or not.
LEMMA SilentInvariant ==
  ASSUME IInv, NEW m \in net, Arrives(m), UNCHANGED <<inOrder, run, sent>>,
         link' \in Links, link'.rx = RxAfter(m), link'.audio = link.audio,
         accepted' \in BOOLEAN, UNCHANGED <<missing, heard>>, unheard' \in Nat,
         unheard' > 0 =>
           /\ Delta(RxAfter(m), Wire(top')) < Half
           /\ unheard' <= Half - Delta(RxAfter(m), Wire(top'))
  PROVE  IInv'
<1>1. /\ m.no \in Nat /\ top \in Nat
      /\ top' = IF m.no > top THEN m.no ELSE top
      /\ top' \in 0 .. sent'
      /\ \A k \in net' : k.type \in Types /\ k.no \in 1 .. sent'
      /\ NetInv'
  BY Arrival
<1>2. TypeOK'
  BY <1>1 DEF IInv, TypeOK, Links
<1>3. LinkInv'
  <2>1. ~inOrder => RxAfter(m) = Wire(top')
    BY RxIsTop
  <2>2. heard.run = run => heard.no <= top'
    BY <1>1 DEF IInv, LinkInv, TypeOK
  <2>3. QED
    BY <2>1, <2>2 DEF IInv, LinkInv, Wire
<1>4. MuteInv'
  BY DEF MuteInv, Delta, Wire
<1>5. QED
  BY <1>1, <1>2, <1>3, <1>4 DEF IInv

\* A message the filter drops: if it is a fresh frame, the link is that much
\* closer to the number it waits for.
LEMMA DropInvariant ==
  ASSUME IInv, NEW m \in net, Arrives(m), UNCHANGED <<inOrder, run, sent>>,
         Filtered(m), Drop(m)
  PROVE  IInv'
<1>1. ~IsNewer(Wire(m.no), link.rx) /\ RxAfter(m) = link.rx
  BY DEF Filtered, RxAfter
<1>2. /\ m.no \in Nat /\ top \in Nat
      /\ top' = IF m.no > top THEN m.no ELSE top
  BY Arrival
<1>3. unheard \in Nat /\ unheard' \in Nat
  BY DEF IInv, TypeOK, Drop
<1>4. unheard' > 0 =>
        /\ Delta(RxAfter(m), Wire(top')) < Half
        /\ unheard' <= Half - Delta(RxAfter(m), Wire(top'))
  <2>1. CASE ~IsFresh(m)
    BY <2>1, MuteNext DEF Drop
  <2>2. CASE IsFresh(m)
    <3>1. /\ m.no > top /\ top' = m.no
          /\ m.type = "audio" /\ unheard' = unheard + 1
      BY <1>2, <2>2 DEF IsFresh, Drop
    <3>2. /\ Delta(link.rx, Wire(m.no)) < Half
          /\ Delta(link.rx, Wire(m.no)) \in Nat
      <4>1. link.rx \in Sequences /\ Wire(m.no) \in Sequences
        BY <1>2, WireType DEF IInv, TypeOK
      <4>2. CASE Wire(m.no) = link.rx
        BY <4>1, <4>2, Bounds DEF Delta, Sequences
      <4>3. CASE IsStale(Wire(m.no), link.rx)
        BY <4>1, <4>3, DeltaType DEF IsStale
      <4>4. QED
        BY <4>2, <4>3 DEF Filtered
    <3>3. CASE unheard = 0
      BY <1>1, <3>1, <3>2, <3>3, Bounds
    <3>4. CASE unheard > 0
      <4>1. unheard + 1 <= Half - Delta(link.rx, Wire(m.no))
        BY <1>1, <3>1, <3>4, MuteNext
      <4>2. QED
        BY <1>1, <3>1, <3>2, <4>1
    <3>5. QED
      BY <1>3, <3>3, <3>4
  <2>3. QED
    BY <2>1, <2>2
<1>5. /\ link' \in Links /\ link'.rx = RxAfter(m) /\ link'.audio = link.audio
      /\ accepted' \in BOOLEAN /\ UNCHANGED <<missing, heard>>
  BY <1>1 DEF Drop, IInv, TypeOK, Links
<1>6. QED
  BY <1>3, <1>4, <1>5, SilentInvariant

\* A session that is established or confirmed, and what a session refuses.
LEMMA SessionInvariant ==
  ASSUME IInv, NEW m \in net, Arrives(m), UNCHANGED <<inOrder, run, sent>>,
         Establish(m) \/ Reject(m)
  PROVE  IInv'
<1>1. RxAfter(m) \in Sequences
  BY RxType
<1>2. unheard' = unheard /\ unheard \in Nat /\ UNCHANGED <<missing, heard>>
  BY DEF IInv, TypeOK, Establish, Reject
<1>3. accepted' \in BOOLEAN
  BY DEF IInv, TypeOK, Establish, Reject
<1>4. link' \in Links /\ link'.rx = RxAfter(m) /\ link'.audio = link.audio
  <2>1. link \in Links /\ run \in 0 .. MaxRuns
    BY Bounds DEF IInv, TypeOK, Links
  <2>2. CASE Establish(m)
    BY <1>1, <2>1, <2>2 DEF Establish, Links
  <2>3. CASE Reject(m)
    BY <1>1, <2>1, <2>3 DEF Reject, Links
  <2>4. QED
    BY <2>2, <2>3
<1>5. QED
  BY <1>2, <1>3, <1>4, MuteNext, SilentInvariant

\* An audio frame that is handled is the newest of its run.
LEMMA AudioInvariant ==
  ASSUME IInv, NEW m \in net, Arrives(m), UNCHANGED <<inOrder, run, sent>>,
         ~Filtered(m), m.type = "audio", HandleAudio(m)
  PROVE  IInv'
<1>1. /\ m.no \in Nat /\ m.no <= sent /\ top \in Nat
      /\ top' = IF m.no > top THEN m.no ELSE top
      /\ top' \in 0 .. sent'
      /\ \A k \in net' : k.type \in Types /\ k.no \in 1 .. sent'
      /\ NetInv'
  BY Arrival
<1>2. m.no > top /\ top' = m.no
  BY <1>1, HandledIsNew
<1>3. /\ link.audio \in Sequences
      /\ Wire(m.no) \in Sequences /\ RxAfter(m) \in Sequences
  BY RxType DEF IInv, TypeOK
<1>4. AudioGap(Wire(m.no)) \in Nat
  <2>1. After(link.audio, 1) \in Sequences
    BY <1>3, Bounds DEF After, Sequences
  <2>2. QED
    BY <1>3, <2>1, DeltaType DEF AudioGap
<1>5. TypeOK'
  <2>1. link' \in [active : BOOLEAN, sid : 0 .. MaxRuns,
                   rx : Sequences, audio : Sequences]
    BY <1>3 DEF HandleAudio, IInv, TypeOK
  <2>2. missing' \in Nat
    BY <1>4 DEF HandleAudio, IInv, TypeOK
  <2>3. heard' \in [run : 0 .. MaxRuns, no : 0 .. MaxSent]
    BY <1>1, Bounds DEF HandleAudio, IInv, TypeOK
  <2>4. accepted' \in BOOLEAN /\ unheard' \in Nat
    BY DEF HandleAudio, IInv, TypeOK
  <2>5. QED
    BY <1>1, <2>1, <2>2, <2>3, <2>4 DEF IInv, TypeOK
<1>6. LinkInv'
  <2>1. /\ link'.rx = RxAfter(m) /\ link'.audio = Wire(m.no)
        /\ heard'.run = run /\ heard'.no = m.no
    BY DEF HandleAudio, IInv, TypeOK
  <2>2. ~inOrder => link'.rx = Wire(top')
    BY <2>1, RxIsTop
  <2>3. QED
    BY <1>1, <1>2, <2>1, <2>2 DEF LinkInv, IInv, TypeOK, Wire
<1>7. MuteInv'
  BY DEF HandleAudio, MuteInv
<1>8. QED
  BY <1>1, <1>5, <1>6, <1>7 DEF IInv

LEMMA ReceiveInvariant ==
  ASSUME IInv, NEW m \in net, Receive(m)
  PROVE  IInv'
<1>1. Arrives(m) /\ UNCHANGED <<inOrder, run, sent>>
  BY DEF Receive
<1>2. \/ Filtered(m) /\ Drop(m)
      \/ Establish(m) \/ Reject(m)
      \/ HandleAudio(m) /\ ~Filtered(m) /\ m.type = "audio"
  BY DEF Receive
<1>3. QED
  BY <1>1, <1>2, DropInvariant, SessionInvariant, AudioInvariant

-----------------------------------------------------------------------------
\* The invariant holds after every step of the headset, of the channel and of
\* the link.
THEOREM Invariance == Spec => []IInv
<1>1. IInv /\ [Next]_vars => IInv'
  <2> SUFFICES ASSUME IInv, [Next]_vars PROVE IInv'
    OBVIOUS
  <2>1. CASE UNCHANGED vars
    BY <2>1 DEF vars, IInv, TypeOK, NetInv, LinkInv, MuteInv, Wire, Delta
  <2>2. ASSUME NEW type \in Types, Send(type) PROVE IInv'
    BY <2>2, SendInvariant
  <2>3. ASSUME NEW m \in net, Receive(m) PROVE IInv'
    BY <2>3, ReceiveInvariant
  <2>4. CASE Lose
    BY <2>4, LoseInvariant
  <2>5. CASE RestartUnseen
    BY <2>5, NextRunInvariant DEF RestartUnseen
  <2>6. CASE Teardown
    <3>1. NextRun /\ UNCHANGED missing
      BY <2>6 DEF Teardown
    <3>2. link' = Fresh \/ (inOrder /\ link' = link)
      BY <2>6 DEF Teardown
    <3>3. QED
      BY <3>1, <3>2, NextRunInvariant
  <2>7. QED
    BY <2>1, <2>2, <2>3, <2>4, <2>5, <2>6 DEF Next
<1>2. QED
  BY InitInvariant, <1>1, PTL DEF Spec

\* Every variable keeps its type; what is under way was sent in this run.
THEOREM TypeCorrect == Spec => []TypeOK
<1>1. IInv => TypeOK
  BY DEF IInv
<1>2. QED
  BY Invariance, <1>1, PTL

\* The two comparisons after a restart that nobody noticed: the headset is
\* heard again before half of the numbers have gone by.
THEOREM MuteEnds == Spec => []ResumesSoon
<1>1. IInv => ResumesSoon
  <2> SUFFICES ASSUME IInv, unheard > 0 PROVE unheard <= Half
    BY Bounds DEF IInv, TypeOK, ResumesSoon
  <2>1. top \in Nat /\ link.rx \in Sequences /\ unheard \in Nat
    BY DEF IInv, TypeOK
  <2>2. Delta(link.rx, Wire(top)) \in Nat
    BY <2>1, WireType, DeltaType
  <2>3. QED
    BY <2>1, <2>2, Bounds DEF IInv, MuteInv
<1>2. QED
  BY Invariance, <1>1, PTL

\* The step in which an audio frame is handled.
LEMMA HeardStep ==
  ASSUME IInv, [Next]_vars, heard' # heard
  PROVE  \E m \in net : /\ Arrives(m) /\ UNCHANGED <<inOrder, run, sent>>
                        /\ ~Filtered(m) /\ m.type = "audio" /\ HandleAudio(m)
<1>1. PICK m \in net : Receive(m)
  BY DEF Next, vars, Send, Lose, RestartUnseen, Teardown, NextRun
<1>2. QED
  BY <1>1 DEF Receive, Drop, Establish, Reject

\* The filter of bluetooth_handle_transport_payload: no audio frame is handled
\* twice or after one that was sent later.
THEOREM AudioKeepsOrder == Spec => AudioInOrder
<1>1. IInv /\ [Next]_vars =>
        [heard' # heard =>
           \/ heard'.run > heard.run
           \/ heard'.run = heard.run /\ heard'.no > heard.no]_vars
  <2> SUFFICES ASSUME IInv, [Next]_vars, heard' # heard
               PROVE  \/ heard'.run > heard.run
                      \/ heard'.run = heard.run /\ heard'.no > heard.no
    OBVIOUS
  <2>1. PICK m \in net : /\ Arrives(m) /\ UNCHANGED <<inOrder, run, sent>>
                         /\ ~Filtered(m) /\ m.type = "audio" /\ HandleAudio(m)
    BY HeardStep
  <2>2. m.no > top /\ heard' = [run |-> run, no |-> m.no]
    BY <2>1, HandledIsNew DEF HandleAudio
  <2>3. m.no \in Nat /\ top \in Nat /\ heard.no \in Nat
        /\ run \in Nat /\ heard.run \in Nat
    BY Bounds DEF IInv, TypeOK
  <2>4. QED
    BY <2>2, <2>3 DEF IInv, LinkInv
<1>2. QED
  BY Invariance, <1>1, PTL DEF Spec, AudioInOrder

\* link->missing_audio_frames: between two frames of one run it grows by the
\* numbers skipped, except after a frame numbered 0.
THEOREM GapsAreCounted == Spec => GapsCounted
<1>1. IInv /\ [Next]_vars =>
        [heard' # heard /\ heard'.run = heard.run
         /\ heard'.no - heard.no <= Half =>
           missing' - missing =
             IF link.audio = 0 THEN 0 ELSE heard'.no - heard.no - 1]_vars
  <2> SUFFICES ASSUME IInv, [Next]_vars, heard' # heard,
                      heard'.run = heard.run, heard'.no - heard.no <= Half
               PROVE  missing' - missing =
                        IF link.audio = 0 THEN 0 ELSE heard'.no - heard.no - 1
    OBVIOUS
  <2>1. PICK m \in net : /\ Arrives(m) /\ UNCHANGED <<inOrder, run, sent>>
                         /\ ~Filtered(m) /\ m.type = "audio" /\ HandleAudio(m)
    BY HeardStep
  <2>2. /\ m.no > top /\ heard' = [run |-> run, no |-> m.no]
        /\ missing' = missing + AudioGap(Wire(m.no))
    BY <2>1, HandledIsNew DEF HandleAudio
  <2>3. m.no \in Nat /\ top \in Nat /\ heard.no \in Nat /\ missing \in Nat
    BY DEF IInv, TypeOK
  <2>4. heard.no <= top /\ link.audio = Wire(heard.no)
    BY <2>2 DEF IInv, LinkInv
  <2>5. Delta(Wire(m.no), After(link.audio, 1)) = m.no - heard.no - 1
    <3>1. /\ heard.no + 1 \in Nat /\ m.no >= heard.no + 1
          /\ m.no - (heard.no + 1) < Modulus
      BY <2>2, <2>3, <2>4, Bounds
    <3>2. Delta(Wire(m.no), Wire(heard.no + 1)) = m.no - (heard.no + 1)
      BY <2>3, <3>1, WireDelta
    <3>3. QED
      BY <2>3, <2>4, <3>2, WireAfter
  <2>6. m.no - heard.no - 1 < Half
    BY <2>2, <2>3, Bounds
  <2>7. QED
    BY <2>2, <2>3, <2>5, <2>6 DEF AudioGap
<1>2. QED
  BY Invariance, <1>1, PTL DEF Spec, GapsCounted
=============================================================================
