-------------------------- MODULE PeerLinks_proofs --------------------------
(***************************************************************************)
(* Proofs about PeerLinks for any number of peers, any table size, queue   *)
(* depth and timeouts: type correctness, and that the relay list, the link *)
(* table, the runtime's connected list and the ready count agree.          *)
(***************************************************************************)
EXTENDS PeerLinks, FiniteSetTheorems, TLAPS

IInv ==
  /\ TypeOK
  /\ RelayMatchesSessions
  /\ NoStaleSession
  /\ NoSessionBehindMirror
  /\ ReadyCountBounded

-----------------------------------------------------------------------------
(* One link.  Sound(l): typed, and all zero when its slot is free.          *)

Sound(l) == l \in Link /\ (~l.valid => l = EmptyLink)

LEMMA SoundLinks ==
  /\ Sound(EmptyLink) /\ Clean(EmptyLink) /\ ~EmptyLink.valid
  /\ Sound(NewLink) /\ Clean(NewLink) /\ NewLink.valid
  /\ Sound(RestoredLink) /\ Clean(RestoredLink) /\ RestoredLink.valid
BY DEF Sound, EmptyLink, NewLink, RestoredLink, Link, LinkStates, Clean

LEMMA DroppedLink ==
  ASSUME NEW l, Sound(l)
  PROVE  /\ l.valid => Sound(Dropped(l)) /\ Dropped(l).valid
         /\ Clean(Dropped(l))
         /\ Sound(CutOff(l)) /\ Clean(CutOff(l))
         /\ CutOff(l).valid => l.valid
<1>1. Dropped(l) \in Link /\ Dropped(l).valid = l.valid /\ Clean(Dropped(l))
  BY DEF Sound, Dropped, Link, LinkStates, Clean
<1>2. l.valid => Sound(Dropped(l)) /\ Dropped(l).valid
  BY <1>1 DEF Sound, Link
<1>3. l.remembered => l.valid
  BY DEF Sound, EmptyLink
<1> QED
  BY <1>1, <1>2, <1>3, SoundLinks DEF CutOff

\* What an operation that keeps the session preserves.
SameSession(k, l) ==
  /\ k.valid = l.valid /\ k.active = l.active
  /\ k.sid = l.sid /\ k.helloSent = l.helloSent

LEMMA OlderLink ==
  ASSUME NEW l, Sound(l)
  PROVE  Sound(Older(l)) /\ SameSession(Older(l), l)
<1>1. Older(l) \in Link /\ SameSession(Older(l), l)
  BY DEF Sound, Older, Link, SameSession
<1>2. ~l.valid => Older(l) = l
  BY DEF Sound, Older, EmptyLink
<1> QED
  BY <1>1, <1>2 DEF Sound, SameSession

LEMMA ReconciledLinkSound ==
  ASSUME NEW l, Sound(l), NEW c \in BOOLEAN
  PROVE  /\ Sound(ReconciledLink(l, c))
         /\ c => SameSession(ReconciledLink(l, c), l)
         /\ ~c => Clean(ReconciledLink(l, c))
         /\ ReconciledLink(l, c).valid => l.valid
<1>1. CASE ~c
  BY <1>1, DroppedLink DEF ReconciledLink
<1>2. CASE c
  BY <1>2 DEF ReconciledLink, Sound, Link, LinkStates, SameSession, EmptyLink
<1> QED
  BY <1>1, <1>2

LEMMA HelloLinkSound ==
  ASSUME NEW l, Sound(l), NeedsHello(l), NEW b \in BOOLEAN, NEW s \in Sessions
  PROVE  /\ Sound(HelloLink(l, b, s)) /\ HelloLink(l, b, s).valid
         /\ ~HelloLink(l, b, s).active
BY DEF Sound, Link, LinkStates, HelloLink, NeedsHello

LEMMA HandledLinkSound ==
  ASSUME NEW l, Sound(l), l.valid, NEW m \in Messages
  PROVE  /\ Sound(HandledLink(l, m)) /\ HandledLink(l, m).valid
         /\ Establishes(l, m) => HandledLink(l, m).active
         /\ ~Establishes(l, m) /\ m.type = "goodbye" =>
              Clean(HandledLink(l, m))
         /\ ~Establishes(l, m) /\ m.type # "goodbye" =>
              HandledLink(l, m).active = l.active
<1>0. m.sid \in Sessions \cup {NoSession}
  BY DEF Messages
<1>1. CASE Establishes(l, m)
  BY <1>0, <1>1 DEF HandledLink, ReadyLink, Sound, Link, LinkStates
<1>2. CASE ~Establishes(l, m) /\ m.type = "goodbye"
  BY <1>2, DroppedLink DEF HandledLink
<1>3. CASE ~Establishes(l, m) /\ m.type # "goodbye"
  BY <1>3 DEF HandledLink, Touched, Sound, Link, LinkStates
<1> QED
  BY <1>1, <1>2, <1>3

-----------------------------------------------------------------------------
(* The link table.                                                          *)

Table(L) ==
  /\ L \in [Peers -> Link]
  /\ \A p \in Peers : Sound(L[p])
  /\ Cardinality(ValidPeers(L)) <= MaxPeers

LEMMA PeerSets ==
  ASSUME NEW S \in SUBSET Peers
  PROVE  IsFiniteSet(S) /\ Cardinality(S) \in Nat
BY PeersAssumption, FS_Subset, FS_CardinalityType

LEMMA ValidSet ==
  ASSUME NEW L
  PROVE  /\ ValidPeers(L) \in SUBSET Peers
         /\ ActivePeers(L) \in SUBSET Peers
         /\ ReadyPeers(L) \in SUBSET ActivePeers(L)
BY DEF ValidPeers, ActivePeers, ReadyPeers

\* A table that gives no peer a new slot is a table.
LEMMA ShrunkTable ==
  ASSUME NEW L, Table(L), NEW K \in [Peers -> Link],
         \A p \in Peers : Sound(K[p]) /\ (K[p].valid => L[p].valid)
  PROVE  Table(K)
<1>1. ValidPeers(K) \subseteq ValidPeers(L)
  BY DEF ValidPeers
<1>2. Cardinality(ValidPeers(K)) <= Cardinality(ValidPeers(L))
  BY <1>1, ValidSet, PeerSets, FS_Subset
<1>3. /\ Cardinality(ValidPeers(K)) \in Nat
      /\ Cardinality(ValidPeers(L)) \in Nat
  BY ValidSet, PeerSets
<1> QED
  BY <1>2, <1>3, BoundsAssumption DEF Table

LEMMA WithLinkTable ==
  ASSUME NEW L, Table(L), NEW p \in Peers
  PROVE  /\ Table(WithLink(L, p))
         /\ \A q \in Peers : q # p => WithLink(L, p)[q] = L[q]
         /\ \/ WithLink(L, p)[p] = L[p]
            \/ ~L[p].valid /\ WithLink(L, p)[p] = NewLink
<1>1. CASE L[p].valid \/ Cardinality(ValidPeers(L)) >= MaxPeers
  BY <1>1 DEF WithLink
<1>2. CASE ~(L[p].valid \/ Cardinality(ValidPeers(L)) >= MaxPeers)
  <2> DEFINE K == [L EXCEPT ![p] = NewLink]
  <2>1. WithLink(L, p) = K
    BY <1>2 DEF WithLink
  <2>2. K \in [Peers -> Link] /\ \A q \in Peers : Sound(K[q])
    BY SoundLinks DEF Table, Sound
  <2>3. ValidPeers(K) = ValidPeers(L) \cup {p} /\ p \notin ValidPeers(L)
    BY <1>2, SoundLinks DEF ValidPeers, Table
  <2>4. Cardinality(ValidPeers(K)) = Cardinality(ValidPeers(L)) + 1
    BY <2>3, ValidSet, PeerSets, FS_AddElement
  <2>5. Cardinality(ValidPeers(K)) <= MaxPeers
    BY <2>4, <1>2, ValidSet, PeerSets, BoundsAssumption
  <2> QED
    BY <2>1, <2>2, <2>5, <1>2 DEF Table
<1> QED
  BY <1>1, <1>2

\* A new link has no session.
LEMMA WithLinkSessions ==
  ASSUME NEW L, Table(L), NEW p \in Peers
  PROVE  /\ ActivePeers(WithLink(L, p)) = ActivePeers(L)
         /\ \A q \in Peers : Clean(L[q]) => Clean(WithLink(L, p)[q])
<1> DEFINE K == WithLink(L, p)
<1>1. ~L[p].valid => L[p].active = FALSE
  BY DEF Table, Sound, EmptyLink
<1>2. NewLink.active = FALSE /\ Clean(NewLink)
  BY DEF NewLink, EmptyLink, Clean
<1>3. /\ \A q \in Peers : q # p => K[q] = L[q]
      /\ K[p] = L[p] \/ (~L[p].valid /\ K[p] = NewLink)
  BY WithLinkTable
<1> HIDE DEF K
<1>4. \A q \in Peers : K[q].active = L[q].active
  BY <1>1, <1>2, <1>3
<1> QED
  BY <1>2, <1>3, <1>4 DEF K, ActivePeers

\* The ready sessions are among the active ones.
LEMMA ReadyAmongActive ==
  ASSUME NEW L
  PROVE  /\ Cardinality(ReadyPeers(L)) \in Nat
         /\ Cardinality(ActivePeers(L)) \in Nat
         /\ Cardinality(ReadyPeers(L)) <= Cardinality(ActivePeers(L))
BY ValidSet, PeerSets, FS_Subset

\* A recount is a bound again, and no recount is needed where no session ends.
LEMMA RecountBounded ==
  ASSUME NEW L, NEW K, NEW c \in Nat, NEW changed \in BOOLEAN,
         c <= Cardinality(ActivePeers(L)),
         ~changed => ActivePeers(L) \subseteq ActivePeers(K)
  PROVE  /\ Recount(changed, K, c) \in Nat
         /\ Recount(changed, K, c) <= Cardinality(ActivePeers(K))
<1>1. CASE changed
  BY <1>1, ReadyAmongActive DEF Recount
<1>2. CASE ~changed
  <2>1. Cardinality(ActivePeers(L)) <= Cardinality(ActivePeers(K))
    BY <1>2, ValidSet, PeerSets, FS_Subset
  <2> QED
    BY <2>1, <1>2, ReadyAmongActive DEF Recount
<1> QED
  BY <1>1, <1>2

LEMMA ReconciledTable ==
  ASSUME NEW L, Table(L), NEW C
  PROVE  /\ Table(Reconciled(L, C))
         /\ \A p \in Peers :
              /\ p \in C => SameSession(Reconciled(L, C)[p], L[p])
              /\ p \notin C => Clean(Reconciled(L, C)[p])
         /\ ActivePeers(Reconciled(L, C)) = ActivePeers(L) \ Unconnected(L, C)
<1> DEFINE K == Reconciled(L, C)
<1>1. ASSUME NEW p \in Peers
      PROVE  /\ Sound(K[p])
             /\ p \in C => SameSession(K[p], L[p])
             /\ p \notin C => Clean(K[p])
             /\ K[p].valid => L[p].valid
  <2>1. K[p] = ReconciledLink(L[p], p \in C)
    BY DEF Reconciled
  <2>2. Sound(L[p])
    BY DEF Table
  <2>3. CASE p \in C
    <3>1. K[p] = ReconciledLink(L[p], TRUE)
      BY <2>1, <2>3 DEF ReconciledLink
    <3> QED
      BY <2>2, <2>3, <3>1, ReconciledLinkSound
  <2>4. CASE p \notin C
    <3>1. K[p] = ReconciledLink(L[p], FALSE)
      BY <2>1, <2>4 DEF ReconciledLink
    <3> QED
      BY <2>2, <2>4, <3>1, ReconciledLinkSound
  <2> QED
    BY <2>3, <2>4
<1>2. K \in [Peers -> Link]
  BY <1>1 DEF Reconciled, Sound
<1>3. Table(K)
  BY <1>1, <1>2, ShrunkTable
<1>4. ASSUME NEW p \in Peers
      PROVE  p \in ActivePeers(K) <=> p \in ActivePeers(L) \ Unconnected(L, C)
  <2>1. L[p].active => L[p].valid
    BY DEF Table, Sound, EmptyLink
  <2> QED
    BY <1>1, <2>1 DEF ActivePeers, Unconnected, SameSession, Clean
<1>5. ActivePeers(K) = ActivePeers(L) \ Unconnected(L, C)
  BY <1>4, ValidSet DEF ActivePeers
<1> QED
  BY <1>1, <1>3, <1>5

-----------------------------------------------------------------------------
(* The initial states and each action.                                      *)

LEMMA IInvTable ==
  ASSUME IInv
  PROVE  Table(link) /\ \A p \in Peers : link[p].active => link[p].valid
BY DEF IInv, TypeOK, Table, Sound, Link, EmptyLink

\* What is to be shown of the next state.
TypeRest ==
  /\ tconn \subseteq Peers /\ mirror \subseteq Peers /\ relay \subseteq Peers
  /\ readyCount \in Nat
  /\ pairing \in [phase : PairingPhases, peer : Peers \cup {NoPeer}]
  /\ enabled \in BOOLEAN
  /\ inbound \in 0 .. QueueDepth

LEMMA IInvFromParts ==
  ASSUME Table(link)', TypeRest', (relay = ActivePeers(link))',
         (\A p \in Peers \ mirror : Clean(link[p]))',
         (\A p \in mirror \ tconn : Clean(link[p]))',
         (readyCount <= Cardinality(ActivePeers(link)))'
  PROVE  IInv'
BY DEF IInv, TypeOK, TypeRest, Table, Sound, RelayMatchesSessions,
       NoStaleSession, NoSessionBehindMirror, ReadyCountBounded

LEMMA InitIInv == Init => IInv
<1> SUFFICES ASSUME Init PROVE IInv
  OBVIOUS
<1>1. PICK R \in SUBSET Peers :
        /\ Cardinality(R) <= MaxPeers
        /\ link = [p \in Peers |-> IF p \in R THEN RestoredLink ELSE EmptyLink]
  BY DEF Init
<1>2. ValidPeers(link) = R
  BY <1>1, SoundLinks DEF ValidPeers
<1>3. Table(link) /\ \A p \in Peers : Clean(link[p])
  BY <1>1, <1>2, SoundLinks DEF Table, Sound
<1>4. ActivePeers(link) = {}
  BY <1>3 DEF ActivePeers, Clean
<1>5. Cardinality(ActivePeers(link)) = 0
  BY <1>4, FS_EmptySet
<1>6. NoPairing \in [phase : PairingPhases, peer : Peers \cup {NoPeer}]
  BY DEF NoPairing, PairingPhases
<1> QED
  BY <1>3, <1>4, <1>5, <1>6, BoundsAssumption
  DEF Init, IInv, TypeOK, Table, Sound, RelayMatchesSessions,
      NoStaleSession, NoSessionBehindMirror, ReadyCountBounded

LEMMA PollIInv ==
  ASSUME IInv, Poll
  PROVE  IInv'
<1>0. Table(link) /\ \A p \in Peers : link[p].active => link[p].valid
  BY IInvTable
<1> DEFINE aged == [p \in Peers |-> Older(link[p])]
<1>1. PICK C \in SUBSET Peers, fresh \in [Peers -> Sessions] :
        LET rec   == Reconciled(aged, C)
            quiet == {p \in C : TimedOut(rec[p])}
            cut   == Unconnected(aged, C) \cup quiet
        IN  /\ \E sent \in SUBSET {p \in C : NeedsHello(rec[p])} :
                 link' = Serviced(rec, C, sent, fresh)
            /\ \E closed \in SUBSET quiet : tconn' = C \ closed
            /\ mirror' = C
            /\ relay' = relay \ cut
            /\ readyCount' = Recount(cut # {}, link', readyCount)
  BY DEF Poll
<1> DEFINE rec   == Reconciled(aged, C)
           quiet == {p \in C : TimedOut(rec[p])}
           cut   == Unconnected(aged, C) \cup quiet
<1>2. PICK sent \in SUBSET {p \in C : NeedsHello(rec[p])} :
        link' = Serviced(rec, C, sent, fresh)
  BY <1>1
<1>3. PICK closed \in SUBSET quiet : tconn' = C \ closed
  BY <1>1
<1>4. /\ mirror' = C /\ relay' = relay \ cut
      /\ readyCount' = Recount(cut # {}, link', readyCount)
  BY <1>1
<1>5. \A p \in Peers : Sound(aged[p]) /\ SameSession(aged[p], link[p])
  BY <1>0, OlderLink DEF Table
<1>6. Table(aged) /\ ActivePeers(aged) = ActivePeers(link)
  <2>1. aged \in [Peers -> Link]
    BY <1>5 DEF Sound
  <2>2. ActivePeers(aged) = ActivePeers(link)
    BY <1>5 DEF ActivePeers, SameSession
  <2> QED
    BY <2>1, <2>2, <1>0, <1>5, ShrunkTable DEF SameSession
<1> HIDE DEF aged
<1>7. /\ Table(rec)
      /\ \A p \in Peers : p \notin C => Clean(rec[p])
      /\ ActivePeers(rec) = ActivePeers(link) \ Unconnected(aged, C)
  BY <1>6, ReconciledTable
<1> HIDE DEF rec
<1>8. ASSUME NEW p \in Peers
      PROVE  /\ Sound(link'[p]) /\ (link'[p].valid => rec[p].valid)
             /\ p \notin C => Clean(link'[p])
             /\ p \in quiet => Clean(link'[p])
             /\ p \notin quiet => link'[p].active = rec[p].active
  <2>0. /\ link'[p] = IF p \in C /\ NeedsHello(rec[p])
                      THEN HelloLink(rec[p], p \in sent, fresh[p])
                      ELSE IF p \in C /\ TimedOut(rec[p]) THEN Dropped(rec[p])
                      ELSE rec[p]
        /\ Sound(rec[p])
    BY <1>2, <1>7 DEF Serviced, Table
  <2>1. CASE p \in C /\ NeedsHello(rec[p])
    <3>1. rec[p].valid /\ ~rec[p].active
      BY <2>1 DEF NeedsHello
    <3>2. PICK b \in BOOLEAN : link'[p] = HelloLink(rec[p], b, fresh[p])
      BY <2>0, <2>1, Zenon DEF HelloLink
    <3>5. Sound(link'[p]) /\ ~link'[p].active
      BY <2>0, <2>1, <3>2, HelloLinkSound
    <3>3. p \notin quiet
      BY <3>1 DEF TimedOut
    <3>4. link'[p].active = FALSE /\ rec[p].active = FALSE
      BY <3>1, <3>5, <2>0 DEF Sound, Link
    <3> QED
      BY <2>1, <3>1, <3>5, <3>3, <3>4
  <2>2. CASE p \in C /\ ~NeedsHello(rec[p]) /\ TimedOut(rec[p])
    BY <2>0, <2>2, DroppedLink DEF TimedOut
  <2>3. CASE p \in C /\ ~NeedsHello(rec[p]) /\ ~TimedOut(rec[p])
    BY <2>0, <2>3
  <2>4. CASE p \notin C
    BY <2>0, <2>4, <1>7
  <2> QED
    BY <2>1, <2>2, <2>3, <2>4
<1>9. Table(link')
  <2>1. link' \in [Peers -> Link]
    BY <1>8, <1>2 DEF Serviced, Sound
  <2> QED
    BY <2>1, <1>7, <1>8, ShrunkTable
<1>10. ActivePeers(link') = ActivePeers(link) \ cut
  <2>1. ActivePeers(link') = ActivePeers(rec) \ quiet
    BY <1>8 DEF ActivePeers, Clean
  <2> QED
    BY <2>1, <1>7
<1>11. relay' = ActivePeers(link')
  BY <1>4, <1>10 DEF IInv, RelayMatchesSessions
<1>12. readyCount' \in Nat /\ readyCount' <= Cardinality(ActivePeers(link'))
  <2>1. ~(cut # {}) => ActivePeers(link) \subseteq ActivePeers(link')
    BY <1>10
  <2> QED
    BY <2>1, <1>4, RecountBounded DEF IInv, TypeOK, ReadyCountBounded
<1>13. \A p \in mirror' \ tconn' : Clean(link'[p])
  BY <1>3, <1>4, <1>8
<1>14. TypeRest'
  BY <1>3, <1>4, <1>12 DEF Poll, IInv, TypeOK, TypeRest
<1> QED
  BY <1>4, <1>8, <1>9, <1>11, <1>12, <1>13, <1>14, IInvFromParts DEF Table

LEMMA ReceiveIInv ==
  ASSUME IInv, NEW p \in Peers, ReceiveFrom(p)
  PROVE  IInv'
<1>0. Table(link) /\ \A q \in Peers : link[q].active => link[q].valid
  BY IInvTable
<1> DEFINE found == WithLink(link, p)
           known == found[p].valid
<1>1. PICK m \in Messages :
        LET marked   == known /\ Establishes(found[p], m)
            goodbye  == known /\ m.type = "goodbye"
            handled  == IF known
                        THEN [found EXCEPT ![p] = HandledLink(found[p], m)]
                        ELSE found
            listed   == IF marked /\ Cardinality(relay) < MaxPeers
                        THEN relay \cup {p}
                        ELSE IF goodbye THEN relay \ {p} ELSE relay
            counted  == Recount(marked \/ goodbye, handled, readyCount)
        IN  /\ \/ ~goodbye /\ tconn' = tconn
               \/ goodbye /\ tconn' \in {tconn, tconn \ {p}}
            /\ mirror' = tconn'
            /\ link' = Reconciled(handled, tconn')
            /\ relay' = listed \ Unconnected(handled, tconn')
            /\ readyCount' =
                 Recount(Unconnected(handled, tconn') # {}, link', counted)
            /\ pairing' =
                 IF marked /\ pairing = [phase |-> "progress", peer |-> p]
                 THEN [pairing EXCEPT !.phase = "completed"]
                 ELSE pairing
  BY DEF ReceiveFrom
<1> DEFINE marked   == known /\ Establishes(found[p], m)
           goodbye  == known /\ m.type = "goodbye"
           handled  == IF known
                       THEN [found EXCEPT ![p] = HandledLink(found[p], m)]
                       ELSE found
           listed   == IF marked /\ Cardinality(relay) < MaxPeers
                       THEN relay \cup {p}
                       ELSE IF goodbye THEN relay \ {p} ELSE relay
           counted  == Recount(marked \/ goodbye, handled, readyCount)
           gone     == Unconnected(handled, tconn')
<1>2. /\ tconn' \in {tconn, tconn \ {p}} /\ mirror' = tconn'
      /\ link' = Reconciled(handled, tconn')
      /\ relay' = listed \ gone
      /\ readyCount' = Recount(gone # {}, link', counted)
  BY <1>1
<1>3. pairing' \in [phase : PairingPhases, peer : Peers \cup {NoPeer}]
  <2>1. pairing \in [phase : PairingPhases, peer : Peers \cup {NoPeer}]
    BY DEF IInv, TypeOK
  <2> QED
    BY <1>1, <2>1 DEF PairingPhases
<1>4. /\ Table(found) /\ \A q \in Peers : Sound(found[q])
      /\ ActivePeers(found) = ActivePeers(link)
  <2>1. Table(found)
    BY <1>0, WithLinkTable
  <2>2. ActivePeers(found) = ActivePeers(link)
    BY <1>0, WithLinkSessions
  <2> QED
    BY <2>1, <2>2 DEF Table
<1> HIDE DEF found
\* What the handler does to the link of p; the other links are untouched.
<1>5. /\ \A q \in Peers : Sound(handled[q]) /\ (handled[q].valid => found[q].valid)
      /\ \A q \in Peers \ {p} : handled[q] = found[q]
      /\ marked => handled[p].active /\ ~goodbye
      /\ goodbye => ~handled[p].active
      /\ ~marked /\ ~goodbye => handled[p].active = found[p].active
  <2>1. CASE known
    <3>1. handled = [found EXCEPT ![p] = HandledLink(found[p], m)]
      BY <2>1
    <3>2. found \in [Peers -> Link]
      BY <1>4 DEF Table
    <3>3. handled[p] = HandledLink(found[p], m)
          /\ \A q \in Peers \ {p} : handled[q] = found[q]
      BY <3>1, <3>2
    <3>4. Establishes(found[p], m) => m.type # "goodbye"
      BY DEF Establishes
    <3> HIDE DEF handled
    <3> QED
      BY <2>1, <3>3, <3>4, <1>4, HandledLinkSound DEF Clean
  <2>2. CASE ~known
    BY <2>2, <1>4
  <2> QED
    BY <2>1, <2>2
<1>6. Table(handled)
  <2>1. handled \in [Peers -> Link]
    BY <1>4, <1>5 DEF Table, Sound
  <2> QED
    BY <2>1, <1>4, <1>5, ShrunkTable
<1>7. marked => known /\ p \in ActivePeers(handled)
  BY <1>5 DEF ActivePeers
<1> HIDE DEF handled
<1>8. ActivePeers(handled) =
        IF marked THEN ActivePeers(link) \cup {p}
        ELSE IF goodbye THEN ActivePeers(link) \ {p} ELSE ActivePeers(link)
  <2>1. ActivePeers(found) = ActivePeers(link)
    BY <1>4
  <2> QED
    BY <2>1, <1>5 DEF ActivePeers
\* The relay list has room: it is no longer than the link table.
<1>9. marked /\ ~(Cardinality(relay) < MaxPeers) => p \in relay
  <2> SUFFICES ASSUME marked, ~(Cardinality(relay) < MaxPeers)
               PROVE  p \in relay
    OBVIOUS
  <2>1. relay = ActivePeers(link)
    BY DEF IInv, RelayMatchesSessions
  <2>2. ActivePeers(link) \subseteq ValidPeers(found) /\ p \in ValidPeers(found)
    <3>1. \A q \in Peers : found[q].active => found[q].valid
      BY <1>4 DEF Sound, EmptyLink
    <3> QED
      BY <3>1, <1>4 DEF ActivePeers, ValidPeers
  <2>3. Cardinality(ValidPeers(found)) <= MaxPeers
    BY <1>4 DEF Table
  <2>4. /\ Cardinality(relay) \in Nat /\ Cardinality(ValidPeers(found)) \in Nat
        /\ Cardinality(relay) <= Cardinality(ValidPeers(found))
        /\ Cardinality(relay) = Cardinality(ValidPeers(found))
             => ValidPeers(found) = relay
    BY <2>1, <2>2, ValidSet, PeerSets, FS_Subset
  <2>5. Cardinality(relay) = Cardinality(ValidPeers(found))
    BY <2>3, <2>4, BoundsAssumption
  <2> QED
    BY <2>2, <2>4, <2>5
<1>10. listed = ActivePeers(handled)
  <2>1. relay = ActivePeers(link)
    BY DEF IInv, RelayMatchesSessions
  <2>2. CASE marked
    BY <2>1, <2>2, <1>5, <1>8, <1>9
  <2>3. CASE ~marked
    BY <2>1, <2>3, <1>8
  <2> QED
    BY <2>2, <2>3
<1>11. counted \in Nat /\ counted <= Cardinality(ActivePeers(handled))
  <2>1. readyCount \in Nat /\ readyCount <= Cardinality(ActivePeers(link))
    BY DEF IInv, TypeOK, ReadyCountBounded
  <2>2. ~(marked \/ goodbye) => ActivePeers(link) \subseteq ActivePeers(handled)
    BY <1>8
  <2>3. (marked \/ goodbye) \in BOOLEAN
    OBVIOUS
  <2> QED
    BY <2>1, <2>2, <2>3, RecountBounded
<1> HIDE DEF listed, counted, marked, goodbye, known
<1>12. /\ Table(link')
       /\ \A q \in Peers : q \notin tconn' => Clean(link'[q])
       /\ ActivePeers(link') = ActivePeers(handled) \ gone
  BY <1>2, <1>6, ReconciledTable
<1>13. relay' = ActivePeers(link')
  BY <1>2, <1>10, <1>12
<1>14. readyCount' \in Nat /\ readyCount' <= Cardinality(ActivePeers(link'))
  <2>1. ~(gone # {}) => ActivePeers(handled) \subseteq ActivePeers(link')
    BY <1>12
  <2>2. (gone # {}) \in BOOLEAN
    OBVIOUS
  <2> HIDE DEF gone
  <2> QED
    BY <2>1, <2>2, <1>2, <1>11, RecountBounded
<1>15. TypeRest'
  <2>1. tconn' \subseteq Peers /\ mirror' \subseteq Peers /\ relay' \subseteq Peers
    BY <1>2, <1>13, ValidSet DEF IInv, TypeOK
  <2>2. enabled' \in BOOLEAN /\ inbound' \in 0 .. QueueDepth
    BY BoundsAssumption DEF IInv, TypeOK, ReceiveFrom
  <2> QED
    BY <2>1, <2>2, <1>3, <1>14 DEF TypeRest
<1> QED
  BY <1>2, <1>12, <1>13, <1>14, <1>15, IInvFromParts DEF Table

LEMMA ConnectFailsParts ==
  ASSUME IInv, NEW p \in Peers, ConnectFails(p)
  PROVE  /\ Table(link') /\ ActivePeers(link') = ActivePeers(link)
         /\ \A q \in Peers : Clean(link[q]) => Clean(link'[q])
         /\ tconn' = tconn
BY IInvTable, WithLinkTable, WithLinkSessions DEF ConnectFails

LEMMA ConnectSucceedsParts ==
  ASSUME IInv, NEW p \in Peers, ConnectSucceeds(p)
  PROVE  /\ Table(link') /\ ActivePeers(link') = ActivePeers(link)
         /\ \A q \in Peers : Clean(link[q]) => Clean(link'[q])
         /\ tconn \subseteq tconn' /\ tconn' \subseteq Peers
<1>0. Table(link) /\ tconn \subseteq Peers
  BY IInvTable DEF IInv, TypeOK
<1>1. CASE UNCHANGED <<link, tconn>>
  BY <1>0, <1>1
<1>2. CASE /\ WithLink(link, p)[p].valid
           /\ link' = [WithLink(link, p) EXCEPT ![p].state = "connecting",
                                                ![p].age = HandshakeRetry]
           /\ tconn' = IF Cardinality(tconn) < MaxPeers
                       THEN tconn \cup {p} ELSE tconn
  <2> DEFINE K == WithLink(link, p)
  <2>1. Table(K)
    BY <1>0, WithLinkTable
  <2>2. /\ ActivePeers(K) = ActivePeers(link)
        /\ \A q \in Peers : Clean(link[q]) => Clean(K[q])
    BY <1>0, WithLinkSessions
  <2>3. K[p].valid /\ link' = [K EXCEPT ![p].state = "connecting",
                                        ![p].age = HandshakeRetry]
    BY <1>2
  <2> HIDE DEF K
  <2>4. K \in [Peers -> Link]
    BY <2>1 DEF Table
  <2> DEFINE k == [K[p] EXCEPT !.state = "connecting", !.age = HandshakeRetry]
  <2>a. k \in Link /\ SameSession(k, K[p])
    BY <2>4, BoundsAssumption DEF Link, LinkStates, SameSession
  <2>b. link' = [K EXCEPT ![p] = k]
    BY <2>3, <2>4
  <2> HIDE DEF k
  <2>5. link' \in [Peers -> Link]
    BY <2>a, <2>b, <2>4
  <2>6. \A q \in Peers : SameSession(link'[q], K[q])
    BY <2>a, <2>b, <2>4 DEF SameSession
  <2>7. \A q \in Peers : Sound(link'[q]) /\ (link'[q].valid => K[q].valid)
    <3>1. \A q \in Peers : link'[q].valid = K[q].valid
      BY <2>6 DEF SameSession
    <3>2. \A q \in Peers : q # p => link'[q] = K[q]
      BY <2>3, <2>4
    <3>3. link'[p].valid
      BY <2>3, <3>1
    <3>4. \A q \in Peers : link'[q] \in Link
      BY <2>5
    <3> QED
      BY <2>1, <3>1, <3>2, <3>3, <3>4 DEF Table, Sound
  <2>8. Table(link')
    BY <2>1, <2>5, <2>7, ShrunkTable
  <2>9. ActivePeers(link') = ActivePeers(K)
    BY <2>6 DEF ActivePeers, SameSession
  <2>10. \A q \in Peers : Clean(K[q]) => Clean(link'[q])
    BY <2>6 DEF Clean, SameSession
  <2> QED
    BY <1>0, <1>2, <2>2, <2>8, <2>9, <2>10
<1> QED
  BY <1>1, <1>2 DEF ConnectSucceeds

\* The parts of IInv that hold after connect_peer, with or without its sync.
LEMMA ConnectedParts ==
  ASSUME IInv, Table(link'), ActivePeers(link') = ActivePeers(link),
         \A q \in Peers : Clean(link[q]) => Clean(link'[q]),
         tconn \subseteq tconn', tconn' \subseteq Peers,
         mirror' = tconn' \/ mirror' = mirror,
         relay' = relay, readyCount' = readyCount, enabled' \in BOOLEAN,
         inbound' = inbound,
         pairing' \in [phase : PairingPhases, peer : Peers \cup {NoPeer}]
  PROVE  IInv'
<1>1. (relay = ActivePeers(link))'
  BY DEF IInv, RelayMatchesSessions
<1>2. (\A q \in Peers \ mirror : Clean(link[q]))'
  BY DEF IInv, NoStaleSession, NoSessionBehindMirror
<1>3. (\A q \in mirror \ tconn : Clean(link[q]))'
  BY DEF IInv, TypeOK, NoSessionBehindMirror
<1>4. (readyCount <= Cardinality(ActivePeers(link)))'
  BY DEF IInv, ReadyCountBounded
<1>5. TypeRest'
  BY DEF TypeRest, IInv, TypeOK
<1> QED
  BY <1>1, <1>2, <1>3, <1>4, <1>5, IInvFromParts DEF Table

LEMMA ConnectIInv ==
  ASSUME IInv, NEW p \in Peers, Connect(p)
  PROVE  IInv'
<1>0. /\ UNCHANGED <<relay, readyCount, pairing, enabled, inbound>>
      /\ pairing \in [phase : PairingPhases, peer : Peers \cup {NoPeer}]
      /\ enabled \in BOOLEAN /\ tconn \subseteq Peers
  BY DEF Connect, IInv, TypeOK
<1>1. CASE ConnectFails(p) /\ UNCHANGED mirror
  BY <1>0, <1>1, ConnectFailsParts, ConnectedParts
<1>2. CASE ConnectSucceeds(p) /\ mirror' = IF AlreadyUp(p) THEN mirror ELSE tconn'
  BY <1>0, <1>2, ConnectSucceedsParts, ConnectedParts
<1> QED
  BY <1>1, <1>2 DEF Connect

LEMMA PressPairButtonIInv ==
  ASSUME IInv, NEW p \in Peers, PressPairButton(p)
  PROVE  IInv'
<1>0. /\ UNCHANGED <<relay, readyCount, enabled, inbound>>
      /\ enabled \in BOOLEAN /\ tconn \subseteq Peers /\ Table(link)
      /\ pairing' \in [phase : PairingPhases, peer : Peers \cup {NoPeer}]
  BY IInvTable DEF PressPairButton, IInv, TypeOK, PairingPhases
<1>1. CASE UNCHANGED <<link, tconn, mirror>>
  BY <1>0, <1>1, ConnectedParts
<1>2. CASE ConnectFails(p) /\ UNCHANGED mirror
  BY <1>0, <1>2, ConnectFailsParts, ConnectedParts
<1>3. CASE ConnectSucceeds(p) /\ mirror' = tconn'
  BY <1>0, <1>3, ConnectSucceedsParts, ConnectedParts
<1> QED
  BY <1>1, <1>2, <1>3 DEF PressPairButton

\* Cutting the link of one peer, whether its slot is kept or freed.
LEMMA CutParts ==
  ASSUME IInv, NEW p \in Peers, NEW l, Sound(l), Clean(l),
         l.valid => link[p].valid, link' = [link EXCEPT ![p] = l]
  PROVE  /\ Table(link') /\ ActivePeers(link') = ActivePeers(link) \ {p}
         /\ Clean(link'[p])
         /\ \A q \in Peers : Clean(link[q]) => Clean(link'[q])
<1>1. Table(link) /\ link \in [Peers -> Link]
  BY IInvTable DEF Table
<1>2. link'[p] = l /\ \A q \in Peers : q # p => link'[q] = link[q]
  BY <1>1
<1>3. link' \in [Peers -> Link]
  BY <1>1 DEF Sound
<1>4. Table(link')
  <2>1. \A q \in Peers : Sound(link'[q]) /\ (link'[q].valid => link[q].valid)
    BY <1>1, <1>2 DEF Table
  <2> QED
    BY <2>1, <1>1, <1>3, ShrunkTable
<1>5. ActivePeers(link') = ActivePeers(link) \ {p}
  BY <1>2 DEF ActivePeers, Clean
<1> QED
  BY <1>2, <1>4, <1>5

\* The peer disconnected, the other peers' links untouched.
LEMMA DisconnectedParts ==
  ASSUME IInv, NEW p \in Peers, StackDisconnect(p), Table(link'),
         ActivePeers(link') = ActivePeers(link) \ {p}, Clean(link'[p]),
         \A q \in Peers : Clean(link[q]) => Clean(link'[q]),
         relay' = relay \ {p}
  PROVE  /\ (relay = ActivePeers(link))'
         /\ \A q \in Peers \ mirror' : Clean(link'[q])
         /\ mirror' \ tconn' = {} /\ tconn' \subseteq Peers
<1>1. (relay = ActivePeers(link))'
  BY DEF IInv, RelayMatchesSessions
<1>2. tconn' \in {tconn, tconn \ {p}} /\ mirror' = tconn'
  BY DEF StackDisconnect
<1>3. \A q \in Peers \ mirror' : Clean(link'[q])
  <2> SUFFICES ASSUME NEW q \in Peers \ mirror', q # p PROVE Clean(link'[q])
    OBVIOUS
  <2>1. q \notin tconn
    BY <1>2
  <2> QED
    BY <2>1 DEF IInv, NoStaleSession, NoSessionBehindMirror
<1> QED
  BY <1>1, <1>2, <1>3 DEF IInv, TypeOK

LEMMA DisconnectIInv ==
  ASSUME IInv, NEW p \in Peers, Disconnect(p)
  PROVE  IInv'
<1>0. /\ Sound(link[p]) /\ StackDisconnect(p) /\ relay' = relay \ {p}
      /\ link' = [link EXCEPT ![p] = CutOff(link[p])]
      /\ readyCount' = Recount(link[p].valid, link', readyCount)
      /\ UNCHANGED <<pairing, enabled, inbound>>
  BY IInvTable DEF Disconnect, Table
<1>1. /\ Table(link') /\ ActivePeers(link') = ActivePeers(link) \ {p}
      /\ Clean(link'[p])
      /\ \A q \in Peers : Clean(link[q]) => Clean(link'[q])
  BY <1>0, DroppedLink, CutParts
<1>2. /\ (relay = ActivePeers(link))'
      /\ \A q \in Peers \ mirror' : Clean(link'[q])
      /\ mirror' \ tconn' = {} /\ tconn' \subseteq Peers
  BY <1>0, <1>1, DisconnectedParts
<1>3. readyCount' \in Nat /\ readyCount' <= Cardinality(ActivePeers(link'))
  <2>1. ~link[p].valid => ActivePeers(link) \subseteq ActivePeers(link')
    BY <1>1, IInvTable DEF ActivePeers
  <2>2. link[p].valid \in BOOLEAN
    BY <1>0 DEF Sound, Link
  <2> QED
    BY <2>1, <2>2, <1>0, RecountBounded DEF IInv, TypeOK, ReadyCountBounded
<1>4. TypeRest'
  BY <1>0, <1>2, <1>3, ValidSet DEF TypeRest, IInv, TypeOK, StackDisconnect
<1> QED
  BY <1>1, <1>2, <1>3, <1>4, IInvFromParts DEF Table

LEMMA ClearPairingIInv ==
  ASSUME IInv, NEW p \in Peers, ClearPairing(p)
  PROVE  IInv'
<1>0. /\ link' = [link EXCEPT ![p] = EmptyLink] /\ readyCount' = 0
      /\ pairing' = NoPairing /\ UNCHANGED <<enabled, inbound>>
  BY DEF ClearPairing
<1>1. /\ Table(link') /\ ActivePeers(link') = ActivePeers(link) \ {p}
      /\ Clean(link'[p])
      /\ \A q \in Peers : Clean(link[q]) => Clean(link'[q])
  BY <1>0, SoundLinks, CutParts
<1>2. /\ (relay = ActivePeers(link))'
      /\ \A q \in Peers \ mirror' : Clean(link'[q])
      /\ \A q \in mirror' \ tconn' : Clean(link'[q])
      /\ tconn' \subseteq Peers /\ mirror' \subseteq Peers
  <2>1. CASE StackDisconnect(p) /\ relay' = relay \ {p}
    BY <2>1, <1>1, DisconnectedParts DEF StackDisconnect
  <2>2. CASE p \notin mirror /\ UNCHANGED <<tconn, mirror, relay>>
    <3>1. ~link[p].active
      BY <2>2 DEF IInv, NoStaleSession, Clean
    <3>2. ActivePeers(link') = ActivePeers(link)
      BY <3>1, <1>1 DEF ActivePeers
    <3> QED
      BY <2>2, <3>2, <1>1 DEF IInv, TypeOK, RelayMatchesSessions,
                              NoStaleSession, NoSessionBehindMirror
  <2> QED
    BY <2>1, <2>2 DEF ClearPairing
<1>3. readyCount' <= Cardinality(ActivePeers(link'))
  BY <1>0, ReadyAmongActive
<1>4. TypeRest'
  BY <1>0, <1>2, ValidSet
  DEF TypeRest, IInv, TypeOK, NoPairing, PairingPhases
<1> QED
  BY <1>1, <1>2, <1>3, <1>4, IInvFromParts DEF Table

\* A sync with the list C followed by a reconcile.
LEMMA ReconcileParts ==
  ASSUME IInv, NEW C \in SUBSET Peers, NEW c \in Nat,
         c <= Cardinality(ActivePeers(link)),
         tconn' = C, mirror' = C, link' = Reconciled(link, C),
         relay' = relay \ Unconnected(link, C),
         readyCount' = Recount(Unconnected(link, C) # {}, link', c),
         pairing' \in [phase : PairingPhases, peer : Peers \cup {NoPeer}],
         enabled' \in BOOLEAN, inbound' = inbound
  PROVE  IInv'
<1>1. /\ Table(link')
      /\ \A p \in Peers : p \notin C => Clean(link'[p])
      /\ ActivePeers(link') = ActivePeers(link) \ Unconnected(link, C)
  BY IInvTable, ReconciledTable
<1>2. relay' = ActivePeers(link')
  BY <1>1 DEF IInv, RelayMatchesSessions
<1>3. readyCount' \in Nat /\ readyCount' <= Cardinality(ActivePeers(link'))
  <2> DEFINE changed == Unconnected(link, C) # {}
  <2>1. changed \in BOOLEAN
    OBVIOUS
  <2>2. ~changed => ActivePeers(link) \subseteq ActivePeers(link')
    BY <1>1
  <2>3. readyCount' = Recount(changed, link', c)
    OBVIOUS
  <2>4. c \in Nat /\ c <= Cardinality(ActivePeers(link))
    OBVIOUS
  <2> HIDE DEF changed
  <2> QED
    BY ONLY <2>1, <2>2, <2>3, <2>4, RecountBounded
<1>4. TypeRest'
  BY <1>2, <1>3, ValidSet DEF TypeRest, IInv, TypeOK
<1> QED
  BY <1>1, <1>2, <1>3, <1>4, IInvFromParts DEF Table

LEMMA DisableIInv == IInv /\ Disable => IInv'
<1> SUFFICES ASSUME IInv, Disable PROVE IInv'
  OBVIOUS
<1>1. 0 <= Cardinality(ActivePeers(link))
  BY ReadyAmongActive
<1>2. pairing' \in [phase : PairingPhases, peer : Peers \cup {NoPeer}]
  BY DEF Disable, IInv, TypeOK, NoPairing, PairingPhases
<1> QED
  BY <1>1, <1>2, ReconcileParts DEF Disable

LEMMA EnableIInv == IInv /\ Enable => IInv'
<1> SUFFICES ASSUME IInv, Enable PROVE IInv'
  OBVIOUS
<1>1. /\ tconn \in SUBSET Peers /\ readyCount \in Nat
      /\ readyCount <= Cardinality(ActivePeers(link))
      /\ pairing \in [phase : PairingPhases, peer : Peers \cup {NoPeer}]
  BY DEF IInv, TypeOK, ReadyCountBounded
<1> QED
  BY <1>1, ReconcileParts DEF Enable

LEMMA TakeCompletedPairingIInv == IInv /\ TakeCompletedPairing => IInv'
BY DEF IInv, TypeOK, RelayMatchesSessions, NoStaleSession,
       NoSessionBehindMirror, ReadyCountBounded, TakeCompletedPairing,
       NoPairing, PairingPhases, ValidPeers, ActivePeers

LEMMA NextIInv == IInv /\ [Next]_vars => IInv'
<1> SUFFICES ASSUME IInv, [Next]_vars PROVE IInv'
  OBVIOUS
<1>1. CASE Poll
  BY <1>1, PollIInv
<1>2. ASSUME NEW p \in Peers,
             \/ ReceiveFrom(p) \/ Connect(p) \/ PressPairButton(p)
             \/ Disconnect(p) \/ ClearPairing(p)
      PROVE  IInv'
  BY <1>2, ReceiveIInv, ConnectIInv, PressPairButtonIInv, DisconnectIInv,
     ClearPairingIInv
<1>3. CASE TakeCompletedPairing \/ Disable \/ Enable
  BY <1>3, TakeCompletedPairingIInv, DisableIInv, EnableIInv
<1>4. CASE UNCHANGED vars
  BY <1>4 DEF vars, IInv, TypeOK, RelayMatchesSessions, NoStaleSession,
              NoSessionBehindMirror, ReadyCountBounded, ValidPeers, ActivePeers
<1> QED
  BY <1>1, <1>2, <1>3, <1>4 DEF Next

-----------------------------------------------------------------------------
\* The inductive invariant of every handler, for any number of peers, table
\* size, queue depth and timeouts.
THEOREM Invariance == Spec => []IInv
BY InitIInv, NextIInv, PTL DEF Spec

\* The link table never holds more links than it has slots, and every field of
\* the session layer keeps its type (bluetooth.c, get_peer_link and memset).
THEOREM TypeCorrect == Spec => []TypeOK
<1>1. IInv => TypeOK
  BY DEF IInv
<1> QED
  BY <1>1, Invariance, PTL

\* Audio goes to exactly the peers with an active session: intercom_add_peer
\* and intercom_remove_peer are called at the right places and the relay list
\* never overflows.
THEOREM RelayCorrect == Spec => []RelayMatchesSessions
<1>1. IInv => RelayMatchesSessions
  BY DEF IInv
<1> QED
  BY <1>1, Invariance, PTL

\* A link whose peer is not connected holds nothing of its last session:
\* reconcile_peer_links and note_disconnected_link miss no peer.
THEOREM StaleSessionsCleared == Spec => []NoStaleSession
<1>1. IInv => NoStaleSession
  BY DEF IInv
<1> QED
  BY <1>1, Invariance, PTL

\* Nor does the link of a peer that only the runtime's stale copy of the list
\* still names: handlers that resync without a reconcile hide no session.
THEOREM MirrorHidesNoSession == Spec => []NoSessionBehindMirror
<1>1. IInv => NoSessionBehindMirror
  BY DEF IInv
<1> QED
  BY <1>1, Invariance, PTL

\* The ready count never exceeds the number of active sessions: the runtime is
\* not operational (bluetooth_runtime_is_operational) without a session.
THEOREM ReadyCountCorrect == Spec => []ReadyCountBounded
<1>1. IInv => ReadyCountBounded
  BY DEF IInv
<1> QED
  BY <1>1, Invariance, PTL

-----------------------------------------------------------------------------
(* No session ends without a cause of its own peer.                         *)

\* A step after which no session is missing among the connected peers, those
\* of X excepted.
SessionsKept(X) ==
  \A p \in Peers \ X : link[p].active /\ p \in mirror' => link'[p].active

\* A poll ends the sessions that have been silent for SessionTimeout polls.
LEMMA PollEndsSilentOnly ==
  ASSUME IInv, Poll, NEW p \in Peers, link[p].active, ~link'[p].active,
         p \in mirror'
  PROVE  link[p].age + 1 >= SessionTimeout
<1>0. Sound(link[p]) /\ link[p].valid
  BY IInvTable DEF Table
<1> DEFINE aged == [q \in Peers |-> Older(link[q])]
<1>1. PICK C \in SUBSET Peers, fresh \in [Peers -> Sessions] :
        /\ \E sent \in SUBSET {q \in C : NeedsHello(Reconciled(aged, C)[q])} :
             link' = Serviced(Reconciled(aged, C), C, sent, fresh)
        /\ mirror' = C
  BY DEF Poll
<1> DEFINE rec == Reconciled(aged, C)
<1>2. PICK sent \in SUBSET {q \in C : NeedsHello(rec[q])} :
        link' = Serviced(rec, C, sent, fresh)
  BY <1>1
<1>3. /\ Older(link[p]).active /\ Older(link[p]).valid
      /\ Older(link[p]).age \in Nat
      /\ Older(link[p]).age <= link[p].age + 1 /\ link[p].age \in Nat
  BY <1>0, BoundsAssumption DEF Older, Sound, Link
<1>4. rec[p] = Older(link[p])
  BY <1>1, <1>3 DEF Reconciled, ReconciledLink
<1>5. ~NeedsHello(rec[p])
  BY <1>3, <1>4 DEF NeedsHello
<1>6. link'[p] = IF TimedOut(rec[p]) THEN Dropped(rec[p]) ELSE rec[p]
  BY <1>1, <1>2, <1>5 DEF Serviced
<1>7. TimedOut(rec[p])
  BY <1>3, <1>4, <1>6
<1> QED
  BY <1>3, <1>4, <1>7, BoundsAssumption DEF TimedOut

\* Reconciling spares the sessions of the connected peers.
LEMMA ReconciledKeeps ==
  ASSUME NEW L, Table(L), NEW C, NEW p \in Peers, L[p].active, p \in C
  PROVE  Reconciled(L, C)[p].active
BY ReconciledTable DEF SameSession

LEMMA ReceiveKeepsOthers ==
  ASSUME IInv, NEW p \in Peers, ReceiveFrom(p)
  PROVE  SessionsKept({p})
<1>1. Table(link)
  BY IInvTable
<1>2. Table(WithLink(link, p))
      /\ \A q \in Peers : q # p => WithLink(link, p)[q] = link[q]
  BY <1>1, WithLinkTable
<1> DEFINE found == WithLink(link, p)
<1>3. PICK m \in Messages :
        LET handled == IF found[p].valid
                       THEN [found EXCEPT ![p] = HandledLink(found[p], m)]
                       ELSE found
        IN  mirror' = tconn' /\ link' = Reconciled(handled, tconn')
  BY DEF ReceiveFrom
<1> DEFINE handled == IF found[p].valid
                      THEN [found EXCEPT ![p] = HandledLink(found[p], m)]
                      ELSE found
<1>4. \A q \in Peers : q # p => handled[q] = link[q]
  BY <1>2 DEF Table
<1>5. \A q \in Peers : link'[q] = ReconciledLink(handled[q], q \in tconn')
  BY <1>3 DEF Reconciled
<1> HIDE DEF handled
<1>6. ASSUME NEW q \in Peers, q # p, link[q].active, q \in tconn'
      PROVE  link'[q].active
  <2>1. link'[q] = ReconciledLink(link[q], TRUE)
    BY <1>4, <1>5, <1>6 DEF ReconciledLink
  <2>2. Sound(link[q])
    BY <1>1 DEF Table
  <2> QED
    BY <1>6, <2>1, <2>2, ReconciledLinkSound DEF SameSession
<1> QED
  BY <1>3, <1>6 DEF SessionsKept

\* A connect works on a link without a session, or changes nothing.
LEMMA ConnectKeeps ==
  ASSUME IInv, NEW p \in Peers, ConnectFails(p) \/ ConnectSucceeds(p)
  PROVE  SessionsKept({})
<1>1. Table(link) /\ \A q \in Peers : link[q].active => link[q].valid
  BY IInvTable
<1>2. /\ Table(WithLink(link, p))
      /\ \A q \in Peers : q # p => WithLink(link, p)[q] = link[q]
      /\ \/ WithLink(link, p)[p] = link[p]
         \/ ~link[p].valid /\ WithLink(link, p)[p] = NewLink
  BY <1>1, WithLinkTable
<1>3. \A q \in Peers : link[q].active => WithLink(link, p)[q].active
  BY <1>1, <1>2
<1>4. CASE link' = WithLink(link, p) \/ link' = link
  BY <1>3, <1>4 DEF SessionsKept
<1>5. CASE link' = [WithLink(link, p) EXCEPT ![p].state = "connecting",
                                             ![p].age = HandshakeRetry]
  <2>1. \A q \in Peers : link'[q].active = WithLink(link, p)[q].active
    BY <1>2, <1>5 DEF Table, Link
  <2> QED
    BY <1>3, <2>1 DEF SessionsKept
<1> QED
  BY <1>4, <1>5 DEF ConnectFails, ConnectSucceeds

LEMMA OtherStepsKeep ==
  ASSUME IInv, TakeCompletedPairing \/ Disable \/ Enable \/ UNCHANGED vars
  PROVE  SessionsKept({})
<1>1. Table(link)
  BY IInvTable
<1>2. CASE TakeCompletedPairing \/ UNCHANGED vars
  BY <1>2 DEF TakeCompletedPairing, vars, SessionsKept
<1>3. CASE Disable
  BY <1>3 DEF Disable, SessionsKept
<1>4. CASE Enable
  BY <1>1, <1>4, ReconciledKeeps DEF Enable, SessionsKept
<1> QED
  BY <1>2, <1>3, <1>4

\* A session over a link that stays connected ends only by its own peer's
\* packet, by an explicit disconnect or clear of that peer, or by silence.
THEOREM SessionsEndForCause == Spec => SessionEndsForCause
<1> DEFINE Cause(p) ==
      \/ link[p].age + 1 >= SessionTimeout
      \/ ReceiveFrom(p) \/ Disconnect(p) \/ ClearPairing(p)
<1>1. ASSUME IInv, [Next]_vars, NEW p \in Peers,
             link[p].active, ~link'[p].active, p \in mirror'
      PROVE  Cause(p)
  <2>1. CASE Poll
    BY <1>1, <2>1, PollEndsSilentOnly
  <2>2. ASSUME NEW q \in Peers, ReceiveFrom(q)
        PROVE  Cause(p)
    BY <1>1, <2>2, ReceiveKeepsOthers DEF SessionsKept
  <2>3. ASSUME NEW q \in Peers, Connect(q) \/ PressPairButton(q)
        PROVE  Cause(p)
    <3>1. ConnectFails(q) \/ ConnectSucceeds(q) \/ link' = link
      BY <2>3 DEF Connect, PressPairButton
    <3> QED
      BY <1>1, <3>1, ConnectKeeps DEF SessionsKept
  <2>4. ASSUME NEW q \in Peers, Disconnect(q) \/ ClearPairing(q)
        PROVE  Cause(p)
    <3>1. q # p => link'[p] = link[p]
      BY <1>1, <2>4 DEF Disconnect, ClearPairing, IInv, TypeOK
    <3> QED
      BY <1>1, <2>4, <3>1
  <2>5. CASE TakeCompletedPairing \/ Disable \/ Enable \/ UNCHANGED vars
    BY <1>1, <2>5, OtherStepsKeep DEF SessionsKept
  <2> QED
    BY <1>1, <2>1, <2>2, <2>3, <2>4, <2>5 DEF Next
<1>2. IInv /\ [Next]_vars =>
        [\A p \in Peers :
           link[p].active /\ ~link'[p].active /\ p \in mirror' =>
             \/ link[p].age + 1 >= SessionTimeout
             \/ ReceiveFrom(p) \/ Disconnect(p) \/ ClearPairing(p)]_vars
  BY <1>1
<1> QED
  BY <1>2, Invariance, PTL DEF Spec, SessionEndsForCause
=============================================================================
