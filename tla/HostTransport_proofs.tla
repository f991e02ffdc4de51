------------------------ MODULE HostTransport_proofs ------------------------
(***************************************************************************)
(* The table of the host transport for any number of headsets, any table   *)
(* size and any timeout: however its rows are made, purged and moved up,   *)
(* no peer has two of them, the count beside it is exact, and a connected  *)
(* headset keeps its row.  On that rests the contract with the session     *)
(* layer: no packet waits for headsets that are off the list, no headset   *)
(* comes back that was cut, and every step is one of Transport.            *)
(***************************************************************************)
EXTENDS HostTransport, PacketQueue_proofs

Table == [Indices -> Row]

Used(R) == {i \in Indices : R[i].peer # NoPeer}

Single(R) ==
  \A i, j \in Indices : R[i].peer = R[j].peer /\ R[i].peer # NoPeer => i = j

\* The part of TypeOK that the table depends on.
TableType ==
  /\ rows \in Table /\ count \in Nat
  /\ remembered \subseteq Peers /\ listed \subseteq Peers /\ now \in Ages

IInv == TableType /\ TableExact /\ ListedKeepsRow

\* Tables that hold the same peers in the same places.
SamePeers(R, T) == \A i \in Indices : T[i].peer = R[i].peer

-----------------------------------------------------------------------------
(***************************************************************************)
(* Rows and tables.                                                        *)
(***************************************************************************)

LEMMA Sizes ==
  /\ MaxPeers \in Nat /\ MaxPeers >= 1 /\ Timeout \in Nat
  /\ 0 \in Ages /\ \A a \in Ages : Older(a) \in Ages
  /\ \A i \in Indices : i \in Nat /\ i >= 1 /\ i <= MaxPeers
BY BoundsAssumption DEF Ages, Older, Indices

LEMMA EmptyRowType == EmptyRow \in Row /\ EmptyRow.peer = NoPeer
BY Sizes DEF EmptyRow, Row

LEMMA NewRowType ==
  ASSUME NEW p \in Peers, now \in Ages
  PROVE  NewRow(p) \in Row /\ NewRow(p).peer = p
BY Sizes DEF NewRow, EmptyRow, Row

LEMMA TableTuple ==
  ASSUME NEW R \in Table, NEW i \in Indices
  PROVE  /\ R[i] \in Row /\ R[i].peer \in Peers \cup {NoPeer}
         /\ R[i].age \in Ages
BY DEF Table, Row

LEMMA UsedFinite ==
  ASSUME NEW R
  PROVE  /\ IsFiniteSet(Used(R)) /\ Cardinality(Used(R)) \in Nat
         /\ Cardinality(Used(R)) <= MaxPeers
         /\ Used(R) # Indices => Cardinality(Used(R)) < MaxPeers
<1>1. IsFiniteSet(Indices) /\ Cardinality(Indices) = MaxPeers
  BY Sizes, FS_Interval DEF Indices
<1>2. Used(R) \in SUBSET Indices
  BY DEF Used
<1>3. /\ IsFiniteSet(Used(R))
      /\ Cardinality(Used(R)) <= Cardinality(Indices)
      /\ Cardinality(Indices) = Cardinality(Used(R)) => Indices = Used(R)
  BY <1>1, <1>2, FS_Subset
<1>4. Cardinality(Used(R)) \in Nat
  BY <1>3, FS_CardinalityType
<1>5. QED
  BY <1>1, <1>3, <1>4, Sizes

\* The invariant looks at the peers of the rows only.
LEMMA SamePeersExact ==
  ASSUME NEW R, NEW T, SamePeers(R, T)
  PROVE  /\ Used(T) = Used(R)
         /\ Single(R) => Single(T)
         /\ \A p : Known(R, p) => Known(T, p)
BY DEF SamePeers, Used, Single, Known

LEMMA IndexOfKnown ==
  ASSUME NEW R, NEW p, Known(R, p)
  PROVE  IndexOf(R, p) \in Indices /\ R[IndexOf(R, p)].peer = p
BY DEF Known, IndexOf

LEMMA FirstIndex ==
  ASSUME NEW S \in SUBSET Indices, S # {}
  PROVE  \E i \in S : \A j \in S : i <= j
BY Sizes, FirstPlace

-----------------------------------------------------------------------------
(***************************************************************************)
(* get_discovered_peer(create).                                            *)
(***************************************************************************)

\* A table with the peer in it, or the table there was, which is then full;
\* the count goes with it.
LEMMA WithRowExact ==
  ASSUME IInv, NEW p \in Peers
  PROVE  /\ WithRow(rows, p) \in Table
         /\ Single(WithRow(rows, p))
         /\ CountWith(p) = Cardinality(Used(WithRow(rows, p)))
         /\ CountWith(p) \in Nat
         /\ \A q \in Peers : Known(rows, q) => Known(WithRow(rows, p), q)
<1> DEFINE R == WithRow(rows, p)
           free == {i \in Indices : rows[i].peer = NoPeer}
           first == CHOOSE i \in free : \A j \in free : i <= j
<1>1. /\ rows \in Table /\ now \in Ages /\ Single(rows)
      /\ count = Cardinality(Used(rows)) /\ count \in Nat
  BY DEF IInv, TableType, TableExact, Used, Single
<1>2. CASE Known(rows, p) \/ free = {}
  <2>1. R = rows
    BY <1>2 DEF WithRow
  <2>2. CountWith(p) = count
    BY <2>1 DEF CountWith
  <2>3. QED
    BY <1>1, <2>1, <2>2
<1>3. CASE ~Known(rows, p) /\ free # {}
  <2>1. R = [rows EXCEPT ![first] = NewRow(p)]
    BY <1>3 DEF WithRow
  <2>2. first \in free
    <3>1. free \in SUBSET Indices
      OBVIOUS
    <3>2. \E i \in free : \A j \in free : i <= j
      BY <1>3, <3>1, FirstIndex
    <3>3. QED
      BY <3>2
  <2>3. first \in Indices /\ rows[first].peer = NoPeer
    BY <2>2
  <2> HIDE DEF R, free, first
  <2>4. R \in Table
    BY <1>1, <2>1, NewRowType DEF Table
  <2>5. \A i \in Indices :
          R[i].peer = IF i = first THEN p ELSE rows[i].peer
    BY <1>1, <2>1, NewRowType DEF Table
  <2>6. p # NoPeer
    BY PeersAssumption
  <2>7. Single(R)
    BY <1>1, <1>3, <2>3, <2>5 DEF Single, Known
  <2>8. Used(R) = Used(rows) \cup {first} /\ first \notin Used(rows)
    BY <2>3, <2>5, <2>6 DEF Used
  <2>9. Cardinality(Used(R)) = count + 1
    BY <1>1, <2>8, UsedFinite, FS_AddElement
  <2>10. count < MaxPeers
    <3>1. Used(rows) # Indices
      BY <2>3, <2>8
    <3>2. QED
      BY <1>1, <3>1, UsedFinite
  <2>11. Known(R, p)
    BY <2>3, <2>5 DEF Known
  <2>12. CountWith(p) = count + 1
    BY <1>3, <2>10, <2>11 DEF CountWith, R
  <2>13. \A q \in Peers : Known(rows, q) => Known(R, q)
    BY <2>3, <2>5, PeersAssumption DEF Known
  <2>14. QED
    BY <1>1, <2>4, <2>7, <2>9, <2>12, <2>13 DEF R
<1>4. QED
  BY <1>2, <1>3

\* A call that makes at most a row for p keeps the invariant.
LEMMA RowAdded ==
  ASSUME IInv, NEW p \in Peers, rows' \in Table, SamePeers(WithRow(rows, p), rows'),
         count' = CountWith(p), now' = now,
         remembered' = remembered \cup {p},
         listed' \subseteq listed \cup {p},
         p \in listed' \ listed => Known(WithRow(rows, p), p)
  PROVE  IInv'
<1> DEFINE R == WithRow(rows, p)
<1>1. /\ R \in Table /\ Single(R)
      /\ count' = Cardinality(Used(R)) /\ count' \in Nat
      /\ \A q \in Peers : Known(rows, q) => Known(R, q)
  BY WithRowExact
<1>2. /\ Used(rows') = Used(R) /\ Single(rows')
      /\ \A q : Known(R, q) => Known(rows', q)
  BY <1>1, SamePeersExact
<1>3. TableType'
  BY <1>1 DEF IInv, TableType
<1>4. TableExact'
  BY <1>1, <1>2 DEF TableExact, Used, Single
<1>5. ListedKeepsRow'
  <2> SUFFICES ASSUME NEW q \in listed'
               PROVE  q \in remembered' /\ Known(rows', q)
    BY DEF ListedKeepsRow, Known
  <2>1. CASE q \in listed
    <3>1. q \in remembered /\ Known(rows, q) /\ q \in Peers
      BY <2>1 DEF IInv, ListedKeepsRow, TableType
    <3>2. QED
      BY <1>1, <1>2, <3>1
  <2>2. CASE q \notin listed
    BY <1>2, <2>2
  <2>3. QED
    BY <2>1, <2>2
<1>6. QED
  BY <1>3, <1>4, <1>5 DEF IInv

\* A call that leaves peers and rows where they are, and lists no one new.
LEMMA RowsKept ==
  ASSUME IInv, rows' \in Table, SamePeers(rows, rows'), count' = count, now' \in Ages,
         remembered \subseteq remembered', remembered' \subseteq Peers,
         listed' \subseteq listed
  PROVE  IInv'
<1>1. /\ Used(rows') = Used(rows)
      /\ Single(rows) => Single(rows')
      /\ \A q : Known(rows, q) => Known(rows', q)
  BY SamePeersExact
<1>2. TableType'
  BY DEF IInv, TableType
<1>3. TableExact'
  BY <1>1 DEF IInv, TableExact, Used, Single
<1>4. ListedKeepsRow'
  <2> SUFFICES ASSUME NEW q \in listed'
               PROVE  q \in remembered' /\ Known(rows', q)
    BY DEF ListedKeepsRow, Known
  <2>1. QED
    BY <1>1 DEF IInv, ListedKeepsRow
<1>5. QED
  BY <1>2, <1>3, <1>4 DEF IInv

-----------------------------------------------------------------------------
(***************************************************************************)
(* connect, restore_pairing, report_peer and the disconnects.              *)
(***************************************************************************)

\* mark_connected leaves the peers of the rows alone.
LEMMA MarkedKeeps ==
  ASSUME NEW R, NEW T \in Table, SamePeers(R, T), NEW I
  PROVE  Marked(T, I) \in Table /\ SamePeers(R, Marked(T, I))
BY DEF Marked, Table, Row, SamePeers

LEMMA ConnectInvariant ==
  ASSUME IInv, NEW p \in Peers, Connect(p)
  PROVE  IInv'
<1> DEFINE R == WithRow(rows, p)
           k == IndexOf(R, p)
<1>1. R \in Table
  BY WithRowExact
<1>2. now' = now /\ now \in Ages /\ remembered' = remembered \cup {p}
      /\ rows \in Table /\ remembered \subseteq Peers
  BY DEF Connect, IInv, TableType
<1>3. Known(R, p) => k \in Indices /\ R[k].peer = p
  BY IndexOfKnown
<1>4. CASE UNCHANGED <<rows, count, listed>>
  BY <1>2, <1>4, RowsKept DEF SamePeers
<1>5. CASE /\ Known(R, p) /\ rows' = [R EXCEPT ![k].pending = TRUE]
           /\ count' = CountWith(p) /\ UNCHANGED listed
  <2>1. rows' \in Table /\ SamePeers(R, rows')
    BY <1>1, <1>3, <1>5 DEF Table, Row, SamePeers
  <2>2. QED
    BY <1>2, <1>5, <2>1, RowAdded
<1>6. CASE /\ Known(R, p) /\ rows' = Marked([R EXCEPT ![k].ready = TRUE], {k})
           /\ count' = CountWith(p) /\ listed' \subseteq listed \cup {p}
  <2>1. [R EXCEPT ![k].ready = TRUE] \in Table
        /\ SamePeers(R, [R EXCEPT ![k].ready = TRUE])
    BY <1>1, <1>3, <1>6 DEF Table, Row, SamePeers
  <2>2. rows' \in Table /\ SamePeers(R, rows')
    BY <1>6, <2>1, MarkedKeeps
  <2>3. QED
    BY <1>2, <1>6, <2>2, RowAdded
<1>7. QED
  <2>1. \/ UNCHANGED <<rows, count, listed>>
        \/ /\ Known(R, p) /\ rows' = [R EXCEPT ![k].pending = TRUE]
           /\ count' = CountWith(p) /\ UNCHANGED listed
        \/ /\ Known(R, p) /\ rows' = Marked([R EXCEPT ![k].ready = TRUE], {k})
           /\ count' = CountWith(p) /\ listed' \subseteq listed \cup {p}
    BY DEF Connect
  <2>2. QED
    BY <1>4, <1>5, <1>6, <2>1

LEMMA RestoreInvariant ==
  ASSUME IInv, NEW p \in Peers, Restore(p)
  PROVE  IInv'
<1> DEFINE R == WithRow(rows, p)
<1>1. R \in Table
  BY WithRowExact
<1>2. rows' = [i \in Indices |->
                 IF R[i].peer = p THEN [R[i] EXCEPT !.blocked = FALSE] ELSE R[i]]
  BY DEF Restore
<1>3. rows' \in Table /\ SamePeers(R, rows')
  BY <1>1, <1>2 DEF Table, Row, SamePeers
<1>4. QED
  BY <1>3, RowAdded DEF Restore

LEMMA ReportInvariant ==
  ASSUME IInv, NEW p \in Peers, NEW ready \in BOOLEAN, Report(p, ready)
  PROVE  IInv'
<1> DEFINE R == WithRow(rows, p)
           k == IndexOf(R, p)
<1>1. /\ R \in Table /\ Single(R)
      /\ count' = Cardinality(Used(R)) /\ count' \in Nat
      /\ \A q \in Peers : Known(rows, q) => Known(R, q)
  BY WithRowExact DEF Report
<1>2. k \in Indices /\ R[k].peer = p
  BY IndexOfKnown DEF Report
<1>3. rows' \in Table /\ SamePeers(R, rows')
  <2>1. rows' = [R EXCEPT ![k].ready = ready, ![k].unseen = (now = 0),
                          ![k].age = 0]
    BY DEF Report
  <2>2. (now = 0) \in BOOLEAN /\ 0 \in Ages
    BY Sizes
  <2>3. rows' = [R EXCEPT ![k] = [R[k] EXCEPT !.ready = ready,
                                   !.unseen = (now = 0), !.age = 0]]
    BY <1>1, <1>2, <2>1 DEF Table, Row
  <2>4. [R[k] EXCEPT !.ready = ready, !.unseen = (now = 0), !.age = 0] \in Row
        /\ [R[k] EXCEPT !.ready = ready, !.unseen = (now = 0), !.age = 0].peer
             = R[k].peer
    BY <1>1, <1>2, <2>2 DEF Table, Row
  <2> HIDE DEF R, k
  <2>5. QED
    BY <1>1, <1>2, <2>3, <2>4 DEF Table, SamePeers
<1>4. /\ Used(rows') = Used(R) /\ Single(rows')
      /\ \A q : Known(R, q) => Known(rows', q)
  BY <1>1, <1>3, SamePeersExact
<1>5. TableType' /\ TableExact'
  BY <1>1, <1>3, <1>4 DEF Report, IInv, TableType, TableExact, Used, Single
<1>6. ListedKeepsRow'
  <2> SUFFICES ASSUME NEW q \in listed
               PROVE  q \in remembered /\ Known(rows', q)
    BY DEF ListedKeepsRow, Known, Report
  <2>1. QED
    BY <1>1, <1>4 DEF IInv, ListedKeepsRow, TableType
<1>7. QED
  BY <1>5, <1>6 DEF IInv

\* pending and blocked of the row of p, whatever they are set to.
LEMMA HungUpKeeps ==
  ASSUME NEW R \in Table, NEW p \in Peers, NEW block \in BOOLEAN
  PROVE  HungUp(R, p, block) \in Table /\ SamePeers(R, HungUp(R, p, block))
BY DEF HungUp, Table, Row, SamePeers

LEMMA LeaveInvariant ==
  ASSUME IInv, NEW p \in Peers, Disconnect(p) \/ SessionTimeout(p)
  PROVE  IInv'
<1>1. rows \in Table /\ now \in Ages /\ remembered \subseteq Peers
  BY DEF IInv, TableType
<1>2. /\ rows' \in {HungUp(rows, p, TRUE), HungUp(rows, p, FALSE)}
      /\ UNCHANGED <<count, remembered, now>> /\ listed' \subseteq listed
  BY DEF Disconnect, SessionTimeout, OffTheList
<1>3. rows' \in Table /\ SamePeers(rows, rows')
  BY <1>1, <1>2, HungUpKeeps
<1>4. QED
  BY <1>1, <1>2, <1>3, RowsKept

-----------------------------------------------------------------------------
(***************************************************************************)
(* clear_pairing: the rows behind the one that goes move up.               *)
(***************************************************************************)

\* Where row i comes from, when the row at d goes and c rows are counted.
LEMMA MovedUp ==
  ASSUME NEW R \in Table, NEW c \in Nat, c <= MaxPeers, NEW d \in 1 .. c,
         NEW E, E = [i \in Indices |->
                       IF i < d \/ i > c THEN R[i]
                       ELSE IF i < c THEN R[i + 1] ELSE EmptyRow],
         Single(R), R[d].peer # NoPeer
  PROVE  /\ E \in Table /\ Single(E)
         /\ Cardinality(Used(E)) = Cardinality(Used(R)) - 1
         /\ \A q : q # NoPeer /\ q # R[d].peer /\ Known(R, q) => Known(E, q)
<1> DEFINE S == Used(R) \ {d}
           f == [j \in S |-> IF j < d \/ j > c THEN j ELSE j - 1]
<1>1. \A i \in Indices : i < c => i + 1 \in Indices
  BY Sizes DEF Indices
<1>2. d \in Indices /\ d \in Used(R)
  BY Sizes DEF Indices, Used
<1>3. E \in Table
  BY <1>1, EmptyRowType DEF Table
<1>4. \A j \in S : /\ j \in Indices /\ j # d /\ R[j].peer # NoPeer
                   /\ f[j] \in Indices /\ E[f[j]] = R[j]
  <2> SUFFICES ASSUME NEW j \in S
               PROVE  /\ j \in Indices /\ j # d /\ R[j].peer # NoPeer
                      /\ f[j] \in Indices /\ E[f[j]] = R[j]
    OBVIOUS
  <2>1. j \in Indices /\ j # d /\ R[j].peer # NoPeer /\ j \in Nat /\ d \in Nat
    BY Sizes DEF Used
  <2>2. CASE j < d \/ j > c
    BY <2>1, <2>2
  <2>3. CASE j > d /\ j <= c
    <3>1. /\ f[j] = j - 1 /\ j - 1 \in Indices /\ ~(j - 1 < d)
          /\ ~(j - 1 > c) /\ j - 1 < c /\ (j - 1) + 1 = j
      BY <2>1, <2>3, Sizes DEF Indices
    <3>2. QED
      BY <2>1, <3>1
  <2>4. QED
    BY <2>1, <2>2, <2>3
<1>5. f \in [S -> Used(E)]
  BY <1>4 DEF Used
<1>6. \A a, b \in S : f[a] = f[b] => a = b
  <2> SUFFICES ASSUME NEW a \in S, NEW b \in S, f[a] = f[b] PROVE a = b
    OBVIOUS
  <2>1. R[a].peer = R[b].peer /\ R[a].peer # NoPeer /\ a \in Indices /\ b \in Indices
    BY <1>4
  <2>2. QED
    BY <2>1 DEF Single
<1>7. \A i \in Used(E) : \E j \in S : f[j] = i
  <2> SUFFICES ASSUME NEW i \in Used(E) PROVE \E j \in S : f[j] = i
    OBVIOUS
  <2>1. i \in Indices /\ E[i].peer # NoPeer /\ i \in Nat /\ d \in Nat
    BY Sizes DEF Used
  <2>2. CASE i < d \/ i > c
    <3>1. E[i] = R[i] /\ i \in S
      BY <2>1, <2>2 DEF Used
    <3>2. QED
      BY <2>2, <3>1
  <2>3. CASE i >= d /\ i < c
    <3>1. E[i] = R[i + 1] /\ i + 1 \in Indices
      BY <1>1, <2>1, <2>3
    <3>2. i + 1 \in S /\ f[i + 1] = i
      BY <2>1, <2>3, <3>1 DEF Used
    <3>3. QED
      BY <3>2
  <2>4. CASE i = c
    <3>1. E[i] = EmptyRow
      BY <2>1, <2>4
    <3>2. QED
      BY <2>1, <3>1, EmptyRowType
  <2>5. QED
    BY <2>1, <2>2, <2>3, <2>4
<1> HIDE DEF f
<1>8. Cardinality(Used(E)) = Cardinality(Used(R)) - 1
  <2>1. IsFiniteSet(S) /\ Cardinality(S) = Cardinality(Used(R)) - 1
    BY <1>2, UsedFinite, FS_RemoveElement
  <2>2. f \in Bijection(S, Used(E))
    BY <1>5, <1>6, <1>7, Fun_IsBij
  <2>3. ExistsBijection(S, Used(E))
    BY <2>2, Fun_ExistsBij
  <2>4. QED
    BY <2>1, <2>3, FS_Bijection
<1>9. Single(E)
  <2> SUFFICES ASSUME NEW i \in Indices, NEW j \in Indices,
                      E[i].peer = E[j].peer, E[i].peer # NoPeer
               PROVE  i = j
    BY DEF Single
  <2>1. PICK a \in S : f[a] = i
    BY <1>7 DEF Used
  <2>2. PICK b \in S : f[b] = j
    BY <1>7 DEF Used
  <2>3. R[a].peer = R[b].peer /\ R[a].peer # NoPeer /\ a \in Indices /\ b \in Indices
    BY <1>4, <2>1, <2>2
  <2>4. QED
    BY <2>1, <2>2, <2>3 DEF Single
<1>10. \A q : q # NoPeer /\ q # R[d].peer /\ Known(R, q) => Known(E, q)
  <2> SUFFICES ASSUME NEW q, q # NoPeer, q # R[d].peer, NEW j \in Indices,
                      R[j].peer = q
               PROVE  Known(E, q)
    BY DEF Known
  <2>1. j \in S
    BY DEF Used
  <2>2. QED
    BY <1>4, <2>1 DEF Known
<1>11. QED
  BY <1>3, <1>8, <1>9, <1>10

\* The table after a clear, and the count.
LEMMA ErasedExact ==
  ASSUME NEW R \in Table, Single(R), count = Cardinality(Used(R)), NEW p \in Peers
  PROVE  /\ Erased(R, p) \in Table /\ Single(Erased(R, p))
         /\ Cardinality(Used(Erased(R, p)))
              = IF \E i \in 1 .. count : R[i].peer = p THEN count - 1 ELSE count
         /\ \A q \in Peers \ {p} : Known(R, q) => Known(Erased(R, p), q)
<1> DEFINE doomed == {i \in 1 .. count : R[i].peer = p}
           d == CHOOSE i \in doomed : TRUE
           E == [i \in Indices |->
                   IF i < d \/ i > count THEN R[i]
                   ELSE IF i < count THEN R[i + 1] ELSE EmptyRow]
<1>1. count \in Nat /\ count <= MaxPeers
  BY UsedFinite
<1>2. CASE doomed = {}
  <2>1. Erased(R, p) = R /\ ~\E i \in 1 .. count : R[i].peer = p
    BY <1>2 DEF Erased
  <2>2. QED
    BY <2>1
<1>3. CASE doomed # {}
  <2>1. d \in 1 .. count /\ R[d].peer = p
    BY <1>3
  <2>2. Erased(R, p) = E
    BY <1>3 DEF Erased
  <2>3. p # NoPeer /\ \A q \in Peers : q # NoPeer
    BY PeersAssumption
  <2> HIDE DEF d
  <2>4. /\ E \in Table /\ Single(E)
        /\ Cardinality(Used(E)) = Cardinality(Used(R)) - 1
        /\ \A q : q # NoPeer /\ q # R[d].peer /\ Known(R, q) => Known(E, q)
    BY <1>1, <2>1, <2>3, MovedUp
  <2>5. \E i \in 1 .. count : R[i].peer = p
    BY <2>1
  <2> HIDE DEF E
  <2>6. QED
    BY <2>1, <2>2, <2>3, <2>4, <2>5
<1>4. QED
  BY <1>2, <1>3

LEMMA ClearInvariant ==
  ASSUME IInv, NEW p \in Peers, Clear(p)
  PROVE  IInv'
<1> DEFINE R == IF p \in listed THEN HungUp(rows, p, TRUE) ELSE rows
<1>1. /\ rows \in Table /\ Single(rows) /\ count = Cardinality(Used(rows))
      /\ count \in Nat /\ now \in Ages
      /\ remembered \subseteq Peers /\ listed \subseteq Peers
  BY DEF IInv, TableType, TableExact, Used, Single
<1>2. R \in Table /\ SamePeers(rows, R)
  BY <1>1, HungUpKeeps DEF SamePeers
<1>3. Single(R) /\ Used(R) = Used(rows) /\ \A q : Known(rows, q) => Known(R, q)
  BY <1>1, <1>2, SamePeersExact
<1>4. (\E i \in 1 .. count : R[i].peer = p)
        <=> (\E i \in 1 .. count : rows[i].peer = p)
  <2>1. count <= MaxPeers
    BY <1>1, UsedFinite
  <2>2. 1 .. count \subseteq Indices
    BY <1>1, <2>1, Sizes DEF Indices
  <2>3. QED
    BY <1>2, <2>2 DEF SamePeers
<1>5. /\ rows' = Erased(R, p)
      /\ count' = IF \E i \in 1 .. count : rows[i].peer = p
                  THEN count - 1 ELSE count
      /\ remembered' = remembered \ {p} /\ now' = now
      /\ listed' = listed \ {p}
  BY DEF Clear, OffTheList
<1> HIDE DEF R
<1>6. /\ rows' \in Table /\ Single(rows')
      /\ Cardinality(Used(rows')) = count'
      /\ \A q \in Peers \ {p} : Known(R, q) => Known(rows', q)
  BY <1>1, <1>2, <1>3, <1>4, <1>5, ErasedExact
<1>7. TableType' /\ TableExact'
  <2>1. count' \in Nat
    BY <1>6, UsedFinite
  <2>2. QED
    BY <1>1, <1>5, <1>6, <2>1 DEF TableType, TableExact, Used, Single
<1>8. ListedKeepsRow'
  <2> SUFFICES ASSUME NEW q \in listed'
               PROVE  q \in remembered' /\ Known(rows', q)
    BY DEF ListedKeepsRow, Known
  <2>1. q \in listed /\ q # p /\ q \in Peers
    BY <1>1, <1>5
  <2>2. q \in remembered /\ Known(rows, q)
    BY <2>1 DEF IInv, ListedKeepsRow
  <2>3. QED
    BY <1>3, <1>5, <1>6, <2>1, <2>2
<1>9. QED
  BY <1>7, <1>8 DEF IInv

-----------------------------------------------------------------------------
(***************************************************************************)
(* poll.                                                                   *)
(***************************************************************************)

\* The rows that are purged are in use, and no listed peer needs them.
LEMMA PollInvariant == IInv /\ Poll => IInv'
<1> SUFFICES ASSUME IInv, Poll PROVE IInv'
  OBVIOUS
<1> DEFINE aged == [i \in Indices |->
                      IF rows[i].peer = NoPeer THEN rows[i]
                      ELSE [rows[i] EXCEPT !.age = Older(@)]]
           purged == {i \in Indices : Purgeable(aged[i])}
           due == {i \in Indices : Due(aged[i])}
           seated == {i \in due : Cardinality({j \in due : j < i})
                                    < MaxPeers - Cardinality(listed)}
<1>1. /\ rows \in Table /\ Single(rows) /\ count = Cardinality(Used(rows))
      /\ count \in Nat /\ now \in Ages
      /\ remembered \subseteq Peers /\ listed \subseteq Peers
  BY DEF IInv, TableType, TableExact, Used, Single
<1>2. /\ rows' = [i \in Indices |-> IF i \in purged THEN EmptyRow
                                    ELSE Marked(aged, due)[i]]
      /\ count' = IF Cardinality(purged) > count
                  THEN 0 ELSE count - Cardinality(purged)
      /\ listed' = listed \cup {rows[i].peer : i \in seated}
      /\ remembered' = remembered /\ now' = Older(now)
  BY DEF Poll
<1>3. aged \in Table /\ SamePeers(rows, aged)
  BY <1>1, Sizes DEF Table, Row, SamePeers
<1>4. \A i \in Indices : Marked(aged, due)[i] \in Row
                         /\ Marked(aged, due)[i].peer = rows[i].peer
  BY <1>3 DEF Marked, Table, Row, SamePeers
<1>5. \A i \in purged : /\ i \in Indices /\ rows[i].peer # NoPeer
                        /\ rows[i].peer \notin listed \cup remembered
  BY <1>3 DEF Purgeable, Stale, SamePeers
<1>6. \A i \in seated : /\ i \in Indices /\ i \notin purged
                        /\ rows[i].peer \in remembered
  BY <1>3 DEF Due, Purgeable, SamePeers
<1> HIDE DEF aged, purged, due, seated
<1>7. rows' \in Table
  BY <1>2, <1>4, EmptyRowType DEF Table
<1>8. \A i \in Indices :
        rows'[i].peer = IF i \in purged THEN NoPeer ELSE rows[i].peer
  BY <1>2, <1>4, EmptyRowType
<1>9. Used(rows') = Used(rows) \ purged /\ purged \subseteq Used(rows)
  BY <1>5, <1>8 DEF Used
<1>10. Single(rows')
  BY <1>1, <1>8 DEF Single
<1>11. count' = Cardinality(Used(rows'))
  <2>1. IsFiniteSet(Used(rows)) /\ Used(rows) \cap purged = purged
    BY <1>9, UsedFinite
  <2>2. Cardinality(Used(rows')) = count - Cardinality(purged)
    BY <1>1, <1>9, <2>1, FS_Difference
  <2>3. /\ IsFiniteSet(purged) /\ Cardinality(purged) <= count
        /\ Cardinality(purged) \in Nat
    BY <1>1, <1>9, <2>1, FS_Subset, FS_CardinalityType
  <2>4. QED
    BY <1>1, <1>2, <2>2, <2>3
<1>12. TableType'
  <2>1. count' \in Nat
    BY <1>11, UsedFinite
  <2>2. listed' \subseteq Peers
    BY <1>1, <1>2, <1>6
  <2>3. now' \in Ages
    BY <1>1, <1>2, Sizes
  <2>4. QED
    BY <1>1, <1>2, <1>7, <2>1, <2>2, <2>3 DEF TableType
<1>13. TableExact'
  BY <1>10, <1>11 DEF TableExact, Used, Single
<1>14. ListedKeepsRow'
  <2> SUFFICES ASSUME NEW q \in listed'
               PROVE  q \in remembered' /\ Known(rows', q)
    BY DEF ListedKeepsRow, Known
  <2>1. CASE q \in listed
    <3>1. q \in remembered /\ Known(rows, q)
      BY <2>1 DEF IInv, ListedKeepsRow
    <3>2. PICK i \in Indices : rows[i].peer = q
      BY <3>1 DEF Known
    <3>3. i \notin purged
      BY <1>5, <2>1, <3>2
    <3>4. QED
      BY <1>2, <1>8, <3>1, <3>2, <3>3 DEF Known
  <2>2. CASE q \notin listed
    <3>1. PICK i \in seated : rows[i].peer = q
      BY <1>2, <2>2
    <3>2. QED
      BY <1>2, <1>6, <1>8, <3>1 DEF Known
  <2>3. QED
    BY <2>1, <2>2
<1>15. QED
  BY <1>12, <1>13, <1>14 DEF IInv

-----------------------------------------------------------------------------
LEMMA InitInvariant == Init => IInv
<1> SUFFICES ASSUME Init PROVE IInv
  OBVIOUS
<1>1. rows = [i \in Indices |-> EmptyRow] /\ count = 0 /\ remembered = {}
      /\ listed = {} /\ now = 0
  BY DEF Init
<1>2. Used(rows) = {} /\ Single(rows)
  BY <1>1, EmptyRowType DEF Used, Single
<1>3. TableType
  BY <1>1, EmptyRowType, Sizes DEF TableType, Table
<1>4. TableExact
  BY <1>1, <1>2, FS_EmptySet DEF TableExact, Used, Single
<1>5. ListedKeepsRow
  BY <1>1 DEF ListedKeepsRow
<1>6. QED
  BY <1>3, <1>4, <1>5 DEF IInv

LEMMA NextInvariant == IInv /\ [Next]_vars => IInv'
<1> SUFFICES ASSUME IInv, [Next]_vars PROVE IInv'
  OBVIOUS
<1>1. CASE UNCHANGED <<rows, count, remembered, listed, now>>
  BY <1>1 DEF IInv, TableType, TableExact, ListedKeepsRow, Known
<1>2. ASSUME NEW p \in Peers, Call(p) PROVE IInv'
  BY <1>2, ConnectInvariant, LeaveInvariant, ClearInvariant,
     RestoreInvariant, ReportInvariant DEF Call
<1>3. CASE Poll
  BY <1>3, PollInvariant
<1>4. CASE \/ \E source, target \in Peers \cup {Local} : Queue(source, target)
           \/ \E on \in BOOLEAN : SetEnabled(on)
           \/ Dequeue \/ UNCHANGED vars
  BY <1>1, <1>4 DEF Queue, SetEnabled, Dequeue, vars
<1>5. QED
  BY <1>2, <1>3, <1>4 DEF Next

\* The table's invariant holds after every call, report and poll.
THEOREM Invariance == Spec => []IInv
BY InitInvariant, NextInvariant, PTL DEF Spec

\* get_discovered_peer, erase_discovered_peer and the purge of poll: no peer
\* has two rows and discovered_peer_count is the number of rows in use.
THEOREM TableStaysExact == Spec => []TableExact
<1>1. IInv => TableExact
  BY DEF IInv
<1>2. QED
  BY Invariance, <1>1, PTL

\* A connected headset is remembered and keeps its row, whatever is cleared or
\* purged around it.
THEOREM ListedRowsStay == Spec => []ListedKeepsRow
<1>1. IInv => ListedKeepsRow
  BY DEF IInv
<1>2. QED
  BY Invariance, <1>1, PTL

-----------------------------------------------------------------------------
(***************************************************************************)
(* The queue and the history of the cuts.                                  *)
(***************************************************************************)
Packets == (Peers \cup {Local}) \X (Peers \cup {Local})

Touches(packet) == {packet[1], packet[2]}

\* Every packet waiting touches a headset on the list.
QueueInv ==
  /\ queue \in Seq(Packets) /\ Len(queue) <= QueueDepth
  /\ \A i \in DOMAIN queue : Touches(queue[i]) \cap listed # {}

\* The peers of C have rows, and theirs are blocked.
RowsCut(R, C) ==
  /\ \A p \in C : Known(R, p)
  /\ \A i \in Indices : R[i].peer \in C => R[i].blocked

CutInv ==
  cut \subseteq Peers /\ cut \cap listed = {} /\ RowsCut(rows, cut)

SwitchInv == enabled \in BOOLEAN /\ Cardinality(remembered) <= MaxPeers

CallsInv == IInv /\ QueueInv /\ CutInv /\ SwitchInv

\* A call that does not touch the queue and takes no one off the list.
LEMMA QueueStays ==
  ASSUME QueueInv, queue' = queue, listed \subseteq listed'
  PROVE  QueueInv'
BY DEF QueueInv, Touches

\* drop_peer_packets: who is left on the list is still touched.
LEMMA QueueLeft ==
  ASSUME QueueInv, NEW p \in Peers, OffTheList(p)
  PROVE  QueueInv'
<1> DEFINE K == {i \in DOMAIN queue : queue[i][1] # p /\ queue[i][2] # p}
<1>1. queue \in Seq(Packets) /\ Len(queue) <= QueueDepth /\ Len(queue) \in Nat
  BY LenProperties DEF QueueInv
<1>2. K \in SUBSET DOMAIN queue
  OBVIOUS
<1>3. queue' = Kept(queue, K) /\ listed' = listed \ {p}
  BY DEF OffTheList, Without
<1>4. \A i \in K : Touches(queue[i]) \cap listed' # {}
  BY <1>3 DEF QueueInv, Touches
<1> HIDE DEF K
<1>5. /\ queue' \in Seq(Packets) /\ Len(queue') = Cardinality(K)
      /\ Cardinality(K) <= Len(queue)
      /\ \A k \in DOMAIN queue' : \E i \in K : queue'[k] = queue[i]
  BY <1>1, <1>2, <1>3, KeptQueue
<1>6. Len(queue') <= QueueDepth
  BY <1>1, <1>5, LenProperties, BoundsAssumption
<1>7. QED
  BY <1>4, <1>5, <1>6 DEF QueueInv

LEMMA QueueAppended ==
  ASSUME QueueInv, NEW source \in Peers \cup {Local},
         NEW target \in Peers \cup {Local}, Queue(source, target)
  PROVE  QueueInv'
<1> DEFINE packet == <<source, target>>
<1>1. /\ queue \in Seq(Packets) /\ Len(queue) \in Nat /\ packet \in Packets
      /\ DOMAIN queue = 1 .. Len(queue)
  BY LenProperties DEF QueueInv, Packets
<1>2. /\ queue' = Append(queue, packet) /\ listed' = listed
      /\ Len(queue) < QueueDepth /\ Touches(packet) \cap listed # {}
  BY DEF Queue, Touches
<1> HIDE DEF packet
<1>3. /\ queue' \in Seq(Packets) /\ Len(queue') = Len(queue) + 1
      /\ \A i \in DOMAIN queue' :
           queue'[i] = IF i = Len(queue) + 1 THEN packet ELSE queue[i]
      /\ \A i \in DOMAIN queue' : i # Len(queue) + 1 => i \in DOMAIN queue
  <2>1. queue' \in Seq(Packets) /\ Len(queue') = Len(queue) + 1
        /\ DOMAIN queue' = 1 .. Len(queue) + 1
    BY <1>1, <1>2, AppendProperties, LenProperties
  <2>2. \A i \in 1 .. Len(queue) + 1 :
          queue'[i] = IF i = Len(queue) + 1 THEN packet ELSE queue[i]
    BY <1>1, <1>2, AppendProperties
  <2>3. QED
    BY <1>1, <2>1, <2>2
<1>4. Len(queue') <= QueueDepth
  BY <1>1, <1>2, <1>3, BoundsAssumption
<1>5. QED
  BY <1>2, <1>3, <1>4 DEF QueueInv

LEMMA QueueSent ==
  ASSUME QueueInv, Dequeue
  PROVE  QueueInv'
<1> DEFINE K == 2 .. Len(queue)
<1>1. /\ queue \in Seq(Packets) /\ queue # <<>> /\ Len(queue) \in Nat
      /\ Len(queue) <= QueueDepth /\ listed' = listed
  BY LenProperties DEF QueueInv, Dequeue
<1>2. queue' = Kept(queue, K) /\ K \in SUBSET DOMAIN queue
  BY <1>1, KeptTail DEF Dequeue
<1> HIDE DEF K
<1>3. /\ queue' \in Seq(Packets) /\ Len(queue') = Cardinality(K)
      /\ Cardinality(K) <= Len(queue)
      /\ \A k \in DOMAIN queue' : \E i \in K : queue'[k] = queue[i]
  BY <1>1, <1>2, KeptQueue
<1>4. Len(queue') <= QueueDepth
  BY <1>1, <1>3, LenProperties, BoundsAssumption
<1>5. QED
  BY <1>1, <1>2, <1>3, <1>4 DEF QueueInv

\* Rows that keep their peers, and the blocks of the peers still cut.
LEMMA BlocksKept ==
  ASSUME NEW R, NEW C, RowsCut(R, C), NEW T, SamePeers(R, T), NEW D, D \subseteq C,
         \A i \in Indices : R[i].peer \in D /\ R[i].blocked => T[i].blocked
  PROVE  RowsCut(T, D)
BY DEF RowsCut, SamePeers, Known

\* A row made for p is not one of a peer that was cut, who has a row.
LEMMA WithRowCut ==
  ASSUME IInv, CutInv, NEW p \in Peers
  PROVE  RowsCut(WithRow(rows, p), cut)
<1> DEFINE R == WithRow(rows, p)
           free == {i \in Indices : rows[i].peer = NoPeer}
           first == CHOOSE i \in free : \A j \in free : i <= j
<1>1. /\ RowsCut(rows, cut) /\ cut \subseteq Peers
      /\ rows \in Table /\ now \in Ages
      /\ \A q \in Peers : Known(rows, q) => Known(R, q)
  BY WithRowExact DEF CutInv, IInv, TableType
<1>2. CASE Known(rows, p) \/ free = {}
  <2>1. R = rows
    BY <1>2 DEF WithRow
  <2>2. QED
    BY <1>1, <2>1
<1>3. CASE ~(Known(rows, p) \/ free = {})
  <2>1. R = [rows EXCEPT ![first] = NewRow(p)]
    BY <1>3 DEF WithRow
  <2>2. p \notin cut
    BY <1>1, <1>3 DEF RowsCut
  <2>3. NewRow(p).peer = p
    BY <1>1, NewRowType
  <2> HIDE DEF first
  <2>4. \A i \in Indices : R[i] = IF i = first THEN NewRow(p) ELSE rows[i]
    BY <1>1, <2>1 DEF Table
  <2> HIDE DEF R
  <2>5. \A i \in Indices : R[i].peer \in cut => R[i].blocked
    BY <1>1, <2>2, <2>3, <2>4 DEF RowsCut
  <2>6. \A q \in cut : Known(R, q)
    BY <1>1 DEF RowsCut
  <2>7. QED
    BY <2>5, <2>6 DEF RowsCut, R
<1>4. QED
  BY <1>2, <1>3

-----------------------------------------------------------------------------
(***************************************************************************)
(* The history, call by call.                                              *)
(***************************************************************************)
LEMMA ConnectCut ==
  ASSUME IInv, CutInv, NEW p \in Peers, Connect(p)
  PROVE  CutInv'
<1> DEFINE R == WithRow(rows, p)
           k == IndexOf(R, p)
           S == [R EXCEPT ![k].ready = TRUE]
<1>1. /\ R \in Table /\ RowsCut(R, cut) /\ RowsCut(rows, cut)
      /\ cut \subseteq Peers /\ cut \cap listed = {}
  BY WithRowExact, WithRowCut DEF CutInv
<1>2. Known(R, p) => k \in Indices /\ R[k].peer = p
  BY IndexOfKnown
<1>3. CASE UNCHANGED <<rows, listed, cut>>
  BY <1>1, <1>3 DEF CutInv, RowsCut, Known
<1>4. CASE /\ Known(R, p) /\ rows' = [R EXCEPT ![k].pending = TRUE]
           /\ UNCHANGED <<listed, cut>>
  <2>1. SamePeers(R, rows') /\ \A i \in Indices : rows'[i].blocked = R[i].blocked
    BY <1>1, <1>2, <1>4 DEF Table, Row, SamePeers
  <2>2. RowsCut(rows', cut)
    BY <1>1, <2>1, BlocksKept
  <2>3. QED
    BY <1>1, <1>4, <2>2 DEF CutInv, RowsCut, Known
<1>5. CASE /\ Known(R, p) /\ rows' = Marked(S, {k})
           /\ listed' \subseteq listed \cup {p} /\ cut' = cut \ {p}
  <2>1. S \in Table /\ SamePeers(R, S)
        /\ \A i \in Indices : S[i].blocked = R[i].blocked
    BY <1>1, <1>2, <1>5 DEF Table, Row, SamePeers
  <2> HIDE DEF S
  <2>2. SamePeers(R, rows')
    BY <1>5, <2>1, MarkedKeeps
  <2>3. \A i \in Indices : i # k => rows'[i] = S[i]
    BY <1>5 DEF Marked
  <2>4. \A i \in Indices : R[i].peer \in cut \ {p} /\ R[i].blocked => rows'[i].blocked
    BY <1>2, <1>5, <2>1, <2>3
  <2> HIDE DEF R, k
  <2>5. RowsCut(rows', cut \ {p})
    BY <1>1, <2>2, <2>4, BlocksKept
  <2>6. QED
    BY <1>1, <1>5, <2>5 DEF CutInv, RowsCut, Known
<1>6. QED
  <2>1. \/ UNCHANGED <<rows, listed, cut>>
        \/ /\ Known(R, p) /\ rows' = [R EXCEPT ![k].pending = TRUE]
           /\ UNCHANGED <<listed, cut>>
        \/ /\ Known(R, p) /\ rows' = Marked(S, {k})
           /\ listed' \subseteq listed \cup {p} /\ cut' = cut \ {p}
    BY DEF Connect
  <2>2. QED
    BY <1>3, <1>4, <1>5, <2>1

LEMMA RestoreCut ==
  ASSUME IInv, CutInv, NEW p \in Peers, Restore(p)
  PROVE  CutInv'
<1> DEFINE R == WithRow(rows, p)
<1>1. /\ R \in Table /\ RowsCut(R, cut)
      /\ cut \subseteq Peers /\ cut \cap listed = {}
  BY WithRowExact, WithRowCut DEF CutInv
<1>2. /\ rows' = [i \in Indices |->
                   IF R[i].peer = p THEN [R[i] EXCEPT !.blocked = FALSE] ELSE R[i]]
      /\ cut' = cut \ {p} /\ listed' = listed
  BY DEF Restore
<1>3. /\ SamePeers(R, rows')
      /\ \A i \in Indices : R[i].peer # p => rows'[i] = R[i]
  BY <1>1, <1>2 DEF Table, Row, SamePeers
<1> HIDE DEF R
<1>4. RowsCut(rows', cut')
  BY <1>1, <1>2, <1>3, BlocksKept
<1>5. QED
  BY <1>1, <1>2, <1>4 DEF CutInv, RowsCut, Known

LEMMA ReportCut ==
  ASSUME IInv, CutInv, NEW p \in Peers, NEW ready \in BOOLEAN, Report(p, ready)
  PROVE  CutInv'
<1> DEFINE R == WithRow(rows, p)
           k == IndexOf(R, p)
           r == [R[k] EXCEPT !.ready = ready, !.unseen = (now = 0), !.age = 0]
<1>1. /\ R \in Table /\ RowsCut(R, cut)
      /\ cut \subseteq Peers /\ cut \cap listed = {}
  BY WithRowExact, WithRowCut DEF CutInv
<1>2. k \in Indices /\ R[k].peer = p
  BY IndexOfKnown DEF Report
<1>3. rows' = [R EXCEPT ![k].ready = ready, ![k].unseen = (now = 0), ![k].age = 0]
      /\ UNCHANGED <<listed, cut>>
  BY DEF Report
<1>4. rows' = [R EXCEPT ![k] = r]
  BY <1>1, <1>2, <1>3 DEF Table, Row
<1>5. r.peer = R[k].peer /\ r.blocked = R[k].blocked
  BY <1>1, <1>2 DEF Table, Row
<1> HIDE DEF R, k, r
<1>6. SamePeers(R, rows') /\ \A i \in Indices : rows'[i].blocked = R[i].blocked
  BY <1>1, <1>2, <1>4, <1>5 DEF Table, SamePeers
<1>7. RowsCut(rows', cut)
  BY <1>1, <1>6, BlocksKept
<1>8. QED
  BY <1>1, <1>3, <1>7 DEF CutInv, RowsCut, Known

\* The row of a headset that is disconnected on request is blocked.
LEMMA HungUpCut ==
  ASSUME IInv, CutInv, NEW p \in listed
  PROVE  RowsCut(HungUp(rows, p, TRUE), cut \cup {p})
<1> DEFINE T == HungUp(rows, p, TRUE)
<1>1. /\ RowsCut(rows, cut) /\ rows \in Table /\ p \in Peers /\ Known(rows, p)
  BY DEF CutInv, IInv, TableType, ListedKeepsRow
<1>2. SamePeers(rows, T)
  BY <1>1, HungUpKeeps
<1>3. \A i \in Indices :
        IF rows[i].peer = p THEN T[i].blocked ELSE T[i] = rows[i]
  BY <1>1 DEF HungUp, Table, Row
<1> HIDE DEF T
<1>4. \A q \in cut \cup {p} : Known(T, q)
  BY <1>1, <1>2, SamePeersExact DEF RowsCut
<1>5. \A i \in Indices : T[i].peer \in cut \cup {p} => T[i].blocked
  BY <1>1, <1>2, <1>3 DEF RowsCut, SamePeers
<1>6. QED
  BY <1>4, <1>5 DEF RowsCut, T

LEMMA DisconnectCut ==
  ASSUME IInv, CutInv, NEW p \in Peers, Disconnect(p)
  PROVE  CutInv'
<1>1. /\ p \in listed /\ listed' = listed \ {p} /\ cut' = cut \cup {p}
      /\ rows' = HungUp(rows, p, TRUE)
  BY DEF Disconnect, OffTheList
<1>2. RowsCut(rows', cut')
  BY <1>1, HungUpCut
<1>3. QED
  BY <1>1, <1>2 DEF CutInv, RowsCut, Known

\* Who is on the list was not cut, so that no block is lifted from one who was.
LEMMA SessionTimeoutCut ==
  ASSUME IInv, CutInv, NEW p \in Peers, SessionTimeout(p)
  PROVE  CutInv'
<1>1. /\ p \in listed /\ listed' = listed \ {p} /\ cut' = cut
      /\ rows' = HungUp(rows, p, FALSE)
  BY DEF SessionTimeout, OffTheList
<1>2. RowsCut(rows, cut) /\ rows \in Table /\ p \notin cut
      /\ cut \subseteq Peers /\ cut \cap listed = {}
  BY <1>1 DEF CutInv, IInv, TableType
<1>3. SamePeers(rows, rows')
  BY <1>1, <1>2, HungUpKeeps
<1>4. \A i \in Indices : rows[i].peer # p => rows'[i] = rows[i]
  BY <1>1 DEF HungUp
<1>5. RowsCut(rows', cut)
  BY <1>2, <1>3, <1>4, BlocksKept
<1>6. QED
  BY <1>1, <1>2, <1>5 DEF CutInv, RowsCut, Known

\* Rows are moved up by a clear as they are.
LEMMA ErasedRows ==
  ASSUME NEW R, count \in Nat, count <= MaxPeers, NEW p
  PROVE  \A i \in Indices : \/ Erased(R, p)[i] = EmptyRow
                            \/ \E j \in Indices : Erased(R, p)[i] = R[j]
<1>1. \A i \in Indices : i < count => i + 1 \in Indices
  BY Sizes DEF Indices
<1>2. QED
  BY <1>1 DEF Erased

LEMMA ClearCut ==
  ASSUME IInv, CutInv, NEW p \in Peers, Clear(p)
  PROVE  CutInv'
<1> DEFINE R == IF p \in listed THEN HungUp(rows, p, TRUE) ELSE rows
           C == IF p \in listed THEN cut \cup {p} ELSE cut
<1>1. /\ rows \in Table /\ Single(rows) /\ count = Cardinality(Used(rows))
      /\ cut \subseteq Peers /\ cut \cap listed = {} /\ RowsCut(rows, cut)
  BY DEF IInv, TableType, TableExact, Used, Single, CutInv
<1>2. /\ rows' = Erased(R, p) /\ listed' = listed \ {p}
      /\ cut' = IF ~Known(rows', p) THEN cut \ {p} ELSE C
  BY DEF Clear, OffTheList
<1>3. RowsCut(R, C)
  BY <1>1, HungUpCut
<1>4. R \in Table /\ SamePeers(rows, R)
  BY <1>1, HungUpKeeps DEF SamePeers
<1>5. Single(R) /\ count = Cardinality(Used(R))
  BY <1>1, <1>4, SamePeersExact
<1>6. C \subseteq Peers /\ cut' \subseteq C /\ cut' \cap listed' = {}
  BY <1>1, <1>2
<1> HIDE DEF R, C
<1>7. \A q \in Peers \ {p} : Known(R, q) => Known(rows', q)
  BY <1>2, <1>4, <1>5, ErasedExact
<1>8. \A q \in cut' : Known(rows', q)
  BY <1>2, <1>3, <1>6, <1>7 DEF RowsCut
<1>9. \A i \in Indices : rows'[i].peer \in cut' => rows'[i].blocked
  <2> SUFFICES ASSUME NEW i \in Indices, rows'[i].peer \in cut'
               PROVE  rows'[i].blocked
    OBVIOUS
  <2>1. count \in Nat /\ count <= MaxPeers
    BY <1>1, UsedFinite
  <2>2. rows'[i] # EmptyRow
    BY <1>6, EmptyRowType, PeersAssumption
  <2>3. PICK j \in Indices : rows'[i] = R[j]
    BY <1>2, <2>1, <2>2, ErasedRows
  <2>4. QED
    BY <1>3, <1>6, <2>3 DEF RowsCut
<1>10. QED
  BY <1>6, <1>8, <1>9 DEF CutInv, RowsCut, Known

\* A poll lists no one who is cut: it reconnects rows that are not blocked.
LEMMA PollCut ==
  ASSUME IInv, CutInv, Poll
  PROVE  CutInv' /\ (listed' \ listed) \cap cut = {}
<1> DEFINE aged == [i \in Indices |->
                      IF rows[i].peer = NoPeer THEN rows[i]
                      ELSE [rows[i] EXCEPT !.age = Older(@)]]
           purged == {i \in Indices : Purgeable(aged[i])}
           due == {i \in Indices : Due(aged[i])}
           seated == {i \in due : Cardinality({j \in due : j < i})
                                    < MaxPeers - Cardinality(listed)}
<1>1. /\ rows \in Table /\ RowsCut(rows, cut)
      /\ cut \subseteq Peers /\ cut \cap listed = {}
  BY DEF IInv, TableType, CutInv
<1>2. /\ rows' = [i \in Indices |-> IF i \in purged THEN EmptyRow
                                    ELSE Marked(aged, due)[i]]
      /\ listed' = listed \cup {rows[i].peer : i \in seated}
      /\ cut' = cut \ {rows[i].peer : i \in purged}
  BY DEF Poll
<1>3. \A i \in Indices : aged[i].peer = rows[i].peer
                         /\ aged[i].blocked = rows[i].blocked
  BY <1>1 DEF Table, Row
<1>4. aged \in Table /\ SamePeers(rows, aged)
  BY <1>1, Sizes DEF Table, Row, SamePeers
<1>5. \A i \in due : i \in Indices /\ rows[i].peer \notin cut
  BY <1>1, <1>3 DEF Due, RowsCut
<1>6. \A i \in seated : i \in due
  OBVIOUS
<1> HIDE DEF aged, purged, due, seated
<1>7. \A i \in Indices : /\ Marked(aged, due)[i].peer = rows[i].peer
                         /\ i \notin due => Marked(aged, due)[i] = aged[i]
  <2>1. SamePeers(rows, Marked(aged, due))
    BY <1>4, MarkedKeeps
  <2>2. \A i \in Indices : i \notin due => Marked(aged, due)[i] = aged[i]
    BY DEF Marked
  <2>3. QED
    BY <2>1, <2>2 DEF SamePeers
<1>8. \A i \in Indices : rows'[i].peer \in cut' => rows'[i].blocked
  <2> SUFFICES ASSUME NEW i \in Indices, rows'[i].peer \in cut'
               PROVE  rows'[i].blocked
    OBVIOUS
  <2>1. i \notin purged
    BY <1>1, <1>2, EmptyRowType, PeersAssumption
  <2>2. rows'[i] = Marked(aged, due)[i]
    BY <1>2, <2>1
  <2>3. rows[i].peer \in cut
    BY <1>2, <1>7, <2>2
  <2>4. rows'[i] = aged[i]
    BY <1>5, <1>7, <2>2, <2>3
  <2>5. QED
    BY <1>1, <1>3, <2>3, <2>4 DEF RowsCut
<1>9. \A q \in cut' : Known(rows', q)
  <2> SUFFICES ASSUME NEW q \in cut' PROVE Known(rows', q)
    OBVIOUS
  <2>1. PICK i \in Indices : rows[i].peer = q
    BY <1>1, <1>2 DEF RowsCut, Known
  <2>2. i \notin purged
    BY <1>2, <2>1
  <2>3. QED
    BY <1>2, <1>7, <2>1, <2>2 DEF Known
<1>10. cut' \cap listed' = {} /\ (listed' \ listed) \cap cut = {}
  BY <1>1, <1>2, <1>5, <1>6
<1>11. QED
  BY <1>1, <1>2, <1>8, <1>9, <1>10 DEF CutInv, RowsCut, Known

-----------------------------------------------------------------------------
(***************************************************************************)
(* Sizes, and the invariant of all calls.                                  *)
(***************************************************************************)

\* A headset on the list has a row of its own, so the list never overflows.
LEMMA ListedFits == IInv => Cardinality(listed) <= MaxPeers
<1> SUFFICES ASSUME IInv PROVE Cardinality(listed) <= MaxPeers
  OBVIOUS
<1> DEFINE f == [p \in listed |-> IndexOf(rows, p)]
<1>1. \A p \in listed : /\ IndexOf(rows, p) \in Indices
                        /\ rows[IndexOf(rows, p)].peer = p
  BY IndexOfKnown DEF IInv, ListedKeepsRow
<1>2. f \in [listed -> Indices] /\ \A p, q \in listed : f[p] = f[q] => p = q
  BY <1>1
<1> HIDE DEF f
<1>3. f \in Injection(listed, Indices)
  BY <1>2, Fun_IsInj
<1>4. IsFiniteSet(Indices) /\ Cardinality(Indices) = MaxPeers
  BY Sizes, FS_Interval DEF Indices
<1>5. QED
  BY <1>3, <1>4, FS_Injection

LEMMA RememberedFits ==
  ASSUME IInv, SwitchInv, NEW p \in Peers,
         \/ MayRemember(p) /\ remembered' = remembered \cup {p}
         \/ remembered' \subseteq remembered
  PROVE  Cardinality(remembered') <= MaxPeers
<1>1. remembered \subseteq Peers /\ Cardinality(remembered) <= MaxPeers
  BY DEF IInv, TableType, SwitchInv
<1>2. IsFiniteSet(remembered) /\ Cardinality(remembered) \in Nat
  BY <1>1, PeersAssumption, FS_Subset, FS_CardinalityType
<1>3. CASE MayRemember(p) /\ remembered' = remembered \cup {p}
  <2>1. Cardinality(remembered')
          = IF p \in remembered THEN Cardinality(remembered)
            ELSE Cardinality(remembered) + 1
    BY <1>2, <1>3, FS_AddElement
  <2>2. QED
    BY <1>1, <1>2, <1>3, <2>1, Sizes DEF MayRemember
<1>4. CASE remembered' \subseteq remembered
  <2>1. Cardinality(remembered') <= Cardinality(remembered)
        /\ Cardinality(remembered') \in Nat
    BY <1>2, <1>4, FS_Subset, FS_CardinalityType
  <2>2. QED
    BY <1>1, <1>2, <2>1, Sizes
<1>5. QED
  BY <1>3, <1>4

LEMMA CallKeeps ==
  ASSUME CallsInv, NEW p \in Peers, Call(p)
  PROVE  CallsInv'
<1>1. IInv /\ QueueInv /\ CutInv /\ SwitchInv
  BY DEF CallsInv
<1>2. IInv'
  BY <1>1, ConnectInvariant, LeaveInvariant, ClearInvariant, RestoreInvariant,
     ReportInvariant DEF Call
<1>3. QueueInv'
  <2>1. CASE Connect(p) \/ Restore(p) \/ \E ready \in BOOLEAN : Report(p, ready)
    <3>1. queue' = queue /\ listed \subseteq listed'
      BY <2>1 DEF Connect, Restore, Report
    <3>2. QED
      BY <1>1, <3>1, QueueStays
  <2>2. CASE Disconnect(p) \/ SessionTimeout(p)
    BY <1>1, <2>2, QueueLeft DEF Disconnect, SessionTimeout
  <2>3. CASE Clear(p)
    <3>1. CASE p \in listed
      BY <1>1, <2>3, <3>1, QueueLeft DEF Clear
    <3>2. CASE p \notin listed
      <4>1. queue' = queue /\ listed' = listed
        BY <2>3, <3>2 DEF Clear
      <4>2. QED
        BY <1>1, <4>1, QueueStays
    <3>3. QED
      BY <3>1, <3>2
  <2>4. QED
    BY <2>1, <2>2, <2>3 DEF Call
<1>4. CutInv'
  BY <1>1, ConnectCut, DisconnectCut, SessionTimeoutCut, ClearCut, RestoreCut,
     ReportCut DEF Call
<1>5. SwitchInv'
  <2>1. enabled' = enabled
    BY DEF Call, Connect, Disconnect, SessionTimeout, Clear, Restore, Report
  <2>2. \/ MayRemember(p) /\ remembered' = remembered \cup {p}
        \/ remembered' \subseteq remembered
    BY DEF Call, Connect, Disconnect, SessionTimeout, Clear, Restore, Report
  <2>3. QED
    BY <1>1, <2>1, <2>2, RememberedFits DEF SwitchInv
<1>6. QED
  BY <1>2, <1>3, <1>4, <1>5 DEF CallsInv

LEMMA NextKeeps == CallsInv /\ [Next]_vars => CallsInv'
<1> SUFFICES ASSUME CallsInv, [Next]_vars PROVE CallsInv'
  OBVIOUS
<1>1. IInv /\ QueueInv /\ CutInv /\ SwitchInv
  BY DEF CallsInv
<1>2. ASSUME NEW p \in Peers, Call(p) PROVE CallsInv'
  BY <1>2, CallKeeps
<1>3. CASE Poll
  <2>1. queue' = queue /\ listed \subseteq listed'
        /\ remembered' = remembered /\ enabled' = enabled
    BY <1>3 DEF Poll
  <2>2. SwitchInv'
    BY <1>1, <2>1 DEF SwitchInv
  <2>3. QED
    BY <1>1, <1>3, <2>1, <2>2, PollInvariant, PollCut, QueueStays DEF CallsInv
<1>4. CASE \/ \E source, target \in Peers \cup {Local} : Queue(source, target)
           \/ Dequeue
  <2>1. UNCHANGED <<rows, count, remembered, listed, enabled, now, cut>>
    BY <1>4 DEF Queue, Dequeue
  <2>2. IInv' /\ CutInv' /\ SwitchInv'
    BY <1>1, <2>1 DEF IInv, TableType, TableExact, ListedKeepsRow, Known,
                      CutInv, RowsCut, SwitchInv
  <2>3. QueueInv'
    BY <1>1, <1>4, QueueAppended, QueueSent
  <2>4. QED
    BY <2>2, <2>3 DEF CallsInv
<1>5. CASE \E on \in BOOLEAN : SetEnabled(on)
  <2>1. UNCHANGED <<rows, count, remembered, listed, queue, now, cut>>
        /\ enabled' \in BOOLEAN
    BY <1>5 DEF SetEnabled
  <2>2. QED
    BY <1>1, <2>1 DEF CallsInv, IInv, TableType, TableExact, ListedKeepsRow,
                      Known, QueueInv, CutInv, RowsCut, SwitchInv
<1>6. CASE UNCHANGED vars
  BY <1>1, <1>6 DEF vars, CallsInv, IInv, TableType, TableExact, ListedKeepsRow,
                    Known, QueueInv, CutInv, RowsCut, SwitchInv
<1>7. QED
  BY <1>2, <1>3, <1>4, <1>5, <1>6 DEF Next

LEMMA InitKeeps == Init => CallsInv
<1> SUFFICES ASSUME Init PROVE CallsInv
  OBVIOUS
<1>1. IInv
  BY InitInvariant
<1>2. queue = <<>> /\ cut = {} /\ enabled = TRUE /\ remembered = {}
      /\ rows = [i \in Indices |-> EmptyRow]
  BY DEF Init
<1>3. QueueInv
  BY <1>2, EmptySeq, BoundsAssumption DEF QueueInv
<1>4. CutInv
  BY <1>2 DEF CutInv, RowsCut
<1>5. SwitchInv
  BY <1>2, FS_EmptySet, Sizes DEF SwitchInv
<1>6. QED
  BY <1>1, <1>3, <1>4, <1>5 DEF CallsInv

\* After every call no packet waits that touches no connected headset, and who
\* was cut is off the list with a blocked row.
THEOREM CallsInvariance == Spec => []CallsInv
BY InitKeeps, NextKeeps, PTL DEF Spec

\* Rows, counts, lists and the queue keep their types and sizes: the queue
\* never grows past its depth, the count never past the table.
THEOREM TypeCorrect == Spec => []TypeOK
<1>1. CallsInv => TypeOK
  <2> SUFFICES ASSUME CallsInv PROVE TypeOK
    OBVIOUS
  <2>1. count \in 0 .. MaxPeers
    <3>1. count \in Nat /\ count = Cardinality(Used(rows))
      BY DEF CallsInv, IInv, TableType, TableExact, Used
    <3>2. QED
      BY <3>1, UsedFinite, Sizes
  <2>2. QED
    BY <2>1 DEF CallsInv, IInv, TableType, Table, QueueInv, Packets, CutInv,
                SwitchInv, TypeOK
<1>2. QED
  BY CallsInvariance, <1>1, PTL

-----------------------------------------------------------------------------
(***************************************************************************)
(* The contract with the session layer: each call, report and poll is a    *)
(* step of Transport, or changes nothing that Transport knows of.          *)
(***************************************************************************)

\* The queue as Transport sees it: what each packet touches.
Seen(q) == [i \in DOMAIN q |-> {q[i][1], q[i][2]}]

\* Sizes and queues are the same in both modules.
LEMMA SameSize ==
  /\ \A S : Contract!Cardinality(S) = Cardinality(S)
  /\ \A q, K : Contract!Kept(q, K) = Kept(q, K)
BY DEF Contract!Kept, Kept, Contract!Place, Place, Contract!Cardinality, Cardinality

\* Dropping packets looks the same from above.
LEMMA SeenKept ==
  ASSUME NEW q \in Seq(Packets), NEW K \in SUBSET DOMAIN q
  PROVE  Seen(Kept(q, K)) = Contract!Kept(Seen(q), K)
<1>1. /\ DOMAIN Kept(q, K) = 1 .. Cardinality(K)
      /\ \A k \in 1 .. Cardinality(K) :
           Place(K, k) \in DOMAIN q /\ Kept(q, K)[k] = q[Place(K, k)]
  BY KeptQueue
<1>2. Contract!Kept(Seen(q), K)
        = [k \in 1 .. Cardinality(K) |-> Seen(q)[Place(K, k)]]
  BY SameSize DEF Kept
<1>3. \A k \in 1 .. Cardinality(K) :
        Seen(q)[Place(K, k)] = {Kept(q, K)[k][1], Kept(q, K)[k][2]}
  BY <1>1 DEF Seen
<1>4. QED
  BY <1>1, <1>2, <1>3 DEF Seen

LEMMA SeenWithout ==
  ASSUME NEW p \in Peers, QueueInv, queue' = Without(queue, p)
  PROVE  Seen(queue)' = Contract!Without(p)
<1> DEFINE K == {i \in DOMAIN queue : queue[i][1] # p /\ queue[i][2] # p}
<1>1. Seen(queue') = Contract!Kept(Seen(queue), K)
  BY SeenKept DEF QueueInv, Without
<1>2. K = {i \in DOMAIN Seen(queue) : p \notin Seen(queue)[i]}
  BY DEF Seen
<1>3. Contract!Without(p)
        = Contract!Kept(Seen(queue),
                        {i \in DOMAIN Seen(queue) : p \notin Seen(queue)[i]})
  BY DEF Contract!Without, Seen
<1>4. QED
  BY <1>1, <1>2, <1>3 DEF Seen

LEMMA StepFits ==
  ASSUME CallsInv'
  PROVE  Contract!Fits
<1>1. (IInv => Cardinality(listed) <= MaxPeers)'
  BY ListedFits, PTL
<1>2. QED
  BY <1>1, SameSize DEF CallsInv, SwitchInv, Contract!Fits

\* One call is one of Transport's about the same headset; a report is none.
LEMMA CallRefines ==
  ASSUME CallsInv, CallsInv', NEW p \in Peers, Call(p)
  PROVE  [Contract!Next]_Contract!vars
<1>1. /\ IInv /\ QueueInv /\ CutInv /\ Contract!Fits
  BY StepFits DEF CallsInv
<1>2. /\ listed' = listed \ {p} /\ queue' = Without(queue, p) => Contract!Leaves(p)
      /\ UNCHANGED <<listed, queue>> => Contract!Leaves(p)
  BY <1>1, SeenWithout DEF Contract!Leaves, Seen
<1>3. CASE Connect(p) \/ Restore(p)
  <2>1. /\ listed' \in {listed, listed \cup {p}}
        /\ remembered' = remembered \cup {p}
        /\ cut' \in {cut, cut \ {p}}
        /\ p \in listed' \ listed => cut' = cut \ {p}
        /\ UNCHANGED queue
    BY <1>3 DEF Connect, Restore
  <2>2. Contract!AskFor(p)
    BY <1>1, <2>1 DEF Contract!AskFor
  <2>3. QED
    BY <2>2 DEF Contract!Next
<1>4. CASE Disconnect(p) \/ SessionTimeout(p)
  <2>1. /\ listed' = listed \ {p} /\ queue' = Without(queue, p)
        /\ cut' \in {cut, cut \cup {p}} /\ UNCHANGED remembered
    BY <1>4 DEF Disconnect, SessionTimeout, OffTheList
  <2>2. Contract!Disconnect(p)
    BY <1>2, <2>1 DEF Contract!Disconnect
  <2>3. QED
    BY <2>2 DEF Contract!Next
<1>5. CASE Clear(p)
  <2>1. /\ \/ listed' = listed \ {p} /\ queue' = Without(queue, p)
           \/ UNCHANGED <<listed, queue>>
        /\ cut' \ {p} = cut \ {p} /\ remembered' = remembered \ {p}
    BY <1>5 DEF Clear, OffTheList
  <2>2. Contract!Forget(p)
    BY <1>2, <2>1 DEF Contract!Forget
  <2>3. QED
    BY <2>2 DEF Contract!Next
<1>6. CASE \E ready \in BOOLEAN : Report(p, ready)
  BY <1>6 DEF Report, Contract!vars
<1>7. QED
  BY <1>3, <1>4, <1>5, <1>6 DEF Call

LEMMA QueueRefines ==
  ASSUME CallsInv, NEW source \in Peers \cup {Local},
         NEW target \in Peers \cup {Local}, Queue(source, target)
  PROVE  Contract!Next
<1> DEFINE ends == {source, target}
           packet == <<source, target>>
<1>1. /\ queue \in Seq(Packets) /\ Len(queue) \in Nat /\ packet \in Packets
      /\ DOMAIN queue = 1 .. Len(queue)
  BY LenProperties DEF CallsInv, QueueInv, Packets
<1>2. /\ queue' = Append(queue, packet) /\ Len(queue) < QueueDepth
      /\ ends \cap listed # {} /\ UNCHANGED <<listed, remembered, cut>>
  BY DEF Queue
<1>3. Seen(queue) \in Seq(SUBSET (Peers \cup {Local}))
      /\ Len(Seen(queue)) = Len(queue)
  BY <1>1 DEF Seen, Packets
<1>4. Seen(queue') = Append(Seen(queue), ends)
  <2>1. /\ Len(queue') = Len(queue) + 1 /\ queue' \in Seq(Packets)
        /\ \A i \in 1 .. Len(queue) : queue'[i] = queue[i]
        /\ queue'[Len(queue) + 1] = packet
    BY <1>1, <1>2, AppendProperties
  <2>2. ends \in SUBSET (Peers \cup {Local})
    OBVIOUS
  <2>3. /\ Seen(queue') \in Seq(SUBSET (Peers \cup {Local}))
        /\ Len(Seen(queue')) = Len(queue) + 1
    BY <2>1, LenProperties DEF Seen, Packets
  <2> HIDE DEF ends
  <2>4. /\ Append(Seen(queue), ends) \in Seq(SUBSET (Peers \cup {Local}))
        /\ Len(Append(Seen(queue), ends)) = Len(queue) + 1
        /\ \A i \in 1 .. Len(queue) : Append(Seen(queue), ends)[i] = Seen(queue)[i]
        /\ Append(Seen(queue), ends)[Len(queue) + 1] = ends
    BY <1>3, <2>2, AppendProperties
  <2>5. \A i \in 1 .. Len(queue) + 1 : Seen(queue')[i] = Append(Seen(queue), ends)[i]
    <3>1. \A i \in 1 .. Len(queue) : Seen(queue')[i] = Seen(queue)[i]
      BY <1>1, <2>1, LenProperties DEF Seen
    <3>2. Seen(queue')[Len(queue) + 1] = ends
      BY <1>1, <2>1, LenProperties DEF Seen, ends
    <3>3. \A i \in 1 .. Len(queue) + 1 : i \in 1 .. Len(queue) \/ i = Len(queue) + 1
      BY <1>1
    <3>4. QED
      BY <2>4, <3>1, <3>2, <3>3
  <2>6. QED
    BY <2>3, <2>4, <2>5, SeqEqual
<1>5. ends \in SUBSET (Peers \cup {Local})
  OBVIOUS
<1> HIDE DEF ends
<1>6. Contract!Queue(ends)
  BY <1>2, <1>3, <1>4 DEF Contract!Queue, Seen
<1>7. QED
  BY <1>5, <1>6 DEF Contract!Next

\* poll and dequeue: what is kept are all packets, or all but the first.
LEMMA PollRefines ==
  ASSUME CallsInv, CallsInv', Poll \/ Dequeue
  PROVE  Contract!Next
<1>1. /\ queue \in Seq(Packets) /\ listed' \subseteq Peers /\ Contract!Fits
      /\ \A i \in DOMAIN queue' : Touches(queue'[i]) \cap listed' # {}
  BY StepFits DEF CallsInv, QueueInv, IInv, TableType
<1>2. /\ (listed' \ listed) \cap cut = {}
      /\ cut' \subseteq cut /\ UNCHANGED remembered
  BY PollCut DEF CallsInv, Poll, Dequeue
<1>3. \E K \in SUBSET DOMAIN queue : queue' = Kept(queue, K)
  <2>1. CASE Poll
    BY <1>1, <2>1, KeptWhole DEF Poll
  <2>2. CASE Dequeue
    BY <1>1, <2>2, KeptTail DEF Dequeue
  <2>3. QED
    BY <2>1, <2>2
<1>4. \E K \in SUBSET DOMAIN Seen(queue) :
        Seen(queue') = Contract!Kept(Seen(queue), K)
  <2>1. PICK K \in SUBSET DOMAIN queue : queue' = Kept(queue, K)
    BY <1>3
  <2>2. Seen(queue') = Contract!Kept(Seen(queue), K)
    BY <1>1, <2>1, SeenKept
  <2>3. DOMAIN Seen(queue) = DOMAIN queue
    BY DEF Seen
  <2>4. QED
    BY <2>2, <2>3
<1>5. \A i \in DOMAIN Seen(queue') : Seen(queue')[i] \cap listed' # {}
  BY <1>1 DEF Seen, Touches
<1>6. Contract!Poll
  BY <1>1, <1>2, <1>4, <1>5 DEF Contract!Poll, Seen
<1>7. QED
  BY <1>6 DEF Contract!Next

LEMMA InitRefines == Init => Contract!Init
<1> SUFFICES ASSUME Init PROVE Contract!Init
  OBVIOUS
<1>1. queue = <<>> /\ listed = {} /\ cut = {} /\ remembered = {}
  BY DEF Init
<1>2. Cardinality(remembered) <= MaxPeers
  BY <1>1, FS_EmptySet, Sizes
<1>3. Seen(queue) = <<>>
  BY <1>1 DEF Seen
<1>4. QED
  BY <1>1, <1>2, <1>3, SameSize DEF Contract!Init, Seen

LEMMA NextRefines ==
  CallsInv /\ CallsInv' /\ [Next]_vars => [Contract!Next]_Contract!vars
<1> SUFFICES ASSUME CallsInv, CallsInv', [Next]_vars
             PROVE  [Contract!Next]_Contract!vars
  OBVIOUS
<1>1. ASSUME NEW p \in Peers, Call(p) PROVE [Contract!Next]_Contract!vars
  BY <1>1, CallRefines
<1>2. ASSUME NEW source \in Peers \cup {Local}, NEW target \in Peers \cup {Local},
             Queue(source, target)
      PROVE  Contract!Next
  BY <1>2, QueueRefines
<1>3. CASE Poll \/ Dequeue
  BY <1>3, PollRefines
<1>4. CASE (\E on \in BOOLEAN : SetEnabled(on)) \/ UNCHANGED vars
  BY <1>4 DEF SetEnabled, vars, Contract!vars
<1>5. QED
  BY <1>1, <1>2, <1>3, <1>4 DEF Next

\* The host transport keeps the contract the session layer relies on, for any
\* number of headsets, table size and queue depth: the connected list and the
\* queue change only as its calls and its polls may change them, packets leave
\* in order and with their headset, and no poll brings back who was cut.
THEOREM KeepsContract == Spec => ImplementsTransport
BY InitRefines, CallsInvariance, NextRefines, PTL
   DEF Spec, ImplementsTransport, Contract!Spec

=============================================================================
