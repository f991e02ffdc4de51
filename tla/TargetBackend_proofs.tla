------------------------ MODULE TargetBackend_proofs ------------------------
(***************************************************************************)
(* The headset backend for any number of headsets, any table size, queue   *)
(* depth and number of SDP attempts: the channel ids kept name channels    *)
(* there are, a peer listed as connected has an open one, and no packet    *)
(* waits for a peer off the list.  Unless rows are erased, the two tables  *)
(* fill up together, a disconnect completes and a block has a cause.  With *)
(* headsets that only answer, one dial is under way at a time; and where   *)
(* rows are not erased either and an aborted dial ends as a closed         *)
(* channel, a disconnect is not undone and every step is one of Transport. *)
(***************************************************************************)
EXTENDS TargetBackend, PacketQueue_proofs

Tables == [Peers -> Record]

States == {"none", "opening", "aborting", "open", "closing"}

Channels == [Peers -> [Directions -> States]]

\* The part of TypeOK that rows and channels depend on.
BackendType ==
  /\ table \in Tables /\ remembered \subseteq Peers /\ cut \subseteq Peers
  /\ dialling \in Peers \cup {NoPeer} /\ chan \in Channels

(***************************************************************************)
(* The inductive invariant, peer by peer.                                  *)
(***************************************************************************)

\* What a row r of p says of its channels c is so; only a known peer is pending
\* or remembered.
RowSound(p, r, c) ==
  /\ ~r.backend => r.cid = "none"
  /\ r.cid # "none" => c[r.cid] # "none"
  /\ r.slot = "connected" =>
       r.backend /\ r.known /\ r.cid # "none" /\ c[r.cid] = "open"
  /\ r.pending => r.known
  /\ p \in remembered => r.known

\* Unless its row is erased, a peer being disconnected keeps its channel id.
HangsUp(r) ==
  Clearable = {} /\ r.slot = "disconnecting" => r.cid # "none"

\* While headsets only answer, the dial under way is the one the backend
\* remembers, and a block has a cause.
OnlyDialled(p, r, c, dial) ==
  DialIn = {} =>
    /\ c["in"] = "none"
    /\ c["out"] \in {"opening", "aborting"} => dial = p
    /\ r.blocked => p \in cut \/ r.tries = SdpMaxAttempts

\* When rows are not erased either, no channel is forgotten, and a peer that
\* was cut is neither dialled nor waiting for a reconnect, unless BTstack
\* reports an aborted dial as a failed open.
StaysCut(p, r, c) ==
  DialIn = {} /\ Clearable = {} =>
    /\ c["out"] # "none" => r.cid = "out"
    /\ AbortReports = {"closed"} /\ p \in cut =>
         /\ ~r.wantDial
         /\ c["out"] \notin {"opening", "open"}
         /\ r.blocked \/ (~r.pending /\ p \notin remembered)

RowInv(p, r, c, dial) ==
  RowSound(p, r, c) /\ HangsUp(r) /\ OnlyDialled(p, r, c, dial) /\ StaysCut(p, r, c)

PeerInv(p) == RowInv(p, table[p], chan[p], dialling)

IInv == BackendType /\ \A p \in Peers : PeerInv(p)

-----------------------------------------------------------------------------
(***************************************************************************)
(* What the table's operators do to the row of a peer.                     *)
(***************************************************************************)

\* Only the row of p may differ.
OnlyAt(T, U, p) == U \in Tables /\ \A q \in Peers : q # p => U[q] = T[q]

\* The peers each table has a row for, and whether a table has room.
Known(T) == {p \in Peers : T[p].known}

Backends(T) == {p \in Peers : T[p].backend}

Room(S) == Cardinality(S) < MaxPeers

\* The fields the invariant is about that a report leaves alone.
SameLink(r, u) ==
  /\ u.pending = r.pending /\ u.blocked = r.blocked /\ u.tries = r.tries
  /\ u.cid = r.cid /\ u.wantDial = r.wantDial /\ u.slot = r.slot

\* A row may be made known, or get its backend entry.
Grown(r, u) ==
  /\ SameLink(r, u)
  /\ r.known => u.known
  /\ r.backend => u.backend

LEMMA RowType ==
  ASSUME NEW r \in Record
  PROVE  /\ r.known \in BOOLEAN /\ r.pending \in BOOLEAN
         /\ r.blocked \in BOOLEAN /\ r.tries \in 0 .. SdpMaxAttempts
         /\ r.backend \in BOOLEAN /\ r.wantDial \in BOOLEAN
         /\ r.cid \in {"in", "out", "none"} /\ r.slot \in Slots
BY DEF Record, Directions

LEMMA BlankType == Blank \in Record /\ RestoredRecord \in Record
<1>1. SdpMaxAttempts \in Nat /\ 0 \in 0 .. SdpMaxAttempts
  BY BoundsAssumption
<1>2. QED
  BY <1>1 DEF Blank, RestoredRecord, Record, Slots

LEMMA RowIn ==
  ASSUME NEW T, NEW U, NEW p \in Peers, OnlyAt(T, U, p)
  PROVE  U \in Tables /\ U[p] \in Record
BY DEF OnlyAt, Tables

LEMMA OnlyAtTwice ==
  ASSUME NEW T, NEW U, NEW V, NEW p, OnlyAt(T, U, p), OnlyAt(U, V, p)
  PROVE  OnlyAt(T, V, p)
BY DEF OnlyAt

LEMMA OnlyAtSelf ==
  ASSUME NEW T \in Tables, NEW p
  PROVE  OnlyAt(T, T, p)
BY DEF OnlyAt

LEMMA RowOf ==
  ASSUME NEW T \in Tables, NEW p \in Peers
  PROVE  T[p] \in Record
BY DEF Tables

LEMMA WithInfoRow ==
  ASSUME NEW T \in Tables, NEW p \in Peers
  PROVE  /\ OnlyAt(T, WithInfo(T, p), p)
         /\ Grown(T[p], WithInfo(T, p)[p])
         /\ WithInfo(T, p)[p].backend = T[p].backend
         /\ WithInfo(T, p)[p].known <=> T[p].known \/ Room(Known(T))
BY DEF WithInfo, OnlyAt, Grown, SameLink, Tables, Record, Room, Known

LEMMA WithBackendRow ==
  ASSUME NEW T \in Tables, NEW p \in Peers
  PROVE  /\ OnlyAt(T, WithBackend(T, p), p)
         /\ Grown(T[p], WithBackend(T, p)[p])
         /\ WithBackend(T, p)[p].known = T[p].known
         /\ WithBackend(T, p)[p].backend <=> T[p].backend \/ Room(Backends(T))
BY DEF WithBackend, OnlyAt, Grown, SameLink, Tables, Record, Room, Backends

LEMMA ReserveRow ==
  ASSUME NEW T \in Tables, NEW p \in Peers
  PROVE  /\ OnlyAt(T, Reserve(T, p), p)
         /\ \/ Reserve(T, p)[p] = T[p]
            \/ /\ T[p].slot = "none"
               /\ Reserve(T, p)[p] = [T[p] EXCEPT !.slot = "reserved"]
         /\ Reserve(T, p)[p].slot = "none" => ~Room(Listed(T))
<1>1. Cardinality(Listed(T)) \in Nat
  <2>1. IsFiniteSet(Listed(T))
    BY FS_Subset, PeersAssumption DEF Listed
  <2>2. QED
    BY <2>1, FS_CardinalityType
<1>2. Reserve(T, p) = IF p \in Listed(T) \/ ~Room(Listed(T)) THEN T
                      ELSE [T EXCEPT ![p].slot = "reserved"]
  BY <1>1, BoundsAssumption DEF Reserve, Room
<1>3. T[p].slot = "none" <=> p \notin Listed(T)
  BY DEF Listed
<1>4. CASE p \in Listed(T) \/ ~Room(Listed(T))
  BY <1>2, <1>3, <1>4, OnlyAtSelf
<1>5. CASE ~(p \in Listed(T) \/ ~Room(Listed(T)))
  BY <1>2, <1>3, <1>5 DEF OnlyAt, Tables, Record, Slots
<1>6. QED
  BY <1>4, <1>5

\* The list is the same when no peer's slot is filled or emptied.
LEMMA SameList ==
  ASSUME NEW T, NEW U, NEW p \in Peers, OnlyAt(T, U, p),
         U[p].slot = "none" <=> T[p].slot = "none"
  PROVE  Listed(U) = Listed(T)
BY DEF OnlyAt, Listed

\* Either the peer is on the list, and then as connecting and pending; or it
\* found no room, and only became known or got a place.
LEMMA MarkConnectingRow ==
  ASSUME NEW T \in Tables, NEW p \in Peers
  PROVE  LET u == MarkConnecting(T, p)[p]
             r == T[p]
         IN  /\ OnlyAt(T, MarkConnecting(T, p), p)
             /\ u.tries = r.tries /\ u.backend = r.backend /\ u.cid = r.cid
             /\ u.wantDial = r.wantDial /\ (r.known => u.known)
             /\ \/ /\ u.known /\ u.pending /\ ~u.blocked
                   /\ u.slot = "connecting"
                \/ /\ u.pending = r.pending /\ u.blocked = r.blocked
                   /\ u.slot \in {r.slot, "reserved"}
                   /\ u.known => u.slot = "none" /\ ~Room(Listed(T))
             /\ u.known <=> r.known \/ Room(Known(T))
<1> DEFINE V == WithInfo(T, p)
           U == Reserve(V, p)
           u == [U[p] EXCEPT !.pending = TRUE, !.blocked = FALSE,
                             !.slot = "connecting"]
<1>1. /\ V \in Tables /\ OnlyAt(T, V, p) /\ Grown(T[p], V[p])
      /\ V[p].backend = T[p].backend
      /\ V[p].known <=> T[p].known \/ Room(Known(T))
  BY WithInfoRow DEF OnlyAt
<1>2. /\ U \in Tables /\ OnlyAt(V, U, p)
      /\ \/ U[p] = V[p]
         \/ V[p].slot = "none" /\ U[p] = [V[p] EXCEPT !.slot = "reserved"]
      /\ U[p].slot = "none" => ~Room(Listed(T))
  <2>1. Listed(V) = Listed(T)
    BY <1>1, SameList DEF Grown, SameLink
  <2> HIDE DEF V
  <2>2. QED
    BY <1>1, <2>1, ReserveRow DEF OnlyAt
<1>3. MarkConnecting(T, p) =
        IF U[p].known /\ p \in Listed(U)
        THEN [U EXCEPT ![p].pending = TRUE, ![p].blocked = FALSE,
                       ![p].slot = "connecting"]
        ELSE U
  BY DEF MarkConnecting
<1>4. V[p] \in Record /\ U[p] \in Record
  BY <1>1, <1>2, RowOf
<1>5. u \in Record
  BY <1>4 DEF Record, Slots
<1> HIDE DEF V, U
<1>6. OnlyAt(T, U, p)
  BY <1>1, <1>2, OnlyAtTwice
<1>7. CASE U[p].known /\ p \in Listed(U)
  <2>1. MarkConnecting(T, p) = [U EXCEPT ![p] = u]
    BY <1>2, <1>3, <1>7 DEF Tables
  <2>2. OnlyAt(U, MarkConnecting(T, p), p) /\ MarkConnecting(T, p)[p] = u
    <3> HIDE DEF u
    <3> QED BY <1>2, <1>5, <2>1 DEF OnlyAt, Tables
  <2>3. OnlyAt(T, MarkConnecting(T, p), p)
    BY <1>6, <2>2, OnlyAtTwice
  <2>4. /\ u.tries = U[p].tries /\ u.backend = U[p].backend /\ u.cid = U[p].cid
        /\ u.wantDial = U[p].wantDial /\ u.known = U[p].known
        /\ u.pending = TRUE /\ u.blocked = FALSE /\ u.slot = "connecting"
    BY <1>4 DEF Record
  <2>5. /\ U[p].tries = V[p].tries /\ U[p].backend = V[p].backend
        /\ U[p].cid = V[p].cid /\ U[p].wantDial = V[p].wantDial
        /\ U[p].known = V[p].known
    BY <1>2, <1>4 DEF Record
  <2> HIDE DEF u
  <2>6. QED
    BY <1>1, <1>7, <2>2, <2>3, <2>4, <2>5 DEF Grown, SameLink
<1>8. CASE ~(U[p].known /\ p \in Listed(U))
  <2>1. U[p].known => U[p].slot = "none"
    BY <1>8 DEF Listed
  <2>2. MarkConnecting(T, p) = U
    BY <1>3, <1>8
  <2>3. QED
    BY <1>1, <1>2, <1>4, <1>6, <2>1, <2>2 DEF Grown, SameLink, Record
<1>9. QED
  BY <1>7, <1>8

LEMMA MarkDisconnectingRow ==
  ASSUME NEW T \in Tables, NEW p \in Peers
  PROVE  /\ OnlyAt(T, MarkDisconnecting(T, p), p)
         /\ \/ /\ MarkDisconnecting(T, p)[p] = T[p] /\ T[p].slot = "none"
               /\ ~Room(Listed(T))
            \/ MarkDisconnecting(T, p)[p] =
                 [T[p] EXCEPT !.pending = FALSE, !.slot = "disconnecting"]
<1> DEFINE U == Reserve(T, p)
           u == [U[p] EXCEPT !.pending = FALSE, !.slot = "disconnecting"]
<1>1. /\ U \in Tables /\ OnlyAt(T, U, p)
      /\ \/ U[p] = T[p]
         \/ T[p].slot = "none" /\ U[p] = [T[p] EXCEPT !.slot = "reserved"]
      /\ U[p].slot = "none" => ~Room(Listed(T))
  BY ReserveRow DEF OnlyAt
<1>2. MarkDisconnecting(T, p) =
        IF p \in Listed(U)
        THEN [U EXCEPT ![p].pending = FALSE, ![p].slot = "disconnecting"]
        ELSE U
  BY DEF MarkDisconnecting
<1>3. T[p] \in Record /\ U[p] \in Record
  BY <1>1, RowOf
<1>4. u \in Record
  BY <1>3 DEF Record, Slots
<1> HIDE DEF U
<1>5. CASE p \in Listed(U)
  <2>1. MarkDisconnecting(T, p) = [U EXCEPT ![p] = u]
    BY <1>1, <1>2, <1>5 DEF Tables
  <2>2. OnlyAt(U, MarkDisconnecting(T, p), p) /\ MarkDisconnecting(T, p)[p] = u
    <3> HIDE DEF u
    <3> QED BY <1>1, <1>4, <2>1 DEF OnlyAt, Tables
  <2>3. u = [T[p] EXCEPT !.pending = FALSE, !.slot = "disconnecting"]
    BY <1>1, <1>3 DEF Record
  <2>4. QED
    BY <1>1, <2>2, <2>3, OnlyAtTwice
<1>6. CASE p \notin Listed(U)
  <2>1. U[p].slot = "none"
    BY <1>6 DEF Listed
  <2>2. U[p] = T[p]
    BY <1>1, <1>3, <2>1 DEF Record
  <2>3. QED
    BY <1>1, <1>2, <1>6, <2>1, <2>2
<1>7. QED
  BY <1>5, <1>6

LEMMA MarkDisconnectedRow ==
  ASSUME NEW T \in Tables, NEW p \in Peers
  PROVE  /\ OnlyAt(T, MarkDisconnected(T, p), p)
         /\ MarkDisconnected(T, p)[p] =
              [T[p] EXCEPT !.slot = "none", !.pending = FALSE]
<1> DEFINE u == [T[p] EXCEPT !.slot = "none", !.pending = FALSE]
<1>0. T[p] \in Record
  BY RowOf
<1>1. u \in Record
  BY <1>0 DEF Record, Slots
<1>2. MarkDisconnected(T, p) = [T EXCEPT ![p] = u]
  BY DEF MarkDisconnected, Tables
<1> HIDE DEF u
<1>3. OnlyAt(T, MarkDisconnected(T, p), p) /\ MarkDisconnected(T, p)[p] = u
  BY <1>1, <1>2 DEF OnlyAt, Tables
<1>4. QED
  BY <1>3 DEF u

LEMMA AddressedRow ==
  ASSUME NEW T \in Tables, NEW p \in Peers
  PROVE  /\ OnlyAt(T, Addressed(T, p), p)
         /\ Grown(T[p], Addressed(T, p)[p])
         /\ Addressed(T, p)[p].known = T[p].known
         /\ Addressed(T, p)[p].backend <=> T[p].backend \/ Room(Backends(T))
<1> DEFINE U == WithBackend(T, p)
           u == [U[p] EXCEPT !.addr = TRUE]
<1>1. /\ U \in Tables /\ OnlyAt(T, U, p) /\ Grown(T[p], U[p])
      /\ U[p].known = T[p].known
      /\ U[p].backend <=> T[p].backend \/ Room(Backends(T))
  BY WithBackendRow DEF OnlyAt
<1>2. Addressed(T, p) = IF U[p].backend THEN [U EXCEPT ![p].addr = TRUE] ELSE U
  BY DEF Addressed
<1>3. U[p] \in Record
  BY <1>1, RowOf
<1>4. /\ u \in Record /\ Grown(U[p], u) /\ u.known = U[p].known
      /\ u.backend = U[p].backend
  BY <1>3 DEF Record, Grown, SameLink
<1> HIDE DEF U
<1>5. CASE U[p].backend
  <2>1. Addressed(T, p) = [U EXCEPT ![p] = u]
    BY <1>1, <1>2, <1>5 DEF Tables
  <2> HIDE DEF u
  <2>2. OnlyAt(U, Addressed(T, p), p) /\ Addressed(T, p)[p] = u
    BY <1>1, <1>4, <2>1 DEF OnlyAt, Tables
  <2>3. QED
    BY <1>1, <1>4, <2>2, OnlyAtTwice DEF Grown, SameLink
<1>6. CASE ~U[p].backend
  BY <1>1, <1>2, <1>6
<1>7. QED
  BY <1>5, <1>6

LEMMA ReportRow ==
  ASSUME NEW T \in Tables, NEW p \in Peers, NEW ready \in BOOLEAN
  PROVE  /\ OnlyAt(T, Report(T, p, ready), p)
         /\ Grown(T[p], Report(T, p, ready)[p])
         /\ Report(T, p, ready)[p].backend <=> T[p].backend \/ Room(Backends(T))
         /\ Report(T, p, ready)[p].known <=> T[p].known \/ Room(Known(T))
<1> DEFINE A == Addressed(T, p)
           U == WithInfo(A, p)
           u == [U[p] EXCEPT !.ready = ready]
<1>1. /\ A \in Tables /\ OnlyAt(T, A, p) /\ Grown(T[p], A[p])
      /\ A[p].backend <=> T[p].backend \/ Room(Backends(T))
      /\ A[p].known <=> T[p].known
  BY AddressedRow DEF OnlyAt
<1>2. /\ U \in Tables /\ OnlyAt(A, U, p) /\ Grown(A[p], U[p])
      /\ U[p].backend <=> A[p].backend
      /\ U[p].known <=> A[p].known \/ Room(Known(T))
  <2>1. Known(A) = Known(T)
    BY <1>1 DEF OnlyAt, Known
  <2> HIDE DEF A
  <2>2. QED
    BY <1>1, <2>1, WithInfoRow DEF OnlyAt
<1>3. Report(T, p, ready) =
        IF U[p].backend /\ U[p].known THEN [U EXCEPT ![p].ready = ready] ELSE U
  BY DEF Report
<1>4. U[p] \in Record
  BY <1>2, RowOf
<1>5. /\ u \in Record /\ Grown(U[p], u)
      /\ u.backend = U[p].backend /\ u.known = U[p].known
  BY <1>4 DEF Record, Grown, SameLink
<1> HIDE DEF A, U
<1>6. OnlyAt(T, U, p) /\ Grown(T[p], U[p])
  BY <1>1, <1>2, OnlyAtTwice DEF Grown, SameLink
<1>7. CASE U[p].backend /\ U[p].known
  <2>1. Report(T, p, ready) = [U EXCEPT ![p] = u]
    BY <1>2, <1>3, <1>7 DEF Tables
  <2> HIDE DEF u
  <2>2. OnlyAt(U, Report(T, p, ready), p) /\ Report(T, p, ready)[p] = u
    BY <1>2, <1>5, <2>1 DEF OnlyAt, Tables
  <2>3. QED
    BY <1>1, <1>2, <1>5, <1>6, <2>2, OnlyAtTwice DEF Grown, SameLink
<1>8. CASE ~(U[p].backend /\ U[p].known)
  BY <1>1, <1>2, <1>3, <1>6, <1>8
<1>9. QED
  BY <1>7, <1>8

\* A peer with a row is ready, and connected unless the list has no room.
LEMMA MarkConnectedRow ==
  ASSUME NEW T \in Tables, NEW p \in Peers
  PROVE  LET u == MarkConnected(T, p)[p]
             r == T[p]
         IN  /\ OnlyAt(T, MarkConnected(T, p), p)
             /\ u.backend = r.backend /\ u.cid = r.cid /\ u.wantDial = r.wantDial
             /\ \/ ~r.known /\ ~u.known /\ SameLink(r, u)
                \/ /\ u.known /\ ~u.pending /\ ~u.blocked
                   /\ u.slot \in {"none", "connected"}
                   /\ u.slot = "none" => r.slot = "none" /\ ~Room(Listed(T))
             /\ u.known <=> r.known \/ Room(Known(T))
<1> DEFINE U == WithInfo(T, p)
           w == [U[p] EXCEPT !.pending = FALSE, !.blocked = FALSE,
                             !.ready = TRUE, !.tries = 0]
           W == [U EXCEPT ![p].pending = FALSE, ![p].blocked = FALSE,
                          ![p].ready = TRUE, ![p].tries = 0]
           V == Reserve(W, p)
           v == [V[p] EXCEPT !.slot = "connected"]
<1>1. /\ U \in Tables /\ OnlyAt(T, U, p) /\ Grown(T[p], U[p])
      /\ U[p].backend = T[p].backend
      /\ U[p].known <=> T[p].known \/ Room(Known(T))
  BY WithInfoRow DEF OnlyAt
<1>2. MarkConnected(T, p) =
        IF ~U[p].known THEN U
        ELSE IF p \in Listed(V) THEN [V EXCEPT ![p].slot = "connected"]
        ELSE V
  BY DEF MarkConnected
<1>3. T[p] \in Record /\ U[p] \in Record
  BY <1>1, RowOf
<1>4. w \in Record
  <2>1. 0 \in 0 .. SdpMaxAttempts
    BY BoundsAssumption
  <2>2. QED
    BY <1>3, <2>1 DEF Record
<1>5. W = [U EXCEPT ![p] = w]
  <2> HIDE DEF U
  <2> QED BY <1>1 DEF Tables
<1>6. W \in Tables /\ OnlyAt(U, W, p) /\ W[p] = w
  <2> HIDE DEF w, W, U
  <2> QED BY <1>1, <1>4, <1>5 DEF OnlyAt, Tables
<1>7. /\ V \in Tables /\ OnlyAt(W, V, p)
      /\ \/ V[p] = W[p]
         \/ W[p].slot = "none" /\ V[p] = [W[p] EXCEPT !.slot = "reserved"]
      /\ V[p].slot = "none" => T[p].slot = "none" /\ ~Room(Listed(T))
  <2>1. w.slot = T[p].slot
    BY <1>1, <1>3 DEF Record, Grown, SameLink
  <2> HIDE DEF w, U, W
  <2>2. OnlyAt(W, V, p) /\ (V[p].slot = "none" => ~Room(Listed(W)))
    BY <1>6, ReserveRow
  <2>3. V[p] = W[p] \/
        (W[p].slot = "none" /\ V[p] = [W[p] EXCEPT !.slot = "reserved"])
    BY <1>6, ReserveRow
  <2> HIDE DEF V
  <2>4. Listed(W) = Listed(T)
    BY <1>1, <1>6, <2>1, SameList, OnlyAtTwice
  <2>5. V[p].slot = "none" => W[p].slot = "none"
    BY <1>6, <2>3
  <2>6. QED
    BY <1>6, <2>1, <2>2, <2>3, <2>4, <2>5, RowIn
<1> HIDE DEF U, W, V
<1>8. V[p] \in Record
  BY <1>7, RowOf
<1>9. v \in Record
  BY <1>8 DEF Record, Slots
<1>10. OnlyAt(T, V, p)
  BY <1>1, <1>6, <1>7, OnlyAtTwice
<1>11. /\ V[p].backend = U[p].backend /\ V[p].cid = U[p].cid
       /\ V[p].wantDial = U[p].wantDial /\ V[p].known = U[p].known
       /\ V[p].pending = FALSE /\ V[p].blocked = FALSE
  <2>1. /\ w.backend = U[p].backend /\ w.cid = U[p].cid
        /\ w.wantDial = U[p].wantDial /\ w.known = U[p].known
        /\ w.pending = FALSE /\ w.blocked = FALSE
    BY <1>3 DEF Record
  <2> HIDE DEF w
  <2>2. CASE V[p] = w
    BY <2>1, <2>2
  <2>3. CASE V[p] = [w EXCEPT !.slot = "reserved"]
    <3>1. /\ V[p].backend = w.backend /\ V[p].cid = w.cid
          /\ V[p].wantDial = w.wantDial /\ V[p].known = w.known
          /\ V[p].pending = w.pending /\ V[p].blocked = w.blocked
      BY <1>4, <2>3 DEF Record
    <3>2. QED
      BY <2>1, <3>1
  <2>4. QED
    BY <1>6, <1>7, <2>2, <2>3
<1>12. CASE ~U[p].known
  BY <1>1, <1>2, <1>12 DEF Grown, SameLink
<1>13. CASE U[p].known /\ p \in Listed(V)
  <2>1. MarkConnected(T, p) = [V EXCEPT ![p] = v]
    BY <1>2, <1>7, <1>13 DEF Tables
  <2>2. OnlyAt(V, MarkConnected(T, p), p) /\ MarkConnected(T, p)[p] = v
    <3> HIDE DEF v
    <3> QED BY <1>7, <1>9, <2>1 DEF OnlyAt, Tables
  <2>3. OnlyAt(T, MarkConnected(T, p), p)
    BY <1>10, <2>2, OnlyAtTwice
  <2>4. /\ v.backend = V[p].backend /\ v.cid = V[p].cid
        /\ v.wantDial = V[p].wantDial /\ v.known = V[p].known
        /\ v.pending = V[p].pending /\ v.blocked = V[p].blocked
        /\ v.slot = "connected"
    BY <1>8 DEF Record
  <2> HIDE DEF v
  <2>5. QED
    BY <1>1, <1>13, <1>11, <2>2, <2>3, <2>4 DEF Grown, SameLink
<1>14. CASE U[p].known /\ p \notin Listed(V)
  <2>1. MarkConnected(T, p) = V /\ V[p].slot = "none"
    BY <1>2, <1>14 DEF Listed
  <2>2. QED
    BY <1>1, <1>7, <1>10, <1>14, <1>11, <2>1 DEF Grown, SameLink
<1>15. QED
  BY <1>12, <1>13, <1>14

-----------------------------------------------------------------------------
(***************************************************************************)
(* Steps.  Every handler but the housekeeping touches one peer.            *)
(***************************************************************************)

LEMMA ChannelsOf ==
  ASSUME NEW C \in Channels, NEW p \in Peers
  PROVE  /\ C[p] \in [Directions -> States]
         /\ C[p]["in"] \in States /\ C[p]["out"] \in States
BY DEF Channels, Directions

\* A step that touches p alone keeps the invariant of the others.
LEMMA OnePeer ==
  ASSUME IInv, NEW p \in Peers,
         OnlyAt(table, table', p),
         chan' \in Channels, \A q \in Peers : q # p => chan'[q] = chan[q],
         remembered' \subseteq Peers,
         \A q \in Peers : q # p => (q \in remembered' <=> q \in remembered),
         cut' \subseteq Peers,
         \A q \in Peers : q # p => (q \in cut' <=> q \in cut),
         dialling' \in Peers \cup {NoPeer},
         dialling' = dialling \/
           (DialIn = {} => \A q \in Peers : q # p =>
                             chan[q]["out"] \notin {"opening", "aborting"}),
         PeerInv(p)'
  PROVE  IInv'
<1>1. BackendType'
  BY DEF BackendType, OnlyAt
<1>2. ASSUME NEW q \in Peers, q # p PROVE PeerInv(q)'
  <2>1. PeerInv(q) /\ table'[q] = table[q] /\ chan'[q] = chan[q]
    BY <1>2 DEF IInv, OnlyAt
  <2>2. QED
    BY <1>2, <2>1 DEF PeerInv, RowInv, RowSound, HangsUp, OnlyDialled, StaysCut
<1>3. QED
  BY <1>1, <1>2 DEF IInv

LEMMA Untouched ==
  ASSUME IInv, UNCHANGED <<table, remembered, dialling, chan, cut>>
  PROVE  IInv'
BY DEF IInv, BackendType, PeerInv, RowInv, RowSound, HangsUp, OnlyDialled, StaysCut

\* A row that has only grown is as sound as before.
LEMMA GrownRow ==
  ASSUME IInv, NEW p \in Peers, OnlyAt(table, table', p),
         Grown(table[p], table'[p]),
         UNCHANGED <<remembered, dialling, chan, cut>>
  PROVE  IInv'
<1>1. BackendType /\ PeerInv(p)
  BY DEF IInv
<1>2. table[p] \in Record /\ table'[p] \in Record
  BY <1>1 DEF BackendType, OnlyAt, Tables
<1>3. PeerInv(p)'
  BY <1>1, <1>2, RowType
     DEF PeerInv, RowInv, RowSound, HangsUp, OnlyDialled, StaysCut, Grown, SameLink
<1>4. QED
  BY <1>1, <1>3, OnePeer DEF BackendType

(***************************************************************************)
(* The calls of the session layer.                                         *)
(***************************************************************************)

LEMMA ConnectRow ==
  ASSUME table \in Tables, NEW p \in Peers, Connect(p)
  PROVE  LET u == table'[p]
             r == table[p]
         IN  /\ OnlyAt(table, table', p)
             /\ \/ /\ cut' = cut /\ Grown(r, u) /\ u.backend = r.backend
                   /\ u.known <=> r.known \/ Room(Known(table))
                   /\ ~(u.known /\ (r.backend \/ Room(Backends(table))))
                \/ /\ cut' = cut \ {p} /\ u.known /\ u.backend /\ ~u.blocked
                   /\ u.cid = r.cid /\ u.tries = r.tries
                   /\ r.known \/ Room(Known(table))
                   /\ \/ u.slot = "connecting"
                      \/ /\ u.slot = "none" /\ r.slot = "none"
                         /\ ~Room(Listed(table))
<1> DEFINE T == WithInfo(table, p)
           U == WithBackend(T, p)
           x == [U[p] EXCEPT !.wantDial = TRUE, !.wantSdp = ~U[p].service,
                             !.pending = TRUE, !.blocked = FALSE]
           X == [U EXCEPT ![p].wantDial = TRUE, ![p].wantSdp = ~U[p].service,
                          ![p].pending = TRUE, ![p].blocked = FALSE]
<1>1. /\ T \in Tables /\ OnlyAt(table, T, p) /\ Grown(table[p], T[p])
      /\ T[p].backend = table[p].backend
      /\ T[p].known <=> table[p].known \/ Room(Known(table))
  BY WithInfoRow DEF OnlyAt
<1>2. /\ U \in Tables /\ OnlyAt(T, U, p) /\ Grown(T[p], U[p])
      /\ U[p].known = T[p].known
      /\ U[p].backend <=> table[p].backend \/ Room(Backends(table))
  <2>1. Backends(T) = Backends(table)
    BY <1>1 DEF OnlyAt, Backends
  <2> HIDE DEF T
  <2>2. QED
    BY <1>1, <2>1, WithBackendRow DEF OnlyAt
<1>3. \/ ~(T[p].known /\ U[p].backend) /\ table' = T /\ UNCHANGED cut
      \/ /\ T[p].known /\ U[p].backend
         /\ table' = MarkConnecting(X, p) /\ cut' = cut \ {p}
  BY DEF Connect
<1> HIDE DEF T, U
<1>4. CASE ~(T[p].known /\ U[p].backend) /\ table' = T /\ UNCHANGED cut
  BY <1>1, <1>2, <1>4
<1>5. CASE /\ T[p].known /\ U[p].backend
           /\ table' = MarkConnecting(X, p) /\ cut' = cut \ {p}
  <2>1. U[p] \in Record
    BY <1>2, RowOf
  <2>2. /\ x \in Record /\ x.known = U[p].known /\ x.backend = U[p].backend
        /\ x.tries = U[p].tries /\ x.cid = U[p].cid /\ x.slot = U[p].slot
        /\ x.blocked = FALSE
    BY <2>1 DEF Record
  <2>3. X = [U EXCEPT ![p] = x]
    BY <1>2 DEF Tables
  <2> HIDE DEF x, X
  <2>4. X \in Tables /\ OnlyAt(U, X, p) /\ X[p] = x
    BY <1>2, <2>2, <2>3 DEF OnlyAt, Tables
  <2>5. OnlyAt(table, X, p)
    BY <1>1, <1>2, <2>4, OnlyAtTwice
  <2>6. x.slot = table[p].slot /\ x.cid = table[p].cid /\ x.tries = table[p].tries
    BY <1>1, <1>2, <2>2 DEF Grown, SameLink
  <2>7. Listed(X) = Listed(table)
    BY <2>4, <2>5, <2>6, SameList
  <2>8. /\ OnlyAt(X, table', p)
        /\ table'[p].tries = x.tries /\ table'[p].backend = x.backend
        /\ table'[p].cid = x.cid /\ table'[p].known
        /\ ~table'[p].blocked
        /\ \/ table'[p].slot = "connecting"
           \/ /\ table'[p].slot = "none" /\ x.slot = "none"
              /\ ~Room(Listed(table))
    <3> DEFINE W == MarkConnecting(X, p)
    <3>1. /\ OnlyAt(X, W, p)
          /\ W[p].tries = X[p].tries /\ W[p].backend = X[p].backend
          /\ W[p].cid = X[p].cid /\ (X[p].known => W[p].known)
          /\ \/ W[p].known /\ ~W[p].blocked /\ W[p].slot = "connecting"
             \/ /\ W[p].blocked = X[p].blocked
                /\ W[p].slot \in {X[p].slot, "reserved"}
                /\ W[p].known => W[p].slot = "none" /\ ~Room(Listed(X))
      BY <2>4, MarkConnectingRow
    <3>2. table' = W
      BY <1>5
    <3> HIDE DEF W
    <3>3. QED
      BY <1>2, <1>5, <2>2, <2>4, <2>7, <3>1, <3>2
  <2>9. OnlyAt(table, table', p)
    BY <2>5, <2>8, OnlyAtTwice
  <2>10. QED
    BY <1>1, <1>5, <2>2, <2>6, <2>8, <2>9
<1>6. QED
  BY <1>3, <1>4, <1>5

LEMMA ConnectInvariant ==
  ASSUME IInv, NEW p \in Peers, Connect(p)
  PROVE  IInv'
<1>1. BackendType /\ PeerInv(p) /\ table[p] \in Record
  BY RowOf DEF IInv, BackendType
<1>2. UNCHANGED <<remembered, dialling, chan>>
  BY DEF Connect
<1>3. OnlyAt(table, table', p)
  BY <1>1, ConnectRow DEF BackendType
<1>4. CASE cut' = cut /\ Grown(table[p], table'[p])
  BY <1>2, <1>3, <1>4, GrownRow
<1>5. CASE /\ cut' = cut \ {p} /\ table'[p].known /\ table'[p].backend
           /\ ~table'[p].blocked /\ table'[p].cid = table[p].cid
           /\ table'[p].slot \in {"connecting", "none"}
  <2>1. PeerInv(p)'
    BY <1>1, <1>2, <1>5
       DEF PeerInv, RowInv, RowSound, HangsUp, OnlyDialled, StaysCut
  <2>2. QED
    BY <1>1, <1>2, <1>3, <1>5, <2>1, OnePeer DEF BackendType
<1>6. QED
  <2>1. \/ cut' = cut /\ Grown(table[p], table'[p])
        \/ /\ cut' = cut \ {p} /\ table'[p].known /\ table'[p].backend
           /\ ~table'[p].blocked /\ table'[p].cid = table[p].cid
           /\ table'[p].slot \in {"connecting", "none"}
    BY <1>1, ConnectRow DEF BackendType
  <2>2. QED
    BY <1>4, <1>5, <2>1

\* A peer hung up is off the list, or disconnecting when it has a channel.
LEMMA HungUpRow ==
  ASSUME NEW T \in Tables, NEW p \in Peers
  PROVE  LET u == HungUp(T, p)[p]
             r == T[p]
         IN  /\ OnlyAt(T, HungUp(T, p), p)
             /\ u.known = r.known /\ u.tries = r.tries
             /\ u.backend = r.backend /\ u.cid = r.cid
             /\ ~r.backend => u = r
             /\ r.backend =>
                  /\ ~u.wantDial /\ u.blocked = r.known
                  /\ u.pending => r.pending
                  /\ u.slot \in {"none", "disconnecting"}
                  /\ u.slot = "disconnecting" => HasCid(T, p)
                  /\ u.slot = "none" /\ HasCid(T, p) =>
                       r.slot = "none" /\ ~Room(Listed(T))
<1> DEFINE y == [T[p] EXCEPT !.blocked = T[p].known, !.wantDial = FALSE,
                             !.wantSdp = FALSE]
           Y == [T EXCEPT ![p].blocked = T[p].known,
                          ![p].wantDial = FALSE, ![p].wantSdp = FALSE]
           U == MarkDisconnecting(Y, p)
<1>1. T[p] \in Record
  BY RowOf
<1>2. /\ y \in Record /\ y.known = T[p].known /\ y.tries = T[p].tries
      /\ y.backend = T[p].backend /\ y.cid = T[p].cid
      /\ y.slot = T[p].slot /\ y.pending = T[p].pending
      /\ y.blocked = T[p].known /\ y.wantDial = FALSE
  BY <1>1 DEF Record
<1>3. Y = [T EXCEPT ![p] = y]
  BY DEF Tables
<1>4. Y \in Tables /\ OnlyAt(T, Y, p) /\ Y[p] = y
  <2> HIDE DEF y, Y
  <2> QED BY <1>2, <1>3 DEF OnlyAt, Tables
<1>5. HungUp(T, p) = IF ~T[p].backend THEN T
                     ELSE IF HasCid(T, p) THEN U ELSE MarkDisconnected(U, p)
  BY DEF HungUp
<1>6. /\ OnlyAt(Y, U, p) /\ U \in Tables
      /\ \/ U[p] = y /\ y.slot = "none" /\ ~Room(Listed(T))
         \/ U[p] = [y EXCEPT !.pending = FALSE, !.slot = "disconnecting"]
  <2> HIDE DEF y, Y
  <2>1. Listed(Y) = Listed(T)
    BY <1>2, <1>4, SameList
  <2>2. QED
    BY <1>4, <2>1, MarkDisconnectingRow DEF OnlyAt
<1> HIDE DEF y, Y, U
<1>7. OnlyAt(T, U, p)
  BY <1>4, <1>6, OnlyAtTwice
<1>8. /\ U[p].known = y.known /\ U[p].tries = y.tries
      /\ U[p].backend = y.backend /\ U[p].cid = y.cid
      /\ U[p].blocked = y.blocked /\ U[p].wantDial = y.wantDial
      /\ U[p].pending => y.pending
      /\ U[p].slot \in {"none", "disconnecting"}
      /\ U[p].slot = "none" => y.slot = "none" /\ ~Room(Listed(T))
  BY <1>2, <1>6 DEF Record
<1>9. /\ OnlyAt(U, MarkDisconnected(U, p), p)
      /\ MarkDisconnected(U, p)[p] = [U[p] EXCEPT !.slot = "none", !.pending = FALSE]
  BY <1>6, MarkDisconnectedRow
<1>10. U[p] \in Record
  BY <1>6, RowOf
<1>11. CASE ~T[p].backend
  BY <1>5, <1>11, OnlyAtSelf
<1>12. CASE T[p].backend /\ HasCid(T, p)
  BY <1>2, <1>5, <1>7, <1>8, <1>12
<1>13. CASE T[p].backend /\ ~HasCid(T, p)
  <2>1. HungUp(T, p) = MarkDisconnected(U, p)
    BY <1>5, <1>13
  <2>2. OnlyAt(T, HungUp(T, p), p)
    BY <1>7, <1>9, <2>1, OnlyAtTwice
  <2> DEFINE m == [U[p] EXCEPT !.slot = "none", !.pending = FALSE]
  <2>3. /\ m.known = U[p].known /\ m.tries = U[p].tries
        /\ m.backend = U[p].backend /\ m.cid = U[p].cid
        /\ m.blocked = U[p].blocked /\ m.wantDial = U[p].wantDial
        /\ m.pending = FALSE /\ m.slot = "none"
    BY <1>10 DEF Record
  <2>4. HungUp(T, p)[p] = m
    BY <1>9, <2>1
  <2> HIDE DEF m
  <2>5. QED
    BY <1>2, <1>8, <1>13, <2>2, <2>3, <2>4
<1>14. QED
  BY <1>1, <1>11, <1>12, <1>13, RowType

\* A hang-up reaches the channel the row knows: it is not open afterwards,
\* and not being opened, but it is there until BTstack reports its end.
LEMMA HangupChannel ==
  ASSUME BackendType, NEW p \in Peers, NEW d \in Directions, chan' = Hangup(p, d)
  PROVE  /\ chan' \in Channels /\ \A q \in Peers : q # p => chan'[q] = chan[q]
         /\ \A e \in Directions : e # d => chan'[p][e] = chan[p][e]
         /\ chan[p][d] = "none" <=> chan'[p][d] = "none"
         /\ chan'[p][d] \notin {"opening", "open"}
         /\ chan'[p][d] = "aborting" => chan[p][d] \in {"opening", "aborting"}
<1> DEFINE e == IF chan[p][d] = "opening" THEN "aborting"
                ELSE IF chan[p][d] = "open" THEN "closing" ELSE chan[p][d]
           c == [chan[p] EXCEPT ![d] = e]
<1>1. chan \in Channels /\ chan[p] \in [Directions -> States]
  BY ChannelsOf DEF BackendType
<1>2. e \in {"none", "aborting", "closing"}
  BY <1>1 DEF States
<1>3. chan' = [chan EXCEPT ![p] = c]
  BY <1>1 DEF Hangup, Channels
<1>4. /\ c \in [Directions -> States]
      /\ c[d] = e /\ \A f \in Directions : f # d => c[f] = chan[p][f]
  <2> HIDE DEF e
  <2> QED BY <1>1, <1>2 DEF States
<1>5. /\ chan' \in Channels /\ chan'[p] = c
      /\ \A q \in Peers : q # p => chan'[q] = chan[q]
  <2> HIDE DEF c
  <2> QED BY <1>1, <1>3, <1>4 DEF Channels
<1>6. QED
  <2> HIDE DEF c
  <2> QED BY <1>2, <1>4, <1>5

\* Hanging up, with or without the block, for a peer that was cut or not.
LEMMA HangUpInvariant ==
  ASSUME IInv, NEW p \in Peers,
         OnlyAt(table, table', p), HangUpPeer(p),
         UNCHANGED <<remembered, dialling>>,
         LET u == HungUp(table, p)[p]
         IN  /\ table'[p].known = u.known /\ table'[p].tries = u.tries
             /\ table'[p].backend = u.backend /\ table'[p].cid = u.cid
             /\ table'[p].pending = u.pending /\ table'[p].slot = u.slot
             /\ table'[p].wantDial = u.wantDial,
         table[p].backend,
         \/ table'[p].blocked = table[p].known /\ cut' = cut \cup {p}
         \/ table'[p].blocked = FALSE /\ UNCHANGED cut /\ Linked(p)
  PROVE  IInv'
<1>1. BackendType /\ PeerInv(p) /\ table \in Tables /\ table[p] \in Record
  BY RowOf DEF IInv, BackendType
<1>2. /\ table'[p].known = table[p].known /\ table'[p].tries = table[p].tries
      /\ table'[p].backend /\ table'[p].cid = table[p].cid
      /\ ~table'[p].wantDial /\ (table'[p].pending => table[p].pending)
      /\ \/ table'[p].slot = "none"
         \/ table'[p].slot = "disconnecting" /\ HasCid(table, p)
  BY <1>1, HungUpRow
<1>3. /\ chan' \in Channels /\ \A q \in Peers : q # p => chan'[q] = chan[q]
      /\ ~HasCid(table, p) => chan' = chan
      /\ HasCid(table, p) =>
           /\ table[p].cid \in Directions
           /\ \A e \in Directions : e # table[p].cid => chan'[p][e] = chan[p][e]
           /\ chan[p][table[p].cid] = "none" <=> chan'[p][table[p].cid] = "none"
           /\ chan'[p][table[p].cid] \notin {"opening", "open"}
           /\ chan'[p][table[p].cid] = "aborting" =>
                chan[p][table[p].cid] \in {"opening", "aborting"}
  <2>1. CASE HasCid(table, p)
    <3>1. table[p].cid \in Directions /\ chan' = Hangup(p, table[p].cid)
      BY <1>1, <2>1, RowType DEF HasCid, HangUpPeer, Directions
    <3>2. QED
      BY <1>1, <2>1, <3>1, HangupChannel
  <2>2. CASE ~HasCid(table, p)
    BY <1>1, <2>2 DEF HangUpPeer, BackendType
  <2>3. QED
    BY <2>1, <2>2
<1>4. table[p].cid \in {"in", "out", "none"} /\ (table[p].cid # "none" <=> HasCid(table, p))
  BY <1>1, RowType DEF HasCid
<1>5. RowSound(p, table[p], chan[p])' /\ HangsUp(table[p])'
  BY <1>1, <1>2, <1>3, <1>4 DEF PeerInv, RowInv, RowSound, HangsUp, HasCid
<1>6. OnlyDialled(p, table[p], chan[p], dialling)'
  BY <1>1, <1>2, <1>3, <1>4 DEF PeerInv, RowInv, OnlyDialled, Directions
<1>7. StaysCut(p, table[p], chan[p])'
  <2> SUFFICES ASSUME DialIn = {}, Clearable = {}
               PROVE  /\ chan'[p]["out"] # "none" => table'[p].cid = "out"
                      /\ AbortReports = {"closed"} /\ p \in cut' =>
                           /\ ~table'[p].wantDial
                           /\ chan'[p]["out"] \notin {"opening", "open"}
                           /\ table'[p].blocked \/
                                (~table'[p].pending /\ p \notin remembered')
    BY DEF StaysCut
  <2>1. /\ chan[p]["out"] # "none" => table[p].cid = "out"
        /\ chan[p]["in"] = "none"
        /\ table[p].cid # "none" => chan[p][table[p].cid] # "none"
        /\ table[p].pending => table[p].known
        /\ p \in remembered => table[p].known
    BY <1>1 DEF PeerInv, RowInv, RowSound, OnlyDialled, StaysCut
  <2>2. chan'[p]["out"] # "none" => table'[p].cid = "out"
    BY <1>2, <1>3, <1>4, <2>1 DEF Directions
  <2>3. chan'[p]["out"] \notin {"opening", "open"}
    BY <1>2, <1>3, <1>4, <2>1 DEF Directions
  <2>4. CASE table'[p].blocked = table[p].known
    BY <1>2, <2>1, <2>2, <2>3, <2>4
  <2>5. CASE UNCHANGED cut /\ Linked(p)
    <3>1. chan[p]["out"] = "open"
      BY <1>4, <2>1, <2>5 DEF Linked
    <3>2. ~(AbortReports = {"closed"} /\ p \in cut)
      BY <1>1, <3>1 DEF PeerInv, RowInv, StaysCut
    <3>3. QED
      BY <2>2, <2>5, <3>2
  <2>6. QED
    BY <2>4, <2>5
<1>8. PeerInv(p)'
  BY <1>5, <1>6, <1>7 DEF PeerInv, RowInv
<1>9. QED
  BY <1>1, <1>3, <1>8, OnePeer DEF BackendType

LEMMA DisconnectInvariant ==
  ASSUME IInv, NEW p \in Peers, Disconnect(p)
  PROVE  IInv'
<1>1. table \in Tables
  BY DEF IInv, BackendType
<1>2. /\ table[p].backend /\ table' = HungUp(table, p) /\ HangUpPeer(p)
      /\ cut' = cut \cup {p} /\ UNCHANGED <<remembered, dialling>>
  BY DEF Disconnect, OtherCalls
<1>3. OnlyAt(table, table', p) /\ table'[p].blocked = table[p].known
  BY <1>1, <1>2, HungUpRow
<1>4. QED
  BY <1>2, <1>3, HangUpInvariant

LEMMA SessionTimeoutRow ==
  ASSUME table \in Tables, NEW p \in Peers, SessionTimeout(p)
  PROVE  LET u == table'[p]
             r == HungUp(table, p)[p]
         IN  /\ OnlyAt(table, table', p)
             /\ u.known = r.known /\ u.tries = r.tries
             /\ u.backend = r.backend /\ u.cid = r.cid
             /\ u.pending = r.pending /\ u.slot = r.slot
             /\ u.wantDial = r.wantDial /\ u.blocked = FALSE
<1> DEFINE U == HungUp(table, p)
           u == [U[p] EXCEPT !.blocked = FALSE]
<1>1. table' = [U EXCEPT ![p].blocked = FALSE]
  BY DEF SessionTimeout
<1>2. OnlyAt(table, U, p) /\ U \in Tables
  BY HungUpRow DEF OnlyAt
<1> HIDE DEF U
<1>3. U[p] \in Record
  BY <1>2, RowOf
<1>4. /\ u \in Record /\ u.known = U[p].known /\ u.tries = U[p].tries
      /\ u.backend = U[p].backend /\ u.cid = U[p].cid
      /\ u.pending = U[p].pending /\ u.slot = U[p].slot
      /\ u.wantDial = U[p].wantDial /\ u.blocked = FALSE
  BY <1>3 DEF Record
<1>5. table' = [U EXCEPT ![p] = u]
  BY <1>1, <1>2 DEF Tables
<1> HIDE DEF u
<1>6. OnlyAt(U, table', p) /\ table'[p] = u
  BY <1>2, <1>4, <1>5 DEF OnlyAt, Tables
<1>7. OnlyAt(table, table', p)
  BY <1>2, <1>6, OnlyAtTwice
<1>8. QED
  BY <1>4, <1>6, <1>7 DEF U

LEMMA SessionTimeoutInvariant ==
  ASSUME IInv, NEW p \in Peers, SessionTimeout(p)
  PROVE  IInv'
<1>1. table \in Tables
  BY DEF IInv, BackendType
<1>2. /\ Linked(p) /\ HangUpPeer(p)
      /\ UNCHANGED <<remembered, dialling, cut>>
  BY DEF SessionTimeout, OtherCalls
<1>3. table[p].backend
  BY <1>2 DEF Linked, HasCid
<1>4. QED
  BY <1>1, <1>2, <1>3, SessionTimeoutRow, HangUpInvariant

LEMMA ClearRow ==
  ASSUME table \in Tables, NEW p \in Peers, Clear(p)
  PROVE  LET u == table'[p]
         IN  /\ OnlyAt(table, table', p)
             /\ ~u.known /\ ~u.backend /\ u.cid = "none"
             /\ ~u.pending /\ ~u.blocked
             /\ \/ /\ p \in Listed(table) /\ HangUpPeer(p)
                   /\ u.slot = HungUp(table, p)[p].slot
                \/ /\ p \notin Listed(table) /\ UNCHANGED <<chan, outq>>
                   /\ u.slot = "none"
<1> DEFINE k == HungUp(table, p)[p].slot
           b == [Blank EXCEPT !.slot = k]
<1>1. k \in Slots
  <2>1. HungUp(table, p)[p] \in Record
    BY HungUpRow, RowIn
  <2>2. QED
    BY <2>1, RowType
<1>2. \/ /\ p \in Listed(table) /\ HangUpPeer(p)
         /\ table' = [table EXCEPT ![p] = b]
      \/ /\ p \notin Listed(table) /\ UNCHANGED <<chan, outq>>
         /\ table' = [table EXCEPT ![p] = Blank]
  BY DEF Clear
<1> HIDE DEF k
<1>3. /\ b \in Record /\ ~b.known /\ ~b.backend /\ b.cid = "none"
      /\ ~b.pending /\ b.slot = k /\ ~b.blocked
  BY <1>1, BlankType DEF Blank, Record
<1>4. /\ ~Blank.known /\ ~Blank.backend /\ Blank.cid = "none"
      /\ ~Blank.pending /\ Blank.slot = "none" /\ ~Blank.blocked
  BY DEF Blank
<1> HIDE DEF b
<1>5. CASE /\ p \in Listed(table) /\ HangUpPeer(p)
           /\ table' = [table EXCEPT ![p] = b]
  BY <1>3, <1>5 DEF OnlyAt, Tables, k
<1>6. CASE /\ p \notin Listed(table) /\ UNCHANGED <<chan, outq>>
           /\ table' = [table EXCEPT ![p] = Blank]
  BY <1>4, <1>6, BlankType DEF OnlyAt, Tables
<1>7. QED
  BY <1>2, <1>5, <1>6

LEMMA ClearInvariant ==
  ASSUME IInv, NEW p \in Peers, Clear(p)
  PROVE  IInv'
<1>1. BackendType /\ PeerInv(p) /\ table \in Tables /\ table[p] \in Record
  BY RowOf DEF IInv, BackendType
<1>2. Clearable # {} /\ remembered' = remembered \ {p} /\ cut' = cut \ {p}
      /\ UNCHANGED dialling
  BY DEF Clear, OtherCalls
<1>3. /\ OnlyAt(table, table', p) /\ ~table'[p].backend
      /\ table'[p].cid = "none" /\ ~table'[p].pending /\ ~table'[p].blocked
      /\ table'[p].slot # "connected"
  <2>1. HungUp(table, p)[p].slot # "connected"
    BY <1>1, HungUpRow DEF PeerInv, RowInv, RowSound
  <2>2. QED
    BY <1>1, <2>1, ClearRow
<1>4. /\ chan' \in Channels /\ \A q \in Peers : q # p => chan'[q] = chan[q]
      /\ chan[p]["in"] = "none" => chan'[p]["in"] = "none"
      /\ chan'[p]["out"] \in {"opening", "aborting"} =>
           chan[p]["out"] \in {"opening", "aborting"}
  <2>1. CASE HasCid(table, p) /\ HangUpPeer(p)
    <3>1. table[p].cid \in Directions /\ chan' = Hangup(p, table[p].cid)
      BY <1>1, <2>1, RowType DEF HasCid, HangUpPeer, Directions
    <3>2. QED
      BY <1>1, <3>1, HangupChannel DEF Directions
  <2>2. CASE UNCHANGED chan
    BY <1>1, <2>2 DEF BackendType
  <2>3. QED
    BY <2>1, <2>2 DEF Clear, HangUpPeer
<1>5. PeerInv(p)'
  BY <1>1, <1>2, <1>3, <1>4
     DEF PeerInv, RowInv, RowSound, HangsUp, OnlyDialled, StaysCut
<1>6. QED
  BY <1>1, <1>2, <1>3, <1>4, <1>5, OnePeer DEF BackendType

-----------------------------------------------------------------------------
(***************************************************************************)
(* BTstack's events.                                                       *)
(***************************************************************************)

LEMMA InquiryRow ==
  ASSUME table \in Tables, NEW h \in Peers, InquiryResult(h)
  PROVE  LET u == table'[h]
             r == table[h]
         IN  /\ OnlyAt(table, table', h) /\ Grown(r, u)
             /\ u.backend <=> r.backend \/ Room(Backends(table))
             /\ u.known <=> r.known \/ Room(Known(table))
<1> DEFINE T == Report(table, h, FALSE)
           u == [T[h] EXCEPT !.wantSdp = TRUE]
<1>1. /\ T \in Tables /\ OnlyAt(table, T, h) /\ Grown(table[h], T[h])
      /\ T[h].backend <=> table[h].backend \/ Room(Backends(table))
      /\ T[h].known <=> table[h].known \/ Room(Known(table))
  BY ReportRow DEF OnlyAt
<1>2. table' = T \/ table' = [T EXCEPT ![h].wantSdp = TRUE]
  BY DEF InquiryResult
<1> HIDE DEF T
<1>3. T[h] \in Record
  BY <1>1, RowOf
<1>4. /\ u \in Record /\ Grown(T[h], u)
      /\ u.backend = T[h].backend /\ u.known = T[h].known
  BY <1>3 DEF Record, Grown, SameLink
<1>5. [T EXCEPT ![h].wantSdp = TRUE] = [T EXCEPT ![h] = u]
  BY <1>1 DEF Tables
<1> HIDE DEF u
<1>6. OnlyAt(T, [T EXCEPT ![h] = u], h) /\ [T EXCEPT ![h] = u][h] = u
  BY <1>1, <1>4 DEF OnlyAt, Tables
<1>7. CASE table' = T
  BY <1>1, <1>7
<1>8. CASE table' = [T EXCEPT ![h] = u]
  BY <1>1, <1>4, <1>6, <1>8, OnlyAtTwice DEF Grown, SameLink
<1>9. QED
  BY <1>2, <1>5, <1>7, <1>8

LEMMA InquiryInvariant ==
  ASSUME IInv, NEW h \in Peers, InquiryResult(h)
  PROVE  IInv'
<1>1. OnlyAt(table, table', h) /\ Grown(table[h], table'[h])
  BY InquiryRow DEF IInv, BackendType
<1>2. UNCHANGED <<remembered, dialling, chan, cut>>
  BY DEF InquiryResult
<1>3. QED
  BY <1>1, <1>2, GrownRow

\* One channel of a peer moves to another state.
LEMMA ChannelMoves ==
  ASSUME BackendType, NEW h \in Peers, NEW d \in Directions,
         NEW s \in States,
         chan' = [chan EXCEPT ![h][d] = s]
  PROVE  /\ chan' \in Channels /\ \A q \in Peers : q # h => chan'[q] = chan[q]
         /\ chan'[h][d] = s
         /\ \A e \in Directions : e # d => chan'[h][e] = chan[h][e]
<1> DEFINE c == [chan[h] EXCEPT ![d] = s]
<1>1. chan \in Channels /\ chan[h] \in [Directions -> States]
  BY ChannelsOf DEF BackendType
<1>2. chan' = [chan EXCEPT ![h] = c]
  BY <1>1 DEF Channels
<1>3. /\ c \in [Directions -> States]
      /\ c[d] = s /\ \A e \in Directions : e # d => c[e] = chan[h][e]
  BY <1>1
<1> HIDE DEF c
<1>4. chan' \in Channels /\ chan'[h] = c /\ \A q \in Peers : q # h => chan'[q] = chan[q]
  BY <1>1, <1>2, <1>3 DEF Channels
<1>5. QED
  BY <1>3, <1>4

LEMMA IncomingRow ==
  ASSUME table \in Tables, NEW h \in Peers, Incoming(h)
  PROVE  LET u == table'[h]
             r == table[h]
         IN  /\ OnlyAt(table, table', h)
             /\ u.backend /\ u.cid = "in"
             /\ r.backend \/ Room(Backends(table))
             /\ u.known <=> r.known \/ Room(Known(table))
             /\ \/ u.known /\ u.slot = "connecting" /\ ~u.blocked
                \/ /\ u.pending = r.pending
                   /\ u.slot \in {r.slot, "reserved"}
                   /\ u.known => u.slot = "none" /\ ~Room(Listed(table))
<1> DEFINE T == Addressed(table, h)
           x == [T[h] EXCEPT !.service = TRUE, !.cid = "in", !.wantDial = TRUE]
           X == [T EXCEPT ![h].service = TRUE, ![h].cid = "in",
                          ![h].wantDial = TRUE]
           U == Report(X, h, TRUE)
           W == MarkConnecting(U, h)
<1>1. /\ T \in Tables /\ OnlyAt(table, T, h) /\ Grown(table[h], T[h])
      /\ T[h].known = table[h].known
      /\ T[h].backend <=> table[h].backend \/ Room(Backends(table))
  BY AddressedRow DEF OnlyAt
<1>2. T[h].backend /\ table' = W
  BY DEF Incoming
<1> HIDE DEF T
<1>3. T[h] \in Record
  BY <1>1, RowOf
<1>4. /\ x \in Record /\ x.known = T[h].known /\ x.backend = T[h].backend
      /\ x.pending = T[h].pending /\ x.slot = T[h].slot /\ x.cid = "in"
  BY <1>3 DEF Record, Directions
<1>5. X = [T EXCEPT ![h] = x]
  BY <1>1 DEF Tables
<1> HIDE DEF x, X
<1>6. X \in Tables /\ OnlyAt(T, X, h) /\ X[h] = x
  BY <1>1, <1>4, <1>5 DEF OnlyAt, Tables
<1>7. OnlyAt(table, X, h)
  BY <1>1, <1>6, OnlyAtTwice
<1>8. Known(X) = Known(table)
  BY <1>1, <1>4, <1>6, <1>7 DEF OnlyAt, Known
<1>9. /\ OnlyAt(X, U, h) /\ U \in Tables /\ Grown(x, U[h])
      /\ U[h].known <=> x.known \/ Room(Known(table))
  BY <1>6, <1>8, ReportRow DEF OnlyAt
<1> HIDE DEF U
<1>10. OnlyAt(table, U, h) /\ U[h].slot = table[h].slot
  BY <1>1, <1>4, <1>7, <1>9, OnlyAtTwice DEF Grown, SameLink
<1>11. Listed(U) = Listed(table)
  BY <1>10, SameList
<1>12. /\ OnlyAt(U, W, h)
       /\ W[h].backend = U[h].backend /\ W[h].cid = U[h].cid
       /\ W[h].known <=> U[h].known \/ Room(Known(U))
       /\ U[h].known => W[h].known
       /\ \/ W[h].known /\ W[h].slot = "connecting" /\ ~W[h].blocked
          \/ /\ W[h].pending = U[h].pending
             /\ W[h].slot \in {U[h].slot, "reserved"}
             /\ W[h].known => W[h].slot = "none" /\ ~Room(Listed(U))
  BY <1>9, MarkConnectingRow
<1> HIDE DEF W
<1>13. W[h].known <=> table[h].known \/ Room(Known(table))
  <2>1. CASE U[h].known
    BY <1>1, <1>4, <1>9, <1>12, <2>1
  <2>2. CASE ~U[h].known
    <3>1. Known(U) = Known(table)
      BY <1>1, <1>4, <1>9, <1>10, <2>2 DEF OnlyAt, Known
    <3>2. QED
      BY <1>1, <1>4, <1>9, <1>12, <2>2, <3>1
  <2>3. QED
    BY <2>1, <2>2
<1>14. OnlyAt(table, W, h)
  BY <1>10, <1>12, OnlyAtTwice
<1>15. QED
  BY <1>1, <1>2, <1>4, <1>9, <1>10, <1>11, <1>12, <1>13, <1>14
     DEF Grown, SameLink

LEMMA IncomingInvariant ==
  ASSUME IInv, NEW h \in Peers, Incoming(h)
  PROVE  IInv'
<1>1. BackendType /\ PeerInv(h) /\ table \in Tables /\ table[h] \in Record
  BY RowOf DEF IInv, BackendType
<1>2. /\ DialIn # {} /\ chan' = [chan EXCEPT ![h]["in"] = "opening"]
      /\ cut' = cut \ {h} /\ UNCHANGED <<remembered, dialling>>
  BY DEF Incoming
<1>3. /\ OnlyAt(table, table', h) /\ table'[h].backend /\ table'[h].cid = "in"
      /\ table[h].known => table'[h].known
      /\ table'[h].slot = "connected" =>
           table[h].slot = "connected" /\ ~table'[h].known
      /\ table'[h].pending => table'[h].known \/ table[h].pending
  BY <1>1, IncomingRow
<1>4. /\ chan' \in Channels /\ \A q \in Peers : q # h => chan'[q] = chan[q]
      /\ chan'[h]["in"] = "opening"
  BY <1>1, <1>2, ChannelMoves DEF Directions, States
<1>5. PeerInv(h)'
  BY <1>1, <1>2, <1>3, <1>4
     DEF PeerInv, RowInv, RowSound, HangsUp, OnlyDialled, StaysCut
<1>6. QED
  BY <1>1, <1>2, <1>3, <1>4, <1>5, OnePeer DEF BackendType

\* A channel whose opening ends was the dial under way: no other peer is dialled.
LEMMA OneOpening ==
  ASSUME IInv, NEW h \in Peers, NEW d \in Directions,
         chan[h][d] \in {"opening", "aborting"}, DialIn = {}
  PROVE  /\ d = "out" /\ dialling = h
         /\ \A q \in Peers : q # h => chan[q]["out"] \notin {"opening", "aborting"}
BY DEF IInv, PeerInv, RowInv, OnlyDialled, Directions

LEMMA OpenedRow ==
  ASSUME table \in Tables, NEW h \in Peers, NEW d \in Directions, Opened(h, d)
  PROVE  LET u == table'[h]
             r == table[h]
         IN  /\ OnlyAt(table, table', h)
             /\ \/ Grown(r, u) /\ ~u.backend /\ u.known = r.known
                \/ /\ u.backend /\ u.cid = d
                   /\ \/ /\ ~r.known /\ ~u.known /\ u.pending = r.pending
                         /\ u.blocked = r.blocked /\ u.tries = r.tries
                         /\ u.slot = r.slot
                      \/ /\ u.known /\ ~u.pending /\ ~u.blocked
                         /\ u.slot \in {"none", "connected"}
                         /\ u.slot = "none" =>
                              r.slot = "none" /\ ~Room(Listed(table))
<1> DEFINE T == Addressed(table, h)
           x == [T[h] EXCEPT !.cid = d, !.wantDial = FALSE]
           X == [T EXCEPT ![h].cid = d, ![h].wantDial = FALSE]
           U == Report(X, h, TRUE)
           W == MarkConnected(U, h)
<1>1. /\ T \in Tables /\ OnlyAt(table, T, h) /\ Grown(table[h], T[h])
      /\ T[h].known = table[h].known
  BY AddressedRow DEF OnlyAt
<1>2. table' = IF T[h].backend THEN W ELSE T
  BY DEF Opened
<1> HIDE DEF T
<1>3. T[h] \in Record
  BY <1>1, RowOf
<1>4. /\ x \in Record /\ x.known = T[h].known /\ x.backend = T[h].backend
      /\ x.pending = T[h].pending /\ x.slot = T[h].slot /\ x.cid = d
      /\ x.blocked = T[h].blocked /\ x.tries = T[h].tries
  BY <1>3 DEF Record
<1>5. X = [T EXCEPT ![h] = x]
  BY <1>1 DEF Tables
<1> HIDE DEF x, X
<1>6. X \in Tables /\ OnlyAt(T, X, h) /\ X[h] = x
  BY <1>1, <1>4, <1>5 DEF OnlyAt, Tables
<1>7. OnlyAt(X, U, h) /\ U \in Tables /\ Grown(x, U[h])
  BY <1>6, ReportRow DEF OnlyAt
<1> HIDE DEF U
<1>8. OnlyAt(table, U, h) /\ U[h].slot = table[h].slot
  BY <1>1, <1>4, <1>6, <1>7, OnlyAtTwice DEF Grown, SameLink
<1>9. Listed(U) = Listed(table)
  BY <1>8, SameList
<1>10. /\ OnlyAt(U, W, h)
       /\ W[h].backend = U[h].backend /\ W[h].cid = U[h].cid
       /\ \/ ~U[h].known /\ ~W[h].known /\ SameLink(U[h], W[h])
          \/ /\ W[h].known /\ ~W[h].pending /\ ~W[h].blocked
             /\ W[h].slot \in {"none", "connected"}
             /\ W[h].slot = "none" => U[h].slot = "none" /\ ~Room(Listed(U))
  BY <1>7, MarkConnectedRow
<1> HIDE DEF W
<1>11. OnlyAt(table, W, h)
  BY <1>8, <1>10, OnlyAtTwice
<1>12. CASE ~T[h].backend
  BY <1>1, <1>2, <1>12
<1>13. CASE T[h].backend
  BY <1>1, <1>2, <1>4, <1>7, <1>8, <1>9, <1>10, <1>11, <1>13
     DEF Grown, SameLink
<1>14. QED
  BY <1>12, <1>13

LEMMA OpenedInvariant ==
  ASSUME IInv, NEW h \in Peers, NEW d \in Directions, Opened(h, d)
  PROVE  IInv'
<1>1. BackendType /\ PeerInv(h) /\ table \in Tables /\ table[h] \in Record
  BY RowOf DEF IInv, BackendType
<1>2. /\ chan[h][d] = "opening" /\ chan' = [chan EXCEPT ![h][d] = "open"]
      /\ dialling' = NoPeer /\ remembered' = remembered
      /\ cut' = IF d = "in" THEN cut \ {h} ELSE cut
  BY DEF Opened
<1>3. OnlyAt(table, table', h)
  BY <1>1, OpenedRow
<1>4. /\ chan' \in Channels /\ \A q \in Peers : q # h => chan'[q] = chan[q]
      /\ chan'[h][d] = "open"
      /\ \A e \in Directions : e # d => chan'[h][e] = chan[h][e]
  BY <1>1, <1>2, ChannelMoves DEF States
<1>5. /\ NoPeer \in Peers \cup {NoPeer} /\ cut' \subseteq Peers
      /\ \A q \in Peers : q # h => (q \in cut' <=> q \in cut)
      /\ DialIn = {} => \A q \in Peers : q # h =>
                          chan[q]["out"] \notin {"opening", "aborting"}
  BY <1>1, <1>2, OneOpening DEF BackendType
<1>6. DialIn = {} => d = "out" /\ cut' = cut /\ chan[h]["in"] = "none"
                     /\ chan'[h]["in"] = "none" /\ chan'[h]["out"] = "open"
  BY <1>1, <1>2, <1>4, OneOpening DEF PeerInv, RowInv, OnlyDialled, Directions
<1>7. CASE /\ Grown(table[h], table'[h]) /\ ~table'[h].backend
           /\ table'[h].known = table[h].known
  <2>1. ~(DialIn = {} /\ Clearable = {})
    BY <1>1, <1>2, <1>6, <1>7
       DEF PeerInv, RowInv, RowSound, StaysCut, Grown, SameLink
  <2>2. ~table[h].backend
    BY <1>7 DEF Grown
  <2>3. PeerInv(h)'
    BY <1>1, <1>2, <1>4, <1>6, <1>7, <2>1, <2>2
       DEF PeerInv, RowInv, RowSound, HangsUp, OnlyDialled, StaysCut, Grown, SameLink
  <2>4. QED
    BY <1>1, <1>2, <1>3, <1>4, <1>5, <2>3, OnePeer DEF BackendType
<1>8. CASE /\ table'[h].backend /\ table'[h].cid = d
           /\ \/ /\ ~table[h].known /\ ~table'[h].known
                 /\ table'[h].pending = table[h].pending
                 /\ table'[h].blocked = table[h].blocked
                 /\ table'[h].tries = table[h].tries
                 /\ table'[h].slot = table[h].slot
              \/ /\ table'[h].known /\ ~table'[h].pending /\ ~table'[h].blocked
                 /\ table'[h].slot \in {"none", "connected"}
  <2>1. RowSound(h, table[h], chan[h])' /\ HangsUp(table[h])'
    BY <1>1, <1>2, <1>4, <1>8 DEF PeerInv, RowInv, RowSound, HangsUp, Directions
  <2>2. OnlyDialled(h, table[h], chan[h], dialling)'
    BY <1>1, <1>2, <1>6, <1>8 DEF PeerInv, RowInv, OnlyDialled
  <2>3. StaysCut(h, table[h], chan[h])'
    BY <1>1, <1>2, <1>6, <1>8 DEF PeerInv, RowInv, StaysCut
  <2>4. PeerInv(h)'
    BY <2>1, <2>2, <2>3 DEF PeerInv, RowInv
  <2>5. QED
    BY <1>1, <1>2, <1>3, <1>4, <1>5, <2>4, OnePeer DEF BackendType
<1>9. QED
  BY <1>1, <1>7, <1>8, OpenedRow

LEMMA OpenFailsRow ==
  ASSUME table \in Tables, NEW h \in Peers, NEW d \in Directions, OpenFails(h, d)
  PROVE  LET u == table'[h]
             r == table[h]
         IN  /\ OnlyAt(table, table', h) /\ u.known = r.known
             /\ u.blocked = r.blocked /\ u.tries = r.tries
             /\ \/ /\ Grown(r, u) /\ ~u.backend /\ UNCHANGED outq
                \/ /\ u.backend /\ u.cid = "none" /\ u.slot = "none"
                   /\ ~u.pending /\ outq' = Without(outq, h)
<1> DEFINE T == Addressed(table, h)
           x == NoChannel(T[h], TRUE)
           X == [T EXCEPT ![h] = x]
           u == [x EXCEPT !.slot = "none", !.pending = FALSE]
<1>1. /\ T \in Tables /\ OnlyAt(table, T, h) /\ Grown(table[h], T[h])
      /\ T[h].known = table[h].known
  BY AddressedRow DEF OnlyAt
<1>2. /\ table' = IF T[h].backend THEN MarkDisconnected(X, h) ELSE T
      /\ outq' = IF T[h].backend THEN Without(outq, h) ELSE outq
  BY DEF OpenFails
<1> HIDE DEF T
<1>3. T[h] \in Record
  BY <1>1, RowOf
<1>4. /\ x \in Record /\ x.known = T[h].known /\ x.backend = T[h].backend
      /\ x.blocked = T[h].blocked /\ x.tries = T[h].tries /\ x.cid = "none"
  BY <1>3 DEF NoChannel, Record
<1> HIDE DEF x
<1>5. /\ u.known = x.known /\ u.backend = x.backend /\ u.cid = x.cid
      /\ u.blocked = x.blocked /\ u.tries = x.tries
      /\ u.slot = "none" /\ u.pending = FALSE
  BY <1>4 DEF Record
<1>6. X \in Tables /\ OnlyAt(T, X, h) /\ X[h] = x
  BY <1>1, <1>4 DEF OnlyAt, Tables
<1> HIDE DEF X
<1>7. OnlyAt(X, MarkDisconnected(X, h), h) /\ MarkDisconnected(X, h)[h] = u
  BY <1>6, MarkDisconnectedRow
<1> HIDE DEF u
<1>8. CASE T[h].backend
  <2>1. OnlyAt(table, table', h) /\ table'[h] = u
    BY <1>1, <1>2, <1>6, <1>7, <1>8, OnlyAtTwice
  <2>2. QED
    BY <1>1, <1>2, <1>4, <1>5, <1>8, <2>1 DEF Grown, SameLink
<1>9. CASE ~T[h].backend
  BY <1>1, <1>2, <1>9 DEF Grown, SameLink
<1>10. QED
  BY <1>8, <1>9

LEMMA OpenFailsInvariant ==
  ASSUME IInv, NEW h \in Peers, NEW d \in Directions, OpenFails(h, d)
  PROVE  IInv'
<1>1. BackendType /\ PeerInv(h) /\ table \in Tables /\ table[h] \in Record
  BY RowOf DEF IInv, BackendType
<1>2. /\ \/ chan[h][d] = "opening"
         \/ chan[h][d] = "aborting" /\ "opened" \in AbortReports
      /\ chan' = [chan EXCEPT ![h][d] = "none"]
      /\ dialling' = NoPeer /\ UNCHANGED <<remembered, cut>>
  BY DEF OpenFails, Ended
<1>3. /\ OnlyAt(table, table', h) /\ table'[h].known = table[h].known
      /\ table'[h].blocked = table[h].blocked
      /\ table'[h].tries = table[h].tries
      /\ \/ Grown(table[h], table'[h]) /\ ~table'[h].backend
         \/ /\ table'[h].backend /\ table'[h].cid = "none"
            /\ table'[h].slot = "none" /\ ~table'[h].pending
  BY <1>1, OpenFailsRow
<1>4. /\ chan' \in Channels /\ \A q \in Peers : q # h => chan'[q] = chan[q]
      /\ chan'[h][d] = "none"
      /\ \A e \in Directions : e # d => chan'[h][e] = chan[h][e]
  BY <1>1, <1>2, ChannelMoves DEF States
<1>5. DialIn = {} => \A q \in Peers : q # h =>
                       chan[q]["out"] \notin {"opening", "aborting"}
  BY <1>2, OneOpening
<1>6. DialIn = {} => chan'[h]["in"] = "none" /\ chan'[h]["out"] = "none"
  BY <1>1, <1>2, <1>4, OneOpening DEF PeerInv, RowInv, OnlyDialled, Directions
<1>7. AbortReports = {"closed"} /\ h \in cut => ~(DialIn = {} /\ Clearable = {})
  <2> SUFFICES ASSUME AbortReports = {"closed"}, h \in cut, DialIn = {}, Clearable = {}
               PROVE  FALSE
    OBVIOUS
  <2>1. d = "out" /\ chan[h][d] = "opening"
    BY <1>2, OneOpening
  <2>2. QED
    BY <1>1, <2>1 DEF PeerInv, RowInv, StaysCut
<1>8. PeerInv(h)'
  <2>1. CASE Grown(table[h], table'[h]) /\ ~table'[h].backend
    <3>1. ~table[h].backend
      BY <2>1 DEF Grown
    <3>2. QED
      BY <1>1, <1>2, <1>3, <1>6, <1>7, <2>1, <3>1
         DEF PeerInv, RowInv, RowSound, HangsUp, OnlyDialled, StaysCut, Grown, SameLink
  <2>2. CASE /\ table'[h].backend /\ table'[h].cid = "none"
             /\ table'[h].slot = "none" /\ ~table'[h].pending
    BY <1>1, <1>2, <1>3, <1>6, <1>7, <2>2
       DEF PeerInv, RowInv, RowSound, HangsUp, OnlyDialled, StaysCut
  <2>3. QED
    BY <1>3, <2>1, <2>2
<1>9. QED
  BY <1>1, <1>2, <1>3, <1>4, <1>5, <1>8, OnePeer DEF BackendType

LEMMA ChannelClosedRow ==
  ASSUME table \in Tables, NEW h \in Peers, NEW d \in Directions,
         ChannelClosed(h, d)
  PROVE  LET u == table'[h]
             r == table[h]
         IN  \/ /\ HasCid(table, h) /\ r.cid = d
                /\ OnlyAt(table, table', h)
                /\ u.known = r.known /\ u.backend = r.backend
                /\ u.blocked = r.blocked /\ u.tries = r.tries
                /\ u.wantDial <=> ~r.blocked /\ (h \in remembered \/ r.pending)
                /\ u.cid = "none" /\ u.slot = "none" /\ ~u.pending
                /\ outq' = Without(outq, h)
             \/ /\ ~(HasCid(table, h) /\ r.cid = d)
                /\ UNCHANGED <<table, outq>>
<1> DEFINE r == table[h]
           wanted == ~r.blocked /\ (h \in remembered \/ r.pending)
           x == [NoChannel(r, wanted) EXCEPT !.ready = r.known /\ r.service]
           X == [table EXCEPT ![h] = x]
           u == [x EXCEPT !.slot = "none", !.pending = FALSE]
<1>1. r \in Record /\ wanted \in BOOLEAN
  BY RowOf
<1>2. \/ /\ HasCid(table, h) /\ table[h].cid = d
         /\ table' = MarkDisconnected(X, h) /\ outq' = Without(outq, h)
      \/ ~(HasCid(table, h) /\ table[h].cid = d) /\ UNCHANGED <<table, outq>>
  BY DEF ChannelClosed
<1>3. CASE /\ HasCid(table, h) /\ table[h].cid = d
           /\ table' = MarkDisconnected(X, h) /\ outq' = Without(outq, h)
  <2> HIDE DEF wanted
  <2>1. /\ x \in Record /\ x.known = r.known /\ x.backend = r.backend
        /\ x.blocked = r.blocked /\ x.tries = r.tries /\ x.cid = "none"
        /\ x.wantDial = wanted
    BY <1>1 DEF NoChannel, Record
  <2> HIDE DEF x
  <2>2. /\ u.known = x.known /\ u.backend = x.backend /\ u.cid = x.cid
        /\ u.blocked = x.blocked /\ u.tries = x.tries /\ u.wantDial = x.wantDial
        /\ u.slot = "none" /\ u.pending = FALSE
    BY <2>1 DEF Record
  <2>3. X \in Tables /\ OnlyAt(table, X, h) /\ X[h] = x
    BY <2>1 DEF OnlyAt, Tables
  <2> HIDE DEF X
  <2>4. OnlyAt(X, table', h) /\ table'[h] = u
    BY <1>3, <2>3, MarkDisconnectedRow
  <2> HIDE DEF u
  <2>5. OnlyAt(table, table', h)
    BY <2>3, <2>4, OnlyAtTwice
  <2>6. QED
    BY <1>3, <2>1, <2>2, <2>4, <2>5 DEF wanted
<1>4. QED
  BY <1>2, <1>3

LEMMA ChannelClosedInvariant ==
  ASSUME IInv, NEW h \in Peers, NEW d \in Directions, ChannelClosed(h, d)
  PROVE  IInv'
<1>1. BackendType /\ PeerInv(h) /\ table \in Tables /\ table[h] \in Record
  BY RowOf DEF IInv, BackendType
<1>2. /\ chan[h][d] # "none" /\ chan' = [chan EXCEPT ![h][d] = "none"]
      /\ UNCHANGED <<remembered, dialling, cut>>
  BY DEF ChannelClosed, Ended
<1>3. /\ chan' \in Channels /\ \A q \in Peers : q # h => chan'[q] = chan[q]
      /\ chan'[h][d] = "none"
      /\ \A e \in Directions : e # d => chan'[h][e] = chan[h][e]
  BY <1>1, <1>2, ChannelMoves DEF States
<1>4. DialIn = {} => d = "out" /\ chan'[h]["in"] = "none" /\ chan'[h]["out"] = "none"
  BY <1>1, <1>2, <1>3 DEF PeerInv, RowInv, OnlyDialled, Directions
<1>5. CASE /\ HasCid(table, h) /\ table[h].cid = d
           /\ OnlyAt(table, table', h)
           /\ table'[h].known = table[h].known
           /\ table'[h].backend = table[h].backend
           /\ table'[h].blocked = table[h].blocked
           /\ table'[h].tries = table[h].tries
           /\ table'[h].wantDial <=>
                ~table[h].blocked /\ (h \in remembered \/ table[h].pending)
           /\ table'[h].cid = "none" /\ table'[h].slot = "none"
           /\ ~table'[h].pending
  <2>1. PeerInv(h)'
    BY <1>1, <1>2, <1>4, <1>5
       DEF PeerInv, RowInv, RowSound, HangsUp, OnlyDialled, StaysCut
  <2>2. QED
    BY <1>1, <1>2, <1>3, <1>5, <2>1, OnePeer DEF BackendType
<1>6. CASE ~(HasCid(table, h) /\ table[h].cid = d) /\ UNCHANGED table
  <2>1. table[h].cid # d
    <3>1. table[h].cid = d => HasCid(table, h)
      BY <1>1 DEF HasCid, PeerInv, RowInv, RowSound, Directions
    <3>2. QED
      BY <1>6, <3>1
  <2>2. table[h].cid # "none" => table[h].cid \in Directions
    BY <1>1, RowType DEF Directions
  <2>3. PeerInv(h)'
    BY <1>1, <1>2, <1>3, <1>4, <1>6, <2>1, <2>2
       DEF PeerInv, RowInv, RowSound, HangsUp, OnlyDialled, StaysCut
  <2>4. QED
    BY <1>1, <1>2, <1>3, <1>6, <2>3, OnePeer, OnlyAtSelf DEF BackendType
<1>7. QED
  BY <1>1, <1>5, <1>6, ChannelClosedRow

LEMMA CanSendRow ==
  ASSUME table \in Tables, NEW h \in Peers, NEW d \in Directions, CanSendNow(h, d)
  PROVE  LET u == table'[h]
             r == table[h]
         IN  \/ UNCHANGED <<table, chan>>
             \/ /\ HasCid(table, h) /\ r.cid = d /\ chan' = Hangup(h, d)
                /\ OnlyAt(table, table', h)
                /\ u.known = r.known /\ u.backend = r.backend
                /\ u.cid = d /\ u.blocked = r.blocked
                /\ u.tries = r.tries /\ u.wantDial = r.wantDial
                /\ u.pending => r.pending
                /\ \/ u.slot = "disconnecting"
                   \/ u.slot = "none" /\ r.slot = "none"
<1> DEFINE u == [table[h] EXCEPT !.pending = FALSE, !.slot = "disconnecting"]
<1>1. table[h] \in Record
  BY RowOf
<1>2. \/ UNCHANGED <<table, chan>>
      \/ /\ HasCid(table, h) /\ table[h].cid = d
         /\ table' = MarkDisconnecting(table, h) /\ chan' = Hangup(h, d)
  BY DEF CanSendNow
<1>3. CASE UNCHANGED <<table, chan>>
  BY <1>3
<1>4. CASE /\ HasCid(table, h) /\ table[h].cid = d
           /\ table' = MarkDisconnecting(table, h) /\ chan' = Hangup(h, d)
  <2>1. /\ OnlyAt(table, table', h)
        /\ \/ table'[h] = table[h] /\ table[h].slot = "none"
           \/ table'[h] = u
    BY <1>4, MarkDisconnectingRow
  <2>2. /\ u.known = table[h].known /\ u.backend = table[h].backend
        /\ u.cid = table[h].cid /\ u.blocked = table[h].blocked
        /\ u.tries = table[h].tries /\ u.wantDial = table[h].wantDial
        /\ u.slot = "disconnecting" /\ u.pending = FALSE
    BY <1>1 DEF Record
  <2> HIDE DEF u
  <2>3. QED
    BY <1>4, <2>1, <2>2
<1>5. QED
  BY <1>2, <1>3, <1>4

LEMMA CanSendInvariant ==
  ASSUME IInv, NEW h \in Peers, NEW d \in Directions, CanSendNow(h, d)
  PROVE  IInv'
<1>1. BackendType /\ PeerInv(h) /\ table \in Tables /\ table[h] \in Record
  BY RowOf DEF IInv, BackendType
<1>2. chan[h][d] = "open" /\ UNCHANGED <<remembered, dialling, cut>>
  BY DEF CanSendNow
<1>3. CASE UNCHANGED <<table, chan>>
  BY <1>2, <1>3, Untouched
<1>4. CASE /\ HasCid(table, h) /\ table[h].cid = d /\ chan' = Hangup(h, d)
           /\ OnlyAt(table, table', h)
           /\ table'[h].known = table[h].known
           /\ table'[h].backend = table[h].backend /\ table'[h].cid = d
           /\ table'[h].blocked = table[h].blocked
           /\ table'[h].tries = table[h].tries
           /\ table'[h].wantDial = table[h].wantDial
           /\ table'[h].slot \in {"none", "disconnecting"}
           /\ table'[h].pending => table[h].pending
  <2>1. /\ chan' \in Channels /\ \A q \in Peers : q # h => chan'[q] = chan[q]
        /\ \A e \in Directions : e # d => chan'[h][e] = chan[h][e]
        /\ chan'[h][d] \notin {"none", "opening", "open", "aborting"}
    BY <1>1, <1>2, <1>4, HangupChannel
  <2>2. PeerInv(h)'
    BY <1>1, <1>2, <1>4, <2>1
       DEF PeerInv, RowInv, RowSound, HangsUp, OnlyDialled, StaysCut, Directions
  <2>3. QED
    BY <1>1, <1>2, <1>4, <2>1, <2>2, OnePeer DEF BackendType
<1>5. QED
  BY <1>1, <1>3, <1>4, CanSendRow

LEMMA SdpServiceRow ==
  ASSUME table \in Tables, NEW p \in Peers, SdpService(p)
  PROVE  LET u == table'[p]
             r == table[p]
         IN  /\ OnlyAt(table, table', p) /\ Grown(r, u)
             /\ u.backend <=> r.backend \/ Room(Backends(table))
             /\ u.known <=> r.known \/ (u.backend /\ Room(Known(table)))
<1> DEFINE T == WithBackend(table, p)
           x == [T[p] EXCEPT !.service = TRUE, !.wantSdp = FALSE]
           X == [T EXCEPT ![p].service = TRUE, ![p].wantSdp = FALSE]
           U == WithInfo(X, p)
           u == [U[p] EXCEPT !.ready = TRUE]
<1>1. /\ T \in Tables /\ OnlyAt(table, T, p) /\ Grown(table[p], T[p])
      /\ T[p].known = table[p].known
      /\ T[p].backend <=> table[p].backend \/ Room(Backends(table))
  BY WithBackendRow DEF OnlyAt
<1>2. table' = IF ~T[p].backend THEN T
               ELSE IF U[p].known THEN [U EXCEPT ![p].ready = TRUE] ELSE U
  BY DEF SdpService
<1> HIDE DEF T
<1>3. T[p] \in Record
  BY <1>1, RowOf
<1>4. x \in Record /\ Grown(T[p], x) /\ x.known = T[p].known /\ x.backend = T[p].backend
  BY <1>3 DEF Record, Grown, SameLink
<1>5. X = [T EXCEPT ![p] = x]
  BY <1>1 DEF Tables
<1> HIDE DEF x, X
<1>6. X \in Tables /\ OnlyAt(T, X, p) /\ X[p] = x
  BY <1>1, <1>4, <1>5 DEF OnlyAt, Tables
<1>7. OnlyAt(table, X, p)
  BY <1>1, <1>6, OnlyAtTwice
<1>8. Known(X) = Known(table)
  BY <1>1, <1>4, <1>6, <1>7 DEF OnlyAt, Known
<1>9. /\ U \in Tables /\ OnlyAt(X, U, p) /\ Grown(x, U[p])
      /\ U[p].backend = x.backend
      /\ U[p].known <=> x.known \/ Room(Known(table))
  BY <1>6, <1>8, WithInfoRow DEF OnlyAt
<1> HIDE DEF U
<1>10. OnlyAt(table, U, p) /\ Grown(table[p], U[p])
  BY <1>1, <1>4, <1>7, <1>9, OnlyAtTwice DEF Grown, SameLink
<1>11. U[p] \in Record
  BY <1>9, RowOf
<1>12. u \in Record /\ Grown(U[p], u) /\ u.known = U[p].known /\ u.backend = U[p].backend
  BY <1>11 DEF Record, Grown, SameLink
<1>13. [U EXCEPT ![p].ready = TRUE] = [U EXCEPT ![p] = u]
  BY <1>9 DEF Tables
<1> HIDE DEF u
<1>14. OnlyAt(U, [U EXCEPT ![p] = u], p) /\ [U EXCEPT ![p] = u][p] = u
  BY <1>9, <1>12 DEF OnlyAt, Tables
<1>15. CASE ~T[p].backend
  BY <1>1, <1>2, <1>15
<1>16. CASE T[p].backend /\ U[p].known
  <2>1. table' = [U EXCEPT ![p] = u]
    BY <1>2, <1>13, <1>16
  <2>2. OnlyAt(table, table', p) /\ table'[p] = u
    BY <1>10, <1>14, <2>1, OnlyAtTwice
  <2>3. QED
    BY <1>1, <1>4, <1>9, <1>10, <1>12, <1>16, <2>2 DEF Grown, SameLink
<1>17. CASE T[p].backend /\ ~U[p].known
  BY <1>1, <1>2, <1>4, <1>9, <1>10, <1>17
<1>18. QED
  BY <1>15, <1>16, <1>17

LEMMA SdpServiceInvariant ==
  ASSUME IInv, NEW p \in Peers, SdpService(p)
  PROVE  IInv'
<1>1. OnlyAt(table, table', p) /\ Grown(table[p], table'[p])
  BY SdpServiceRow DEF IInv, BackendType
<1>2. UNCHANGED <<remembered, dialling, chan, cut>>
  BY DEF SdpService
<1>3. QED
  BY <1>1, <1>2, GrownRow

LEMMA SdpCompleteRow ==
  ASSUME table \in Tables, NEW p \in Peers, SdpComplete(p)
  PROVE  LET u == table'[p]
             r == table[p]
         IN  /\ OnlyAt(table, table', p)
             /\ u.known = r.known /\ u.backend = r.backend
             /\ u.cid = r.cid /\ u.slot = r.slot /\ u.tries = r.tries
             /\ \/ Grown(r, u)
                \/ /\ ~(r.known /\ r.tries < SdpMaxAttempts)
                   /\ ~u.wantDial /\ ~u.pending /\ u.blocked = r.known
<1> DEFINE r == table[p]
           a == [r EXCEPT !.wantSdp = TRUE]
           b == [r EXCEPT !.wantSdp = FALSE, !.wantDial = FALSE, !.ready = FALSE,
                          !.pending = FALSE, !.blocked = r.known]
<1>1. r \in Record
  BY RowOf
<1>2. \/ table' = table
      \/ table' = [table EXCEPT ![p].wantSdp = TRUE]
      \/ /\ ~(r.known /\ r.tries < SdpMaxAttempts)
         /\ table' = [table EXCEPT ![p].wantSdp = FALSE, ![p].wantDial = FALSE,
                                   ![p].ready = FALSE, ![p].pending = FALSE,
                                   ![p].blocked = r.known]
  BY DEF SdpComplete
<1>3. CASE table' = table
  BY <1>3, OnlyAtSelf DEF Grown, SameLink
<1>4. CASE table' = [table EXCEPT ![p].wantSdp = TRUE]
  <2>1. /\ a \in Record /\ Grown(r, a) /\ a.known = r.known
        /\ a.backend = r.backend
    BY <1>1 DEF Record, Grown, SameLink
  <2>2. table' = [table EXCEPT ![p] = a]
    BY <1>4 DEF Tables
  <2> HIDE DEF a
  <2>3. OnlyAt(table, table', p) /\ table'[p] = a
    BY <2>1, <2>2 DEF OnlyAt, Tables
  <2>4. QED
    BY <2>1, <2>3 DEF Grown, SameLink
<1>5. CASE /\ ~(r.known /\ r.tries < SdpMaxAttempts)
           /\ table' = [table EXCEPT ![p].wantSdp = FALSE, ![p].wantDial = FALSE,
                                     ![p].ready = FALSE, ![p].pending = FALSE,
                                     ![p].blocked = r.known]
  <2>1. /\ b \in Record /\ b.known = r.known /\ b.backend = r.backend
        /\ b.cid = r.cid /\ b.slot = r.slot /\ b.tries = r.tries
        /\ b.wantDial = FALSE /\ b.pending = FALSE /\ b.blocked = r.known
    BY <1>1 DEF Record
  <2>2. table' = [table EXCEPT ![p] = b]
    BY <1>5 DEF Tables
  <2> HIDE DEF b
  <2>3. OnlyAt(table, table', p) /\ table'[p] = b
    BY <2>1, <2>2 DEF OnlyAt, Tables
  <2>4. QED
    BY <1>5, <2>1, <2>3
<1>6. QED
  BY <1>2, <1>3, <1>4, <1>5

LEMMA SdpCompleteInvariant ==
  ASSUME IInv, NEW p \in Peers, SdpComplete(p)
  PROVE  IInv'
<1>1. BackendType /\ PeerInv(p) /\ table \in Tables /\ table[p] \in Record
  BY RowOf DEF IInv, BackendType
<1>2. UNCHANGED <<remembered, dialling, chan, cut>>
  BY DEF SdpComplete
<1>3. /\ OnlyAt(table, table', p)
      /\ table'[p].known = table[p].known /\ table'[p].backend = table[p].backend
      /\ table'[p].cid = table[p].cid /\ table'[p].slot = table[p].slot
      /\ table'[p].tries = table[p].tries
  BY <1>1, SdpCompleteRow
<1>4. CASE Grown(table[p], table'[p])
  BY <1>2, <1>3, <1>4, GrownRow
<1>5. CASE /\ ~(table[p].known /\ table[p].tries < SdpMaxAttempts)
           /\ ~table'[p].wantDial /\ ~table'[p].pending
           /\ table'[p].blocked = table[p].known
  <2>1. table[p].known => table[p].tries = SdpMaxAttempts
    BY <1>1, <1>5, RowType, BoundsAssumption
  <2>2. PeerInv(p)'
    BY <1>1, <1>2, <1>3, <1>5, <2>1
       DEF PeerInv, RowInv, RowSound, HangsUp, OnlyDialled, StaysCut
  <2>3. QED
    BY <1>1, <1>2, <1>3, <2>2, OnePeer DEF BackendType
<1>6. QED
  BY <1>1, <1>4, <1>5, SdpCompleteRow

-----------------------------------------------------------------------------
(***************************************************************************)
(* The housekeeping: reconnects, a query, a dial, one after the other on   *)
(* the whole table.                                                        *)
(***************************************************************************)

\* The rows T with the channels and the dial there are before the housekeeping.
TableInv(T) == T \in Tables /\ \A p \in Peers : RowInv(p, T[p], chan[p], dialling)

\* A peer that is reconnected may be dialled, and then perhaps be listed.
LEMMA ReconnectingRow ==
  ASSUME table \in Tables, NEW seated, NEW p \in Peers
  PROVE  LET u == Reconnecting(table, seated)[p]
             r == table[p]
         IN  /\ u \in Record
             /\ u.known = r.known /\ u.backend = r.backend /\ u.cid = r.cid
             /\ u.tries = r.tries /\ u.blocked = r.blocked
             /\ \/ /\ u.slot = r.slot /\ u.pending = r.pending
                   /\ u.wantDial = r.wantDial
                \/ /\ p \in Wanting(table)
                   /\ r.slot = "none" /\ r.known /\ ~r.blocked
                   /\ r.pending \/ p \in remembered
                   /\ u.slot \in {"none", "connecting"}
<1> DEFINE T == Reconnecting(table, seated)
           r == table[p]
           a == [r EXCEPT !.wantSdp = TRUE]
           b == [r EXCEPT !.wantDial = TRUE, !.pending = TRUE,
                          !.slot = "connecting"]
           c == [r EXCEPT !.wantDial = TRUE]
<1>1. r \in Record
  BY RowOf
<1>2. \/ T[p] = r
      \/ p \in Wanting(table) /\ T[p] \in {a, b, c}
  BY DEF Reconnecting
<1>3. p \in Wanting(table) =>
        /\ r.slot = "none" /\ r.known /\ ~r.blocked
        /\ r.pending \/ p \in remembered
  BY DEF Wanting, Listed
<1>4. /\ a \in Record /\ a.known = r.known /\ a.backend = r.backend
      /\ a.cid = r.cid /\ a.slot = r.slot /\ a.tries = r.tries
      /\ a.wantDial = r.wantDial /\ a.pending = r.pending
      /\ a.blocked = r.blocked
  BY <1>1 DEF Record
<1>5. /\ b \in Record /\ b.known = r.known /\ b.backend = r.backend
      /\ b.cid = r.cid /\ b.slot = "connecting" /\ b.tries = r.tries
      /\ b.blocked = r.blocked
  BY <1>1 DEF Record, Slots
<1>6. /\ c \in Record /\ c.known = r.known /\ c.backend = r.backend
      /\ c.cid = r.cid /\ c.slot = r.slot /\ c.tries = r.tries
      /\ c.pending = r.pending /\ c.blocked = r.blocked
  BY <1>1 DEF Record
<1> HIDE DEF T, r, a, b, c
<1>7. CASE T[p] = r
  BY <1>1, <1>7 DEF T, r
<1>8. CASE p \in Wanting(table) /\ T[p] = a
  BY <1>4, <1>8 DEF T, r
<1>9. CASE p \in Wanting(table) /\ T[p] \in {b, c}
  BY <1>3, <1>5, <1>6, <1>9 DEF T, r
<1>10. QED
  BY <1>2, <1>7, <1>8, <1>9

LEMMA ReconnectingTable ==
  ASSUME table \in Tables, NEW seated
  PROVE  Reconnecting(table, seated) \in Tables
<1>1. \A p \in Peers : Reconnecting(table, seated)[p] \in Record
  BY ReconnectingRow
<1>2. QED
  BY <1>1 DEF Reconnecting, Tables

LEMMA ReconnectingInvariant ==
  ASSUME IInv, NEW seated
  PROVE  TableInv(Reconnecting(table, seated))
<1> DEFINE T == Reconnecting(table, seated)
<1>1. table \in Tables
  BY DEF IInv, BackendType
<1>2. ASSUME NEW p \in Peers PROVE RowInv(p, T[p], chan[p], dialling)
  <2>1. RowInv(p, table[p], chan[p], dialling)
    BY DEF IInv, PeerInv
  <2>2. /\ T[p].known = table[p].known /\ T[p].backend = table[p].backend
        /\ T[p].cid = table[p].cid /\ T[p].tries = table[p].tries
        /\ T[p].blocked = table[p].blocked
        /\ \/ /\ T[p].slot = table[p].slot /\ T[p].pending = table[p].pending
              /\ T[p].wantDial = table[p].wantDial
           \/ /\ table[p].slot = "none" /\ table[p].known /\ ~table[p].blocked
              /\ table[p].pending \/ p \in remembered
              /\ T[p].slot \in {"none", "connecting"}
    BY <1>1, ReconnectingRow
  <2> HIDE DEF T
  <2>3. QED
    BY <2>1, <2>2 DEF RowInv, RowSound, HangsUp, OnlyDialled, StaysCut
<1>3. QED
  BY <1>1, <1>2, ReconnectingTable DEF TableInv

LEMMA QueryingRow ==
  ASSUME NEW T \in Tables, NEW q \in Peers
  PROVE  LET u == Querying(T, q)[q]
             r == T[q]
         IN  /\ OnlyAt(T, Querying(T, q), q)
             /\ u.known = r.known /\ u.backend = r.backend
             /\ u.cid = r.cid /\ u.slot = r.slot
             /\ r.tries = SdpMaxAttempts => u.tries = SdpMaxAttempts
             /\ u.wantDial = r.wantDial /\ u.pending = r.pending
             /\ u.blocked = r.blocked
<1> DEFINE r == T[q]
           n == IF r.known /\ r.tries < SdpMaxAttempts THEN r.tries + 1 ELSE r.tries
           u == [r EXCEPT !.wantSdp = FALSE, !.tries = n]
<1>1. r \in Record
  BY RowOf
<1>2. n \in 0 .. SdpMaxAttempts /\ (r.tries = SdpMaxAttempts => n = SdpMaxAttempts)
  BY <1>1, RowType, BoundsAssumption
<1>3. Querying(T, q) = [T EXCEPT ![q] = u]
  BY DEF Querying, Tables
<1> HIDE DEF n
<1>4. /\ u \in Record /\ u.known = r.known /\ u.backend = r.backend
      /\ u.cid = r.cid /\ u.slot = r.slot /\ u.tries = n
      /\ u.wantDial = r.wantDial /\ u.pending = r.pending
      /\ u.blocked = r.blocked
  BY <1>1, <1>2 DEF Record
<1> HIDE DEF u
<1>5. OnlyAt(T, Querying(T, q), q) /\ Querying(T, q)[q] = u
  BY <1>3, <1>4 DEF OnlyAt, Tables
<1>6. QED
  BY <1>2, <1>4, <1>5

LEMMA QueryingInvariant ==
  ASSUME NEW T, TableInv(T), NEW q \in Peers
  PROVE  TableInv(Querying(T, q))
<1> DEFINE U == Querying(T, q)
<1>1. T \in Tables /\ RowInv(q, T[q], chan[q], dialling)
  BY DEF TableInv
<1>2. /\ OnlyAt(T, U, q)
      /\ U[q].known = T[q].known /\ U[q].backend = T[q].backend
      /\ U[q].cid = T[q].cid /\ U[q].slot = T[q].slot
      /\ T[q].tries = SdpMaxAttempts => U[q].tries = SdpMaxAttempts
      /\ U[q].wantDial = T[q].wantDial /\ U[q].pending = T[q].pending
      /\ U[q].blocked = T[q].blocked
  BY <1>1, QueryingRow
<1> HIDE DEF U
<1>3. RowInv(q, U[q], chan[q], dialling)
  BY <1>1, <1>2 DEF RowInv, RowSound, HangsUp, OnlyDialled, StaysCut
<1>4. TableInv(U)
  BY <1>2, <1>3 DEF TableInv, OnlyAt
<1>5. QED
  BY <1>4 DEF U

LEMMA DialledRow ==
  ASSUME NEW U \in Tables, NEW d \in Peers
  PROVE  LET v == Dialled(U, d)[d]
             r == U[d]
         IN  /\ OnlyAt(U, Dialled(U, d), d)
             /\ v.tries = r.tries /\ v.backend = r.backend /\ v.cid = "out"
             /\ v.wantDial = r.wantDial
             /\ v.known <=> r.known \/ Room(Known(U))
             /\ \/ /\ v.known /\ v.pending /\ ~v.blocked
                   /\ v.slot = "connecting"
                \/ /\ v.pending = r.pending /\ v.blocked = r.blocked
                   /\ v.slot \in {r.slot, "reserved"}
                   /\ v.known => v.slot = "none" /\ ~Room(Listed(U))
<1> DEFINE x == [U[d] EXCEPT !.cid = "out"]
           X == [U EXCEPT ![d].cid = "out"]
           W == MarkConnecting(X, d)
<1>1. U[d] \in Record
  BY RowOf
<1>2. /\ x \in Record /\ x.known = U[d].known /\ x.backend = U[d].backend
      /\ x.cid = "out" /\ x.slot = U[d].slot /\ x.tries = U[d].tries
      /\ x.wantDial = U[d].wantDial /\ x.pending = U[d].pending
      /\ x.blocked = U[d].blocked
  BY <1>1 DEF Record, Directions
<1>3. X = [U EXCEPT ![d] = x] /\ Dialled(U, d) = W
  BY DEF Tables, Dialled
<1> HIDE DEF x, X
<1>4. X \in Tables /\ OnlyAt(U, X, d) /\ X[d] = x
  BY <1>2, <1>3 DEF OnlyAt, Tables
<1>5. Listed(X) = Listed(U) /\ Known(X) = Known(U)
  BY <1>2, <1>4, SameList DEF OnlyAt, Known
<1>6. /\ OnlyAt(X, W, d)
      /\ W[d].tries = X[d].tries /\ W[d].backend = X[d].backend
      /\ W[d].cid = X[d].cid /\ W[d].wantDial = X[d].wantDial
      /\ \/ W[d].known /\ W[d].pending /\ ~W[d].blocked /\ W[d].slot = "connecting"
         \/ /\ W[d].pending = X[d].pending /\ W[d].blocked = X[d].blocked
            /\ W[d].slot \in {X[d].slot, "reserved"}
            /\ W[d].known => W[d].slot = "none" /\ ~Room(Listed(X))
      /\ W[d].known <=> X[d].known \/ Room(Known(X))
  BY <1>4, MarkConnectingRow
<1> HIDE DEF W
<1>7. OnlyAt(U, W, d)
  BY <1>4, <1>6, OnlyAtTwice
<1>8. QED
  BY <1>2, <1>3, <1>4, <1>5, <1>6, <1>7

LEMMA DialledInvariant ==
  ASSUME BackendType, NEW U, TableInv(U), NEW d \in Peers, DialDue(U, d),
         table' = Dialled(U, d), dialling' = d,
         chan' = [chan EXCEPT ![d]["out"] = "opening"],
         UNCHANGED <<remembered, cut>>
  PROVE  IInv' /\ ~(DialIn = {} /\ Clearable = {} /\ AbortReports = {"closed"}
                      /\ d \in cut)
<1> DEFINE r == U[d]
<1>1. U \in Tables /\ r \in Record /\ RowInv(d, r, chan[d], dialling)
  BY RowOf DEF TableInv
<1>2. /\ dialling = NoPeer /\ r.backend /\ r.wantDial
      /\ r.cid = "none" /\ chan[d]["out"] = "none"
  BY DEF DialDue
<1>3. /\ OnlyAt(U, table', d)
      /\ table'[d].tries = r.tries /\ table'[d].backend = r.backend
      /\ table'[d].cid = "out" /\ table'[d].wantDial = r.wantDial
      /\ r.known => table'[d].known
      /\ \/ /\ table'[d].known /\ table'[d].pending /\ ~table'[d].blocked
            /\ table'[d].slot = "connecting"
         \/ /\ table'[d].pending = r.pending /\ table'[d].blocked = r.blocked
            /\ table'[d].slot \in {r.slot, "reserved"}
            /\ table'[d].known => table'[d].slot = "none"
  BY <1>1, DialledRow
<1>4. /\ chan' \in Channels /\ \A q \in Peers : q # d => chan'[q] = chan[q]
      /\ chan'[d]["out"] = "opening" /\ chan'[d]["in"] = chan[d]["in"]
  BY ChannelMoves DEF Directions, States
<1>5. ~(DialIn = {} /\ Clearable = {} /\ AbortReports = {"closed"} /\ d \in cut)
  BY <1>1, <1>2 DEF RowInv, StaysCut
<1>6. PeerInv(d)'
  <2> HIDE DEF r
  <2>1. r.slot # "connected"
    BY <1>1, <1>2 DEF RowInv, RowSound
  <2>2. QED
    BY <1>1, <1>2, <1>3, <1>4, <1>5, <2>1
       DEF PeerInv, RowInv, RowSound, HangsUp, OnlyDialled, StaysCut
<1>7. ASSUME NEW q \in Peers, q # d PROVE PeerInv(q)'
  <2>1. /\ RowInv(q, U[q], chan[q], dialling)
        /\ table'[q] = U[q] /\ chan'[q] = chan[q] /\ dialling # q
    BY <1>2, <1>3, <1>4, <1>7, PeersAssumption DEF TableInv, OnlyAt
  <2>2. QED
    BY <2>1 DEF PeerInv, RowInv, RowSound, HangsUp, OnlyDialled, StaysCut
<1>8. BackendType'
  BY <1>3, <1>4 DEF BackendType, OnlyAt
<1>9. QED
  BY <1>5, <1>6, <1>7, <1>8 DEF IInv

LEMMA HousekeepInvariant ==
  ASSUME IInv, NEW q \in Peers \cup {NoPeer}, NEW d \in Peers \cup {NoPeer},
         Housekeep(q, d)
  PROVE  /\ IInv'
         /\ d # NoPeer => ~(DialIn = {} /\ Clearable = {}
                              /\ AbortReports = {"closed"} /\ d \in cut)
<1>1. PICK seated \in Seatings(table) :
        LET T == Reconnecting(table, seated)
            U == IF q = NoPeer THEN T ELSE Querying(T, q)
        IN  /\ d # NoPeer => DialDue(U, d)
            /\ table' = IF d = NoPeer THEN U ELSE Dialled(U, d)
  BY DEF Housekeep
<1> DEFINE T == Reconnecting(table, seated)
           U == IF q = NoPeer THEN T ELSE Querying(T, q)
<1>2. /\ dialling' = IF d = NoPeer THEN dialling ELSE d
      /\ chan' = IF d = NoPeer THEN chan
                 ELSE [chan EXCEPT ![d]["out"] = "opening"]
      /\ UNCHANGED <<remembered, cut>>
  BY DEF Housekeep
<1>3. BackendType /\ TableInv(T)
  BY ReconnectingInvariant DEF IInv
<1> HIDE DEF T
<1>4. TableInv(U)
  <2>1. CASE q = NoPeer
    BY <1>3, <2>1
  <2>2. CASE q # NoPeer
    BY <1>3, <2>2, QueryingInvariant
  <2>3. QED
    BY <2>1, <2>2
<1>5. /\ d # NoPeer => DialDue(U, d)
      /\ table' = IF d = NoPeer THEN U ELSE Dialled(U, d)
  BY <1>1 DEF T
<1> HIDE DEF U
<1>6. CASE d = NoPeer
  BY <1>2, <1>3, <1>4, <1>5, <1>6
     DEF IInv, BackendType, TableInv, PeerInv, RowInv, RowSound, HangsUp,
         OnlyDialled, StaysCut
<1>7. CASE d # NoPeer
  BY <1>2, <1>3, <1>4, <1>5, <1>7, DialledInvariant
<1>8. QED
  BY <1>6, <1>7

-----------------------------------------------------------------------------
(***************************************************************************)
(* The invariant, and what follows.                                        *)
(***************************************************************************)

LEMMA InitInvariant == Init => IInv
<1> SUFFICES ASSUME Init PROVE IInv
  OBVIOUS
<1>1. /\ remembered \subseteq Peers
      /\ table = [p \in Peers |-> IF p \in remembered THEN RestoredRecord ELSE Blank]
      /\ dialling = NoPeer /\ cut = {}
      /\ chan = [p \in Peers |-> [d \in Directions |-> "none"]]
  BY DEF Init
<1>2. BackendType
  BY <1>1, BlankType DEF BackendType, Tables, Channels, States
<1>3. ASSUME NEW p \in Peers PROVE PeerInv(p)
  <2>1. chan[p]["in"] = "none" /\ chan[p]["out"] = "none"
    BY <1>1 DEF Directions
  <2>2. /\ ~RestoredRecord.blocked /\ ~RestoredRecord.pending
        /\ RestoredRecord.known /\ RestoredRecord.cid = "none"
        /\ RestoredRecord.slot = "none"
        /\ ~Blank.blocked /\ ~Blank.pending
        /\ Blank.cid = "none" /\ Blank.slot = "none"
    BY DEF RestoredRecord, Blank
  <2>3. table[p] = IF p \in remembered THEN RestoredRecord ELSE Blank
    BY <1>1
  <2>4. QED
    BY <1>1, <2>1, <2>2, <2>3
       DEF PeerInv, RowInv, RowSound, HangsUp, OnlyDialled, StaysCut
<1>4. QED
  BY <1>2, <1>3 DEF IInv

LEMMA CallInvariant ==
  ASSUME IInv, NEW p \in Peers, Call(p)
  PROVE  IInv'
<1>1. CASE Queue(p)
  BY <1>1, Untouched DEF Queue
<1>2. QED
  BY <1>1, ConnectInvariant, DisconnectInvariant, SessionTimeoutInvariant,
     ClearInvariant DEF Call

LEMMA EventInvariant ==
  ASSUME IInv, NEW h \in Headsets, Event(h)
  PROVE  IInv'
<1>1. h \in Peers
  BY PeersAssumption
<1>2. CASE \E d \in Directions :
             Opened(h, d) \/ OpenFails(h, d) \/ ChannelClosed(h, d) \/ CanSendNow(h, d)
  BY <1>1, <1>2, OpenedInvariant, OpenFailsInvariant, ChannelClosedInvariant,
     CanSendInvariant
<1>3. QED
  BY <1>1, <1>2, InquiryInvariant, IncomingInvariant, SdpServiceInvariant,
     SdpCompleteInvariant DEF Event

LEMMA NextInvariant == IInv /\ [Next]_vars => IInv'
<1> SUFFICES ASSUME IInv, [Next]_vars PROVE IInv'
  OBVIOUS
<1>1. CASE \E p \in Peers : Call(p)
  BY <1>1, CallInvariant
<1>2. CASE \E h \in Headsets : Event(h)
  BY <1>2, EventInvariant
<1>3. CASE InquiryComplete
  BY <1>3, Untouched DEF InquiryComplete
<1>4. CASE Poll
  BY <1>4, HousekeepInvariant DEF Poll
<1>5. CASE UNCHANGED vars
  BY <1>5, Untouched DEF vars, firmware
<1>6. QED
  BY <1>1, <1>2, <1>3, <1>4, <1>5 DEF Next

\* The invariant is inductive, for any set of headsets, kinds of headsets,
\* size of the tables and number of SDP attempts.
THEOREM Invariance == Spec => []IInv
BY InitInvariant, NextInvariant, PTL DEF Spec

\* The channel id kept of a peer names a channel BTstack still has, whatever
\* is dialled, called in, hung up, cleared and closed, in any order.
THEOREM CidStaysLive == Spec => []CidIsLive
<1>1. IInv => CidIsLive
  BY DEF IInv, PeerInv, RowInv, RowSound, CidIsLive, HasCid
<1>2. QED
  BY <1>1, Invariance, PTL

\* A peer listed as connected has an open channel, the one its packets go to.
THEOREM ConnectedIsLinked == Spec => []ConnectedHasChannel
<1>1. IInv => ConnectedHasChannel
  BY DEF IInv, PeerInv, RowInv, RowSound, ConnectedHasChannel, Linked, HasCid
<1>2. QED
  BY <1>1, Invariance, PTL

\* While headsets only answer, one dial is under way at a time.
THEOREM OneDialAtATime == ASSUME DialIn = {} PROVE Spec => []OneDial
<1>1. IInv => OneDial
  <2> SUFFICES ASSUME IInv PROVE OneDial
    OBVIOUS
  <2> DEFINE D == {p \in Peers : chan[p]["out"] \in {"opening", "aborting"}}
  <2>1. D \subseteq {dialling}
    BY DEF IInv, PeerInv, RowInv, OnlyDialled
  <2>2. IsFiniteSet({dialling}) /\ Cardinality({dialling}) = 1
    BY FS_Singleton
  <2>3. Cardinality(D) <= 1
    BY <2>1, <2>2, FS_Subset
  <2>4. QED
    BY <2>3 DEF OneDial
<1>2. QED
  BY <1>1, Invariance, PTL

\* Unless a row is erased, a peer being disconnected has a channel whose end
\* will take it off the list.
THEOREM DisconnectsEnd == ASSUME Clearable = {} PROVE Spec => []DisconnectingEnds
<1>1. IInv => DisconnectingEnds
  <2> SUFFICES ASSUME IInv, NEW p \in Peers, table[p].slot = "disconnecting"
               PROVE  \E d \in Directions : chan[p][d] # "none"
    BY DEF DisconnectingEnds
  <2>1. table[p].cid # "none" /\ chan[p][table[p].cid] # "none"
    BY DEF IInv, PeerInv, RowInv, RowSound, HangsUp
  <2>2. table[p].cid \in Directions
    BY <2>1, RowType, RowOf DEF IInv, BackendType, Directions
  <2>3. QED
    BY <2>1, <2>2
<1>2. QED
  BY <1>1, Invariance, PTL

\* Only the housekeeping dials.
LEMMA WhoDials ==
  ASSUME IInv, [Next]_vars, NEW p \in Peers, StartsDial(p)
  PROVE  \E q \in Peers \cup {NoPeer} : Housekeep(q, p)
<1>1. BackendType /\ chan[p]["out"] = "none" /\ chan'[p]["out"] = "opening"
  BY DEF IInv, StartsDial
<1>2. ASSUME NEW o \in Peers, NEW d \in Directions,
             chan' = Hangup(o, d)
      PROVE  FALSE
  BY <1>1, <1>2, HangupChannel DEF Directions
<1>3. ASSUME NEW o \in Peers, NEW d \in Directions, NEW s \in {"none", "open"},
             chan' = [chan EXCEPT ![o][d] = s]
      PROVE  FALSE
  BY <1>1, <1>3, ChannelMoves DEF Directions, States
<1>4. ASSUME UNCHANGED chan PROVE FALSE
  BY <1>1, <1>4
<1>5. ASSUME NEW o \in Peers, Call(o) PROVE FALSE
  <2>1. ASSUME HangUpPeer(o) PROVE FALSE
    <3>1. HasCid(table, o) => table[o].cid \in Directions
      BY <1>1, RowType, RowOf DEF HasCid, BackendType, Directions
    <3>2. QED
      BY <1>2, <1>4, <2>1, <3>1 DEF HangUpPeer
  <2>2. QED
    BY <1>4, <1>5, <2>1 DEF Call, Connect, Disconnect, SessionTimeout, Clear, Queue
<1>6. ASSUME NEW h \in Headsets, Event(h) PROVE FALSE
  <2>0. h \in Peers
    BY PeersAssumption
  <2>1. CASE InquiryResult(h) \/ SdpService(h) \/ SdpComplete(h)
    BY <1>4, <2>1 DEF InquiryResult, SdpService, SdpComplete
  <2>2. CASE Incoming(h)
    <3>1. chan' = [chan EXCEPT ![h]["in"] = "opening"]
      BY <2>2 DEF Incoming
    <3>2. QED
      BY <1>1, <2>0, <3>1, ChannelMoves DEF Directions, States
  <2>3. ASSUME NEW d \in Directions,
               Opened(h, d) \/ OpenFails(h, d) \/ ChannelClosed(h, d)
        PROVE  FALSE
    BY <1>3, <2>0, <2>3 DEF Opened, OpenFails, ChannelClosed, Ended
  <2>4. ASSUME NEW d \in Directions, CanSendNow(h, d) PROVE FALSE
    BY <1>2, <1>4, <2>0, <2>4 DEF CanSendNow
  <2>5. QED
    BY <1>6, <2>1, <2>2, <2>3, <2>4 DEF Event
<1>7. CASE Poll
  <2>1. PICK q \in Peers \cup {NoPeer}, d \in Peers \cup {NoPeer} : Housekeep(q, d)
    BY <1>7 DEF Poll
  <2>2. chan' = IF d = NoPeer THEN chan ELSE [chan EXCEPT ![d]["out"] = "opening"]
    BY <2>1 DEF Housekeep
  <2>3. d # NoPeer
    BY <1>4, <2>2
  <2>4. d \in Peers /\ chan' = [chan EXCEPT ![d]["out"] = "opening"]
    BY <2>2, <2>3
  <2>5. d = p
    BY <1>1, <2>4, ChannelMoves DEF Directions, States
  <2>6. QED
    BY <2>1, <2>5
<1>8. QED
  BY <1>4, <1>5, <1>6, <1>7 DEF Next, InquiryComplete, vars

-----------------------------------------------------------------------------
(***************************************************************************)
(* The outbound queue and what is left of the types.  A peer leaves the    *)
(* list only in a step that takes its packets out of the queue.            *)
(***************************************************************************)
QueueInv ==
  outq \in Seq(Peers) /\ Len(outq) <= QueueDepth /\ QueuedForListed

FlagsInv ==
  /\ canSend \in BOOLEAN /\ sdp \in Peers \cup {NoPeer}
  /\ inquiry \in BOOLEAN /\ polling \in BOOLEAN
  /\ asked \subseteq Peers \X Directions

FullInv == IInv /\ QueueInv /\ FlagsInv

\* No peer leaves the list.
AllStay == \A p \in Peers : table[p].slot # "none" => table'[p].slot # "none"

LEMMA StaysQueued ==
  ASSUME QueueInv, AllStay, UNCHANGED outq
  PROVE  QueueInv'
BY DEF QueueInv, QueuedForListed, AllStay, Listed

\* Packets are taken out, perhaps with their peer.
LEMMA CutQueued ==
  ASSUME QueueInv, NEW K \in SUBSET DOMAIN outq, outq' = Kept(outq, K),
         \A i \in K : table[outq[i]].slot # "none" => table'[outq[i]].slot # "none"
  PROVE  QueueInv'
<1>1. /\ Kept(outq, K) \in Seq(Peers)
      /\ Len(Kept(outq, K)) = Cardinality(K) /\ Cardinality(K) <= Len(outq)
      /\ \A k \in DOMAIN Kept(outq, K) :
           Place(K, k) \in K /\ Kept(outq, K)[k] = outq[Place(K, k)]
  BY KeptQueue DEF QueueInv
<1>2. Len(outq) \in Nat /\ Len(outq) <= QueueDepth /\ Len(Kept(outq, K)) \in Nat
  BY <1>1, LenProperties DEF QueueInv
<1>3. Len(outq') <= QueueDepth
  BY <1>1, <1>2, BoundsAssumption
<1>4. ASSUME NEW k \in DOMAIN outq' PROVE outq'[k] \in Listed(table')
  <2>1. Place(K, k) \in DOMAIN outq /\ outq'[k] = outq[Place(K, k)]
    BY <1>1, <1>4
  <2>2. outq'[k] \in Peers /\ table[outq'[k]].slot # "none"
    BY <2>1 DEF QueueInv, QueuedForListed, Listed
  <2>3. QED
    BY <1>1, <1>4, <2>1, <2>2 DEF Listed
<1>5. QED
  BY <1>1, <1>3, <1>4 DEF QueueInv, QueuedForListed

LEMMA LeavesQueued ==
  ASSUME QueueInv, NEW p \in Peers, OnlyAt(table, table', p),
         outq' = Without(outq, p)
  PROVE  QueueInv'
<1> DEFINE K == {i \in DOMAIN outq : outq[i] # p}
<1>1. outq' = Kept(outq, K)
  BY DEF Without
<1>2. \A i \in K : outq[i] \in Peers /\ table'[outq[i]] = table[outq[i]]
  BY DEF QueueInv, QueuedForListed, Listed, OnlyAt
<1>3. QED
  BY <1>1, <1>2, CutQueued

LEMMA OneStays ==
  ASSUME NEW p, OnlyAt(table, table', p),
         table[p].slot # "none" => table'[p].slot # "none"
  PROVE  AllStay
BY DEF AllStay, OnlyAt

\* A peer hung up waits on the list for its channel to close, or leaves it
\* with its packets.
LEMMA HangUpQueued ==
  ASSUME QueueInv, table \in Tables, NEW p \in Peers, OnlyAt(table, table', p),
         table'[p].slot = HungUp(table, p)[p].slot, HangUpPeer(p)
  PROVE  QueueInv'
<1>1. outq' = IF table[p].backend /\ ~HasCid(table, p)
              THEN Without(outq, p) ELSE outq
  BY DEF HangUpPeer
<1>2. CASE table[p].backend /\ ~HasCid(table, p)
  BY <1>1, <1>2, LeavesQueued
<1>3. CASE ~(table[p].backend /\ ~HasCid(table, p))
  <2>1. table[p].slot # "none" => table'[p].slot # "none"
    BY <1>3, HungUpRow
  <2>2. QED
    BY <1>1, <1>3, <2>1, OneStays, StaysQueued
<1>4. QED
  BY <1>2, <1>3

LEMMA CallQueued ==
  ASSUME FullInv, NEW p \in Peers, Call(p)
  PROVE  QueueInv'
<1>1. QueueInv /\ table \in Tables
  BY DEF FullInv, IInv, BackendType
<1>2. CASE Connect(p)
  <2>1. OnlyAt(table, table', p) /\ (table[p].slot # "none" => table'[p].slot # "none")
    BY <1>1, <1>2, ConnectRow DEF Grown, SameLink
  <2>2. UNCHANGED outq
    BY <1>2 DEF Connect
  <2>3. QED
    BY <1>1, <2>1, <2>2, OneStays, StaysQueued
<1>3. CASE Disconnect(p)
  <2>1. table' = HungUp(table, p) /\ HangUpPeer(p)
    BY <1>3 DEF Disconnect
  <2>2. QED
    BY <1>1, <2>1, HungUpRow, HangUpQueued
<1>4. CASE SessionTimeout(p)
  <2>1. HangUpPeer(p)
    BY <1>4 DEF SessionTimeout
  <2>2. OnlyAt(table, table', p) /\ table'[p].slot = HungUp(table, p)[p].slot
    BY <1>1, <1>4, SessionTimeoutRow
  <2>3. QED
    BY <1>1, <2>1, <2>2, HangUpQueued
<1>5. CASE Clear(p)
  <2>1. /\ OnlyAt(table, table', p)
        /\ \/ HangUpPeer(p) /\ table'[p].slot = HungUp(table, p)[p].slot
           \/ table[p].slot = "none" /\ UNCHANGED outq
    BY <1>1, <1>5, ClearRow DEF Listed
  <2>2. CASE HangUpPeer(p) /\ table'[p].slot = HungUp(table, p)[p].slot
    BY <1>1, <2>1, <2>2, HangUpQueued
  <2>3. CASE table[p].slot = "none" /\ UNCHANGED outq
    BY <1>1, <2>1, <2>3, OneStays, StaysQueued
  <2>4. QED
    BY <2>1, <2>2, <2>3
<1>6. CASE Queue(p)
  <2>1. /\ outq' = Append(outq, p) /\ Len(outq) < QueueDepth
        /\ p \in Listed(table) /\ UNCHANGED table
    BY <1>6 DEF Queue
  <2>2. outq \in Seq(Peers) /\ Len(outq) \in Nat
    BY <1>1, LenProperties DEF QueueInv
  <2>3. /\ outq' \in Seq(Peers) /\ Len(outq') = Len(outq) + 1
        /\ \A i \in 1 .. Len(outq) : outq'[i] = outq[i]
        /\ outq'[Len(outq) + 1] = p
    BY <2>1, <2>2, AppendProperties
  <2>4. DOMAIN outq = 1 .. Len(outq) /\ DOMAIN outq' = 1 .. Len(outq) + 1
    BY <2>2, <2>3, LenProperties
  <2>5. Len(outq') <= QueueDepth
    BY <2>1, <2>2, <2>3, BoundsAssumption
  <2>6. ASSUME NEW i \in DOMAIN outq' PROVE outq'[i] \in Listed(table)
    <3>1. i \in 1 .. Len(outq) \/ i = Len(outq) + 1
      BY <2>2, <2>4
    <3>2. QED
      BY <1>1, <2>1, <2>3, <2>4, <3>1 DEF QueueInv, QueuedForListed
  <2>7. QED
    BY <2>1, <2>3, <2>5, <2>6 DEF QueueInv, QueuedForListed
<1>7. QED
  BY <1>2, <1>3, <1>4, <1>5, <1>6 DEF Call

\* What a CAN_SEND_NOW leaves of the queue.
LEMMA CanSendKeeps ==
  ASSUME NEW h, NEW d, CanSendNow(h, d)
  PROVE  \E K \in SUBSET DOMAIN outq : outq' = Kept(outq, K)
<1> DEFINE mine == {i \in DOMAIN outq : outq[i] = h /\ HasCid(table, h)
                                         /\ table[h].cid = d}
           first == CHOOSE i \in mine : \A j \in mine : i <= j
           unsent == {i \in DOMAIN outq : i > first}
                       \cup {i \in Backed(outq) : i < first}
<1>1. \/ outq' = Kept(outq, Backed(outq))
      \/ outq' = Kept(outq, unsent)
      \/ outq' = Kept(outq, {i \in unsent : outq[i] # h})
  BY DEF CanSendNow
<1>2. Backed(outq) \subseteq DOMAIN outq
  BY DEF Backed
<1>3. unsent \subseteq DOMAIN outq
  BY <1>2
<1> HIDE DEF unsent
<1>4. QED
  BY <1>1, <1>2, <1>3

LEMMA EventQueued ==
  ASSUME FullInv, NEW h \in Peers, Event(h)
  PROVE  QueueInv'
<1>1. QueueInv /\ table \in Tables
  BY DEF FullInv, IInv, BackendType
<1>2. CASE InquiryResult(h) \/ SdpService(h) \/ SdpComplete(h) \/ Incoming(h)
  <2>1. UNCHANGED outq
    BY <1>2 DEF InquiryResult, SdpService, SdpComplete, Incoming
  <2>2. OnlyAt(table, table', h) /\ (table[h].slot # "none" => table'[h].slot # "none")
    <3>1. CASE InquiryResult(h)
      BY <1>1, <3>1, InquiryRow DEF Grown, SameLink
    <3>2. CASE SdpService(h)
      BY <1>1, <3>2, SdpServiceRow DEF Grown, SameLink
    <3>3. CASE SdpComplete(h)
      BY <1>1, <3>3, SdpCompleteRow
    <3>4. CASE Incoming(h)
      BY <1>1, <3>4, IncomingRow
    <3>5. QED
      BY <1>2, <3>1, <3>2, <3>3, <3>4
  <2>3. QED
    BY <1>1, <2>1, <2>2, OneStays, StaysQueued
<1>3. ASSUME NEW d \in Directions, Opened(h, d)
      PROVE  QueueInv'
  <2>1. OnlyAt(table, table', h) /\ (table[h].slot # "none" => table'[h].slot # "none")
    BY <1>1, <1>3, OpenedRow DEF Grown, SameLink
  <2>2. UNCHANGED outq
    BY <1>3 DEF Opened
  <2>3. QED
    BY <1>1, <2>1, <2>2, OneStays, StaysQueued
<1>4. ASSUME NEW d \in Directions, OpenFails(h, d)
      PROVE  QueueInv'
  <2>1. /\ OnlyAt(table, table', h)
        /\ \/ /\ table[h].slot # "none" => table'[h].slot # "none"
              /\ UNCHANGED outq
           \/ outq' = Without(outq, h)
    BY <1>1, <1>4, OpenFailsRow DEF Grown, SameLink
  <2>2. QED
    BY <1>1, <2>1, OneStays, StaysQueued, LeavesQueued
<1>5. ASSUME NEW d \in Directions, ChannelClosed(h, d)
      PROVE  QueueInv'
  <2>1. \/ OnlyAt(table, table', h) /\ outq' = Without(outq, h)
        \/ UNCHANGED <<table, outq>>
    BY <1>1, <1>5, ChannelClosedRow
  <2>2. QED
    BY <1>1, <2>1, StaysQueued, LeavesQueued DEF AllStay
<1>6. ASSUME NEW d \in Directions, CanSendNow(h, d)
      PROVE  QueueInv'
  <2>1. AllStay
    <3>1. \/ UNCHANGED table
          \/ /\ OnlyAt(table, table', h)
             /\ table[h].slot # "none" => table'[h].slot # "none"
      BY <1>1, <1>6, CanSendRow
    <3>2. QED
      BY <3>1, OneStays DEF AllStay
  <2>2. PICK K \in SUBSET DOMAIN outq : outq' = Kept(outq, K)
    BY <1>6, CanSendKeeps
  <2>3. \A i \in K : outq[i] \in Peers
    BY <1>1 DEF QueueInv, QueuedForListed, Listed
  <2>4. QED
    BY <1>1, <2>1, <2>2, <2>3, CutQueued DEF AllStay
<1>7. QED
  BY <1>2, <1>3, <1>4, <1>5, <1>6 DEF Event

\* A table with the same rows and channels; a peer that is reconnected may have
\* got a place on the list.
Alike(T, U) ==
  /\ U \in Tables
  /\ \A p \in Peers :
       /\ U[p].known = T[p].known /\ U[p].backend = T[p].backend
       /\ U[p].cid = T[p].cid /\ U[p].blocked = T[p].blocked
       /\ T[p].tries = SdpMaxAttempts => U[p].tries = SdpMaxAttempts
       /\ T[p].slot # "none" => U[p].slot # "none"
       /\ U[p].slot # "none" => T[p].slot # "none" \/ p \in Wanting(T)

\* The housekeeping reconnects and queries, and then may dial one peer.
LEMMA HousekeepTable ==
  ASSUME table \in Tables, NEW q \in Peers \cup {NoPeer},
         NEW d \in Peers \cup {NoPeer}, Housekeep(q, d)
  PROVE  \E U : /\ Alike(table, U)
                /\ d = NoPeer => table' = U
                /\ d # NoPeer => DialDue(U, d) /\ table' = Dialled(U, d)
                /\ RequestSend(table', outq, canSend, asked)
<1>1. PICK seated \in Seatings(table) :
        LET T == Reconnecting(table, seated)
            U == IF q = NoPeer THEN T ELSE Querying(T, q)
        IN  /\ d # NoPeer => DialDue(U, d)
            /\ table' = IF d = NoPeer THEN U ELSE Dialled(U, d)
            /\ RequestSend(table', outq, canSend, asked)
  BY DEF Housekeep
<1> DEFINE T == Reconnecting(table, seated)
           U == IF q = NoPeer THEN T ELSE Querying(T, q)
<1>2. Alike(table, T)
  <2>1. T \in Tables
    BY ReconnectingTable
  <2>2. ASSUME NEW p \in Peers
        PROVE  /\ T[p].known = table[p].known /\ T[p].backend = table[p].backend
               /\ T[p].cid = table[p].cid /\ T[p].blocked = table[p].blocked
               /\ T[p].tries = table[p].tries
               /\ table[p].slot # "none" => T[p].slot # "none"
               /\ T[p].slot # "none" => table[p].slot # "none" \/ p \in Wanting(table)
    <3>1. /\ T[p].known = table[p].known /\ T[p].backend = table[p].backend
          /\ T[p].cid = table[p].cid /\ T[p].blocked = table[p].blocked
          /\ T[p].tries = table[p].tries
          /\ \/ T[p].slot = table[p].slot
             \/ p \in Wanting(table) /\ table[p].slot = "none"
      BY ReconnectingRow
    <3> HIDE DEF T
    <3>2. QED
      BY <3>1
  <2> HIDE DEF T
  <2>3. QED
    BY <2>1, <2>2 DEF Alike
<1> HIDE DEF T
<1>3. Alike(table, U)
  <2>1. CASE q = NoPeer
    BY <1>2, <2>1
  <2>2. CASE q # NoPeer
    <3> DEFINE V == Querying(T, q)
    <3>1. q \in Peers /\ T \in Tables
      BY <1>2, <2>2 DEF Alike
    <3>2. /\ OnlyAt(T, V, q)
          /\ V[q].known = T[q].known /\ V[q].backend = T[q].backend
          /\ V[q].cid = T[q].cid /\ V[q].slot = T[q].slot
          /\ V[q].blocked = T[q].blocked
          /\ T[q].tries = SdpMaxAttempts => V[q].tries = SdpMaxAttempts
      BY <3>1, QueryingRow
    <3>3. U = V
      BY <2>2
    <3> HIDE DEF U, V
    <3>4. QED
      BY <1>2, <3>2, <3>3 DEF Alike, OnlyAt
  <2>3. QED
    BY <2>1, <2>2
<1>4. /\ d # NoPeer => DialDue(U, d)
      /\ table' = IF d = NoPeer THEN U ELSE Dialled(U, d)
      /\ RequestSend(table', outq, canSend, asked)
  BY <1>1 DEF T
<1> HIDE DEF U
<1>5. QED
  BY <1>3, <1>4

LEMMA PollQueued ==
  ASSUME FullInv, Poll
  PROVE  QueueInv'
<1>1. QueueInv /\ table \in Tables
  BY DEF FullInv, IInv, BackendType
<1>2. PICK q \in Peers \cup {NoPeer}, d \in Peers \cup {NoPeer} : Housekeep(q, d)
  BY DEF Poll
<1>3. PICK U : /\ Alike(table, U)
               /\ d = NoPeer => table' = U
               /\ d # NoPeer => DialDue(U, d) /\ table' = Dialled(U, d)
  BY <1>1, <1>2, HousekeepTable
<1>4. CASE d = NoPeer
  <2>1. AllStay
    BY <1>3, <1>4 DEF Alike, AllStay
  <2>2. QED
    BY <1>1, <1>2, <2>1, StaysQueued DEF Housekeep
<1>5. CASE d # NoPeer
  <2>1. d \in Peers /\ U \in Tables
    BY <1>3, <1>5 DEF Alike
  <2>2. OnlyAt(U, table', d) /\ (U[d].slot # "none" => table'[d].slot # "none")
    BY <1>3, <1>5, <2>1, DialledRow
  <2>3. AllStay
    BY <1>3, <2>2 DEF Alike, AllStay, OnlyAt
  <2>4. QED
    BY <1>1, <1>2, <2>3, StaysQueued DEF Housekeep
<1>6. QED
  BY <1>4, <1>5

\* A send request is for a channel the firmware knows.
LEMMA RequestSendType ==
  ASSUME NEW T \in Tables, NEW q \in Seq(Peers), NEW pendingSend \in BOOLEAN,
         NEW waiting \in SUBSET (Peers \X Directions),
         RequestSend(T, q, pendingSend, waiting)
  PROVE  canSend' \in BOOLEAN /\ asked' \subseteq Peers \X Directions
<1>1. CASE ~pendingSend /\ Sendable(T, q) # {}
  <2> DEFINE S == Sendable(T, q)
             i == FirstSendable(T, q)
             p == q[i]
  <2>1. S \subseteq DOMAIN q /\ DOMAIN q = 1 .. Len(q) /\ Len(q) \in Nat
    BY LenProperties DEF Sendable
  <2>2. S \subseteq Nat
    BY <2>1
  <2>3. \E k \in S : \A j \in S : k <= j
    <3> HIDE DEF S
    <3> QED BY <1>1, <2>2, FirstPlace DEF S
  <2>4. i \in S
    BY <2>3 DEF FirstSendable
  <2>5. p \in Peers /\ HasCid(T, p)
    <3>1. i \in DOMAIN q /\ HasCid(T, q[i])
      BY <2>4 DEF Sendable
    <3> HIDE DEF i
    <3>2. QED
      BY <2>1, <3>1, ElementOfSeq
  <2> HIDE DEF p
  <2>6. T[p].cid \in Directions
    BY <2>5, RowOf, RowType DEF HasCid, Directions
  <2>7. canSend' = TRUE /\ asked' = waiting \cup {<<p, T[p].cid>>}
    BY <1>1 DEF RequestSend, p
  <2>8. QED
    BY <2>5, <2>6, <2>7
<1>2. CASE ~(~pendingSend /\ Sendable(T, q) # {})
  BY <1>2 DEF RequestSend
<1>3. QED
  BY <1>1, <1>2

LEMMA BackendTables == IInv => table \in Tables
BY DEF IInv, BackendType

LEMMA FlagsInvariant ==
  ASSUME FullInv, [Next]_vars, QueueInv'
  PROVE  FlagsInv'
<1>1. FlagsInv /\ table \in Tables /\ outq \in Seq(Peers) /\ outq' \in Seq(Peers)
  BY DEF FullInv, IInv, BackendType, QueueInv
<1>2. ASSUME NEW p \in Peers, Call(p) PROVE FlagsInv'
  BY <1>1, <1>2
     DEF Call, Connect, Disconnect, SessionTimeout, Clear, Queue, OtherCalls, FlagsInv
<1>3. ASSUME NEW h \in Headsets, Event(h) PROVE FlagsInv'
  <2>1. CASE InquiryResult(h) \/ Incoming(h) \/ SdpService(h) \/ SdpComplete(h)
    BY <1>1, <2>1
       DEF InquiryResult, Incoming, SdpService, SdpComplete, FlagsInv
  <2>2. ASSUME NEW d \in Directions, Opened(h, d) \/ OpenFails(h, d) \/ ChannelClosed(h, d)
        PROVE  FlagsInv'
    BY <1>1, <2>2 DEF Opened, OpenFails, ChannelClosed, FlagsInv
  <2>3. ASSUME NEW d \in Directions, CanSendNow(h, d)
        PROVE  FlagsInv'
    <3> DEFINE waiting == asked \ {<<h, d>>}
    <3>1. waiting \in SUBSET (Peers \X Directions)
      BY <1>1 DEF FlagsInv
    <3>2. /\ polling' = TRUE /\ UNCHANGED <<sdp, inquiry>>
          /\ \/ canSend' = FALSE /\ asked' = waiting
             \/ RequestSend(table, outq', FALSE, waiting)
      BY <2>3 DEF CanSendNow
    <3> HIDE DEF waiting
    <3>3. canSend' \in BOOLEAN /\ asked' \subseteq Peers \X Directions
      <4>1. CASE canSend' = FALSE /\ asked' = waiting
        BY <3>1, <4>1
      <4>2. CASE RequestSend(table, outq', FALSE, waiting)
        BY <1>1, <3>1, <4>2, RequestSendType
      <4>3. QED
        BY <3>2, <4>1, <4>2
    <3>4. QED
      BY <1>1, <3>2, <3>3 DEF FlagsInv
  <2>4. QED
    BY <1>3, <2>1, <2>2, <2>3 DEF Event
<1>4. CASE InquiryComplete
  BY <1>1, <1>4 DEF InquiryComplete, FlagsInv
<1>5. CASE Poll
  <2>1. PICK q \in Peers \cup {NoPeer}, d \in Peers \cup {NoPeer} : Housekeep(q, d)
    BY <1>5 DEF Poll
  <2>2. RequestSend(table', outq, canSend, asked)
    BY <1>1, <2>1, HousekeepTable
  <2>3. table' \in Tables
    <3>1. (IInv => table \in Tables)'
      BY BackendTables, PTL
    <3>2. QED
      BY <3>1, NextInvariant DEF FullInv
  <2>4. canSend' \in BOOLEAN /\ asked' \subseteq Peers \X Directions
    BY <1>1, <2>2, <2>3, RequestSendType DEF FlagsInv
  <2>5. /\ sdp' \in Peers \cup {NoPeer} /\ polling' = FALSE
        /\ inquiry' \in BOOLEAN
    BY <1>1, <2>1 DEF Housekeep, FlagsInv
  <2>6. QED
    BY <1>1, <2>4, <2>5 DEF FlagsInv
<1>6. CASE UNCHANGED vars
  BY <1>1, <1>6 DEF vars, firmware, FlagsInv
<1>7. QED
  BY <1>2, <1>3, <1>4, <1>5, <1>6 DEF Next

LEMMA NextQueued ==
  ASSUME FullInv, [Next]_vars
  PROVE  QueueInv'
<1>1. QueueInv
  BY DEF FullInv
<1>2. CASE \E h \in Headsets : Event(h)
  BY <1>2, EventQueued, PeersAssumption
<1>3. CASE InquiryComplete \/ UNCHANGED vars
  BY <1>1, <1>3, StaysQueued DEF InquiryComplete, vars, firmware, AllStay
<1>4. QED
  BY <1>2, <1>3, CallQueued, PollQueued DEF Next

LEMMA InitFull == Init => FullInv
<1> SUFFICES ASSUME Init PROVE FullInv
  OBVIOUS
<1>1. outq = <<>> /\ canSend = FALSE /\ sdp = NoPeer /\ inquiry \in BOOLEAN
      /\ polling = FALSE /\ asked = {}
  BY DEF Init
<1>2. outq \in Seq(Peers) /\ Len(outq) = 0 /\ DOMAIN outq = {}
  BY <1>1, EmptySeq, LenProperties
<1>3. QueueInv
  BY <1>2, BoundsAssumption DEF QueueInv, QueuedForListed
<1>4. QED
  BY <1>1, <1>3, InitInvariant DEF FullInv, FlagsInv

LEMMA NextFull == FullInv /\ [Next]_vars => FullInv'
<1> SUFFICES ASSUME FullInv, [Next]_vars PROVE FullInv'
  OBVIOUS
<1>1. IInv' /\ QueueInv' /\ FlagsInv'
  BY NextInvariant, NextQueued, FlagsInvariant DEF FullInv
<1>2. QED
  BY <1>1 DEF FullInv

\* The strengthened invariant is inductive, with calls, events and polls in any
\* order and whatever is dialled, called in, hung up and cleared.
THEOREM FullInvariance == Spec => []FullInv
BY InitFull, NextFull, PTL DEF Spec

\* Every variable keeps its type: the queue its depth, and each send request
\* BTstack owes is for a channel of a peer.
THEOREM TypeCorrect == Spec => []TypeOK
<1>1. FullInv => TypeOK
  BY DEF FullInv, IInv, BackendType, QueueInv, FlagsInv, TypeOK, Tables,
         Channels, States
<1>2. QED
  BY <1>1, FullInvariance, PTL

\* No packet waits for a peer that is off the list: whoever leaves it takes its
\* packets along, on every path by which peers leave.
THEOREM QueueIsForListed == Spec => []QueuedForListed
<1>1. FullInv => QueuedForListed
  BY DEF FullInv, QueueInv
<1>2. QED
  BY <1>1, FullInvariance, PTL

-----------------------------------------------------------------------------
(***************************************************************************)
(* Places.  The three tables of the backend are of one size but filled at  *)
(* different times.  Unless a row is erased, the two tables of peers hold  *)
(* the same peers, and whoever has a row finds a place on the list.        *)
(***************************************************************************)

\* A row r of a peer with channels c has its other half, a peer with a channel
\* id is listed, and only peers with a row are listed or have channels.
Paired(r, c) ==
  /\ r.known <=> r.backend
  /\ r.slot # "none" => r.known
  /\ r.cid # "none" => r.slot # "none"
  /\ c["in"] # "none" \/ c["out"] # "none" => r.known

Places(T, C) ==
  Cardinality(Known(T)) <= MaxPeers /\ \A p \in Peers : Paired(T[p], C[p])

PlacesInv == Places(table, chan)

LEMMA KnownFinite ==
  ASSUME NEW T
  PROVE  IsFiniteSet(Known(T)) /\ Cardinality(Known(T)) \in Nat
<1>1. IsFiniteSet(Known(T))
  BY PeersAssumption, FS_Subset DEF Known
<1>2. QED
  BY <1>1, FS_CardinalityType

\* Both tables have room, or neither; a peer with a row has a place.
LEMMA PlacesGive ==
  ASSUME NEW T \in Tables, NEW C, Places(T, C)
  PROVE  /\ Backends(T) = Known(T)
         /\ Listed(T) \subseteq Known(T) /\ Cardinality(Listed(T)) <= MaxPeers
         /\ \A p \in Peers : T[p].slot = "none" /\ (T[p].known \/ Room(Known(T)))
                               => Room(Listed(T))
<1>1. Backends(T) = Known(T) /\ Listed(T) \subseteq Known(T)
  BY DEF Places, Paired, Backends, Known, Listed
<1>2. IsFiniteSet(Known(T)) /\ Cardinality(Known(T)) \in Nat
  BY KnownFinite
<1>3. /\ IsFiniteSet(Listed(T)) /\ Cardinality(Listed(T)) \in Nat
      /\ Cardinality(Listed(T)) <= Cardinality(Known(T))
  BY <1>1, <1>2, FS_Subset, FS_CardinalityType
<1>4. Cardinality(Listed(T)) <= MaxPeers
  BY <1>2, <1>3, BoundsAssumption DEF Places
<1>5. ASSUME NEW p \in Peers, T[p].slot = "none", T[p].known
      PROVE  Room(Listed(T))
  <2>1. p \in Known(T) /\ p \notin Listed(T)
    BY <1>5 DEF Known, Listed
  <2>2. Cardinality(Listed(T)) < Cardinality(Known(T))
    <3>1. Listed(T) # Known(T)
      BY <2>1
    <3>2. Cardinality(Listed(T)) # Cardinality(Known(T))
      BY <1>1, <1>2, <3>1, FS_Subset
    <3>3. QED
      BY <1>2, <1>3, <3>2
  <2>3. QED
    BY <1>2, <1>3, <2>2, BoundsAssumption DEF Places, Room
<1>6. Room(Known(T)) => Room(Listed(T))
  BY <1>2, <1>3, BoundsAssumption DEF Room
<1>7. QED
  BY <1>1, <1>4, <1>5, <1>6

\* A row may be new where there is room.
LEMMA PlacesKept ==
  ASSUME NEW T \in Tables, NEW U, NEW C, NEW D, NEW p \in Peers,
         Places(T, C), OnlyAt(T, U, p),
         \A q \in Peers : q # p => D[q] = C[q],
         U[p].known => T[p].known \/ Room(Known(T)),
         Paired(U[p], D[p])
  PROVE  Places(U, D)
<1>1. /\ IsFiniteSet(Known(T)) /\ Cardinality(Known(T)) \in Nat
      /\ IsFiniteSet(Known(U)) /\ Cardinality(Known(U)) \in Nat
  BY KnownFinite
<1>2. Cardinality(Known(U)) <= MaxPeers
  <2>1. CASE T[p].known \/ ~U[p].known
    <3>1. Known(U) \subseteq Known(T)
      BY <2>1 DEF Known, OnlyAt
    <3>2. Cardinality(Known(U)) <= Cardinality(Known(T))
      BY <1>1, <3>1, FS_Subset
    <3>3. QED
      BY <1>1, <3>2, BoundsAssumption DEF Places
  <2>2. CASE U[p].known /\ ~T[p].known
    <3>1. Room(Known(T)) /\ p \notin Known(T)
      BY <2>2 DEF Known
    <3>2. Known(U) = Known(T) \cup {p}
      BY <2>2 DEF Known, OnlyAt
    <3>3. Cardinality(Known(U)) = Cardinality(Known(T)) + 1
      BY <1>1, <3>1, <3>2, FS_AddElement
    <3>4. QED
      BY <1>1, <3>1, <3>3, BoundsAssumption DEF Room
  <2>3. QED
    BY <2>1, <2>2
<1>3. \A q \in Peers : Paired(U[q], D[q])
  <2>1. ASSUME NEW q \in Peers, q # p PROVE Paired(U[q], D[q])
    <3>1. U[q] = T[q] /\ D[q] = C[q] /\ Paired(T[q], C[q])
      BY <2>1 DEF OnlyAt, Places
    <3>2. QED
      BY <3>1
  <2>2. QED
    BY <2>1
<1>4. QED
  BY <1>2, <1>3 DEF Places

LEMMA HangUpPlaces ==
  ASSUME BackendType, PlacesInv, NEW p \in Peers, OnlyAt(table, table', p),
         table[p].backend, HangUpPeer(p),
         LET u == HungUp(table, p)[p]
         IN  /\ table'[p].known = u.known /\ table'[p].backend = u.backend
             /\ table'[p].cid = u.cid /\ table'[p].slot = u.slot
  PROVE  PlacesInv' /\ (table[p].cid # "none" => table'[p].slot # "none")
<1>1. table \in Tables /\ Paired(table[p], chan[p])
  BY DEF BackendType, PlacesInv, Places
<1>2. /\ table'[p].known = table[p].known /\ table'[p].backend = table[p].backend
      /\ table'[p].cid = table[p].cid
      /\ table[p].cid # "none" => table'[p].slot # "none"
  BY <1>1, HungUpRow DEF HasCid, Paired
<1>3. /\ \A q \in Peers : q # p => chan'[q] = chan[q]
      /\ \A e \in Directions : chan'[p][e] = "none" <=> chan[p][e] = "none"
  <2>1. CASE HasCid(table, p)
    <3>1. table[p].cid \in Directions /\ chan' = Hangup(p, table[p].cid)
      BY <1>1, <2>1, RowOf, RowType DEF HasCid, HangUpPeer, Directions
    <3>2. QED
      BY <3>1, HangupChannel
  <2>2. CASE ~HasCid(table, p)
    BY <2>2 DEF HangUpPeer
  <2>3. QED
    BY <2>1, <2>2
<1>4. Paired(table'[p], chan'[p])
  BY <1>1, <1>2, <1>3 DEF Paired, Directions
<1>5. Places(table', chan')
  BY <1>1, <1>2, <1>3, <1>4, PlacesKept DEF PlacesInv
<1>6. QED
  BY <1>2, <1>5 DEF PlacesInv

LEMMA CallPlaces ==
  ASSUME Clearable = {}, BackendType, PlacesInv, NEW p \in Peers, Call(p)
  PROVE  PlacesInv'
<1>1. /\ table \in Tables /\ Paired(table[p], chan[p])
      /\ Backends(table) = Known(table)
      /\ table[p].slot = "none" /\ (table[p].known \/ Room(Known(table)))
           => Room(Listed(table))
  BY PlacesGive DEF BackendType, PlacesInv, Places
<1>2. CASE Connect(p)
  <2>1. UNCHANGED chan
    BY <1>2 DEF Connect
  <2>2. /\ OnlyAt(table, table', p)
        /\ table'[p].known => table[p].known \/ Room(Known(table))
        /\ Paired(table'[p], chan[p])
    <3>1. /\ OnlyAt(table, table', p)
          /\ \/ /\ Grown(table[p], table'[p])
                /\ table'[p].backend = table[p].backend
                /\ table'[p].known <=> table[p].known \/ Room(Known(table))
                /\ ~(table'[p].known /\ (table[p].backend \/ Room(Backends(table))))
             \/ /\ table'[p].known /\ table'[p].backend
                /\ table'[p].cid = table[p].cid
                /\ table[p].known \/ Room(Known(table))
                /\ \/ table'[p].slot = "connecting"
                   \/ table'[p].slot = "none" /\ table[p].slot = "none"
                      /\ ~Room(Listed(table))
      BY <1>1, <1>2, ConnectRow
    <3>2. QED
      BY <1>1, <3>1 DEF Paired, Grown, SameLink
  <2>3. QED
    BY <1>1, <2>1, <2>2, PlacesKept DEF PlacesInv
<1>3. CASE Disconnect(p)
  <2>1. table' = HungUp(table, p) /\ HangUpPeer(p) /\ table[p].backend
    BY <1>3 DEF Disconnect
  <2>2. QED
    BY <1>1, <2>1, HungUpRow, HangUpPlaces
<1>4. CASE SessionTimeout(p)
  <2>1. HangUpPeer(p) /\ table[p].backend
    BY <1>4 DEF SessionTimeout, Linked, HasCid
  <2>2. QED
    BY <1>1, <1>4, <2>1, SessionTimeoutRow, HangUpPlaces
<1>5. CASE Queue(p)
  BY <1>5 DEF Queue, PlacesInv
<1>6. QED
  BY <1>2, <1>3, <1>4, <1>5 DEF Call, Clear

LEMMA EventPlaces ==
  ASSUME BackendType, PlacesInv, NEW h \in Peers, Event(h)
  PROVE  PlacesInv'
<1>1. /\ table \in Tables /\ Paired(table[h], chan[h])
      /\ Backends(table) = Known(table)
      /\ table[h].slot = "none" /\ (table[h].known \/ Room(Known(table)))
           => Room(Listed(table))
  BY PlacesGive DEF BackendType, PlacesInv, Places
<1>2. CASE InquiryResult(h) \/ SdpService(h) \/ SdpComplete(h)
  <2>1. UNCHANGED chan
    BY <1>2 DEF InquiryResult, SdpService, SdpComplete
  <2>2. /\ OnlyAt(table, table', h)
        /\ table'[h].known => table[h].known \/ Room(Known(table))
        /\ Paired(table'[h], chan[h])
    <3>1. CASE InquiryResult(h)
      BY <1>1, <3>1, InquiryRow DEF Paired, Grown, SameLink
    <3>2. CASE SdpService(h)
      BY <1>1, <3>2, SdpServiceRow DEF Paired, Grown, SameLink
    <3>3. CASE SdpComplete(h)
      BY <1>1, <3>3, SdpCompleteRow DEF Paired
    <3>4. QED
      BY <1>2, <3>1, <3>2, <3>3
  <2>3. QED
    BY <1>1, <2>1, <2>2, PlacesKept DEF PlacesInv
<1>3. CASE Incoming(h)
  <2>1. chan' = [chan EXCEPT ![h]["in"] = "opening"]
    BY <1>3 DEF Incoming
  <2>2. \A q \in Peers : q # h => chan'[q] = chan[q]
    BY <2>1, ChannelMoves DEF Directions, States
  <2>3. /\ OnlyAt(table, table', h)
        /\ table'[h].backend /\ (table[h].backend \/ Room(Backends(table)))
        /\ table'[h].known <=> table[h].known \/ Room(Known(table))
        /\ \/ table'[h].known /\ table'[h].slot = "connecting"
           \/ /\ table'[h].slot \in {table[h].slot, "reserved"}
              /\ table'[h].known => table'[h].slot = "none" /\ ~Room(Listed(table))
    BY <1>1, <1>3, IncomingRow
  <2>4. table'[h].known
    BY <1>1, <2>3 DEF Paired
  <2>5. Paired(table'[h], chan'[h])
    BY <1>1, <2>3, <2>4 DEF Paired
  <2>6. QED
    BY <1>1, <2>2, <2>3, <2>5, PlacesKept DEF PlacesInv
<1>4. ASSUME NEW d \in Directions, Opened(h, d) PROVE PlacesInv'
  <2>1. chan[h][d] = "opening" /\ chan' = [chan EXCEPT ![h][d] = "open"]
    BY <1>4 DEF Opened
  <2>2. \A q \in Peers : q # h => chan'[q] = chan[q]
    BY <2>1, ChannelMoves DEF States
  <2>3. table[h].known /\ table[h].backend
    BY <1>1, <2>1 DEF Paired, Directions
  <2>4. /\ OnlyAt(table, table', h)
        /\ \/ Grown(table[h], table'[h]) /\ ~table'[h].backend
           \/ /\ table'[h].backend
              /\ \/ ~table[h].known
                 \/ /\ table'[h].known
                    /\ table'[h].slot = "none" =>
                         table[h].slot = "none" /\ ~Room(Listed(table))
    BY <1>1, <1>4, OpenedRow
  <2>5. /\ table'[h].backend /\ table'[h].known /\ table'[h].slot # "none"
    BY <1>1, <2>3, <2>4 DEF Grown
  <2>6. Paired(table'[h], chan'[h])
    BY <2>5 DEF Paired
  <2>7. QED
    BY <1>1, <2>2, <2>3, <2>4, <2>6, PlacesKept DEF PlacesInv
<1>5. ASSUME NEW d \in Directions, OpenFails(h, d) PROVE PlacesInv'
  <2>1. chan[h][d] # "none" /\ chan' = [chan EXCEPT ![h][d] = "none"]
    BY <1>5 DEF OpenFails, Ended
  <2>2. \A q \in Peers : q # h => chan'[q] = chan[q]
    BY <2>1, ChannelMoves DEF States
  <2>3. table[h].known /\ table[h].backend
    BY <1>1, <2>1 DEF Paired, Directions
  <2>4. /\ OnlyAt(table, table', h) /\ table'[h].known = table[h].known
        /\ \/ Grown(table[h], table'[h]) /\ ~table'[h].backend
           \/ table'[h].backend /\ table'[h].cid = "none" /\ table'[h].slot = "none"
    BY <1>1, <1>5, OpenFailsRow
  <2>5. Paired(table'[h], chan'[h])
    BY <2>3, <2>4 DEF Paired, Grown
  <2>6. QED
    BY <1>1, <2>2, <2>3, <2>4, <2>5, PlacesKept DEF PlacesInv
<1>6. ASSUME NEW d \in Directions, ChannelClosed(h, d) PROVE PlacesInv'
  <2>1. chan[h][d] # "none" /\ chan' = [chan EXCEPT ![h][d] = "none"]
    BY <1>6 DEF ChannelClosed, Ended
  <2>2. /\ \A q \in Peers : q # h => chan'[q] = chan[q]
        /\ \A e \in Directions : e # d => chan'[h][e] = chan[h][e]
        /\ chan'[h][d] = "none"
    BY <2>1, ChannelMoves DEF States
  <2>3. /\ OnlyAt(table, table', h)
        /\ table'[h].known = table[h].known /\ table'[h].backend = table[h].backend
        /\ \/ table'[h].cid = "none" /\ table'[h].slot = "none"
           \/ table'[h].cid = table[h].cid /\ table'[h].slot = table[h].slot
    BY <1>1, <1>6, ChannelClosedRow, OnlyAtSelf
  <2>4. Paired(table'[h], chan'[h])
    BY <1>1, <2>2, <2>3 DEF Paired, Directions
  <2>5. QED
    BY <1>1, <2>2, <2>3, <2>4, PlacesKept DEF PlacesInv
<1>7. ASSUME NEW d \in Directions, CanSendNow(h, d) PROVE PlacesInv'
  <2>1. CASE UNCHANGED <<table, chan>>
    BY <2>1 DEF PlacesInv
  <2>2. CASE /\ HasCid(table, h) /\ table[h].cid = d /\ chan' = Hangup(h, d)
             /\ OnlyAt(table, table', h)
             /\ table'[h].known = table[h].known
             /\ table'[h].backend = table[h].backend /\ table'[h].cid = d
             /\ table'[h].slot = "disconnecting" \/
                  (table'[h].slot = "none" /\ table[h].slot = "none")
    <3>1. /\ \A q \in Peers : q # h => chan'[q] = chan[q]
          /\ \A e \in Directions : chan'[h][e] = "none" <=> chan[h][e] = "none"
      BY <2>2, HangupChannel
    <3>2. Paired(table'[h], chan'[h])
      BY <1>1, <2>2, <3>1 DEF Paired, Directions, HasCid
    <3>3. QED
      BY <1>1, <2>2, <3>1, <3>2, PlacesKept DEF PlacesInv
  <2>3. QED
    BY <1>1, <1>7, <2>1, <2>2, CanSendRow
<1>8. QED
  BY <1>2, <1>3, <1>4, <1>5, <1>6, <1>7 DEF Event

LEMMA PollPlaces ==
  ASSUME BackendType, PlacesInv, Poll
  PROVE  PlacesInv'
<1>1. table \in Tables
  BY DEF BackendType
<1>2. PICK q \in Peers \cup {NoPeer}, d \in Peers \cup {NoPeer} : Housekeep(q, d)
  BY DEF Poll
<1>3. PICK U : /\ Alike(table, U)
               /\ d = NoPeer => table' = U
               /\ d # NoPeer => DialDue(U, d) /\ table' = Dialled(U, d)
  BY <1>1, <1>2, HousekeepTable
<1>4. Places(U, chan)
  <2>1. Known(U) = Known(table)
    BY <1>3 DEF Alike, Known
  <2>2. ASSUME NEW p \in Peers PROVE Paired(U[p], chan[p])
    <3>1. Paired(table[p], chan[p]) /\ (p \in Wanting(table) => table[p].known)
      BY DEF PlacesInv, Places, Wanting
    <3>2. QED
      BY <1>3, <3>1 DEF Alike, Paired
  <2>3. QED
    BY <2>1, <2>2 DEF PlacesInv, Places
<1>5. CASE d = NoPeer
  BY <1>2, <1>3, <1>4, <1>5 DEF Housekeep, PlacesInv
<1>6. CASE d # NoPeer
  <2>1. /\ d \in Peers /\ U \in Tables /\ Paired(U[d], chan[d])
        /\ U[d].backend /\ chan' = [chan EXCEPT ![d]["out"] = "opening"]
    BY <1>2, <1>3, <1>4, <1>6 DEF Alike, Places, DialDue, Housekeep
  <2>2. \A p \in Peers : p # d => chan'[p] = chan[p]
    BY <2>1, ChannelMoves DEF Directions, States
  <2>3. U[d].known /\ (U[d].slot = "none" => Room(Listed(U)))
    BY <1>4, <2>1, PlacesGive DEF Paired
  <2>4. ASSUME NEW W \in Tables, W = Dialled(U, d) PROVE Places(W, chan')
    <3>1. /\ OnlyAt(U, W, d) /\ W[d].backend = U[d].backend
          /\ W[d].known <=> U[d].known \/ Room(Known(U))
          /\ \/ W[d].known /\ W[d].slot = "connecting"
             \/ /\ W[d].slot \in {U[d].slot, "reserved"}
                /\ W[d].known => W[d].slot = "none" /\ ~Room(Listed(U))
      <4>1. U \in Tables /\ d \in Peers
        BY <2>1
      <4>2. LET v == Dialled(U, d)[d]
                r == U[d]
            IN  /\ OnlyAt(U, Dialled(U, d), d)
                /\ v.backend = r.backend
                /\ v.known <=> r.known \/ Room(Known(U))
                /\ \/ v.known /\ v.slot = "connecting"
                   \/ /\ v.slot \in {r.slot, "reserved"}
                      /\ v.known => v.slot = "none" /\ ~Room(Listed(U))
        BY <4>1, DialledRow
      <4>3. QED
        BY <2>4, <4>2
    <3>2. W[d].known /\ W[d].slot # "none"
      BY <2>3, <3>1
    <3>3. Paired(W[d], chan'[d])
      BY <2>1, <3>1, <3>2 DEF Paired
    <3>4. QED
      <4>1. /\ d \in Peers /\ U \in Tables /\ OnlyAt(U, W, d)
            /\ W[d].known => U[d].known \/ Room(Known(U))
        BY <2>1, <2>3, <3>1
      <4>2. QED
        BY <1>4, <2>2, <3>3, <4>1, PlacesKept
  <2>5. Dialled(U, d) \in Tables
    BY <2>1, DialledRow DEF OnlyAt
  <2>6. Places(table', chan')
    BY <1>3, <1>6, <2>4, <2>5
  <2>7. QED
    BY <2>6 DEF PlacesInv
<1>7. QED
  BY <1>5, <1>6

\* No more pairings are restored than a table has rows.
FitInv == FullInv /\ PlacesInv /\ Cardinality(remembered) <= MaxPeers

LEMMA InitFit == Init => FitInv
<1> SUFFICES ASSUME Init PROVE FitInv
  OBVIOUS
<1>1. /\ remembered \subseteq Peers /\ Cardinality(remembered) <= MaxPeers
      /\ table = [p \in Peers |-> IF p \in remembered THEN RestoredRecord ELSE Blank]
      /\ chan = [p \in Peers |-> [d \in Directions |-> "none"]]
  BY DEF Init
<1>2. \A p \in Peers : Paired(table[p], chan[p]) /\ (table[p].known <=> p \in remembered)
  BY <1>1 DEF Paired, RestoredRecord, Blank, Directions
<1>3. Known(table) = remembered
  BY <1>1, <1>2 DEF Known
<1>4. PlacesInv
  BY <1>1, <1>2, <1>3 DEF PlacesInv, Places
<1>5. QED
  BY <1>1, <1>4, InitFull DEF FitInv

LEMMA NextFit ==
  ASSUME Clearable = {}
  PROVE  FitInv /\ [Next]_vars => FitInv'
<1> SUFFICES ASSUME FitInv, [Next]_vars PROVE FitInv'
  OBVIOUS
<1>1. BackendType /\ PlacesInv
  BY DEF FitInv, FullInv, IInv
<1>2. remembered' = remembered
  <2>1. ASSUME NEW p \in Peers, Call(p) PROVE remembered' = remembered
    BY <2>1 DEF Call, Connect, Disconnect, SessionTimeout, Clear, Queue
  <2>2. ASSUME NEW h \in Headsets, Event(h) PROVE remembered' = remembered
    BY <2>2 DEF Event, InquiryResult, Incoming, SdpService, SdpComplete, Opened,
                OpenFails, ChannelClosed, CanSendNow
  <2>3. CASE Poll
    BY <2>3 DEF Poll, Housekeep
  <2>4. QED
    BY <2>1, <2>2, <2>3 DEF Next, InquiryComplete, vars, firmware
<1>3. PlacesInv'
  <2>1. CASE \E h \in Headsets : Event(h)
    BY <1>1, <2>1, EventPlaces, PeersAssumption
  <2>2. CASE InquiryComplete \/ UNCHANGED vars
    BY <1>1, <2>2 DEF InquiryComplete, vars, firmware, PlacesInv
  <2>3. QED
    BY <1>1, <2>1, <2>2, CallPlaces, PollPlaces DEF Next
<1>4. QED
  BY <1>2, <1>3, NextFull DEF FitInv

\* Unless a row is erased, the two tables of peers fill up together.
THEOREM FitInvariance == ASSUME Clearable = {} PROVE Spec => []FitInv
BY InitFit, NextFit, PTL DEF Spec

\* Every row of either table has its other half, and its peer is on the list
\* or has room there: a dial or a channel never lacks a place.
THEOREM RowsFindPlaces == ASSUME Clearable = {} PROVE Spec => []RowsHavePlaces
<1>1. FitInv => RowsHavePlaces
  <2> SUFFICES ASSUME FitInv, NEW p \in Peers, table[p].known \/ table[p].backend
               PROVE  /\ table[p].known /\ table[p].backend
                      /\ p \in Listed(table) \/ Room(Listed(table))
    BY DEF RowsHavePlaces, Room
  <2>1. Paired(table[p], chan[p]) /\ table \in Tables /\ Places(table, chan)
    BY DEF FitInv, FullInv, IInv, BackendType, PlacesInv, Places
  <2>2. table[p].known /\ table[p].backend
    BY <2>1 DEF Paired
  <2>3. table[p].slot = "none" => Room(Listed(table))
    BY <2>1, <2>2, PlacesGive
  <2>4. QED
    BY <2>2, <2>3 DEF Listed
<1>2. QED
  BY <1>1, FitInvariance, PTL

-----------------------------------------------------------------------------
(***************************************************************************)
(* Blocks.  A peer forgets that it was cut when it is asked for or calls,  *)
(* and each time its block must go with it.  A step that finds no row or   *)
(* no place for the peer would leave the block.                            *)
(***************************************************************************)
LEMMA CauseAt ==
  ASSUME BlockedForCause, NEW p \in Peers, OnlyAt(table, table', p),
         \A q \in Peers : q # p /\ q \in cut => q \in cut',
         table'[p].blocked => p \in cut' \/ table'[p].tries = SdpMaxAttempts
  PROVE  BlockedForCause'
BY DEF BlockedForCause, OnlyAt

LEMMA CallCause ==
  ASSUME Clearable = {}, FitInv, BlockedForCause, NEW p \in Peers, Call(p)
  PROVE  BlockedForCause'
<1>1. table \in Tables
  BY DEF FitInv, FullInv, IInv, BackendType
<1>2. table[p].blocked => p \in cut \/ table[p].tries = SdpMaxAttempts
  BY DEF BlockedForCause
<1>3. CASE Connect(p)
  <2>1. /\ OnlyAt(table, table', p)
        /\ \/ cut' = cut /\ Grown(table[p], table'[p])
           \/ cut' = cut \ {p} /\ ~table'[p].blocked
    BY <1>1, <1>3, ConnectRow
  <2>2. QED
    BY <1>2, <2>1, CauseAt DEF Grown, SameLink
<1>4. CASE Disconnect(p)
  <2>1. table' = HungUp(table, p) /\ cut' = cut \cup {p}
    BY <1>4 DEF Disconnect
  <2>2. QED
    BY <1>1, <2>1, HungUpRow, CauseAt
<1>5. CASE SessionTimeout(p)
  <2>1. OnlyAt(table, table', p) /\ ~table'[p].blocked /\ cut' = cut
    BY <1>1, <1>5, SessionTimeoutRow DEF SessionTimeout
  <2>2. QED
    BY <2>1, CauseAt
<1>6. CASE Queue(p)
  BY <1>6 DEF Queue, BlockedForCause
<1>7. QED
  BY <1>3, <1>4, <1>5, <1>6 DEF Call, Clear

LEMMA EventCause ==
  ASSUME FitInv, BlockedForCause, NEW h \in Peers, Event(h)
  PROVE  BlockedForCause'
<1>1. /\ table \in Tables /\ Paired(table[h], chan[h])
      /\ Backends(table) = Known(table)
      /\ table[h].slot = "none" /\ (table[h].known \/ Room(Known(table)))
           => Room(Listed(table))
  BY PlacesGive DEF FitInv, FullInv, IInv, BackendType, PlacesInv, Places
<1>2. table[h].blocked => h \in cut \/ table[h].tries = SdpMaxAttempts
  BY DEF BlockedForCause
<1>3. CASE InquiryResult(h) \/ SdpService(h) \/ SdpComplete(h)
  <2>1. UNCHANGED cut
    BY <1>3 DEF InquiryResult, SdpService, SdpComplete
  <2>2. /\ OnlyAt(table, table', h)
        /\ \/ Grown(table[h], table'[h])
           \/ /\ table'[h].blocked = table[h].known
              /\ ~(table[h].known /\ table[h].tries < SdpMaxAttempts)
              /\ table'[h].tries = table[h].tries
    BY <1>1, <1>3, InquiryRow, SdpServiceRow, SdpCompleteRow
  <2>3. table[h].tries \in 0 .. SdpMaxAttempts /\ SdpMaxAttempts \in Nat
    BY <1>1, RowOf, RowType, BoundsAssumption
  <2>4. ASSUME table'[h].blocked
        PROVE  h \in cut \/ table'[h].tries = SdpMaxAttempts
    <3>1. CASE Grown(table[h], table'[h])
      BY <1>2, <2>4, <3>1 DEF Grown, SameLink
    <3>2. CASE /\ table'[h].blocked = table[h].known
               /\ ~(table[h].known /\ table[h].tries < SdpMaxAttempts)
               /\ table'[h].tries = table[h].tries
      <4>1. ~(table[h].tries < SdpMaxAttempts)
        BY <2>4, <3>2
      <4>2. QED
        BY <2>3, <3>2, <4>1
    <3>3. QED
      BY <2>2, <3>1, <3>2
  <2>5. QED
    BY <2>1, <2>2, <2>4, CauseAt
<1>4. CASE Incoming(h)
  <2>1. cut' = cut \ {h}
    BY <1>4 DEF Incoming
  <2>2. /\ OnlyAt(table, table', h)
        /\ table[h].backend \/ Room(Backends(table))
        /\ table'[h].known <=> table[h].known \/ Room(Known(table))
        /\ \/ table'[h].known /\ table'[h].slot = "connecting" /\ ~table'[h].blocked
           \/ /\ table'[h].slot \in {table[h].slot, "reserved"}
              /\ table'[h].known => table'[h].slot = "none" /\ ~Room(Listed(table))
    BY <1>1, <1>4, IncomingRow
  <2>3. ~table'[h].blocked
    BY <1>1, <2>2 DEF Paired
  <2>4. QED
    BY <2>1, <2>2, <2>3, CauseAt
<1>5. ASSUME NEW d \in Directions, Opened(h, d) PROVE BlockedForCause'
  <2>1. chan[h][d] = "opening" /\ \A q \in Peers : q # h /\ q \in cut => q \in cut'
    BY <1>5 DEF Opened
  <2>2. table[h].known /\ table[h].backend
    BY <1>1, <2>1 DEF Paired, Directions
  <2>3. /\ OnlyAt(table, table', h)
        /\ \/ Grown(table[h], table'[h]) /\ ~table'[h].backend
           \/ ~table[h].known
           \/ ~table'[h].blocked
    BY <1>1, <1>5, OpenedRow
  <2>4. ~table'[h].blocked
    BY <2>2, <2>3 DEF Grown
  <2>5. QED
    BY <2>1, <2>3, <2>4, CauseAt
<1>6. ASSUME NEW d \in Directions,
             OpenFails(h, d) \/ ChannelClosed(h, d) \/ CanSendNow(h, d)
      PROVE  BlockedForCause'
  <2>1. UNCHANGED cut
    BY <1>6 DEF OpenFails, ChannelClosed, CanSendNow
  <2>2. /\ OnlyAt(table, table', h)
        /\ table'[h].blocked = table[h].blocked /\ table'[h].tries = table[h].tries
    <3>1. CASE OpenFails(h, d)
      BY <1>1, <3>1, OpenFailsRow
    <3>2. CASE ChannelClosed(h, d)
      BY <1>1, <3>2, ChannelClosedRow, OnlyAtSelf
    <3>3. CASE CanSendNow(h, d)
      BY <1>1, <3>3, CanSendRow, OnlyAtSelf
    <3>4. QED
      BY <1>6, <3>1, <3>2, <3>3
  <2>3. QED
    BY <1>2, <2>1, <2>2, CauseAt
<1>7. QED
  BY <1>3, <1>4, <1>5, <1>6 DEF Event

LEMMA PollCause ==
  ASSUME FitInv, BlockedForCause, Poll
  PROVE  BlockedForCause'
<1>1. table \in Tables
  BY DEF FitInv, FullInv, IInv, BackendType
<1>2. PICK q \in Peers \cup {NoPeer}, d \in Peers \cup {NoPeer} : Housekeep(q, d)
  BY DEF Poll
<1>3. PICK U : /\ Alike(table, U)
               /\ d = NoPeer => table' = U
               /\ d # NoPeer => DialDue(U, d) /\ table' = Dialled(U, d)
  BY <1>1, <1>2, HousekeepTable
<1>4. UNCHANGED cut
  BY <1>2 DEF Housekeep
<1>5. \A p \in Peers : U[p].blocked => p \in cut \/ U[p].tries = SdpMaxAttempts
  BY <1>3 DEF Alike, BlockedForCause
<1>6. CASE d = NoPeer
  BY <1>3, <1>4, <1>5, <1>6 DEF BlockedForCause
<1>7. CASE d # NoPeer
  <2>1. d \in Peers /\ U \in Tables
    BY <1>3, <1>7 DEF Alike
  <2>2. /\ OnlyAt(U, table', d) /\ table'[d].tries = U[d].tries
        /\ table'[d].blocked => U[d].blocked
    BY <1>3, <1>7, <2>1, DialledRow
  <2>3. QED
    BY <1>4, <1>5, <2>1, <2>2 DEF BlockedForCause, OnlyAt
<1>8. QED
  BY <1>6, <1>7

LEMMA NextCause ==
  ASSUME Clearable = {}
  PROVE  FitInv /\ BlockedForCause /\ [Next]_vars => BlockedForCause'
<1> SUFFICES ASSUME FitInv, BlockedForCause, [Next]_vars PROVE BlockedForCause'
  OBVIOUS
<1>1. CASE \E p \in Peers : Call(p)
  BY <1>1, CallCause
<1>2. CASE \E h \in Headsets : Event(h)
  BY <1>2, EventCause, PeersAssumption
<1>3. CASE InquiryComplete \/ UNCHANGED vars
  BY <1>3 DEF InquiryComplete, vars, firmware, BlockedForCause
<1>4. QED
  BY <1>1, <1>2, <1>3, PollCause DEF Next

LEMMA InitCause == Init => BlockedForCause
<1> SUFFICES ASSUME Init, NEW p \in Peers PROVE ~table[p].blocked
  BY DEF BlockedForCause
<1>1. table[p] = IF p \in remembered THEN RestoredRecord ELSE Blank
  BY DEF Init
<1>2. ~RestoredRecord.blocked /\ ~Blank.blocked
  BY DEF RestoredRecord, Blank
<1>3. QED
  BY <1>1, <1>2

\* A reconnect is blocked by a disconnect that was asked for or after the last
\* SDP attempt, by nothing else, while headsets only answer or no row is erased.
\* With both, an erased peer's slot may be the place a caller lacks.
THEOREM BlocksHaveCause ==
  ASSUME DialIn = {} \/ Clearable = {}
  PROVE  Spec => []BlockedForCause
<1>1. CASE DialIn = {}
  <2>1. IInv => BlockedForCause
    BY <1>1 DEF IInv, PeerInv, RowInv, OnlyDialled, BlockedForCause
  <2>2. QED
    BY <2>1, Invariance, PTL
<1>2. CASE Clearable = {}
  <2>1. FitInv /\ BlockedForCause /\ [Next]_vars => BlockedForCause'
    BY <1>2, NextCause
  <2>2. Spec => []FitInv
    BY <1>2, FitInvariance
  <2>3. QED
    BY <2>1, <2>2, InitCause, PTL DEF Spec
<1>3. QED
  BY <1>1, <1>2

-----------------------------------------------------------------------------
(***************************************************************************)
(* The contract with the session layer, while headsets only answer, rows   *)
(* are not erased, and an aborted dial ends as a closed channel: each call *)
(* is one of Transport about the same peer, and events and housekeeping    *)
(* are its polls, or change nothing that Transport knows of.               *)
(***************************************************************************)

\* The queue as Transport sees it: what each packet touches.
Seen(q) == [i \in DOMAIN q |-> {q[i]}]

LEMMA SameSize ==
  /\ \A S : Contract!Cardinality(S) = Cardinality(S)
  /\ \A q, K : Contract!Kept(q, K) = Kept(q, K)
BY DEF Contract!Kept, Kept, Contract!Place, Place, Contract!Cardinality, Cardinality

\* Dropping packets looks the same from above.
LEMMA SeenKept ==
  ASSUME NEW q \in Seq(Peers), NEW K \in SUBSET DOMAIN q
  PROVE  Seen(Kept(q, K)) = Contract!Kept(Seen(q), K)
<1>1. /\ DOMAIN Kept(q, K) = 1 .. Cardinality(K)
      /\ \A k \in 1 .. Cardinality(K) :
           Place(K, k) \in DOMAIN q /\ Kept(q, K)[k] = q[Place(K, k)]
  BY KeptQueue
<1>2. Contract!Kept(Seen(q), K)
        = [k \in 1 .. Cardinality(K) |-> Seen(q)[Place(K, k)]]
  BY SameSize DEF Kept
<1>3. \A k \in 1 .. Cardinality(K) : Seen(q)[Place(K, k)] = {Kept(q, K)[k]}
  BY <1>1 DEF Seen
<1>4. QED
  BY <1>1, <1>2, <1>3 DEF Seen

LEMMA SeenWithout ==
  ASSUME NEW p \in Peers, QueueInv, outq' = Without(outq, p)
  PROVE  Seen(outq') = Contract!Without(p)
<1> DEFINE K == {i \in DOMAIN outq : outq[i] # p}
<1>1. Seen(outq') = Contract!Kept(Seen(outq), K)
  BY SeenKept DEF QueueInv, Without
<1>2. K = {i \in DOMAIN Seen(outq) : p \notin Seen(outq)[i]}
  BY DEF Seen
<1>3. Contract!Without(p)
        = Contract!Kept(Seen(outq),
                        {i \in DOMAIN Seen(outq) : p \notin Seen(outq)[i]})
  BY DEF Contract!Without, Seen
<1>4. QED
  BY <1>1, <1>2, <1>3

\* Only p may join or leave the list.
LEMMA ListChange ==
  ASSUME NEW p \in Peers, OnlyAt(table, table', p)
  PROVE  /\ table'[p].slot # "none" => Listed(table') = Listed(table) \cup {p}
         /\ table'[p].slot = "none" => Listed(table') = Listed(table) \ {p}
         /\ (table'[p].slot = "none" <=> table[p].slot = "none")
              => Listed(table') = Listed(table)
BY DEF OnlyAt, Listed

LEMMA ListFits == FitInv => Cardinality(Listed(table)) <= MaxPeers
BY PlacesGive DEF FitInv, FullInv, IInv, BackendType, PlacesInv

LEMMA StepFits ==
  ASSUME FitInv'
  PROVE  /\ Contract!Fits
         /\ Cardinality(Listed(table')) <= MaxPeers
<1>1. (FitInv => Cardinality(Listed(table)) <= MaxPeers)'
  BY ListFits, PTL
<1>2. Cardinality(Listed(table')) <= MaxPeers /\ Cardinality(remembered') <= MaxPeers
  BY <1>1 DEF FitInv, Listed
<1>3. QED
  BY <1>2, SameSize DEF Contract!Fits, Listed

LEMMA NothingSeen ==
  ASSUME Listed(table') = Listed(table), UNCHANGED <<outq, remembered, cut>>
  PROVE  UNCHANGED Contract!vars
BY DEF Contract!vars, Listed

\* A step in which nobody joins who was cut, and packets leave.
LEMMA PollOf ==
  ASSUME FitInv, FitInv', NEW K \in SUBSET DOMAIN outq, outq' = Kept(outq, K),
         (Listed(table') \ Listed(table)) \cap cut = {},
         cut' = cut, remembered' = remembered
  PROVE  Contract!Poll
<1>1. outq \in Seq(Peers) /\ Contract!Fits
  BY StepFits DEF FitInv, FullInv, QueueInv
<1>2. \A i \in DOMAIN outq' : outq'[i] \in Listed(table')
  BY DEF FitInv, FullInv, QueueInv, QueuedForListed, Listed
<1>3. Seen(outq') = Contract!Kept(Seen(outq), K) /\ DOMAIN Seen(outq) = DOMAIN outq
  BY <1>1, SeenKept DEF Seen
<1>4. \A i \in DOMAIN Seen(outq') : Seen(outq')[i] \cap Listed(table') # {}
  BY <1>2 DEF Seen
<1>5. Listed(table') \in SUBSET Peers
  BY DEF Listed
<1>6. QED
  BY <1>1, <1>3, <1>4, <1>5 DEF Contract!Poll, Seen, Listed

LEMMA WholeQueue ==
  ASSUME FitInv
  PROVE  DOMAIN outq \in SUBSET DOMAIN outq /\ Kept(outq, DOMAIN outq) = outq
BY KeptWhole DEF FitInv, FullInv, QueueInv

LEMMA CallRefines ==
  ASSUME DialIn = {}, Clearable = {}, FitInv, FitInv', NEW p \in Peers, Call(p)
  PROVE  [Contract!Next]_Contract!vars
<1>1. /\ table \in Tables /\ QueueInv /\ Paired(table[p], chan[p]) /\ Contract!Fits
  BY StepFits DEF FitInv, FullInv, IInv, BackendType, PlacesInv, Places
<1>2. CASE Connect(p)
  <2>1. /\ OnlyAt(table, table', p)
        /\ table[p].slot # "none" => table'[p].slot # "none"
        /\ table'[p].slot # table[p].slot => cut' = cut \ {p}
        /\ cut' \in {cut, cut \ {p}}
    BY <1>1, <1>2, ConnectRow DEF Grown, SameLink
  <2>2. UNCHANGED <<outq, remembered>>
    BY <1>2 DEF Connect
  <2>3. /\ Listed(table') \in {Listed(table), Listed(table) \cup {p}}
        /\ p \in Listed(table') \ Listed(table) => p \notin cut'
    BY <2>1, ListChange DEF Listed
  <2>4. Contract!AskFor(p)
    BY <1>1, <2>1, <2>2, <2>3 DEF Contract!AskFor, Listed
  <2>5. QED
    BY <2>4 DEF Contract!Next
<1>3. ASSUME HangUpPeer(p), OnlyAt(table, table', p), table[p].backend,
             table'[p].slot = HungUp(table, p)[p].slot
      PROVE  /\ \/ Listed(table') = Listed(table) /\ UNCHANGED outq
                \/ /\ Listed(table') = Listed(table) \ {p}
                   /\ outq' = Without(outq, p)
             /\ HasCid(table, p) => Listed(table') = Listed(table) /\ UNCHANGED outq
  <2>1. /\ HungUp(table, p)[p].slot = "disconnecting" => HasCid(table, p)
        /\ HungUp(table, p)[p].slot = "none" /\ HasCid(table, p)
             => table[p].slot = "none"
        /\ HungUp(table, p)[p].slot \in {"none", "disconnecting"}
    BY <1>1, <1>3, HungUpRow
  <2>2. CASE HasCid(table, p)
    <3>1. table[p].slot # "none" /\ table'[p].slot # "none"
      BY <1>1, <1>3, <2>1, <2>2 DEF Paired, HasCid
    <3>2. UNCHANGED outq
      BY <1>3, <2>2 DEF HangUpPeer
    <3>3. QED
      BY <1>3, <3>1, <3>2, ListChange
  <2>3. CASE ~HasCid(table, p)
    <3>1. table'[p].slot = "none"
      BY <1>3, <2>1, <2>3
    <3>2. outq' = Without(outq, p)
      BY <1>3, <2>3 DEF HangUpPeer
    <3>3. QED
      BY <1>3, <2>3, <3>1, <3>2, ListChange
  <2>4. QED
    BY <2>2, <2>3
<1>4. CASE Disconnect(p)
  <2>1. /\ table' = HungUp(table, p) /\ HangUpPeer(p) /\ table[p].backend
        /\ cut' = cut \cup {p} /\ UNCHANGED remembered
    BY <1>4 DEF Disconnect
  <2>2. \/ Listed(table') = Listed(table) /\ UNCHANGED outq
        \/ Listed(table') = Listed(table) \ {p} /\ outq' = Without(outq, p)
    BY <1>1, <1>3, <2>1, HungUpRow
  <2>3. Contract!Leaves(p)
    BY <1>1, <2>2, SeenWithout DEF Contract!Leaves, Seen, Listed
  <2>4. Contract!Disconnect(p)
    BY <2>1, <2>3 DEF Contract!Disconnect
  <2>5. QED
    BY <2>4 DEF Contract!Next
<1>5. CASE SessionTimeout(p)
  <2>1. HangUpPeer(p) /\ HasCid(table, p) /\ UNCHANGED <<remembered, cut>>
    BY <1>5 DEF SessionTimeout, Linked
  <2>2. Listed(table') = Listed(table) /\ UNCHANGED outq
    BY <1>1, <1>3, <1>5, <2>1, SessionTimeoutRow DEF HasCid
  <2>3. QED
    BY <2>1, <2>2, NothingSeen
<1>6. CASE Clear(p)
  BY <1>6 DEF Clear
<1>7. CASE Queue(p)
  <2> DEFINE ends == {p}
  <2>1. /\ outq \in Seq(Peers) /\ Len(outq) \in Nat /\ DOMAIN outq = 1 .. Len(outq)
    BY <1>1, LenProperties DEF QueueInv
  <2>2. /\ outq' = Append(outq, p) /\ Len(outq) < QueueDepth
        /\ ends \cap Listed(table) # {} /\ Listed(table') = Listed(table)
        /\ UNCHANGED <<remembered, cut, table>>
    BY <1>7 DEF Queue
  <2>3. Seen(outq) \in Seq(SUBSET Peers) /\ Len(Seen(outq)) = Len(outq)
    BY <2>1 DEF Seen
  <2>4. Seen(outq') = Append(Seen(outq), ends)
    <3>1. /\ Len(outq') = Len(outq) + 1 /\ outq' \in Seq(Peers)
          /\ \A i \in 1 .. Len(outq) : outq'[i] = outq[i]
          /\ outq'[Len(outq) + 1] = p
      BY <2>1, <2>2, AppendProperties
    <3>2. DOMAIN outq' = 1 .. Len(outq) + 1
      BY <3>1, LenProperties
    <3>3. /\ Seen(outq') \in Seq(SUBSET Peers)
          /\ Len(Seen(outq')) = Len(outq) + 1
      BY <2>1, <3>1, <3>2 DEF Seen
    <3>4. ends \in SUBSET Peers
      OBVIOUS
    <3> HIDE DEF ends
    <3>5. /\ Append(Seen(outq), ends) \in Seq(SUBSET Peers)
          /\ Len(Append(Seen(outq), ends)) = Len(outq) + 1
          /\ \A i \in 1 .. Len(outq) : Append(Seen(outq), ends)[i] = Seen(outq)[i]
          /\ Append(Seen(outq), ends)[Len(outq) + 1] = ends
      BY <2>3, <3>4, AppendProperties
    <3>6. \A i \in 1 .. Len(outq) : Seen(outq')[i] = Seen(outq)[i]
      BY <2>1, <3>1, <3>2 DEF Seen
    <3>7. Seen(outq')[Len(outq) + 1] = ends
      BY <2>1, <3>1, <3>2 DEF Seen, ends
    <3>8. \A i \in 1 .. Len(outq) + 1 : i \in 1 .. Len(outq) \/ i = Len(outq) + 1
      BY <2>1
    <3>9. \A i \in 1 .. Len(outq) + 1 :
            Seen(outq')[i] = Append(Seen(outq), ends)[i]
      BY <3>5, <3>6, <3>7, <3>8
    <3>10. QED
      BY <3>3, <3>5, <3>9, SeqEqual
  <2>5. ends \in SUBSET Peers
    OBVIOUS
  <2> HIDE DEF ends
  <2>6. Contract!Queue(ends)
    BY <2>2, <2>3, <2>4 DEF Contract!Queue, Seen, Listed
  <2>7. QED
    BY <2>5, <2>6 DEF Contract!Next
<1>8. QED
  BY <1>2, <1>4, <1>5, <1>6, <1>7 DEF Call

LEMMA EventRefines ==
  ASSUME DialIn = {}, Clearable = {}, FitInv, FitInv', NEW h \in Headsets, Event(h)
  PROVE  [Contract!Next]_Contract!vars
<1>1. /\ h \in Peers /\ table \in Tables /\ Paired(table[h], chan[h])
      /\ RowInv(h, table[h], chan[h], dialling)
  BY PeersAssumption
     DEF FitInv, FullInv, IInv, PeerInv, BackendType, PlacesInv, Places
<1>2. CASE InquiryResult(h) \/ SdpService(h) \/ SdpComplete(h)
  <2>1. OnlyAt(table, table', h) /\ table'[h].slot = table[h].slot
    <3>1. CASE InquiryResult(h)
      BY <1>1, <3>1, InquiryRow DEF Grown, SameLink
    <3>2. CASE SdpService(h)
      BY <1>1, <3>2, SdpServiceRow DEF Grown, SameLink
    <3>3. CASE SdpComplete(h)
      BY <1>1, <3>3, SdpCompleteRow
    <3>4. QED
      BY <1>2, <3>1, <3>2, <3>3
  <2>2. Listed(table') = Listed(table)
    BY <1>1, <2>1, ListChange
  <2>3. UNCHANGED <<outq, remembered, cut>>
    BY <1>2 DEF InquiryResult, SdpService, SdpComplete
  <2>4. QED
    BY <2>2, <2>3, NothingSeen
<1>3. CASE Incoming(h)
  BY <1>3 DEF Incoming
<1>4. ASSUME NEW d \in Directions, Opened(h, d)
      PROVE  [Contract!Next]_Contract!vars
  <2>1. chan[h][d] = "opening" /\ UNCHANGED <<outq, remembered>>
        /\ (d = "out" => cut' = cut)
    BY <1>4 DEF Opened
  <2>2. d = "out"
    BY <1>1, <1>4, <2>1 DEF Directions, RowInv, OnlyDialled
  <2>3. table[h].known /\ table[h].backend /\ table[h].slot # "none"
    BY <1>1, <2>1, <2>2 DEF RowInv, StaysCut, Paired
  <2>4. OnlyAt(table, table', h) /\ table'[h].slot # "none"
    BY <1>1, <1>4, <2>3, OpenedRow DEF Grown, SameLink
  <2>5. Listed(table') = Listed(table)
    BY <1>1, <2>3, <2>4, ListChange
  <2>6. QED
    BY <2>1, <2>2, <2>5, NothingSeen
<1>5. ASSUME NEW d \in Directions, OpenFails(h, d) \/ ChannelClosed(h, d)
      PROVE  [Contract!Next]_Contract!vars
  <2>1. \/ /\ OnlyAt(table, table', h) /\ table'[h].slot = "none"
           /\ outq' = Without(outq, h)
        \/ OnlyAt(table, table', h) /\ table'[h].slot = table[h].slot
           /\ UNCHANGED outq
    <3>1. CASE OpenFails(h, d)
      BY <1>1, <3>1, OpenFailsRow DEF Grown, SameLink
    <3>2. CASE ChannelClosed(h, d)
      BY <1>1, <3>2, ChannelClosedRow, OnlyAtSelf
    <3>3. QED
      BY <1>5, <3>1, <3>2
  <2>2. Listed(table') \subseteq Listed(table)
    BY <1>1, <2>1, ListChange
  <2>3. UNCHANGED <<remembered, cut>>
    BY <1>5 DEF OpenFails, ChannelClosed
  <2>4. PICK K \in SUBSET DOMAIN outq : outq' = Kept(outq, K)
    BY <2>1, WholeQueue DEF Without
  <2>5. Contract!Poll
    BY <2>2, <2>3, <2>4, PollOf
  <2>6. QED
    BY <2>5 DEF Contract!Next
<1>6. ASSUME NEW d \in Directions, CanSendNow(h, d)
      PROVE  [Contract!Next]_Contract!vars
  <2>1. PICK K \in SUBSET DOMAIN outq : outq' = Kept(outq, K)
    BY <1>6, CanSendKeeps
  <2>2. Listed(table') = Listed(table)
    <3>1. CASE UNCHANGED table
      BY <3>1
    <3>2. CASE /\ OnlyAt(table, table', h) /\ HasCid(table, h)
               /\ table'[h].slot = "disconnecting" \/
                    (table'[h].slot = "none" /\ table[h].slot = "none")
      <4>1. table[h].slot # "none"
        BY <1>1, <3>2 DEF HasCid, Paired
      <4>2. QED
        BY <1>1, <3>2, <4>1, ListChange
    <3>3. QED
      BY <1>1, <1>6, <3>1, <3>2, CanSendRow
  <2>3. UNCHANGED <<remembered, cut>>
    BY <1>6 DEF CanSendNow
  <2>4. Contract!Poll
    BY <2>1, <2>2, <2>3, PollOf
  <2>5. QED
    BY <2>4 DEF Contract!Next
<1>7. QED
  BY <1>2, <1>3, <1>4, <1>5, <1>6 DEF Event

\* Who is reconnected, and who is dialled, was not cut.
LEMMA PollRefines ==
  ASSUME DialIn = {}, Clearable = {}, AbortReports = {"closed"},
         FitInv, FitInv', Poll
  PROVE  Contract!Poll
<1>1. IInv /\ table \in Tables
  BY DEF FitInv, FullInv, IInv, BackendType
<1>2. PICK q \in Peers \cup {NoPeer}, d \in Peers \cup {NoPeer} : Housekeep(q, d)
  BY DEF Poll
<1>3. PICK U : /\ Alike(table, U)
               /\ d = NoPeer => table' = U
               /\ d # NoPeer => DialDue(U, d) /\ table' = Dialled(U, d)
  BY <1>1, <1>2, HousekeepTable
<1>4. d # NoPeer => d \notin cut
  BY <1>1, <1>2, HousekeepInvariant
<1>5. ASSUME NEW p \in Peers, p \in Wanting(table) PROVE p \notin cut
  <2>1. ~table[p].blocked /\ (table[p].pending \/ p \in remembered)
    BY <1>5 DEF Wanting
  <2>2. QED
    BY <1>1, <2>1 DEF IInv, PeerInv, RowInv, StaysCut
<1>6. ASSUME NEW p \in Peers, table[p].slot = "none", table'[p].slot # "none"
      PROVE  p \notin cut
  <2>1. CASE d = NoPeer
    BY <1>3, <1>5, <1>6, <2>1 DEF Alike
  <2>2. CASE d # NoPeer
    <3>1. CASE p = d
      BY <1>4, <2>2, <3>1
    <3>2. CASE p # d
      <4>1. d \in Peers /\ U \in Tables
        BY <1>3, <2>2 DEF Alike
      <4>2. OnlyAt(U, table', d)
        BY <1>3, <2>2, <4>1, DialledRow
      <4>3. table'[p] = U[p]
        BY <1>6, <3>2, <4>2 DEF OnlyAt
      <4>4. QED
        BY <1>3, <1>5, <1>6, <4>3 DEF Alike
    <3>3. QED
      BY <3>1, <3>2
  <2>3. QED
    BY <2>1, <2>2
<1>7. (Listed(table') \ Listed(table)) \cap cut = {}
  BY <1>6 DEF Listed
<1>8. outq' = Kept(outq, DOMAIN outq) /\ cut' = cut /\ remembered' = remembered
  BY <1>2, WholeQueue DEF Housekeep
<1>9. QED
  BY <1>7, <1>8, WholeQueue, PollOf

LEMMA InitRefines == Init => Contract!Init
<1> SUFFICES ASSUME Init PROVE Contract!Init
  OBVIOUS
<1>1. /\ outq = <<>> /\ cut = {} /\ remembered \in SUBSET Peers
      /\ Cardinality(remembered) <= MaxPeers
      /\ table = [p \in Peers |-> IF p \in remembered THEN RestoredRecord ELSE Blank]
  BY DEF Init
<1>2. Listed(table) = {}
  BY <1>1 DEF Listed, RestoredRecord, Blank
<1>3. Seen(outq) = <<>>
  BY <1>1 DEF Seen
<1>4. QED
  BY <1>1, <1>2, <1>3, SameSize DEF Contract!Init, Seen

LEMMA NextRefines ==
  ASSUME DialIn = {}, Clearable = {}, AbortReports = {"closed"}
  PROVE  FitInv /\ FitInv' /\ [Next]_vars => [Contract!Next]_Contract!vars
<1> SUFFICES ASSUME FitInv, FitInv', [Next]_vars
             PROVE  [Contract!Next]_Contract!vars
  OBVIOUS
<1>1. CASE InquiryComplete \/ UNCHANGED vars
  BY <1>1 DEF InquiryComplete, vars, firmware, Contract!vars
<1>2. CASE Poll
  BY <1>2, PollRefines DEF Contract!Next
<1>3. QED
  BY <1>1, <1>2, CallRefines, EventRefines DEF Next

\* The headset backend keeps the contract the session layer relies on, for any
\* number of headsets, table size and queue depth: a peer leaves the list only
\* with its packets, when it is disconnected or its channel has ended, and no
\* reconnect or dial lists a peer that was cut.
THEOREM KeepsContract ==
  ASSUME DialIn = {}, Clearable = {}, AbortReports = {"closed"}
  PROVE  Spec => ImplementsTransport
<1>1. Spec => []FitInv
  BY FitInvariance
<1>2. FitInv /\ FitInv' /\ [Next]_vars => [Contract!Next]_Contract!vars
  BY NextRefines
<1>3. QED
  BY InitRefines, <1>1, <1>2, PTL DEF Spec, ImplementsTransport, Contract!Spec

LEMMA NobodyCutIsListed ==
  ASSUME [Contract!Next]_Contract!vars, NEW p \in Peers, GetsListed(p)
  PROVE  p \notin cut'
<1>1. p \in Listed(table') \ Listed(table)
  BY DEF GetsListed
<1>2. CASE \E o \in Peers : \/ Contract!AskFor(o) \/ Contract!Disconnect(o)
                             \/ Contract!Forget(o) \/ Contract!CallIn(o)
  BY <1>1, <1>2 DEF Contract!AskFor, Contract!Disconnect, Contract!Forget,
                    Contract!Leaves, Contract!CallIn
<1>3. CASE Contract!Poll
  BY <1>1, <1>3 DEF Contract!Poll
<1>4. CASE \E ends \in SUBSET Peers : Contract!Queue(ends)
  BY <1>1, <1>4 DEF Contract!Queue
<1>5. CASE UNCHANGED Contract!vars
  BY <1>1, <1>5 DEF Contract!vars
<1>6. QED
  BY <1>2, <1>3, <1>4, <1>5 DEF Contract!Next

\* While headsets only answer, rows are not erased, and BTstack ends an aborted
\* dial as a closed channel: a peer that was disconnected is neither dialled nor
\* listed again until it is asked for.
THEOREM DisconnectsStick ==
  ASSUME DialIn = {}, Clearable = {}, AbortReports = {"closed"}
  PROVE  Spec => DisconnectSticks
<1> DEFINE Sticks ==
      \A p \in Peers : StartsDial(p) \/ GetsListed(p) => p \notin cut'
<1>1. ASSUME FitInv, FitInv', [Next]_vars PROVE Sticks
  <2>1. ASSUME NEW p \in Peers, StartsDial(p) PROVE p \notin cut'
    <3>1. IInv /\ p # NoPeer
      BY <1>1, PeersAssumption DEF FitInv, FullInv
    <3>2. PICK q \in Peers \cup {NoPeer} : Housekeep(q, p)
      BY <1>1, <2>1, <3>1, WhoDials
    <3>3. p \notin cut
      BY <3>1, <3>2, HousekeepInvariant
    <3>4. QED
      BY <3>2, <3>3 DEF Housekeep
  <2>2. ASSUME NEW p \in Peers, GetsListed(p) PROVE p \notin cut'
    BY <1>1, <2>2, NextRefines, NobodyCutIsListed
  <2>3. QED
    BY <2>1, <2>2
<1>2. FitInv /\ FitInv' /\ [Next]_vars => [Sticks]_vars
  BY <1>1
<1> HIDE DEF Sticks
<1>3. Spec => [][Sticks]_vars
  BY <1>2, FitInvariance, PTL DEF Spec
<1>4. QED
  BY <1>3 DEF DisconnectSticks, Sticks

=============================================================================
