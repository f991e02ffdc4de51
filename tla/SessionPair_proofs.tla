------------------------- MODULE SessionPair_proofs -------------------------
(***************************************************************************)
(* Two ends that keep to the firmware's rules never hold two sessions once *)
(* nothing is under way, for any queue, any times and any number of        *)
(* channels lost or replaced behind the back of one of them, as long as    *)
(* only one of the two sends HELLOs of its own.                            *)
(***************************************************************************)
EXTENDS SessionPair, Integers, FiniteSetTheorems, TLAPS

Kinds == {"hello", "hello_ack", "keepalive", "audio", "error"}

Msgs == [type : Kinds, sid : Sessions]

Lines == {q \in Seq(Msgs) : Len(q) <= QueueDepth}

PairType ==
  /\ link \in [Ends -> Rules!Link] /\ wire \in [Ends -> Lines]
  /\ up \in BOOLEAN /\ due \subseteq Ends /\ faults \in 0 .. MaxFaults

(***************************************************************************)
(* The inductive invariant, on the links la and lb of the end that         *)
(* initiates and of the other one, and on the messages qa and qb that are  *)
(* on their way to each.                                                   *)
(***************************************************************************)
IsHello(m) == m.type = "hello"

\* The initiating end is in its session, or will be by a message under way.
Heard(la, qa) == la.active \/ \E i \in DOMAIN qa : qa[i].sid = la.sid

\* The session the other end holds when all that is under way has arrived.
Last(qb, i) == IsHello(qb[i]) /\ \A j \in DOMAIN qb : j > i => ~IsHello(qb[j])

Follows(la, lb, qb) ==
  /\ \A i \in DOMAIN qb : Last(qb, i) => qb[i].sid = la.sid
  /\ (\A i \in DOMAIN qb : ~IsHello(qb[i])) => lb.sid \in {NoSession, la.sid}

\* A session, once asked for, is not followed by a request for another one.
Settled(la, lb, qb) ==
  /\ \A i, j \in DOMAIN qb :
       i < j /\ IsHello(qb[i]) /\ IsHello(qb[j]) /\ qb[i].sid = la.sid
         => qb[j].sid = la.sid
  /\ lb.sid = la.sid =>
       \A i \in DOMAIN qb : IsHello(qb[i]) => qb[i].sid = la.sid

PairInv(la, lb, qa, qb) ==
  /\ la.active => la.sid # NoSession
  /\ lb.active => lb.sid # NoSession
  /\ \A i \in DOMAIN qa : ~IsHello(qa[i])
  /\ la.sid # NoSession =>
       /\ Heard(la, qa) => Follows(la, lb, qb)
       /\ Settled(la, lb, qb)

-----------------------------------------------------------------------------
(***************************************************************************)
(* The two ends and their ids.                                             *)
(***************************************************************************)

LEMMA TwoEnds ==
  ASSUME NEW a \in Ends
  PROVE  /\ Other(a) \in Ends /\ Other(a) # a /\ Ends = {a, Other(a)}
         /\ Other(Other(a)) = a
<1>1. IsFiniteSet(Ends \ {a}) /\ Cardinality(Ends \ {a}) = 1
  BY EndsAssumption, FS_RemoveElement
<1>2. PICK b : Ends \ {a} = {b}
  BY <1>1, FS_Singleton
<1>3. Other(a) = b
  BY <1>2 DEF Other
<1>4. Ends = {a, b} /\ b # a
  BY <1>2
<1>5. Other(b) = a
  BY <1>4 DEF Other
<1>6. QED
  BY <1>3, <1>4, <1>5

LEMMA Bounds ==
  /\ QueueDepth \in Nat /\ QueueDepth >= 1 /\ MaxFaults \in Nat
  /\ NoSession = 0 /\ NoSession \notin Sessions
BY NumbersAssumption DEF NoSession

LEMMA LineType ==
  ASSUME NEW q \in Lines
  PROVE  /\ q \in Seq(Msgs) /\ Len(q) \in Nat /\ DOMAIN q = 1 .. Len(q)
         /\ \A i \in DOMAIN q : q[i] \in Msgs /\ q[i].sid \in Sessions
<1>1. q \in Seq(Msgs)
  BY DEF Lines
<1>2. Len(q) \in Nat /\ DOMAIN q = 1 .. Len(q)
  BY <1>1
<1>3. ASSUME NEW i \in DOMAIN q PROVE q[i] \in Msgs
  BY <1>1, <1>2
<1>4. \A m \in Msgs : m.sid \in Sessions
  BY DEF Msgs
<1>5. QED
  BY <1>1, <1>2, <1>3, <1>4

LEMMA AppendedLine ==
  ASSUME NEW q \in Lines, NEW m \in Msgs, Len(q) < QueueDepth
  PROVE  /\ Append(q, m) \in Lines
         /\ DOMAIN Append(q, m) = (DOMAIN q) \cup {Len(q) + 1}
         /\ Len(q) + 1 \notin DOMAIN q
         /\ \A i \in DOMAIN q : Append(q, m)[i] = q[i] /\ i < Len(q) + 1
         /\ Append(q, m)[Len(q) + 1] = m
<1>1. q \in Seq(Msgs) /\ Len(q) \in Nat /\ DOMAIN q = 1 .. Len(q)
  BY LineType
<1>2. Append(q, m) \in Seq(Msgs) /\ Len(Append(q, m)) = Len(q) + 1
  BY <1>1
<1>3. Len(q) + 1 <= QueueDepth
  BY <1>1, Bounds
<1>4. Append(q, m) \in Lines
  BY <1>2, <1>3 DEF Lines
<1>5. DOMAIN Append(q, m) = 1 .. (Len(q) + 1)
  BY <1>2
<1>6. \A i \in 1 .. Len(q) : Append(q, m)[i] = q[i]
  BY <1>1
<1>7. Append(q, m)[Len(q) + 1] = m
  BY <1>1
<1>8. QED
  BY <1>1, <1>4, <1>5, <1>6, <1>7

LEMMA TailOfLine ==
  ASSUME NEW q \in Lines, q # <<>>
  PROVE  /\ Tail(q) \in Lines /\ Len(q) >= 1 /\ 1 \in DOMAIN q
         /\ Head(q) = q[1] /\ Head(q) \in Msgs /\ Head(q).sid \in Sessions
         /\ Len(Tail(q)) < QueueDepth
         /\ \A i \in DOMAIN Tail(q) :
              i \in Nat /\ i + 1 \in DOMAIN q /\ Tail(q)[i] = q[i + 1]
         /\ \A i \in DOMAIN q : i = 1 \/ i - 1 \in DOMAIN Tail(q)
         /\ \A i \in DOMAIN q : i \in Nat /\ i >= 1
<1>1. q \in Seq(Msgs) /\ Len(q) \in Nat /\ DOMAIN q = 1 .. Len(q)
  BY LineType
<1>2. Len(q) >= 1
  BY <1>1
<1>3. Tail(q) \in Seq(Msgs) /\ Len(Tail(q)) = Len(q) - 1
  BY <1>1
<1>4. Len(q) <= QueueDepth
  BY DEF Lines
<1>5. Tail(q) \in Lines /\ Len(Tail(q)) < QueueDepth
  BY <1>1, <1>2, <1>3, <1>4, Bounds DEF Lines
<1>6. DOMAIN Tail(q) = 1 .. (Len(q) - 1)
  BY <1>3
<1>7. \A i \in 1 .. (Len(q) - 1) : Tail(q)[i] = q[i + 1]
  BY <1>1
<1>8. Head(q) = q[1] /\ 1 \in DOMAIN q
  BY <1>1, <1>2
<1>9. Head(q) \in Msgs /\ Head(q).sid \in Sessions
  BY <1>8, LineType
<1>10. QED
  BY <1>1, <1>2, <1>5, <1>6, <1>7, <1>8, <1>9

\* The ids of one line are no more than its places.
LEMMA IdsOfLine ==
  ASSUME NEW q \in Lines
  PROVE  LET S == {q[i].sid : i \in DOMAIN q}
         IN  /\ IsFiniteSet(S) /\ Cardinality(S) \in Nat
             /\ Cardinality(S) <= QueueDepth
<1> DEFINE S == {q[i].sid : i \in DOMAIN q}
           f == [i \in 1 .. Len(q) |-> q[i].sid]
<1>1. Len(q) \in Nat /\ Len(q) <= QueueDepth /\ DOMAIN q = 1 .. Len(q)
  BY LineType DEF Lines
<1>2. IsFiniteSet(1 .. Len(q)) /\ Cardinality(1 .. Len(q)) = Len(q)
  <2>1. 1 \in Int /\ Len(q) \in Int /\ (1 > Len(q) => Len(q) = 0)
    BY <1>1
  <2>2. /\ IsFiniteSet(1 .. Len(q))
        /\ Cardinality(1 .. Len(q)) =
             IF 1 > Len(q) THEN 0 ELSE Len(q) - 1 + 1
    BY <2>1, FS_Interval
  <2>3. QED
    BY <2>1, <2>2
<1>3. f \in Surjection(1 .. Len(q), S)
  <2>1. S = {q[i].sid : i \in 1 .. Len(q)}
    BY <1>1
  <2>2. f \in [1 .. Len(q) -> S]
    BY <2>1
  <2>3. \A s \in S : \E i \in 1 .. Len(q) : f[i] = s
    BY <2>1
  <2>4. QED
    BY <2>2, <2>3 DEF Surjection
<1>4. IsFiniteSet(S) /\ Cardinality(S) <= Cardinality(1 .. Len(q))
  BY <1>2, <1>3, FS_Surjection
<1>5. Cardinality(S) \in Nat
  BY <1>4, FS_CardinalityType
<1> HIDE DEF S
<1>6. Cardinality(S) <= QueueDepth
  BY <1>1, <1>2, <1>4, <1>5, Bounds
<1>7. QED
  BY <1>4, <1>5, <1>6 DEF S

LEMMA SizeOfUnion ==
  ASSUME NEW A, IsFiniteSet(A), NEW B, IsFiniteSet(B)
  PROVE  /\ IsFiniteSet(A \cup B) /\ Cardinality(A \cup B) \in Nat
         /\ Cardinality(A \cup B) <= Cardinality(A) + Cardinality(B)
<1>1. /\ IsFiniteSet(A \cup B)
      /\ Cardinality(A \cup B) =
           Cardinality(A) + Cardinality(B) - Cardinality(A \cap B)
  BY FS_Union
<1>2. IsFiniteSet(A \cap B)
  BY FS_Intersection
<1>3. /\ Cardinality(A) \in Nat /\ Cardinality(B) \in Nat
      /\ Cardinality(A \cap B) \in Nat /\ Cardinality(A \cup B) \in Nat
  BY <1>1, <1>2, FS_CardinalityType
<1>4. QED
  BY <1>1, <1>3

\* There is always an id that neither end knows.
LEMMA FreshExists ==
  ASSUME PairType
  PROVE  FreshSession \in Sessions /\ FreshSession \notin InUse
<1>1. PICK a : a \in Ends
  BY EndsAssumption, FS_EmptySet
<1> DEFINE b == Other(a)
           A == {wire[a][i].sid : i \in DOMAIN wire[a]}
           B == {wire[b][i].sid : i \in DOMAIN wire[b]}
           L == {link[a].sid, link[b].sid}
<1>2. b \in Ends /\ Ends = {a, b}
  BY <1>1, TwoEnds
<1>3. InUse = L \cup (A \cup B)
  BY <1>2 DEF InUse
<1>4. /\ IsFiniteSet(A) /\ Cardinality(A) <= QueueDepth /\ Cardinality(A) \in Nat
      /\ IsFiniteSet(B) /\ Cardinality(B) <= QueueDepth /\ Cardinality(B) \in Nat
  <2>1. wire[a] \in Lines /\ wire[b] \in Lines
    BY <1>1, <1>2 DEF PairType
  <2>2. QED
    BY <2>1, IdsOfLine
<1>5. IsFiniteSet(L) /\ Cardinality(L) <= 2 /\ Cardinality(L) \in Nat
  <2> DEFINE x == link[a].sid
             y == link[b].sid
  <2>1. /\ IsFiniteSet({x}) /\ Cardinality({x}) = 1
        /\ IsFiniteSet({y}) /\ Cardinality({y}) = 1
    BY FS_Singleton
  <2>2. L = {x} \cup {y}
    OBVIOUS
  <2> HIDE DEF x, y, L
  <2>3. QED
    BY <2>1, <2>2, SizeOfUnion
<1> HIDE DEF A, B, L
<1>6. /\ IsFiniteSet(A \cup B) /\ Cardinality(A \cup B) \in Nat
      /\ Cardinality(A \cup B) <= Cardinality(A) + Cardinality(B)
  BY <1>4, SizeOfUnion
<1>7. /\ IsFiniteSet(InUse) /\ Cardinality(InUse) \in Nat
      /\ Cardinality(InUse) <= Cardinality(L) + Cardinality(A \cup B)
  BY <1>3, <1>5, <1>6, SizeOfUnion
<1>8. Cardinality(InUse) <= 2 * QueueDepth + 2
  BY <1>4, <1>5, <1>6, <1>7, Bounds
<1>9. \E s \in Sessions : s \notin InUse
  <2> SUFFICES ASSUME Sessions \subseteq InUse PROVE FALSE
    OBVIOUS
  <2>1. Cardinality(Sessions) <= Cardinality(InUse)
    BY <1>7, FS_Subset
  <2>2. Cardinality(Sessions) \in Nat
    BY NumbersAssumption, FS_CardinalityType
  <2>3. QED
    BY <1>7, <1>8, <2>1, <2>2, SessionsAssumption, Bounds
<1>10. QED
  BY <1>9 DEF FreshSession

-----------------------------------------------------------------------------
(***************************************************************************)
(* What one message, or one link's change, does to the invariant.          *)
(***************************************************************************)

LEMMA SameSessions ==
  ASSUME NEW la, NEW lb, NEW qa, NEW qb, PairInv(la, lb, qa, qb),
         NEW la2, la2.active <=> la.active, la2.sid = la.sid,
         NEW lb2, lb2.active <=> lb.active, lb2.sid = lb.sid
  PROVE  PairInv(la2, lb2, qa, qb)
BY DEF PairInv, Heard, Follows, Settled

\* The initiating end sends something other than a HELLO.
LEMMA FirstSays ==
  ASSUME NEW la, NEW lb, NEW qa \in Lines, NEW qb \in Lines,
         PairInv(la, lb, qa, qb), NEW m \in Msgs, ~IsHello(m),
         Len(qb) < QueueDepth
  PROVE  PairInv(la, lb, qa, Append(qb, m))
<1> DEFINE q == Append(qb, m)
           n == Len(qb) + 1
<1>1. /\ DOMAIN q = (DOMAIN qb) \cup {n} /\ n \notin DOMAIN qb
      /\ \A i \in DOMAIN qb : q[i] = qb[i] /\ i < n
      /\ q[n] = m
  BY AppendedLine
<1> HIDE DEF q, n
<1>2. \A i \in DOMAIN q : Last(q, i) => i \in DOMAIN qb /\ Last(qb, i)
  BY <1>1 DEF Last
<1>3. Follows(la, lb, qb) => Follows(la, lb, q)
  BY <1>1, <1>2 DEF Follows
<1>4. Settled(la, lb, qb) => Settled(la, lb, q)
  BY <1>1 DEF Settled
<1>5. PairInv(la, lb, qa, q)
  BY <1>3, <1>4 DEF PairInv
<1>6. QED
  BY <1>5 DEF q

\* The other end names its session.
LEMMA OtherSays ==
  ASSUME NEW la, NEW lb, NEW qa \in Lines, NEW qb \in Lines,
         PairInv(la, lb, qa, qb), NEW m \in Msgs, ~IsHello(m),
         Len(qa) < QueueDepth, m.sid = lb.sid
  PROVE  PairInv(la, lb, Append(qa, m), qb)
<1> DEFINE q == Append(qa, m)
           n == Len(qa) + 1
<1>1. /\ DOMAIN q = (DOMAIN qa) \cup {n}
      /\ \A i \in DOMAIN qa : q[i] = qa[i]
      /\ q[n] = m
  BY AppendedLine
<1> HIDE DEF q, n
<1>2. Heard(la, q) => Heard(la, qa) \/ lb.sid = la.sid
  BY <1>1 DEF Heard
<1>3. Settled(la, lb, qb) /\ lb.sid = la.sid => Follows(la, lb, qb)
  BY DEF Settled, Follows, Last
<1>4. \A i \in DOMAIN q : ~IsHello(q[i])
  BY <1>1 DEF PairInv
<1>5. PairInv(la, lb, q, qb)
  BY <1>2, <1>3, <1>4 DEF PairInv
<1>6. QED
  BY <1>5 DEF q

\* The initiating end names its session, a new one or the one it asked for
\* before, and sends a HELLO unless the queue is full.
LEMMA FirstAsks ==
  ASSUME NEW la, NEW lb, NEW qa \in Lines, NEW qb \in Lines,
         PairInv(la, lb, qa, qb),
         NEW la2, ~la.active, ~la2.active, la2.sid \in Sessions,
         \/ la2.sid = la.sid
         \/ /\ lb.sid # la2.sid
            /\ \A i \in DOMAIN qa : qa[i].sid # la2.sid
            /\ \A i \in DOMAIN qb : qb[i].sid # la2.sid
  PROVE  /\ PairInv(la2, lb, qa, qb)
         /\ \A m \in Msgs : IsHello(m) /\ m.sid = la2.sid /\ Len(qb) < QueueDepth
                              => PairInv(la2, lb, qa, Append(qb, m))
<1>1. la2.sid # NoSession
  BY Bounds
<1>2. PairInv(la2, lb, qa, qb)
  <2>1. CASE la2.sid = la.sid
    BY <2>1, SameSessions
  <2>2. CASE la2.sid # la.sid
    <3>1. ~Heard(la2, qa)
      <4>1. \A i \in DOMAIN qa : qa[i].sid # la2.sid
        BY <2>2
      <4>2. QED
        BY <4>1, Zenon DEF Heard
    <3>2. Settled(la2, lb, qb)
      BY <2>2 DEF Settled
    <3>3. QED
      BY <3>1, <3>2 DEF PairInv
  <2>3. QED
    BY <2>1, <2>2
<1>3. ASSUME NEW m \in Msgs, IsHello(m), m.sid = la2.sid, Len(qb) < QueueDepth
      PROVE  PairInv(la2, lb, qa, Append(qb, m))
  <2> DEFINE q == Append(qb, m)
             n == Len(qb) + 1
  <2>1. /\ DOMAIN q = (DOMAIN qb) \cup {n} /\ n \notin DOMAIN qb
        /\ \A i \in DOMAIN qb : q[i] = qb[i] /\ i < n
        /\ q[n] = m
    BY AppendedLine
  <2>2. n \in Nat
    BY LineType
  <2> HIDE DEF q, n
  <2>3. \A i \in DOMAIN q : Last(q, i) => i = n
    BY <1>3, <2>1 DEF Last
  <2>4. Follows(la2, lb, q)
    BY <1>3, <2>1, <2>3 DEF Follows
  <2>5. Settled(la2, lb, qb)
    BY <1>1, <1>2 DEF PairInv
  <2>6. \A j \in DOMAIN q : ~(n < j)
    <3>1. \A j \in DOMAIN qb : j \in Nat
      BY LineType
    <3>2. QED
      BY <2>1, <2>2, <3>1
  <2>7. Settled(la2, lb, q)
    BY <1>3, <2>1, <2>5, <2>6 DEF Settled
  <2>8. PairInv(la2, lb, qa, q)
    BY <1>2, <2>4, <2>7 DEF PairInv
  <2>9. QED
    BY <2>8 DEF q
<1>4. QED
  BY <1>2, <1>3

\* The initiating end takes a message.
LEMMA FirstHears ==
  ASSUME NEW la, NEW lb, NEW qa \in Lines, NEW qb \in Lines, qa # <<>>,
         PairInv(la, lb, qa, qb),
         NEW la2, la2.sid = la.sid,
         la2.active => la.active \/ Head(qa).sid = la.sid
  PROVE  PairInv(la2, lb, Tail(qa), qb)
<1> DEFINE q == Tail(qa)
<1>1. /\ 1 \in DOMAIN qa /\ Head(qa) = qa[1] /\ Head(qa).sid \in Sessions
      /\ \A i \in DOMAIN q : i + 1 \in DOMAIN qa /\ q[i] = qa[i + 1]
  BY TailOfLine
<1> HIDE DEF q
<1>2. Heard(la2, q) => Heard(la, qa)
  BY <1>1 DEF Heard
<1>3. \A i \in DOMAIN q : ~IsHello(q[i])
  BY <1>1 DEF PairInv
<1>4. la2.active => la2.sid # NoSession
  BY <1>1, Bounds DEF PairInv
<1>5. PairInv(la2, lb, q, qb)
  <2>1. Follows(la, lb, qb) => Follows(la2, lb, qb)
    BY DEF Follows
  <2>2. Settled(la, lb, qb) => Settled(la2, lb, qb)
    BY DEF Settled
  <2>3. QED
    BY <1>2, <1>3, <1>4, <2>1, <2>2 DEF PairInv
<1>6. QED
  BY <1>5 DEF q

\* The other end takes a message, and the session of a HELLO.
LEMMA OtherHears ==
  ASSUME NEW la, NEW lb, NEW qa \in Lines, NEW qb \in Lines, qb # <<>>,
         PairInv(la, lb, qa, qb),
         NEW lb2, lb2.active => lb.active \/ Head(qb).sid = lb2.sid,
         lb2.sid = IF IsHello(Head(qb)) THEN Head(qb).sid ELSE lb.sid
  PROVE  PairInv(la, lb2, qa, Tail(qb))
<1> DEFINE q == Tail(qb)
<1>1. /\ 1 \in DOMAIN qb /\ Head(qb) = qb[1] /\ Head(qb).sid \in Sessions
      /\ \A i \in DOMAIN q : i \in Nat /\ i + 1 \in DOMAIN qb /\ q[i] = qb[i + 1]
      /\ \A i \in DOMAIN qb : i = 1 \/ i - 1 \in DOMAIN q
      /\ \A i \in DOMAIN qb : i \in Nat /\ i >= 1
  BY TailOfLine
<1> HIDE DEF q
<1>2. lb2.active => lb2.sid # NoSession
  BY <1>1, Bounds DEF PairInv
<1>3. \A i \in DOMAIN q : Last(q, i) => Last(qb, i + 1)
  BY <1>1 DEF Last
<1>4. (\A i \in DOMAIN q : ~IsHello(q[i])) =>
        \/ Last(qb, 1)
        \/ \A i \in DOMAIN qb : ~IsHello(qb[i])
  BY <1>1 DEF Last
<1>5. Follows(la, lb, qb) => Follows(la, lb2, q)
  BY <1>1, <1>3, <1>4 DEF Follows, Last
<1>6. Settled(la, lb, qb) => Settled(la, lb2, q)
  <2> SUFFICES ASSUME Settled(la, lb, qb) PROVE Settled(la, lb2, q)
    OBVIOUS
  <2>1. ASSUME NEW i \in DOMAIN q, NEW j \in DOMAIN q, i < j,
               IsHello(q[i]), IsHello(q[j]), q[i].sid = la.sid
        PROVE  q[j].sid = la.sid
    <3>1. i + 1 < j + 1 /\ i + 1 \in DOMAIN qb /\ j + 1 \in DOMAIN qb
      BY <1>1, <2>1
    <3>2. QED
      BY <1>1, <2>1, <3>1 DEF Settled
  <2>2. ASSUME lb2.sid = la.sid, NEW i \in DOMAIN q, IsHello(q[i])
        PROVE  q[i].sid = la.sid
    <3>1. 1 < i + 1 /\ i + 1 \in DOMAIN qb /\ q[i] = qb[i + 1]
      <4>1. i \in Nat /\ i >= 1
        BY <1>1, TailOfLine, LineType DEF q
      <4>2. QED
        BY <1>1, <4>1
    <3>2. CASE IsHello(Head(qb))
      BY <1>1, <2>2, <3>1, <3>2 DEF Settled
    <3>3. CASE ~IsHello(Head(qb))
      BY <1>1, <2>2, <3>1, <3>3 DEF Settled
    <3>4. QED
      BY <3>2, <3>3
  <2>3. QED
    BY <2>1, <2>2 DEF Settled
<1>7. PairInv(la, lb2, qa, q)
  BY <1>2, <1>5, <1>6 DEF PairInv
<1>8. QED
  BY <1>7 DEF q

-----------------------------------------------------------------------------
(***************************************************************************)
(* One link, under the handlers.                                           *)
(***************************************************************************)

LEMMA LinkFields ==
  ASSUME NEW l \in Rules!Link
  PROVE  /\ l.sid \in Sessions \cup {NoSession} /\ l.active \in BOOLEAN
         /\ l.age \in Nat
BY DEF Rules!Link

LEMMA HandledRow ==
  ASSUME NEW l \in Rules!Link, NEW m \in Msgs
  PROVE  LET l2 == Handled(l, m)
         IN  /\ l2 \in Rules!Link
             /\ l2.sid = IF IsHello(m) THEN m.sid ELSE l.sid
             /\ l2.active => l.active \/ m.sid = l2.sid
<1>1. m.type \in Kinds /\ m.sid \in Sessions /\ m.sid # NoSession
  BY Bounds DEF Msgs
<1>2. m.type \notin {"goodbye", "undecodable"}
  BY <1>1 DEF Kinds
<1>3. Rules!ReadyLink(l, m.sid) \in Rules!Link
  BY <1>1 DEF Rules!ReadyLink, Rules!Link, Rules!LinkStates
<1>4. /\ Rules!ReadyLink(l, m.sid).sid = m.sid
      /\ Rules!ReadyLink(l, m.sid).active
  BY DEF Rules!ReadyLink, Rules!Link
<1>5. /\ Rules!Touched(l) \in Rules!Link /\ Rules!Touched(l).sid = l.sid
      /\ Rules!Touched(l).active = l.active
  BY DEF Rules!Touched, Rules!Link
<1>6. LET d == [Rules!Touched(l) EXCEPT !.state = "degraded"]
      IN  d \in Rules!Link /\ d.sid = l.sid /\ d.active = l.active
  BY <1>5 DEF Rules!Link, Rules!LinkStates
<1>7. CASE Rules!Establishes(l, m)
  <2>1. Handled(l, m) = Rules!ReadyLink(l, m.sid)
    BY <1>7 DEF Handled, Rules!HandledLink
  <2>2. IsHello(m) \/ m.sid = l.sid
    BY <1>7 DEF Rules!Establishes, IsHello
  <2>3. QED
    BY <1>3, <1>4, <2>1, <2>2
<1>8. CASE ~Rules!Establishes(l, m)
  <2>1. ~IsHello(m)
    BY <1>1, <1>8 DEF Rules!Establishes, IsHello
  <2>2. Handled(l, m) = IF m.type = "error"
                        THEN [Rules!Touched(l) EXCEPT !.state = "degraded"]
                        ELSE Rules!Touched(l)
    BY <1>2, <1>8 DEF Handled, Rules!HandledLink
  <2>3. QED
    BY <1>5, <1>6, <2>1, <2>2
<1>9. QED
  BY <1>7, <1>8

LEMMA HelloRow ==
  ASSUME NEW l \in Rules!Link, NEW fresh \in Sessions, NEW ok \in BOOLEAN
  PROVE  LET l2 == Rules!HelloLink(l, ok, fresh)
         IN  /\ l2 \in Rules!Link /\ l2.active = l.active
             /\ l2.sid = IF l.sid = NoSession THEN fresh ELSE l.sid
<1> DEFINE named == [l EXCEPT !.sid = IF @ = NoSession THEN fresh ELSE @]
<1>1. /\ named \in Rules!Link /\ named.active = l.active
      /\ named.sid = IF l.sid = NoSession THEN fresh ELSE l.sid
  BY DEF Rules!Link
<1>2. Rules!HelloLink(l, ok, fresh) =
        IF ok THEN [named EXCEPT !.helloSent = TRUE, !.age = 0,
                                 !.state = "handshaking"]
        ELSE named
  BY DEF Rules!HelloLink
<1> HIDE DEF named
<1>3. LET n == [named EXCEPT !.helloSent = TRUE, !.age = 0,
                             !.state = "handshaking"]
      IN  n \in Rules!Link /\ n.active = named.active /\ n.sid = named.sid
  BY <1>1 DEF Rules!Link, Rules!LinkStates
<1>4. QED
  BY <1>1, <1>2, <1>3

LEMMA OlderRow ==
  ASSUME NEW l \in Rules!Link
  PROVE  LET l2 == Rules!Older(l)
         IN  l2 \in Rules!Link /\ l2.active = l.active /\ l2.sid = l.sid
<1>1. LET n == [l EXCEPT !.age = @ + 1]
      IN  n \in Rules!Link /\ n.active = l.active /\ n.sid = l.sid
  BY DEF Rules!Link
<1>2. Rules!Older(l) \in {l, [l EXCEPT !.age = @ + 1]}
  BY DEF Rules!Older
<1>3. QED
  BY <1>1, <1>2

LEMMA NewRows ==
  /\ Rules!NewLink \in Rules!Link /\ Rules!EmptyLink \in Rules!Link
  /\ Rules!NewLink.sid = NoSession /\ ~Rules!NewLink.active
  /\ Rules!EmptyLink.sid = NoSession /\ ~Rules!EmptyLink.active
BY DEF Rules!NewLink, Rules!EmptyLink, Rules!Link, Rules!LinkStates

-----------------------------------------------------------------------------
(***************************************************************************)
(* What an end sends.                                                      *)
(***************************************************************************)

\* The invariant for end a, over links L and messages w.
Fine(a, L, w) == PairInv(L[a], L[Other(a)], w[a], w[Other(a)])

Words == [type : Kinds \cup {"none"}, sid : Sessions \cup {NoSession}]

LEMMA SentLine ==
  ASSUME NEW w \in [Ends -> Lines], NEW e \in Ends, NEW m \in Words,
         m.type = "none" => m.sid = NoSession
  PROVE  LET w2 == Sent(w, e, m)
             o == Other(e)
         IN  /\ w2 \in [Ends -> Lines] /\ w2[e] = w[e]
             /\ \/ w2[o] = w[o]
                \/ /\ m \in Msgs /\ Len(w[o]) < QueueDepth
                   /\ w2[o] = Append(w[o], m)
<1> DEFINE o == Other(e)
           w2 == Sent(w, e, m)
<1>1. o \in Ends /\ o # e /\ w[o] \in Lines
  BY TwoEnds
<1>2. CASE m.sid = NoSession \/ Len(w[o]) >= QueueDepth
  BY <1>2 DEF Sent
<1>3. CASE ~(m.sid = NoSession \/ Len(w[o]) >= QueueDepth)
  <2>1. w2 = [w EXCEPT ![o] = Append(w[o], m)]
    BY <1>3 DEF Sent
  <2>2. m \in Msgs
    BY <1>3 DEF Words, Msgs
  <2>3. Len(w[o]) < QueueDepth
    BY <1>1, <1>3, LineType, Bounds
  <2>4. Append(w[o], m) \in Lines
    BY <1>1, <2>2, <2>3, AppendedLine
  <2> HIDE DEF w2, o
  <2>5. w2 \in [Ends -> Lines] /\ w2[e] = w[e] /\ w2[o] = Append(w[o], m)
    BY <1>1, <2>1, <2>4
  <2>6. QED
    BY <2>2, <2>3, <2>5 DEF w2, o
<1>4. QED
  BY <1>2, <1>3

\* Whatever is sent but a HELLO, if the other end names its own session.
LEMMA SendingKeeps ==
  ASSUME NEW a \in Ends, NEW L, NEW w \in [Ends -> Lines], Fine(a, L, w),
         NEW e \in Ends, NEW m \in Words, ~IsHello(m),
         m.type = "none" => m.sid = NoSession,
         e # a => m.sid \in {NoSession, L[e].sid}
  PROVE  Sent(w, e, m) \in [Ends -> Lines] /\ Fine(a, L, Sent(w, e, m))
<1> DEFINE b == Other(a)
           w2 == Sent(w, e, m)
           o == Other(e)
<1>1. b \in Ends /\ b # a /\ Ends = {a, b} /\ Other(b) = a
  BY TwoEnds
<1>2. /\ w2 \in [Ends -> Lines] /\ w2[e] = w[e]
      /\ \/ w2[o] = w[o]
         \/ m \in Msgs /\ Len(w[o]) < QueueDepth /\ w2[o] = Append(w[o], m)
  BY SentLine
<1>3. w[a] \in Lines /\ w[b] \in Lines
  BY <1>1
<1> HIDE DEF w2, o, b
<1>4. CASE w2[o] = w[o]
  <2>1. w2[a] = w[a] /\ w2[b] = w[b]
    BY <1>1, <1>2, <1>4 DEF o, b
  <2>2. QED
    BY <1>2, <2>1 DEF Fine, b, w2
<1>5. CASE m \in Msgs /\ Len(w[o]) < QueueDepth /\ w2[o] = Append(w[o], m)
  <2>1. CASE e = a
    <3>1. w2[b] = Append(w[b], m) /\ w2[a] = w[a] /\ Len(w[b]) < QueueDepth
      BY <1>2, <1>5, <2>1 DEF o, b
    <3>2. PairInv(L[a], L[b], w[a], Append(w[b], m))
      BY <1>3, <1>5, <3>1, FirstSays DEF Fine, b
    <3>3. QED
      BY <1>2, <3>1, <3>2 DEF Fine, b, w2
  <2>2. CASE e # a
    <3>1. e = b /\ o = a
      BY <1>1, <2>2 DEF o
    <3>2. w2[a] = Append(w[a], m) /\ w2[b] = w[b] /\ Len(w[a]) < QueueDepth
      BY <1>2, <1>5, <3>1
    <3>3. m.sid = L[b].sid
      BY <1>5, <2>2, <3>1, Bounds DEF Msgs
    <3>4. PairInv(L[a], L[b], Append(w[a], m), w[b])
      BY <1>3, <1>5, <3>2, <3>3, OtherSays DEF Fine, b
    <3>5. QED
      BY <1>2, <3>2, <3>4 DEF Fine, b, w2
  <2>3. QED
    BY <2>1, <2>2
<1>6. QED
  BY <1>2, <1>4, <1>5 DEF w2

\* The audio an end may send in a poll.
LEMMA TalkingKeeps ==
  ASSUME NEW a \in Ends, link \in [Ends -> Rules!Link],
         NEW w \in [Ends -> Lines], Fine(a, link, w),
         NEW e \in Ends, Talks(e, w)
  PROVE  wire' \in [Ends -> Lines] /\ Fine(a, link, wire')
<1>1. CASE wire' = w
  BY <1>1
<1>2. CASE wire' = Sent(w, e, Message("audio", link[e].sid))
  <2> DEFINE m == Message("audio", link[e].sid)
  <2>1. /\ m \in Words /\ ~IsHello(m) /\ m.type # "none"
        /\ m.sid = link[e].sid
    BY LinkFields DEF Message, Words, Kinds, IsHello
  <2> HIDE DEF m
  <2>2. Sent(w, e, m) \in [Ends -> Lines] /\ Fine(a, link, Sent(w, e, m))
    BY <2>1, SendingKeeps
  <2>3. QED
    BY <1>2, <2>2 DEF m
<1>3. QED
  BY <1>1, <1>2 DEF Talks

-----------------------------------------------------------------------------
(***************************************************************************)
(* The steps.                                                              *)
(***************************************************************************)

LEMMA HelloSent ==
  ASSUME PairType, NEW e \in Ends, SendHello(e)
  PROVE  LET l == link'[e]
         IN  /\ link' \in [Ends -> Rules!Link]
             /\ \A f \in Ends : f # e => link'[f] = link[f]
             /\ l.active = link[e].active /\ ~link[e].active
             /\ l.sid \in Sessions
             /\ l.sid = IF link[e].sid = NoSession THEN FreshSession
                        ELSE link[e].sid
             /\ wire' = Sent(wire, e, Message("hello", l.sid))
             /\ Message("hello", l.sid) \in Words
             /\ UNCHANGED up
<1> DEFINE l == Rules!HelloLink(link[e], HasRoom(e), FreshSession)
<1>1. FreshSession \in Sessions
  BY FreshExists
<1>2. link[e] \in Rules!Link /\ HasRoom(e) \in BOOLEAN
  BY DEF PairType, HasRoom
<1>3. /\ l \in Rules!Link /\ l.active = link[e].active
      /\ l.sid = IF link[e].sid = NoSession THEN FreshSession ELSE link[e].sid
  BY <1>1, <1>2, HelloRow
<1>4. l.sid \in Sessions
  BY <1>1, <1>2, <1>3, LinkFields
<1>5. Message("hello", l.sid) \in Words
  BY <1>4 DEF Message, Words, Kinds
<1>6. ~link[e].active
  BY DEF SendHello, Rules!NeedsHello
<1>7. /\ link' = [link EXCEPT ![e] = l] /\ UNCHANGED up
      /\ wire' = Sent(wire, e, Message("hello", l.sid))
  BY DEF SendHello
<1> HIDE DEF l
<1>8. link' \in [Ends -> Rules!Link] /\ link'[e] = l
  BY <1>3, <1>7 DEF PairType
<1>9. \A f \in Ends : f # e => link'[f] = link[f]
  BY <1>7 DEF PairType
<1>10. QED
  BY <1>3, <1>4, <1>5, <1>6, <1>7, <1>8, <1>9

LEMMA Taken ==
  ASSUME PairType, NEW e \in Ends, Receive(e)
  PROVE  LET m == Head(wire[e])
             l == link'[e]
         IN  /\ wire[e] \in Lines /\ wire[e] # <<>> /\ m \in Msgs
             /\ link' \in [Ends -> Rules!Link]
             /\ \A f \in Ends : f # e => link'[f] = link[f]
             /\ l.sid = IF IsHello(m) THEN m.sid ELSE link[e].sid
             /\ l.active => link[e].active \/ m.sid = l.sid
             /\ [wire EXCEPT ![e] = Tail(@)] \in [Ends -> Lines]
             /\ wire' = Sent([wire EXCEPT ![e] = Tail(@)], e,
                             Reply(link[e], m))
             /\ Reply(link[e], m) \in Words /\ ~IsHello(Reply(link[e], m))
             /\ Reply(link[e], m).type = "none" =>
                  Reply(link[e], m).sid = NoSession
             /\ Reply(link[e], m).sid \in {NoSession, l.sid}
<1> DEFINE m == Head(wire[e])
           l == Handled(link[e], m)
           r == Reply(link[e], m)
<1>1. wire[e] \in Lines /\ wire[e] # <<>> /\ link[e] \in Rules!Link
  BY DEF PairType, Receive
<1>2. m \in Msgs /\ m.sid \in Sessions /\ Tail(wire[e]) \in Lines
  BY <1>1, TailOfLine
<1>3. /\ l \in Rules!Link
      /\ l.sid = IF IsHello(m) THEN m.sid ELSE link[e].sid
      /\ l.active => link[e].active \/ m.sid = l.sid
  BY <1>1, <1>2, HandledRow
<1>4. [wire EXCEPT ![e] = Tail(@)] \in [Ends -> Lines]
  BY <1>2 DEF PairType
<1>5. /\ link' = [link EXCEPT ![e] = l]
      /\ wire' = Sent([wire EXCEPT ![e] = Tail(@)], e, r)
  BY DEF Receive
<1> HIDE DEF m, l
<1>6. /\ r \in Words /\ ~IsHello(r)
      /\ r.type = "none" => r.sid = NoSession
      /\ r.sid \in {NoSession, l.sid}
  <2>1. CASE m.type = "hello"
    <3>1. r = Message("hello_ack", m.sid)
      BY <2>1 DEF Reply
    <3>2. l.sid = m.sid
      BY <1>3, <2>1 DEF IsHello
    <3>3. QED
      BY <1>2, <3>1, <3>2 DEF Message, Words, Kinds, IsHello
  <2>2. CASE m.type # "hello"
    <3>1. l.sid = link[e].sid
      BY <1>3, <2>2 DEF IsHello
    <3>2. r \in {Message("error", link[e].sid), Message("none", NoSession)}
      BY <2>2 DEF Reply
    <3>3. link[e].sid \in Sessions \cup {NoSession}
      BY <1>1, LinkFields
    <3>4. QED
      BY <3>1, <3>2, <3>3 DEF Message, Words, Kinds, IsHello
  <2>3. QED
    BY <2>1, <2>2
<1>7. link' \in [Ends -> Rules!Link] /\ link'[e] = l
  BY <1>3, <1>5 DEF PairType
<1>8. \A f \in Ends : f # e => link'[f] = link[f]
  BY <1>5 DEF PairType
<1> HIDE DEF r
<1>9. QED
  BY <1>1, <1>2, <1>3, <1>4, <1>5, <1>6, <1>7, <1>8 DEF m, l, r

LEMMA NoWords == <<>> \in Lines
BY Bounds DEF Lines

LEMMA TalkingTyped ==
  ASSUME NEW w \in [Ends -> Lines], NEW e \in Ends, Talks(e, w),
         link[e] \in Rules!Link
  PROVE  wire' \in [Ends -> Lines]
<1> DEFINE m == Message("audio", link[e].sid)
<1>1. m \in Words /\ m.type # "none"
  BY LinkFields DEF Message, Words, Kinds
<1> HIDE DEF m
<1>2. Sent(w, e, m) \in [Ends -> Lines]
  BY <1>1, SentLine
<1>3. QED
  BY <1>2 DEF Talks, m

LEMMA KeepaliveTyped ==
  ASSUME PairType, NEW e \in Ends
  PROVE  LET m == Message("keepalive", link[e].sid)
         IN  /\ m \in Words /\ ~IsHello(m) /\ m.type # "none"
             /\ m.sid = link[e].sid
             /\ Sent(wire, e, m) \in [Ends -> Lines]
<1> DEFINE m == Message("keepalive", link[e].sid)
<1>1. /\ m \in Words /\ ~IsHello(m) /\ m.type # "none"
      /\ m.sid = link[e].sid
  BY LinkFields DEF PairType, Message, Words, Kinds, IsHello
<1> HIDE DEF m
<1>2. Sent(wire, e, m) \in [Ends -> Lines]
  BY <1>1, SentLine DEF PairType
<1>3. QED
  BY <1>1, <1>2 DEF m

LEMMA GoneTyped ==
  ASSUME ChannelGone
  PROVE  /\ link' \in [Ends -> Rules!Link] /\ wire' \in [Ends -> Lines]
         /\ up' = FALSE
BY NewRows, NoWords DEF ChannelGone

\* Every step keeps the types, whoever initiates.
LEMMA StepTyped ==
  ASSUME PairType, [Next]_vars
  PROVE  PairType'
<1>1. ASSUME NEW e \in Ends, Poll(e)
      PROVE  PairType'
  <2>1. due' \subseteq Ends /\ UNCHANGED faults
    BY <1>1 DEF Poll, PairType
  <2>2. CASE SendHello(e)
    <3>1. /\ link' \in [Ends -> Rules!Link] /\ UNCHANGED up
          /\ wire' = Sent(wire, e, Message("hello", link'[e].sid))
          /\ Message("hello", link'[e].sid) \in Words
      BY <2>2, HelloSent
    <3>2. wire' \in [Ends -> Lines]
      <4> DEFINE m == Message("hello", link'[e].sid)
      <4>1. m.type # "none"
        BY DEF Message
      <4> HIDE DEF m
      <4>2. QED
        BY <3>1, <4>1, SentLine DEF PairType, m
    <3>3. QED
      BY <2>1, <3>1, <3>2 DEF PairType
  <2>3. CASE SendKeepalive(e)
    <3>1. wire' \in [Ends -> Lines]
      BY <2>3, KeepaliveTyped, TalkingTyped DEF SendKeepalive, PairType
    <3>2. QED
      BY <2>1, <2>3, <3>1 DEF SendKeepalive, PairType
  <2>4. CASE NothingDue(e)
    <3>1. wire' \in [Ends -> Lines]
      BY <2>4, TalkingTyped DEF NothingDue, PairType
    <3>2. QED
      BY <2>1, <2>4, <3>1 DEF NothingDue, PairType
  <2>5. CASE TimeOut(e)
    BY <2>1, <2>5, GoneTyped DEF TimeOut, PairType
  <2>6. QED
    BY <1>1, <2>2, <2>3, <2>4, <2>5 DEF Poll
<1>2. ASSUME NEW e \in Ends, Receive(e)
      PROVE  PairType'
  <2> DEFINE r == Reply(link[e], Head(wire[e]))
             w == [wire EXCEPT ![e] = Tail(@)]
  <2>1. /\ link' \in [Ends -> Rules!Link] /\ w \in [Ends -> Lines]
        /\ wire' = Sent(w, e, r) /\ r \in Words
        /\ r.type = "none" => r.sid = NoSession
    BY <1>2, Taken
  <2> HIDE DEF r, w
  <2>2. wire' \in [Ends -> Lines]
    BY <2>1, SentLine
  <2>3. QED
    BY <1>2, <2>1, <2>2 DEF Receive, PairType
<1>3. ASSUME NEW e \in Ends, Replace(e)
      PROVE  PairType'
  <2>1. faults' \in 0 .. MaxFaults
    BY <1>3, Bounds DEF Replace, Fault, PairType
  <2>2. link' \in [Ends -> Rules!Link] /\ wire' \in [Ends -> Lines]
    BY <1>3, NewRows, NoWords, TwoEnds DEF Replace, PairType
  <2>3. QED
    BY <1>3, <2>1, <2>2 DEF Replace, PairType
<1>4. CASE Open
  BY <1>4, NewRows DEF Open, PairType
<1>5. CASE Close
  <2>1. faults' \in 0 .. MaxFaults
    BY <1>5, Bounds DEF Close, Fault, PairType
  <2>2. QED
    BY <1>5, <2>1, GoneTyped DEF Close, PairType
<1>6. CASE Tick
  <2>1. link' \in [Ends -> Rules!Link]
    BY <1>6, OlderRow DEF Tick, PairType
  <2>2. QED
    BY <1>6, <2>1 DEF Tick, PairType
<1>7. CASE UNCHANGED vars
  BY <1>7 DEF vars, PairType
<1>8. QED
  BY <1>1, <1>2, <1>3, <1>4, <1>5, <1>6, <1>7 DEF Next

LEMMA NothingUnderWay ==
  ASSUME NEW la, NEW lb, ~la.active, la.sid = NoSession,
         lb.active => lb.sid # NoSession
  PROVE  PairInv(la, lb, <<>>, <<>>)
<1>1. DOMAIN <<>> = {}
  OBVIOUS
<1>2. QED
  BY <1>1 DEF PairInv

LEMMA OtherIsNew ==
  ASSUME NEW la, NEW lb, la.active => la.sid # NoSession,
         ~lb.active, lb.sid = NoSession
  PROVE  PairInv(la, lb, <<>>, <<>>)
<1>1. DOMAIN <<>> = {}
  OBVIOUS
<1>2. QED
  BY <1>1 DEF PairInv, Follows, Settled

LEMMA HelloKeeps ==
  ASSUME PairType, NEW a \in Ends, Fine(a, link, wire), SendHello(a)
  PROVE  Fine(a, link, wire)'
<1> DEFINE b == Other(a)
           m == Message("hello", link'[a].sid)
<1>1. b \in Ends /\ b # a /\ Ends = {a, b} /\ Other(b) = a
  BY TwoEnds
<1>2. /\ link'[b] = link[b] /\ ~link[a].active /\ ~link'[a].active
      /\ link'[a].sid \in Sessions
      /\ link'[a].sid = IF link[a].sid = NoSession THEN FreshSession
                        ELSE link[a].sid
      /\ wire' = Sent(wire, a, m) /\ m \in Words
  BY <1>1, HelloSent
<1>3. m.type # "none" /\ IsHello(m) /\ m.sid = link'[a].sid
  BY DEF Message, IsHello
<1>4. wire[a] \in Lines /\ wire[b] \in Lines
  BY <1>1 DEF PairType
<1>5. \/ link'[a].sid = link[a].sid
      \/ /\ link[b].sid # link'[a].sid
         /\ \A i \in DOMAIN wire[a] : wire[a][i].sid # link'[a].sid
         /\ \A i \in DOMAIN wire[b] : wire[b][i].sid # link'[a].sid
  BY <1>1, <1>2, FreshExists DEF InUse
<1> HIDE DEF m, b
<1>6. /\ wire'[a] = wire[a]
      /\ \/ wire'[b] = wire[b]
         \/ /\ m \in Msgs /\ Len(wire[b]) < QueueDepth
            /\ wire'[b] = Append(wire[b], m)
  BY <1>2, <1>3, SentLine DEF PairType, b
<1>7. PairInv(link[a], link[b], wire[a], wire[b])
  BY DEF Fine, b
<1>8. /\ PairInv(link'[a], link[b], wire[a], wire[b])
      /\ m \in Msgs /\ Len(wire[b]) < QueueDepth
           => PairInv(link'[a], link[b], wire[a], Append(wire[b], m))
  BY <1>2, <1>3, <1>4, <1>5, <1>7, FirstAsks
<1>9. PairInv(link'[a], link'[b], wire'[a], wire'[b])
  BY <1>2, <1>6, <1>8
<1>10. QED
  BY <1>9 DEF Fine, b

LEMMA ReceiveKeeps ==
  ASSUME PairType, NEW a \in Ends, Fine(a, link, wire),
         NEW e \in Ends, Receive(e)
  PROVE  Fine(a, link, wire)'
<1> DEFINE b == Other(a)
           m == Head(wire[e])
           r == Reply(link[e], m)
           w == [wire EXCEPT ![e] = Tail(@)]
<1>1. b \in Ends /\ b # a /\ Ends = {a, b} /\ Other(b) = a
  BY TwoEnds
<1>2. /\ wire[e] \in Lines /\ wire[e] # <<>> /\ m \in Msgs
      /\ \A f \in Ends : f # e => link'[f] = link[f]
      /\ link'[e].sid = IF IsHello(m) THEN m.sid ELSE link[e].sid
      /\ link'[e].active => link[e].active \/ m.sid = link'[e].sid
      /\ w \in [Ends -> Lines] /\ wire' = Sent(w, e, r)
      /\ r \in Words /\ ~IsHello(r)
      /\ r.type = "none" => r.sid = NoSession
      /\ r.sid \in {NoSession, link'[e].sid}
  BY Taken
<1>3. wire[a] \in Lines /\ wire[b] \in Lines
  BY <1>1 DEF PairType
<1>4. PairInv(link[a], link[b], wire[a], wire[b])
  BY DEF Fine
<1>5. w[e] = Tail(wire[e]) /\ \A f \in Ends : f # e => w[f] = wire[f]
  BY DEF PairType
<1> HIDE DEF b, m, r, w
<1>6. Fine(a, link', w)
  <2>1. CASE e = a
    <3>1. ~IsHello(m)
      <4>1. 1 \in DOMAIN wire[a] /\ Head(wire[a]) = wire[a][1]
        BY <1>2, <2>1, TailOfLine
      <4>2. QED
        BY <1>4, <2>1, <4>1 DEF PairInv, m
    <3>2. /\ link'[a].sid = link[a].sid
          /\ link'[a].active => link[a].active \/ m.sid = link[a].sid
      BY <1>2, <2>1, <3>1
    <3>3. PairInv(link'[a], link[b], Tail(wire[a]), wire[b])
      BY <1>2, <1>3, <1>4, <2>1, <3>2, FirstHears DEF m
    <3>4. link'[b] = link[b] /\ w[a] = Tail(wire[a]) /\ w[b] = wire[b]
      BY <1>1, <1>2, <1>5, <2>1
    <3>5. QED
      BY <3>3, <3>4 DEF Fine, b
  <2>2. CASE e = b
    <3>1. PairInv(link[a], link'[b], wire[a], Tail(wire[b]))
      BY <1>2, <1>3, <1>4, <2>2, OtherHears DEF m
    <3>2. link'[a] = link[a] /\ w[b] = Tail(wire[b]) /\ w[a] = wire[a]
      BY <1>1, <1>2, <1>5, <2>2
    <3>3. QED
      BY <3>1, <3>2 DEF Fine, b
  <2>3. QED
    BY <1>1, <2>1, <2>2
<1>7. Fine(a, link', Sent(w, e, r))
  BY <1>2, <1>6, SendingKeeps
<1>8. QED
  BY <1>2, <1>7 DEF Fine

\* Every step keeps the invariant, if only end a sends HELLOs of its own.
LEMMA StepKeeps ==
  ASSUME PairType, NEW a \in Ends, Initiates \subseteq {a},
         Fine(a, link, wire), [Next]_vars
  PROVE  Fine(a, link, wire)'
<1> DEFINE b == Other(a)
<1>1. b \in Ends /\ b # a /\ Ends = {a, b} /\ Other(b) = a
  BY TwoEnds
<1>2. PairInv(link[a], link[b], wire[a], wire[b])
  BY DEF Fine
<1>3. CASE ChannelGone
  <2>1. /\ link'[a] = Rules!EmptyLink /\ link'[b] = Rules!EmptyLink
        /\ wire'[a] = <<>> /\ wire'[b] = <<>>
    BY <1>1, <1>3 DEF ChannelGone
  <2>2. PairInv(Rules!EmptyLink, Rules!EmptyLink, <<>>, <<>>)
    BY NewRows, NothingUnderWay
  <2>3. QED
    BY <2>1, <2>2 DEF Fine
<1>4. ASSUME NEW e \in Ends, Poll(e)
      PROVE  Fine(a, link, wire)'
  <2>1. CASE SendHello(e)
    <3>1. e = a
      BY <2>1 DEF SendHello
    <3>2. QED
      BY <2>1, <3>1, HelloKeeps
  <2>2. CASE SendKeepalive(e)
    <3> DEFINE m == Message("keepalive", link[e].sid)
               w == Sent(wire, e, m)
    <3>1. /\ m \in Words /\ ~IsHello(m) /\ m.type # "none"
          /\ m.sid = link[e].sid
      BY KeepaliveTyped
    <3> HIDE DEF m
    <3>2. w \in [Ends -> Lines] /\ Fine(a, link, w)
      BY <3>1, SendingKeeps DEF PairType
    <3>3. Talks(e, w) /\ UNCHANGED link
      BY <2>2 DEF SendKeepalive, m
    <3> HIDE DEF w
    <3>4. Fine(a, link, wire')
      BY <3>2, <3>3, TalkingKeeps DEF PairType
    <3>5. QED
      BY <3>3, <3>4 DEF Fine
  <2>3. CASE NothingDue(e)
    <3>1. Talks(e, wire) /\ UNCHANGED link
      BY <2>3 DEF NothingDue
    <3>2. Fine(a, link, wire')
      BY <3>1, TalkingKeeps DEF PairType
    <3>3. QED
      BY <3>1, <3>2 DEF Fine
  <2>4. CASE TimeOut(e)
    BY <1>3, <2>4 DEF TimeOut
  <2>5. QED
    BY <1>4, <2>1, <2>2, <2>3, <2>4 DEF Poll
<1>5. ASSUME NEW e \in Ends, Receive(e)
      PROVE  Fine(a, link, wire)'
  BY <1>5, ReceiveKeeps
<1>6. ASSUME NEW e \in Ends, Replace(e)
      PROVE  Fine(a, link, wire)'
  <2>1. wire'[a] = <<>> /\ wire'[b] = <<>>
    BY <1>1, <1>6 DEF Replace
  <2>2. CASE e = a
    <3>1. link'[a] = link[a] /\ link'[b] = Rules!NewLink
      BY <1>1, <1>6, <2>2 DEF Replace, PairType
    <3>2. link[a].active => link[a].sid # NoSession
      BY <1>2 DEF PairInv
    <3>3. PairInv(link[a], Rules!NewLink, <<>>, <<>>)
      BY <3>2, NewRows, OtherIsNew
    <3>4. QED
      BY <2>1, <3>1, <3>3 DEF Fine
  <2>3. CASE e = b
    <3>1. link'[b] = link[b] /\ link'[a] = Rules!NewLink
      BY <1>1, <1>6, <2>3 DEF Replace, PairType
    <3>2. link[b].active => link[b].sid # NoSession
      BY <1>2 DEF PairInv
    <3>3. PairInv(Rules!NewLink, link[b], <<>>, <<>>)
      BY <3>2, NewRows, NothingUnderWay
    <3>4. QED
      BY <2>1, <3>1, <3>3 DEF Fine
  <2>4. QED
    BY <1>1, <2>2, <2>3
<1>7. CASE Open
  <2>1. link'[a] = Rules!NewLink /\ link'[b] = Rules!NewLink /\ wire' = wire
    BY <1>1, <1>7 DEF Open
  <2>2. PairInv(Rules!NewLink, Rules!NewLink, wire[a], wire[b])
    BY <1>2, NewRows DEF PairInv
  <2>3. QED
    BY <2>1, <2>2 DEF Fine
<1>8. CASE Close
  BY <1>3, <1>8 DEF Close
<1>9. CASE Tick
  <2>1. /\ link'[a].active = link[a].active /\ link'[a].sid = link[a].sid
        /\ link'[b].active = link[b].active /\ link'[b].sid = link[b].sid
    BY <1>1, <1>9, OlderRow DEF Tick, PairType
  <2>2. wire' = wire
    BY <1>9 DEF Tick
  <2>3. PairInv(link'[a], link'[b], wire[a], wire[b])
    BY <1>2, <2>1, SameSessions
  <2>4. QED
    BY <2>2, <2>3 DEF Fine
<1>10. CASE UNCHANGED vars
  BY <1>10 DEF vars, Fine
<1>11. QED
  BY <1>4, <1>5, <1>6, <1>7, <1>8, <1>9, <1>10 DEF Next

-----------------------------------------------------------------------------
(***************************************************************************)
(* The theorems.                                                           *)
(***************************************************************************)

LEMMA StartTyped ==
  ASSUME Init
  PROVE  PairType /\ \A a \in Ends : Fine(a, link, wire)
<1>1. PairType
  BY NewRows, NoWords, Bounds DEF Init, PairType
<1>2. ASSUME NEW a \in Ends PROVE Fine(a, link, wire)
  <2>1. Other(a) \in Ends
    BY TwoEnds
  <2>2. PairInv(Rules!NewLink, Rules!NewLink, <<>>, <<>>)
    BY NewRows, NothingUnderWay
  <2>3. QED
    BY <2>1, <2>2 DEF Init, Fine
<1>3. QED
  BY <1>1, <1>2

THEOREM TypeInvariance == Spec => []PairType
<1>1. Init => PairType
  BY StartTyped
<1>2. PairType /\ [Next]_vars => PairType'
  BY StepTyped
<1>3. QED
  BY <1>1, <1>2, PTL DEF Spec

\* TypeOK of SessionPair, whichever end initiates: a full queue takes no more
\* messages, and none is sent without a session id.
THEOREM TypeCorrect == Spec => []TypeOK
<1>1. PairType => TypeOK
  <2> SUFFICES ASSUME PairType PROVE TypeOK
    OBVIOUS
  <2>1. ASSUME NEW e \in Ends
        PROVE  /\ Len(wire[e]) <= QueueDepth
               /\ \A i \in DOMAIN wire[e] : wire[e][i] \in Msgs
    <3>1. wire[e] \in Lines
      BY DEF PairType
    <3>2. QED
      BY <3>1, LineType DEF Lines
  <2>2. QED
    BY <2>1 DEF TypeOK, PairType, Msgs, Kinds
<1>2. QED
  BY <1>1, TypeInvariance, PTL

\* QuietEndsAgree of SessionPair, if one end alone sends HELLOs of its own.
THEOREM EndsAgree ==
  ASSUME NEW a \in Ends, Initiates \subseteq {a}
  PROVE  Spec => []QuietEndsAgree
<1> DEFINE Inv == PairType /\ Fine(a, link, wire)
<1>1. Init => Inv
  BY StartTyped
<1>2. Inv /\ [Next]_vars => Inv'
  BY StepTyped, StepKeeps
<1>3. Inv => QuietEndsAgree
  <2> SUFFICES ASSUME Inv, \A e \in Ends : wire[e] = <<>> /\ link[e].active
               PROVE  Agreed
    BY DEF QuietEndsAgree
  <2> DEFINE b == Other(a)
  <2>1. b \in Ends /\ Ends = {a, b}
    BY TwoEnds
  <2>2. /\ PairInv(link[a], link[b], <<>>, <<>>)
        /\ link[a].active /\ link[b].active
    BY <2>1 DEF Fine
  <2>3. link[a].sid # NoSession /\ link[b].sid # NoSession
    BY <2>2 DEF PairInv
  <2>4. link[b].sid = link[a].sid
    <3>1. Heard(link[a], <<>>)
      BY <2>2 DEF Heard
    <3>2. Follows(link[a], link[b], <<>>)
      BY <2>2, <2>3, <3>1 DEF PairInv
    <3>3. DOMAIN <<>> = {}
      OBVIOUS
    <3>4. QED
      BY <2>3, <3>2, <3>3 DEF Follows
  <2>5. link[a].sid \in Sessions
    BY <2>3, LinkFields DEF PairType
  <2>6. QED
    BY <2>1, <2>2, <2>4, <2>5 DEF Agreed
<1>4. QED
  BY <1>1, <1>2, <1>3, PTL DEF Spec

=============================================================================
