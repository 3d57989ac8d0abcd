---------------------- MODULE DungeonUdpSessionProofs -----------------------
(***************************************************************************)
(* Proofs about the UDP endpoint of a dungeon (DungeonUdpSession): no      *)
(* state of a participant outlives its endpoint, inputs are applied once   *)
(* and in order across a wrap of the sequence number, for every width of   *)
(* the number, and the endpoint implements DungeonUdpManager.              *)
(***************************************************************************)
EXTENDS DungeonUdpSession, FiniteSetTheorems, WellFoundedInduction, TLAPS

-----------------------------------------------------------------------------
(* Induction and finite sets of places.                                    *)

\* A set of natural numbers that is not empty has a least element; the inductions
\* below are by the least counterexample.
LEMMA LeastNumber ==
    ASSUME NEW T \in SUBSET Nat, T # {}
    PROVE  \E x \in T : \A y \in T : x <= y
<1> DEFINE R == {ss \in Nat \X Nat : ss[1] < ss[2]}
<1>1. OpToRel(<, Nat) = R
  BY Zenon DEF OpToRel
<1>2. PICK x \in T : \A y \in T : ~(<<y, x>> \in R)
  BY <1>1, NatLessThanWellFounded, WFMin, ZenonT(40)
<1>3. ASSUME NEW y \in T
      PROVE  x <= y
  <2>1. ~(<<y, x>> \in R)
    BY <1>2
  <2>2. <<y, x>> \in Nat \X Nat /\ <<y, x>>[1] = y /\ <<y, x>>[2] = x
    OBVIOUS
  <2> QED
    BY <2>1, <2>2
<1> QED
  BY <1>3

\* f lists the places P from the lowest to the highest.
Lists(f, P) ==
    /\ f \in [1..Cardinality(P) -> P]
    /\ \A i, j \in 1..Cardinality(P) : i < j => f[i] < f[j]

\* Every finite set of places can be listed in order.
LEMMA PlacesListed ==
    ASSUME NEW n \in Nat, NEW P \in SUBSET (1..n)
    PROVE  IsFiniteSet(P) /\ \E f : Lists(f, P)
<1> DEFINE Bad == {m \in Nat : \E Q \in SUBSET (1..m) : ~(\E f : Lists(f, Q))}
<1>1. ASSUME NEW m \in Nat, NEW Q \in SUBSET (1..m)
      PROVE  IsFiniteSet(Q) /\ Cardinality(Q) \in Nat
  <2>1. IsFiniteSet(1..m)
    BY FS_Interval
  <2>2. IsFiniteSet(Q)
    BY <2>1, FS_Subset
  <2> QED
    BY <2>2, FS_CardinalityType
<1>2. SUFFICES ASSUME Bad # {}
               PROVE  FALSE
  BY <1>1
<1>3. PICK m \in Bad : \A y \in Bad : m <= y
  BY <1>2, LeastNumber
<1>4. PICK Q \in SUBSET (1..m) : ~(\E f : Lists(f, Q))
  BY <1>3
<1>5. CASE m \notin Q
  <2>1. m # 0
    <3>1. ASSUME m = 0 PROVE FALSE
      <4>1. Q = {}
        BY <3>1
      <4>2. 1..Cardinality(Q) = {}
        BY <4>1, FS_EmptySet
      <4>3. [i \in {} |-> 0] \in [1..Cardinality(Q) -> Q]
        BY <4>2
      <4>4. Lists([i \in {} |-> 0], Q)
        BY <4>2, <4>3 DEF Lists
      <4> QED BY <4>4, <1>4
    <3> QED BY <3>1
  <2>2. m - 1 \in Nat /\ Q \in SUBSET (1..(m - 1))
    BY <2>1, <1>5, <1>3
  <2>3. m - 1 \in Bad
    BY <2>2, <1>4
  <2> QED BY <2>3, <1>3
<1>6. CASE m \in Q
  <2>1. m - 1 \in Nat /\ Q \ {m} \in SUBSET (1..(m - 1)) /\ m - 1 \notin Bad
    BY <1>6, <1>3
  <2>2. PICK f : Lists(f, Q \ {m})
    BY <2>1
  <2> DEFINE c == Cardinality(Q \ {m})
             g == [i \in 1..(c + 1) |-> IF i = c + 1 THEN m ELSE f[i]]
  <2>3. c \in Nat /\ Cardinality(Q) = c + 1
    <3>1. IsFiniteSet(Q) /\ Cardinality(Q) \in Nat
      BY <1>1, <1>3, <1>4
    <3>2. c = Cardinality(Q) - 1
      BY <3>1, <1>6, FS_RemoveElement
    <3>3. c \in Nat
      BY <1>1, <2>1
    <3> QED BY <3>1, <3>2, <3>3
  <2> HIDE DEF c
  <2>4. /\ \A i \in 1..c : f[i] \in Q \ {m} /\ f[i] \in 1..(m - 1)
        /\ \A i, j \in 1..c : i < j => f[i] < f[j]
    BY <2>1, <2>2 DEF Lists, c
  <2>5. g \in [1..Cardinality(Q) -> Q]
    BY <2>3, <2>4, <1>6
  <2>6. \A i, j \in 1..(c + 1) : i < j => g[i] < g[j]
    <3> SUFFICES ASSUME NEW i \in 1..(c + 1), NEW j \in 1..(c + 1), i < j
                 PROVE  g[i] < g[j]
      OBVIOUS
    <3>1. i \in 1..c /\ g[i] = f[i]
      BY <2>3
    <3>2. CASE j = c + 1
      BY <3>1, <3>2, <2>4, <2>3, <1>3
    <3>3. CASE j # c + 1
      BY <3>1, <3>3, <2>3, <2>4
    <3> QED BY <3>2, <3>3
  <2>7. Lists(g, Q)
    BY <2>3, <2>5, <2>6 DEF Lists
  <2> QED BY <2>7, <1>4
<1> QED BY <1>5, <1>6
\* What WithoutInputsOf leaves of a queue: inputs of the others only, each where an
\* input of the old queue was, in the old order.
LEMMA OthersStay ==
    ASSUME NEW queue \in Seq(Input), NEW gone, NEW left, left = WithoutInputsOf(gone, queue)
    PROVE  /\ left \in Seq(Input)
           /\ \E f \in [DOMAIN left -> DOMAIN queue] :
                 /\ \A i \in DOMAIN left : left[i] = queue[f[i]] /\ left[i].session \notin gone
                 /\ \A i, j \in DOMAIN left : i < j => f[i] < f[j]
<1> DEFINE P == {i \in DOMAIN queue : queue[i].session \notin gone}
           place == InOrder(P)
<1>1. Len(queue) \in Nat /\ P \in SUBSET (1..Len(queue)) /\ DOMAIN queue = 1..Len(queue)
  OBVIOUS
<1>2. IsFiniteSet(P) /\ \E f : Lists(f, P)
  BY <1>1, PlacesListed
<1>3. Cardinality(P) \in Nat
  BY <1>2, FS_CardinalityType
<1>4. Lists(place, P)
  <2>1. \E f \in [1..Cardinality(P) -> P] : \A i, j \in DOMAIN f : i < j => f[i] < f[j]
    BY <1>2 DEF Lists
  <2>2. /\ place \in [1..Cardinality(P) -> P]
        /\ \A i, j \in DOMAIN place : i < j => place[i] < place[j]
    BY <2>1, Zenon DEF InOrder
  <2> HIDE DEF place
  <2> QED
    BY <2>2 DEF Lists
<1>5. left = [i \in DOMAIN place |-> queue[place[i]]]
  BY DEF WithoutInputsOf
<1> HIDE DEF place
<1>6. DOMAIN place = 1..Cardinality(P) /\ \A i \in DOMAIN place : place[i] \in P
  BY <1>4 DEF Lists
<1>7. \A i \in DOMAIN place : left[i] = queue[place[i]] /\ left[i] \in Input
  BY <1>1, <1>5, <1>6
<1>8. left \in Seq(Input) /\ DOMAIN left = DOMAIN place
  <2>1. DOMAIN left = 1..Cardinality(P) /\ left = [i \in 1..Cardinality(P) |-> left[i]]
    BY <1>5, <1>6
  <2>2. \A i \in 1..Cardinality(P) : left[i] \in Input
    BY <1>6, <1>7
  <2>3. left \in [1..Cardinality(P) -> Input]
    BY <2>1, <2>2
  <2> HIDE DEF P
  <2> QED
    BY <1>3, <1>6, <2>1, <2>3
<1>9. /\ place \in [DOMAIN left -> DOMAIN queue]
      /\ \A i \in DOMAIN left : left[i] = queue[place[i]] /\ left[i].session \notin gone
      /\ \A i, j \in DOMAIN left : i < j => place[i] < place[j]
  BY <1>4, <1>6, <1>7, <1>8 DEF Lists
<1> QED
  BY <1>8, <1>9

-----------------------------------------------------------------------------
(* The numbers on the wire.                                                *)

\* Division with remainder.
LEMMA Remainder ==
    ASSUME NEW a \in Int, NEW m \in Nat \ {0}
    PROVE  /\ a % m \in 0..(m - 1)
           /\ a \div m \in Int
           /\ a = m * (a \div m) + (a % m)
<1>1. a % m \in 0..(m - 1)
  OBVIOUS
<1>2. a \div m \in Int
  OBVIOUS
<1>3. a = m * (a \div m) + (a % m)
  OBVIOUS
<1> QED
  BY <1>1, <1>2, <1>3

\* The wrapped difference of two numbers that are closer than the modulus.
LEMMA SmallRemainder ==
    ASSUME NEW a \in Int, NEW m \in Nat \ {0}, -m < a, a < m
    PROVE  a % m = IF a >= 0 THEN a ELSE a + m
<1> DEFINE q == a \div m
           r == a % m
<1>1. r \in 0..(m - 1) /\ q \in Int /\ a = m * q + r
  BY Remainder
<1> HIDE DEF q, r
<1>2. ASSUME q >= 1
      PROVE  FALSE
  <2>1. m * q >= m
    BY <1>1, <1>2
  <2> QED
    BY <1>1, <2>1
<1>3. ASSUME q <= -2
      PROVE  FALSE
  <2>1. m * q <= (-2) * m
    BY <1>1, <1>3
  <2> QED
    BY <1>1, <2>1
<1>4. q = 0 \/ q = -1
  BY <1>1, <1>2, <1>3
<1>5. r = IF a >= 0 THEN a ELSE a + m
  BY <1>1, <1>4
<1> QED
  BY <1>5 DEF r

\* Two inputs of a client that are closer than half the range are told apart by their
\* wrapped numbers.
LEMMA NewerOnTheWire ==
    ASSUME NEW n \in Nat \ {0}, NEW a \in Nat \ {0},
           n - a <= HalfRange - 2, a - n <= HalfRange - 2
    PROVE  IsNewerSequence(OnWire(n), OnWire(a)) <=> n > a
  BY SMTT(40), Remainder, SmallRemainder, UdpSessionAssumption DEF IsNewerSequence, OnWire
-----------------------------------------------------------------------------
(* The inductive invariant.                                                *)

\* The recorded sequence number is that of the last input accepted.
SequencesRecorded ==
    \A k \in Kinds, s \in Sessions :
        lastSequences[k][s] = IF accepted[k][s] = 0 THEN None ELSE OnWire(accepted[k][s])

\* The client is ahead of the server by less than half the range.
InputsBehind ==
    \A k \in Kinds, s \in Sessions :
        /\ accepted[k][s] <= sent[k][s]
        /\ accepted[k][s] # 0 => sent[k][s] - accepted[k][s] <= HalfRange - 2

\* No input that waits is newer than the last one accepted from its sender.
PendingAccepted ==
    \A k \in Kinds : \A i \in DOMAIN pending[k] :
        pending[k][i].number <= accepted[k][pending[k][i].session]

UdpInv ==
    /\ UdpSessionTypeOK
    /\ ActivityTracksEndpoints
    /\ PendingFromAuthenticated
    /\ SequencesRecorded
    /\ InputsBehind
    /\ PendingAccepted
    /\ PendingInOrder

\* The number on the wire is never 0 and has the width of the counter.
LEMMA OnWireType ==
    ASSUME NEW n \in Nat \ {0}
    PROVE  OnWire(n) \in 1..(2 * HalfRange - 1)
<1>1. n - 1 \in Int /\ 2 * HalfRange - 1 \in Nat \ {0}
  BY UdpSessionAssumption
<1>2. (n - 1) % (2 * HalfRange - 1) \in 0..((2 * HalfRange - 1) - 1)
  BY <1>1, Remainder
<1> QED
  BY <1>1, <1>2 DEF OnWire

\* The types of what waits and of what was counted, spelt out.
LEMMA InputTypes ==
    ASSUME UdpSessionTypeOK
    PROVE  /\ \A k \in Kinds : pending[k] \in Seq(Input)
           /\ \A k \in Kinds : \A i \in DOMAIN pending[k] :
                 /\ i \in Nat \ {0} /\ pending[k][i] \in Input
                 /\ pending[k][i].session \in Sessions /\ pending[k][i].number \in Nat
           /\ \A k \in Kinds, s \in Sessions :
                 /\ accepted[k][s] \in Nat /\ sent[k][s] \in Nat
                 /\ accepted[k][s] <= MaxInput /\ sent[k][s] <= MaxInput
<1>1. \A k \in Kinds : pending[k] \in Seq(Input)
  BY DEF UdpSessionTypeOK
<1>2. ASSUME NEW k \in Kinds, NEW i \in DOMAIN pending[k]
      PROVE  i \in Nat \ {0} /\ pending[k][i] \in Input
  BY <1>1
<1>3. \A in \in Input : in.session \in Sessions /\ in.number \in Nat
  BY DEF Input
<1>4. ASSUME NEW k \in Kinds, NEW s \in Sessions
      PROVE  accepted[k][s] \in 0..MaxInput /\ sent[k][s] \in 0..MaxInput
  BY DEF UdpSessionTypeOK
<1> QED
  BY <1>1, <1>2, <1>3, <1>4, UdpSessionAssumption

\* The invariant makes the wrapped comparison exact.
LEMMA ExactlyNewer ==
    ASSUME UdpInv
    PROVE  AcceptsExactlyNewer
<1> SUFFICES ASSUME NEW k \in Kinds, NEW s \in Sessions, NEW number \in 1..MaxInput,
                    number \in (sent[k][s] - Window + 1)..sent[k][s]
             PROVE  Accepts(k, s, number) <=> HasQueueRoom(k) /\ number > accepted[k][s]
  BY DEF AcceptsExactlyNewer
<1>1. CASE accepted[k][s] = 0
  <2>1. number > accepted[k][s] /\ lastSequences[k][s] = None
    BY <1>1 DEF UdpInv, SequencesRecorded
  <2> QED
    BY <2>1 DEF Accepts
<1>2. CASE accepted[k][s] # 0
  <2>1. /\ sent[k][s] \in Nat /\ accepted[k][s] \in Nat \ {0}
        /\ accepted[k][s] <= sent[k][s]
        /\ sent[k][s] - accepted[k][s] <= HalfRange - 2
        /\ number \in Nat \ {0}
    BY <1>2 DEF UdpInv, UdpSessionTypeOK, InputsBehind
  <2>2. number - accepted[k][s] <= HalfRange - 2 /\ accepted[k][s] - number <= HalfRange - 2
    BY <2>1, UdpSessionAssumption
  <2>3. IsNewerSequence(OnWire(number), OnWire(accepted[k][s])) <=> number > accepted[k][s]
    BY <2>1, <2>2, NewerOnTheWire
  <2>4. lastSequences[k][s] = OnWire(accepted[k][s]) /\ OnWire(accepted[k][s]) # None
    BY <2>1, OnWireType, UdpSessionAssumption DEF UdpInv, SequencesRecorded
  <2> QED
    BY <2>3, <2>4 DEF Accepts
<1> QED
  BY <1>1, <1>2

\* Initially nobody is authenticated and nothing waits.
LEMMA UdpInvInit == UdpSessionInit => UdpInv
<1> SUFFICES ASSUME UdpSessionInit
             PROVE  UdpInv
  OBVIOUS
<1> USE UdpSessionAssumption DEF UdpSessionInit
<1>1. UdpSessionTypeOK
  <2>1. pending \in [Kinds -> Seq(Input)]
    OBVIOUS
  <2> QED
    BY <2>1 DEF UdpSessionTypeOK
<1>2. ActivityTracksEndpoints
  BY DEF ActivityTracksEndpoints
<1>3. PendingFromAuthenticated /\ PendingAccepted /\ PendingInOrder
  <2>1. \A k \in Kinds : DOMAIN pending[k] = {}
    OBVIOUS
  <2> QED
    BY <2>1 DEF PendingFromAuthenticated, PendingAccepted, PendingInOrder
<1>4. SequencesRecorded
  BY DEF SequencesRecorded
<1>5. InputsBehind
  BY DEF InputsBehind
<1> QED
  BY <1>1, <1>2, <1>3, <1>4, <1>5 DEF UdpInv

\* RemoveParticipantRuntimeState leaves nothing of the participants it removes, and
\* the others as they were; whoever loses its token must be among those removed.
LEMMA RemoveStep ==
    ASSUME UdpInv, NEW gone \in SUBSET Sessions, RemoveParticipantRuntimeState(gone),
           tokens' \in [Sessions -> Tokens \cup {None}],
           \A s \in Sessions \ gone : tokens'[s] = None => tokens[s] = None,
           sent' = sent
    PROVE  UdpInv'
<1> USE UdpSessionAssumption
<1>1. /\ endpoints' = [s \in Sessions |-> IF s \in gone THEN None ELSE endpoints[s]]
      /\ lastActivity' = [s \in Sessions |-> IF s \in gone THEN None ELSE lastActivity[s]]
      /\ lastSequences' = [k \in Kinds |-> [s \in Sessions |->
             IF s \in gone THEN None ELSE lastSequences[k][s]]]
      /\ pending' = [k \in Kinds |-> WithoutInputsOf(gone, pending[k])]
      /\ accepted' = [k \in Kinds |-> [s \in Sessions |->
             IF s \in gone THEN 0 ELSE accepted[k][s]]]
  BY Zenon DEF RemoveParticipantRuntimeState
<1>2. ASSUME NEW k \in Kinds
      PROVE  /\ pending'[k] \in Seq(Input)
             /\ \E f \in [DOMAIN pending'[k] -> DOMAIN pending[k]] :
                   /\ \A i \in DOMAIN pending'[k] :
                         pending'[k][i] = pending[k][f[i]] /\ pending'[k][i].session \notin gone
                   /\ \A i, j \in DOMAIN pending'[k] : i < j => f[i] < f[j]
  <2>1. pending[k] \in Seq(Input) /\ pending'[k] = WithoutInputsOf(gone, pending[k])
    BY <1>1 DEF UdpInv, UdpSessionTypeOK
  <2> QED
    BY <2>1, OthersStay
<1>3. \A k \in Kinds : \A i \in DOMAIN pending[k] : pending[k][i] \in Input
  BY DEF UdpInv, UdpSessionTypeOK
<1>4. UdpSessionTypeOK'
  <2>1. pending' \in [Kinds -> Seq(Input)]
    BY <1>1, <1>2
  <2>2. endpoints' \in [Sessions -> Addresses \cup {None}]
    BY <1>1 DEF UdpInv, UdpSessionTypeOK
  <2>3. lastActivity' \in [Sessions -> (0..IdleTimeout) \cup {None}]
    BY <1>1 DEF UdpInv, UdpSessionTypeOK
  <2>4. lastSequences' \in [Kinds -> [Sessions -> 0..(2 * HalfRange - 1) \cup {None}]]
    BY <1>1 DEF UdpInv, UdpSessionTypeOK
  <2>5. accepted' \in [Kinds -> [Sessions -> 0..MaxInput]]
    BY <1>1 DEF UdpInv, UdpSessionTypeOK
  <2> QED
    BY <2>1, <2>2, <2>3, <2>4, <2>5 DEF UdpInv, UdpSessionTypeOK
<1>5. ActivityTracksEndpoints'
  BY <1>1 DEF UdpInv, ActivityTracksEndpoints
<1>6. ASSUME NEW k \in Kinds, NEW i \in DOMAIN pending'[k]
      PROVE  /\ endpoints'[pending'[k][i].session] # None
             /\ pending'[k][i].number <= accepted'[k][pending'[k][i].session]
  <2>1. PICK j \in DOMAIN pending[k] :
            pending'[k][i] = pending[k][j] /\ pending'[k][i].session \notin gone
    BY <1>2
  <2>2. pending[k][j].session \in Sessions
    BY <1>3 DEF Input
  <2>3. /\ endpoints'[pending[k][j].session] = endpoints[pending[k][j].session]
        /\ accepted'[k][pending[k][j].session] = accepted[k][pending[k][j].session]
    BY <1>1, <2>1, <2>2
  <2> QED
    BY <2>1, <2>3 DEF UdpInv, PendingFromAuthenticated, PendingAccepted
<1>7. PendingInOrder'
  <2> SUFFICES ASSUME NEW k \in Kinds, NEW i \in DOMAIN pending'[k], NEW j \in DOMAIN pending'[k],
                      i < j, pending'[k][i].session = pending'[k][j].session
               PROVE  pending'[k][i].number < pending'[k][j].number
    BY DEF PendingInOrder
  <2>1. PICK f \in [DOMAIN pending'[k] -> DOMAIN pending[k]] :
            /\ \A x \in DOMAIN pending'[k] : pending'[k][x] = pending[k][f[x]]
            /\ \A x, y \in DOMAIN pending'[k] : x < y => f[x] < f[y]
    BY <1>2
  <2> QED
    BY <2>1 DEF UdpInv, PendingInOrder
<1>8. SequencesRecorded'
  BY <1>1 DEF UdpInv, SequencesRecorded, OnWire
<1>9. InputsBehind'
  BY <1>1 DEF UdpInv, UdpSessionTypeOK, InputsBehind
<1> QED
  BY <1>4, <1>5, <1>6, <1>7, <1>8, <1>9 DEF UdpInv, PendingFromAuthenticated, PendingAccepted
\* A datagram of a participant refreshes its activity; an input that is accepted is
\* newer than all that wait from the same sender.
LEMMA InputStep ==
    ASSUME UdpInv, NEW k \in Kinds, NEW s \in Sessions, NEW number \in 1..MaxInput,
           HandleInput(k, s, number)
    PROVE  UdpInv'
<1> USE UdpSessionAssumption
<1>1. /\ number \in Nat \ {0} /\ number <= sent[k][s] /\ number > sent[k][s] - Window
      /\ endpoints[s] # None
      /\ lastActivity' = [lastActivity EXCEPT ![s] = 0]
      /\ tokens' = tokens /\ endpoints' = endpoints /\ sent' = sent
  BY DEF HandleInput, Active, UdpInv, UdpSessionTypeOK
<1>2. ActivityTracksEndpoints' /\ lastActivity' \in [Sessions -> (0..IdleTimeout) \cup {None}]
  BY <1>1 DEF UdpInv, UdpSessionTypeOK, ActivityTracksEndpoints
<1>3. CASE ~Accepts(k, s, number)
  <2>1. lastSequences' = lastSequences /\ accepted' = accepted /\ pending' = pending
    BY <1>3 DEF HandleInput
  <2>2. UdpSessionTypeOK'
    BY <1>1, <1>2, <2>1 DEF UdpInv, UdpSessionTypeOK
  <2> QED
    BY <1>1, <1>2, <2>1, <2>2 DEF UdpInv, PendingFromAuthenticated, PendingAccepted,
       PendingInOrder, SequencesRecorded, InputsBehind, OnWire
<1>4. CASE Accepts(k, s, number)
  <2> DEFINE new == [session |-> s, number |-> number]
  <2>1. /\ lastSequences' = [lastSequences EXCEPT ![k][s] = OnWire(number)]
        /\ accepted' = [accepted EXCEPT ![k][s] = number]
        /\ pending' = [pending EXCEPT ![k] = Append(@, new)]
    BY <1>4 DEF HandleInput
  <2>2. number > accepted[k][s]
    <3>1. number \in (sent[k][s] - Window + 1)..sent[k][s]
      BY <1>1 DEF UdpInv, UdpSessionTypeOK
    <3> QED
      BY <3>1, <1>4, ExactlyNewer DEF AcceptsExactlyNewer
  <2>3. OnWire(number) \in 1..(2 * HalfRange - 1)
    BY <1>1, OnWireType
  <2>4. new \in Input /\ new.session = s /\ new.number = number
    BY DEF Input
  <2> HIDE DEF new
  <2>5. \A x \in Kinds : pending[x] \in Seq(Input)
    BY DEF UdpInv, UdpSessionTypeOK
  <2>6. /\ pending'[k] = Append(pending[k], new)
        /\ \A x \in Kinds \ {k} : pending'[x] = pending[x]
        /\ pending' \in [Kinds -> Seq(Input)]
    BY <2>1, <2>4, <2>5 DEF UdpInv, UdpSessionTypeOK
  <2>7. /\ DOMAIN pending'[k] = 1..(Len(pending[k]) + 1)
        /\ DOMAIN pending[k] = 1..Len(pending[k]) /\ Len(pending[k]) \in Nat
        /\ \A i \in DOMAIN pending[k] : pending'[k][i] = pending[k][i]
        /\ pending'[k][Len(pending[k]) + 1] = new
    BY <2>4, <2>5, <2>6
  <2>8. /\ lastSequences' \in [Kinds -> [Sessions -> 0..(2 * HalfRange - 1) \cup {None}]]
        /\ lastSequences'[k][s] = OnWire(number)
        /\ \A x \in Kinds, r \in Sessions : x # k \/ r # s => lastSequences'[x][r] = lastSequences[x][r]
    BY <2>1, <2>3 DEF UdpInv, UdpSessionTypeOK
  <2>9. /\ accepted' \in [Kinds -> [Sessions -> 0..MaxInput]]
        /\ accepted'[k][s] = number
        /\ \A x \in Kinds, r \in Sessions : x # k \/ r # s => accepted'[x][r] = accepted[x][r]
    BY <2>1 DEF UdpInv, UdpSessionTypeOK
  <2>10. UdpSessionTypeOK'
    BY <1>1, <1>2, <2>6, <2>8, <2>9 DEF UdpInv, UdpSessionTypeOK
  <2>11. SequencesRecorded'
    BY <1>1, <2>8, <2>9 DEF UdpInv, SequencesRecorded, OnWire
  <2>12. InputsBehind'
    <3> SUFFICES ASSUME NEW x \in Kinds, NEW r \in Sessions
                 PROVE  /\ accepted'[x][r] <= sent[x][r]
                        /\ accepted'[x][r] # 0 => sent[x][r] - accepted'[x][r] <= HalfRange - 2
      BY <1>1 DEF InputsBehind
    <3>1. CASE x = k /\ r = s
      BY <3>1, <1>1, <2>9, InputTypes DEF UdpInv
    <3>2. CASE x # k \/ r # s
      BY <3>2, <2>9 DEF UdpInv, InputsBehind
    <3> QED
      BY <3>1, <3>2
  <2>13. ASSUME NEW x \in Kinds, NEW i \in DOMAIN pending'[x]
         PROVE  /\ endpoints'[pending'[x][i].session] # None
                /\ pending'[x][i].number <= accepted'[x][pending'[x][i].session]
    <3>1. CASE x = k /\ i = Len(pending[k]) + 1
      BY <3>1, <1>1, <2>4, <2>7, <2>9
    <3>2. CASE ~(x = k /\ i = Len(pending[k]) + 1)
      <4>1. i \in DOMAIN pending[x] /\ pending'[x][i] = pending[x][i] /\ pending[x][i] \in Input
        BY <3>2, <2>5, <2>6, <2>7
      <4>2. /\ endpoints[pending[x][i].session] # None
            /\ pending[x][i].number <= accepted[x][pending[x][i].session]
        BY <4>1 DEF UdpInv, PendingFromAuthenticated, PendingAccepted
      <4>3. /\ pending[x][i].session \in Sessions /\ pending[x][i].number \in Nat
            /\ accepted[x][pending[x][i].session] \in Nat
            /\ accepted[x][pending[x][i].session] <= accepted'[x][pending[x][i].session]
        <5>1. pending[x][i].session \in Sessions /\ pending[x][i].number \in Nat
          BY <4>1, InputTypes DEF UdpInv
        <5>2. \A r \in Sessions : accepted[x][r] \in Nat /\ accepted[x][r] <= accepted'[x][r]
          BY <2>2, <2>9, InputTypes DEF UdpInv
        <5> QED
          BY <5>1, <5>2
      <4> QED
        BY <1>1, <2>9, <4>1, <4>2, <4>3
    <3> QED
      BY <3>1, <3>2
  <2>14. PendingInOrder'
    <3> SUFFICES ASSUME NEW x \in Kinds, NEW i \in DOMAIN pending'[x], NEW j \in DOMAIN pending'[x],
                        i < j, pending'[x][i].session = pending'[x][j].session
                 PROVE  pending'[x][i].number < pending'[x][j].number
      BY DEF PendingInOrder
    <3>1. i \in DOMAIN pending[x] /\ pending'[x][i] = pending[x][i]
      <4>1. CASE x = k
        BY <4>1, <2>7
      <4>2. CASE x # k
        BY <4>2, <2>6
      <4> QED
        BY <4>1, <4>2
    <3>2. CASE x = k /\ j = Len(pending[k]) + 1
      <4>1. /\ pending[x][i].session = s
            /\ pending[x][i].number <= accepted[x][s]
            /\ pending[x][i].number \in Nat /\ accepted[x][s] \in Nat
        BY <3>1, <3>2, <2>4, <2>7, InputTypes DEF UdpInv, PendingAccepted
      <4> QED
        BY <4>1, <3>1, <3>2, <2>2, <2>4, <2>7, <1>1
    <3>3. CASE ~(x = k /\ j = Len(pending[k]) + 1)
      <4>1. j \in DOMAIN pending[x] /\ pending'[x][j] = pending[x][j]
        BY <3>3, <2>5, <2>6, <2>7
      <4> QED
        BY <3>1, <4>1 DEF UdpInv, PendingInOrder
    <3> QED
      BY <3>2, <3>3
  <2> QED
    BY <1>2, <2>10, <2>11, <2>12, <2>13, <2>14 DEF UdpInv, PendingFromAuthenticated, PendingAccepted
<1> QED
  BY <1>3, <1>4

\* Every step keeps the invariant.
LEMMA UdpInvNext == UdpInv /\ [UdpSessionNext]_udpSessionVars => UdpInv'
<1> SUFFICES ASSUME UdpInv, [UdpSessionNext]_udpSessionVars
             PROVE  UdpInv'
  OBVIOUS
<1> USE UdpSessionAssumption
<1>1. ASSUME NEW s \in Sessions, DisconnectParticipant(s)
      PROVE  UdpInv'
  BY <1>1, RemoveStep DEF DisconnectParticipant, UdpInv, UdpSessionTypeOK
<1>2. ASSUME NEW s \in Sessions, RemoveParticipant(s)
      PROVE  UdpInv'
  <2>1. /\ tokens' = [tokens EXCEPT ![s] = None] /\ sent' = sent
        /\ RemoveParticipantRuntimeState({s})
    BY <1>2 DEF RemoveParticipant
  <2>2. /\ tokens' \in [Sessions -> Tokens \cup {None}]
        /\ \A r \in Sessions \ {s} : tokens'[r] = None => tokens[r] = None
    BY <2>1 DEF UdpInv, UdpSessionTypeOK
  <2> QED
    BY <2>1, <2>2, RemoveStep
<1>3. ASSUME NEW old \in Sessions, NEW new \in Sessions, NEW token \in Tokens,
             ReplaceParticipant(old, new, token)
      PROVE  UdpInv'
  <2>1. /\ tokens' = [tokens EXCEPT ![old] = None, ![new] = token] /\ sent' = sent
        /\ RemoveParticipantRuntimeState({old}) /\ old # new
    BY <1>3 DEF ReplaceParticipant
  <2>2. /\ tokens' \in [Sessions -> Tokens \cup {None}]
        /\ \A r \in Sessions \ {old} : tokens'[r] = None => tokens[r] = None
    BY <2>1 DEF UdpInv, UdpSessionTypeOK
  <2> QED
    BY <2>1, <2>2, RemoveStep
<1>4. CASE RemoveInactiveEndpoints
  BY <1>4, RemoveStep DEF RemoveInactiveEndpoints, UdpInv, UdpSessionTypeOK
<1>5. ASSUME tokens' = tokens, lastSequences' = lastSequences, pending' = pending,
             accepted' = accepted, sent' = sent,
             endpoints' \in [Sessions -> Addresses \cup {None}],
             lastActivity' \in [Sessions -> (0..IdleTimeout) \cup {None}],
             ActivityTracksEndpoints',
             \A s \in Sessions : endpoints[s] # None => endpoints'[s] # None
      PROVE  UdpInv'
  <2>1. PendingFromAuthenticated'
    BY <1>5, InputTypes DEF UdpInv, PendingFromAuthenticated
  <2> QED
    BY <1>5, <2>1 DEF UdpInv, UdpSessionTypeOK, PendingAccepted, PendingInOrder,
       SequencesRecorded, InputsBehind, OnWire
<1>6. CASE RefreshAllActivity
  BY <1>5, <1>6 DEF RefreshAllActivity, UdpInv, UdpSessionTypeOK, ActivityTracksEndpoints
<1>7. ASSUME NEW s \in Sessions, NEW token \in Tokens, NEW from \in Addresses,
             HandleHello(s, token, from)
      PROVE  UdpInv'
  <2>1. /\ endpoints' = [endpoints EXCEPT ![s] = from] /\ tokens[s] = token
        /\ lastActivity' = [lastActivity EXCEPT ![s] = 0]
        /\ UNCHANGED <<tokens, lastSequences, pending, sent, accepted>>
    BY <1>7 DEF HandleHello, CanAuthenticate, Active
  <2>2. ActivityTracksEndpoints'
    BY <2>1 DEF UdpInv, UdpSessionTypeOK, ActivityTracksEndpoints
  <2> QED
    BY <1>5, <2>1, <2>2 DEF UdpInv, UdpSessionTypeOK
<1>8. ASSUME NEW s \in Sessions, NEW from \in Addresses, HandleHeartbeat(s, from)
      PROVE  UdpInv'
  BY <1>5, <1>8 DEF HandleHeartbeat, Active, UdpInv, UdpSessionTypeOK, ActivityTracksEndpoints
<1>9. ASSUME NEW k \in Kinds, NEW s \in Sessions, SendInput(k, s)
      PROVE  UdpInv'
  <2>1. /\ sent' = [sent EXCEPT ![k][s] = @ + 1] /\ sent[k][s] < MaxInput
        /\ UNCHANGED <<tokens, endpoints, lastActivity, lastSequences, pending, accepted>>
        /\ sent[k][s] - accepted[k][s] < HalfRange - 2 \/ accepted[k][s] = 0
    BY <1>9 DEF SendInput, stateVars
  <2>2. /\ sent' \in [Kinds -> [Sessions -> 0..MaxInput]]
        /\ \A x \in Kinds, r \in Sessions :
              sent'[x][r] = IF x = k /\ r = s THEN sent[x][r] + 1 ELSE sent[x][r]
    <3>1. sent \in [Kinds -> [Sessions -> 0..MaxInput]] /\ sent[k][s] + 1 \in 0..MaxInput
      BY <2>1, InputTypes DEF UdpInv, UdpSessionTypeOK
    <3>2. sent' \in [Kinds -> [Sessions -> 0..MaxInput]]
      BY <2>1, <3>1
    <3>3. ASSUME NEW x \in Kinds, NEW r \in Sessions
          PROVE  sent'[x][r] = IF x = k /\ r = s THEN sent[x][r] + 1 ELSE sent[x][r]
      BY <2>1, <3>1
    <3> QED
      BY <3>2, <3>3
  <2>3. InputsBehind'
    BY SMTT(40), <2>1, <2>2 DEF UdpInv, UdpSessionTypeOK, InputsBehind
  <2>4. UdpSessionTypeOK'
    BY <2>1, <2>2 DEF UdpInv, UdpSessionTypeOK
  <2> QED
    BY <2>1, <2>3, <2>4 DEF UdpInv, PendingAccepted, PendingInOrder,
       SequencesRecorded, PendingFromAuthenticated, ActivityTracksEndpoints, OnWire
<1>10. ASSUME NEW k \in Kinds, NEW s \in Sessions, NEW number \in 1..MaxInput,
              HandleInput(k, s, number)
       PROVE  UdpInv'
  BY <1>10, InputStep
<1>11. ASSUME NEW k \in Kinds, TryPop(k)
       PROVE  UdpInv'
  <2>1. /\ pending[k] # <<>> /\ pending' = [pending EXCEPT ![k] = Tail(@)]
        /\ UNCHANGED <<tokens, endpoints, lastActivity, lastSequences, sent, accepted>>
    BY <1>11 DEF TryPop
  <2>2. \A x \in Kinds : pending[x] \in Seq(Input)
    BY DEF UdpInv, UdpSessionTypeOK
  <2>3. pending'[k] = Tail(pending[k]) /\ \A x \in Kinds \ {k} : pending'[x] = pending[x]
    BY <2>1 DEF UdpInv, UdpSessionTypeOK
  <2>4. /\ pending'[k] \in Seq(Input)
        /\ \A i \in DOMAIN pending'[k] : i + 1 \in DOMAIN pending[k] /\ pending'[k][i] = pending[k][i + 1]
        /\ DOMAIN pending'[k] \subseteq Int
    <3>1. /\ pending[k] \in Seq(Input) /\ pending[k] # <<>>
          /\ pending'[k] = Tail(pending[k])
      BY <2>1, <2>2, <2>3
    <3>2. /\ Tail(pending[k]) \in Seq(Input)
          /\ Len(Tail(pending[k])) = Len(pending[k]) - 1
          /\ \A i \in 1..(Len(pending[k]) - 1) : Tail(pending[k])[i] = pending[k][i + 1]
      BY <3>1
    <3> QED
      BY <3>1, <3>2
  <2>5. UdpSessionTypeOK'
    BY <2>1, <2>2, <2>3, <2>4 DEF UdpInv, UdpSessionTypeOK
  <2>6. PendingFromAuthenticated' /\ PendingAccepted'
    BY <2>1, <2>3, <2>4 DEF UdpInv, PendingFromAuthenticated, PendingAccepted
  <2>7. PendingInOrder'
    <3> SUFFICES ASSUME NEW x \in Kinds, NEW i \in DOMAIN pending'[x], NEW j \in DOMAIN pending'[x],
                        i < j, pending'[x][i].session = pending'[x][j].session
                 PROVE  pending'[x][i].number < pending'[x][j].number
      BY DEF PendingInOrder
    <3>1. CASE x = k
      <4>1. /\ i + 1 \in DOMAIN pending[k] /\ j + 1 \in DOMAIN pending[k] /\ i + 1 < j + 1
            /\ pending'[k][i] = pending[k][i + 1] /\ pending'[k][j] = pending[k][j + 1]
        BY <3>1, <2>4
      <4> QED
        BY <3>1, <4>1 DEF UdpInv, PendingInOrder
    <3>2. CASE x # k
      BY <3>2, <2>3 DEF UdpInv, PendingInOrder
    <3> QED
      BY <3>1, <3>2
  <2> QED
    BY <2>1, <2>5, <2>6, <2>7 DEF UdpInv, SequencesRecorded, InputsBehind, OnWire,
       ActivityTracksEndpoints
<1>12. CASE ElapseUdp
  BY <1>5, <1>12 DEF ElapseUdp, UdpInv, UdpSessionTypeOK, ActivityTracksEndpoints
<1>13. CASE UNCHANGED udpSessionVars
  BY <1>5, <1>13 DEF udpSessionVars, stateVars, UdpInv, UdpSessionTypeOK, ActivityTracksEndpoints
<1> QED
  BY <1>1, <1>2, <1>3, <1>4, <1>6, <1>7, <1>8, <1>9, <1>10, <1>11, <1>12, <1>13
     DEF UdpSessionNext

\* A step that adds no input and forgets only what it takes the endpoint from queues
\* nothing old.
LEMMA NothingQueued ==
    ASSUME UdpInv,
           \A k \in Kinds : Waiting(k)' \subseteq Waiting(k),
           \A k \in Kinds, s \in Sessions : accepted'[k][s] = accepted[k][s] \/ endpoints'[s] = None
    PROVE  QueuesOnlyNewer
  BY InputTypes DEF UdpInv, QueuesOnlyNewer

\* RemoveParticipantRuntimeState adds nothing to a queue and resets the sequences of
\* those whose endpoints it removes, and of nobody else.
LEMMA RemovalQueuesNothing ==
    ASSUME UdpInv, NEW gone \in SUBSET Sessions, RemoveParticipantRuntimeState(gone)
    PROVE  QueuesOnlyNewer
<1>1. /\ endpoints' = [s \in Sessions |-> IF s \in gone THEN None ELSE endpoints[s]]
      /\ pending' = [k \in Kinds |-> WithoutInputsOf(gone, pending[k])]
      /\ accepted' = [k \in Kinds |-> [s \in Sessions |->
             IF s \in gone THEN 0 ELSE accepted[k][s]]]
  BY Zenon DEF RemoveParticipantRuntimeState
<1>2. ASSUME NEW k \in Kinds
      PROVE  Waiting(k)' \subseteq Waiting(k)
  <2>1. pending[k] \in Seq(Input) /\ pending'[k] = WithoutInputsOf(gone, pending[k])
    BY <1>1 DEF UdpInv, UdpSessionTypeOK
  <2>2. \E f \in [DOMAIN pending'[k] -> DOMAIN pending[k]] :
            \A i \in DOMAIN pending'[k] : pending'[k][i] = pending[k][f[i]]
    BY <2>1, OthersStay
  <2> QED
    BY <2>2 DEF Waiting
<1>3. \A k \in Kinds, s \in Sessions : accepted'[k][s] = accepted[k][s] \/ endpoints'[s] = None
  BY <1>1
<1> QED
  BY <1>2, <1>3, NothingQueued

\* HandlePlayerMovement and HandlePlayerAttack queue an input only when it is newer
\* than all accepted from its sender.
LEMMA InputQueuesNewer ==
    ASSUME UdpInv, NEW k \in Kinds, NEW s \in Sessions, NEW number \in 1..MaxInput,
           HandleInput(k, s, number)
    PROVE  QueuesOnlyNewer
<1>1. CASE ~Accepts(k, s, number)
  <2>1. accepted' = accepted /\ pending' = pending
    BY <1>1 DEF HandleInput
  <2> QED
    BY <2>1, NothingQueued DEF Waiting
<1>2. CASE Accepts(k, s, number)
  <2> DEFINE new == [session |-> s, number |-> number]
  <2>1. /\ accepted' = [accepted EXCEPT ![k][s] = number]
        /\ pending' = [pending EXCEPT ![k] = Append(@, new)]
        /\ number \in 1..sent[k][s] /\ number > sent[k][s] - Window
    BY <1>2 DEF HandleInput
  <2>2. number > accepted[k][s]
    <3>1. number \in (sent[k][s] - Window + 1)..sent[k][s]
      BY <2>1, InputTypes, UdpSessionAssumption DEF UdpInv
    <3> QED
      BY <3>1, <1>2, ExactlyNewer DEF AcceptsExactlyNewer
  <2>3. new.session = s /\ new.number = number
    OBVIOUS
  <2> HIDE DEF new
  <2>4. /\ accepted'[k][s] = number
        /\ \A x \in Kinds, r \in Sessions : x # k \/ r # s => accepted'[x][r] = accepted[x][r]
    BY <2>1 DEF UdpInv, UdpSessionTypeOK
  <2>5. ASSUME NEW x \in Kinds, NEW input \in Waiting(x)' \ Waiting(x)
        PROVE  x = k /\ input = new
    <3>1. pending[k] \in Seq(Input) /\ \A y \in Kinds \ {k} : pending'[y] = pending[y]
      BY <2>1 DEF UdpInv, UdpSessionTypeOK
    <3>2. pending'[k] = Append(pending[k], new)
      BY <2>1 DEF UdpInv, UdpSessionTypeOK
    <3>3. CASE x # k
      BY <3>1, <3>3 DEF Waiting
    <3>4. CASE x = k
      <4>1. PICK i \in DOMAIN pending'[k] : input = pending'[k][i]
        BY <3>4 DEF Waiting
      <4>2. (i \in DOMAIN pending[k] /\ pending'[k][i] = pending[k][i]) \/ pending'[k][i] = new
        BY <3>1, <3>2, <4>1
      <4>3. input \notin Waiting(k)
        BY <3>4
      <4> QED
        BY <3>4, <4>1, <4>2, <4>3 DEF Waiting
    <3> QED
      BY <3>3, <3>4
  <2>6. ASSUME NEW x \in Kinds, NEW r \in Sessions
        PROVE  accepted[x][r] <= accepted'[x][r]
    BY <2>2, <2>4, InputTypes DEF UdpInv
  <2> QED
    BY <2>2, <2>3, <2>4, <2>5, <2>6, InputTypes DEF UdpInv, QueuesOnlyNewer
<1> QED
  BY <1>1, <1>2

\* No step queues an input that is not newer.
LEMMA QueueStep == UdpInv /\ [UdpSessionNext]_udpSessionVars => [QueuesOnlyNewer]_udpSessionVars
<1> SUFFICES ASSUME UdpInv, UdpSessionNext
             PROVE  QueuesOnlyNewer
  BY DEF udpSessionVars
<1>1. ASSUME NEW s \in Sessions, DisconnectParticipant(s) \/ RemoveParticipant(s)
      PROVE  QueuesOnlyNewer
  BY <1>1, RemovalQueuesNothing DEF DisconnectParticipant, RemoveParticipant
<1>2. ASSUME NEW old \in Sessions, NEW new \in Sessions, NEW token \in Tokens,
             ReplaceParticipant(old, new, token)
      PROVE  QueuesOnlyNewer
  BY <1>2, RemovalQueuesNothing DEF ReplaceParticipant
<1>3. CASE RemoveInactiveEndpoints
  BY <1>3, RemovalQueuesNothing DEF RemoveInactiveEndpoints
<1>4. ASSUME pending' = pending, accepted' = accepted
      PROVE  QueuesOnlyNewer
  BY <1>4, NothingQueued DEF Waiting
<1>5. CASE RefreshAllActivity \/ ElapseUdp
  BY <1>4, <1>5 DEF RefreshAllActivity, ElapseUdp
<1>6. ASSUME NEW s \in Sessions, NEW token \in Tokens, NEW from \in Addresses,
             HandleHello(s, token, from)
      PROVE  QueuesOnlyNewer
  BY <1>4, <1>6 DEF HandleHello
<1>7. ASSUME NEW s \in Sessions, NEW from \in Addresses, HandleHeartbeat(s, from)
      PROVE  QueuesOnlyNewer
  BY <1>4, <1>7 DEF HandleHeartbeat
<1>8. ASSUME NEW k \in Kinds, NEW s \in Sessions, SendInput(k, s)
      PROVE  QueuesOnlyNewer
  BY <1>4, <1>8 DEF SendInput, stateVars
<1>9. ASSUME NEW k \in Kinds, NEW s \in Sessions, NEW number \in 1..MaxInput,
             HandleInput(k, s, number)
      PROVE  QueuesOnlyNewer
  BY <1>9, InputQueuesNewer
<1>10. ASSUME NEW k \in Kinds, TryPop(k)
       PROVE  QueuesOnlyNewer
  <2>1. /\ pending[k] # <<>> /\ pending' = [pending EXCEPT ![k] = Tail(@)]
        /\ accepted' = accepted
    BY <1>10 DEF TryPop
  <2>2. ASSUME NEW x \in Kinds
        PROVE  Waiting(x)' \subseteq Waiting(x)
    <3>1. pending[x] \in Seq(Input)
      BY DEF UdpInv, UdpSessionTypeOK
    <3>2. CASE x # k
      <4>1. pending'[x] = pending[x]
        BY <3>2, <2>1 DEF UdpInv, UdpSessionTypeOK
      <4> QED
        BY <4>1 DEF Waiting
    <3>3. CASE x = k
      <4>1. pending'[k] = Tail(pending[k])
        BY <2>1 DEF UdpInv, UdpSessionTypeOK
      <4>2. ASSUME NEW i \in DOMAIN Tail(pending[k])
            PROVE  i + 1 \in DOMAIN pending[k] /\ Tail(pending[k])[i] = pending[k][i + 1]
        BY <2>1, <3>1, <3>3
      <4> QED
        BY <3>3, <4>1, <4>2 DEF Waiting
    <3> QED
      BY <3>2, <3>3
  <2> QED
    BY <2>1, <2>2, NothingQueued
<1> QED
  BY <1>1, <1>2, <1>3, <1>5, <1>6, <1>7, <1>8, <1>9, <1>10 DEF UdpSessionNext

-----------------------------------------------------------------------------
\* The invariant holds throughout.
LEMMA UdpInvariant == UdpSessionSpec => []UdpInv
  BY UdpInvInit, UdpInvNext, PTL DEF UdpSessionSpec

\* RemoveParticipantRuntimeStateLocked and the handlers of datagrams keep the maps in
\* step: at every moment lastActivity_ has exactly the authenticated participants,
\* all with a token, and the queues hold inputs of theirs only.
THEOREM RuntimeStateIsClean == UdpSessionSpec => []RuntimeStateClean
<1>1. UdpInv => RuntimeStateClean
  BY DEF UdpInv, RuntimeStateClean
<1> QED
  BY <1>1, UdpInvariant, PTL

\* For every width of the sequence number and every length of the queue, and within
\* one registration of an endpoint: an input is accepted exactly when it is newer than
\* all accepted before, across any number of wraps, only such inputs enter the queue,
\* and they wait in the order in which they were sent.
THEOREM InputsAppliedOnce == UdpSessionSpec => InputsOnceInOrder
<1>1. UdpInv => AcceptsExactlyNewer /\ PendingInOrder
  BY ExactlyNewer DEF UdpInv
<1>2. UdpInv /\ [UdpSessionNext]_udpSessionVars => [QueuesOnlyNewer]_udpSessionVars
  BY QueueStep
<1> QED
  BY <1>1, <1>2, UdpInvariant, PTL DEF UdpSessionSpec, InputsOnceInOrder
-----------------------------------------------------------------------------
(* The endpoint implements DungeonUdpManager.                              *)

Holders       == {s \in Sessions : tokens[s] # None}
Authenticated == {s \in Sessions : endpoints[s] # None}

\* What a step of DungeonUdpManager on its only dungeon does to the two sets.
LEMMA ManagerSteps ==
    /\ \A old, new \in Sessions :
          /\ old \in Holders /\ new \notin Holders
          /\ Holders' = (Holders \ {old}) \cup {new}
          /\ Authenticated' = Authenticated \ {old}
          => Manager!UdpNext
    /\ \A s \in Sessions :
          Holders' = Holders \ {s} /\ Authenticated' = Authenticated \ {s} => Manager!UdpNext
    /\ \A s \in Holders :
          Holders' = Holders /\ Authenticated' = Authenticated \cup {s} => Manager!UdpNext
    /\ \A idle \in SUBSET Sessions :
          Holders' = Holders /\ Authenticated' = Authenticated \ idle => Manager!UdpNext
    /\ Holders' = Holders /\ Authenticated' = Authenticated => UNCHANGED Manager!udpVars
<1>1. 1 \in Manager!DungeonIds
  BY DEF Manager!DungeonIds
<1>2. \A x, y : [<<x>> EXCEPT ![1] = y] = <<y>> /\ <<x>>[1] = x
  OBVIOUS
<1>3. ASSUME NEW old \in Sessions, NEW new \in Sessions,
             old \in Holders, new \notin Holders,
             Holders' = (Holders \ {old}) \cup {new},
             Authenticated' = Authenticated \ {old}
      PROVE  Manager!UdpNext
  <2>1. Manager!UdpReplaceParticipant(1, old, new)
    BY <1>2, <1>3 DEF Manager!UdpReplaceParticipant, Manager!UdpCanReplace, Holders, Authenticated
  <2> QED
    BY <1>1, <2>1 DEF Manager!UdpNext
<1>4. ASSUME NEW s \in Sessions, Holders' = Holders \ {s}, Authenticated' = Authenticated \ {s}
      PROVE  Manager!UdpNext
  <2>1. Manager!UdpRemoveParticipant(1, s)
    BY <1>2, <1>4 DEF Manager!UdpRemoveParticipant, Holders, Authenticated
  <2> QED
    BY <1>1, <2>1 DEF Manager!UdpNext
<1>5. ASSUME NEW s \in Holders, Holders' = Holders, Authenticated' = Authenticated \cup {s}
      PROVE  Manager!UdpNext
  <2>1. Manager!UdpHello(1, s)
    BY <1>2, <1>5 DEF Manager!UdpHello, Holders, Authenticated
  <2>2. s \in Sessions
    BY DEF Holders
  <2> QED
    BY <1>1, <2>1, <2>2 DEF Manager!UdpNext
<1>6. ASSUME NEW idle \in SUBSET Sessions, Holders' = Holders, Authenticated' = Authenticated \ idle
      PROVE  Manager!UdpNext
  <2>1. Manager!UdpRemoveInactive(1, idle)
    BY <1>2, <1>6 DEF Manager!UdpRemoveInactive, Holders, Authenticated
  <2> QED
    BY <1>1, <2>1 DEF Manager!UdpNext
<1>7. ASSUME Holders' = Holders, Authenticated' = Authenticated
      PROVE  UNCHANGED Manager!udpVars
  BY <1>7 DEF Manager!udpVars, Holders, Authenticated
<1> QED
  BY <1>3, <1>4, <1>5, <1>6, <1>7

\* Every step of the endpoint is a step of the manager, or invisible to it.
LEMMA ManagerStep ==
    UdpInv /\ [UdpSessionNext]_udpSessionVars => [Manager!UdpNext]_(Manager!udpVars)
<1> SUFFICES ASSUME UdpInv, [UdpSessionNext]_udpSessionVars
             PROVE  Manager!UdpNext \/ UNCHANGED Manager!udpVars
  OBVIOUS
<1> USE UdpSessionAssumption
<1>0. /\ tokens \in [Sessions -> Tokens \cup {None}]
      /\ endpoints \in [Sessions -> Addresses \cup {None}]
      /\ \A s \in Sessions : endpoints[s] # None => tokens[s] # None
  BY DEF UdpInv, UdpSessionTypeOK, ActivityTracksEndpoints
<1>a. ASSUME NEW gone \in SUBSET Sessions, RemoveParticipantRuntimeState(gone)
      PROVE  Authenticated' = Authenticated \ gone
  BY <1>a, <1>0 DEF RemoveParticipantRuntimeState, Authenticated
<1>b. ASSUME tokens' = tokens
      PROVE  Holders' = Holders
  BY <1>b DEF Holders
<1>c. ASSUME tokens' = tokens, endpoints' = endpoints
      PROVE  UNCHANGED Manager!udpVars
  <2>1. Holders' = Holders /\ Authenticated' = Authenticated
    BY <1>c DEF Holders, Authenticated
  <2> QED
    BY <2>1, ManagerSteps
<1>1. ASSUME NEW s \in Sessions, DisconnectParticipant(s)
      PROVE  Manager!UdpNext
  <2>1. Holders' = Holders /\ Authenticated' = Authenticated \ {s}
    BY <1>1, <1>a, <1>b DEF DisconnectParticipant
  <2>2. {s} \in SUBSET Sessions
    OBVIOUS
  <2> QED
    BY <2>1, <2>2, ManagerSteps
<1>2. ASSUME NEW s \in Sessions, RemoveParticipant(s)
      PROVE  Manager!UdpNext
  <2>1. Holders' = Holders \ {s}
    BY <1>2, <1>0 DEF RemoveParticipant, Holders
  <2>2. Authenticated' = Authenticated \ {s}
    BY <1>2, <1>a DEF RemoveParticipant
  <2> QED
    BY <2>1, <2>2, ManagerSteps
<1>3. ASSUME NEW old \in Sessions, NEW new \in Sessions, NEW token \in Tokens,
             ReplaceParticipant(old, new, token)
      PROVE  Manager!UdpNext
  <2>1. old \in Holders /\ new \notin Holders
    BY <1>3 DEF ReplaceParticipant, Holders
  <2>2. Holders' = (Holders \ {old}) \cup {new}
    BY <1>3, <1>0 DEF ReplaceParticipant, Holders
  <2>3. Authenticated' = Authenticated \ {old}
    BY <1>3, <1>a DEF ReplaceParticipant
  <2> QED
    BY <2>1, <2>2, <2>3, ManagerSteps
<1>4. CASE RemoveInactiveEndpoints
  <2> DEFINE idle == {s \in Sessions : lastActivity[s] = IdleTimeout}
  <2>1. Holders' = Holders /\ Authenticated' = Authenticated \ idle
    BY <1>4, <1>a, <1>b DEF RemoveInactiveEndpoints
  <2>2. idle \in SUBSET Sessions
    OBVIOUS
  <2> HIDE DEF idle
  <2> QED
    BY <2>1, <2>2, ManagerSteps
<1>5. ASSUME NEW s \in Sessions, NEW token \in Tokens, NEW from \in Addresses,
             HandleHello(s, token, from)
      PROVE  Manager!UdpNext
  <2>1. s \in Holders /\ Holders' = Holders
    BY <1>5, <1>b DEF HandleHello, CanAuthenticate, Holders
  <2>2. Authenticated' = Authenticated \cup {s}
    BY <1>5, <1>0 DEF HandleHello, Authenticated
  <2> QED
    BY <2>1, <2>2, ManagerSteps
<1>6. CASE RefreshAllActivity \/ ElapseUdp \/ UNCHANGED udpSessionVars
  BY <1>6, <1>c DEF RefreshAllActivity, ElapseUdp, udpSessionVars, stateVars
<1>7. ASSUME NEW s \in Sessions, NEW from \in Addresses, HandleHeartbeat(s, from)
      PROVE  UNCHANGED Manager!udpVars
  BY <1>7, <1>c DEF HandleHeartbeat
<1>8. ASSUME NEW k \in Kinds, NEW s \in Sessions, SendInput(k, s)
      PROVE  UNCHANGED Manager!udpVars
  BY <1>8, <1>c DEF SendInput, stateVars
<1>9. ASSUME NEW k \in Kinds, NEW s \in Sessions, NEW number \in 1..MaxInput,
             HandleInput(k, s, number)
      PROVE  UNCHANGED Manager!udpVars
  BY <1>9, <1>c DEF HandleInput
<1>10. ASSUME NEW k \in Kinds, TryPop(k)
       PROVE  UNCHANGED Manager!udpVars
  BY <1>10, <1>c DEF TryPop
<1> QED
  BY <1>1, <1>2, <1>3, <1>4, <1>5, <1>6, <1>7, <1>8, <1>9, <1>10 DEF UdpSessionNext

\* The rest of the server may take the endpoint for what DungeonUdpManager says of it:
\* seen through its token holders and authenticated participants, it takes only the
\* manager's steps, whatever datagrams arrive.
THEOREM EndpointImplementsManager == UdpSessionSpec => ImplementsManager
<1>1. UdpInv /\ [UdpSessionNext]_udpSessionVars => [Manager!UdpNext]_(Manager!udpVars)
  BY ManagerStep
<1> QED
  BY <1>1, UdpInvariant, PTL DEF UdpSessionSpec, ImplementsManager
=============================================================================
