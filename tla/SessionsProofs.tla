--------------------------- MODULE SessionsProofs ---------------------------
(***************************************************************************)
(* Proofs about the objects that own a socket.  First the TCP connections  *)
(* of both servers, for any limits, response sizes and number of packets:  *)
(* the invariant is a predicate on session records, so that it can be      *)
(* carried through the functions of the strand.  Then the snapshot pump of *)
(* a UDP session, for any set of endpoints and any number of snapshots.    *)
(***************************************************************************)
EXTENDS AuthTlsSession, SnapshotPump, TLAPS

\* A deadline none of whose callbacks has outlasted a further Start.
FreshDeadline == [armed : BOOLEAN, late : SUBSET {"current", "stale"}]

\* The records of Session whose deadlines are so.
FreshSession ==
    [server : {"game", "auth"}, started : BOOLEAN, closed : BOOLEAN, listed : BOOLEAN,
     identity : BOOLEAN, received : Nat, handshake : Operation, read : Operation,
     request : BOOLEAN, login : BOOLEAN, answer : BOOLEAN, authenticated : BOOLEAN,
     registered : BOOLEAN, queue : Seq(ResponseSizes), bytes : Nat, write : Operation,
     deadlines : [Kinds -> FreshDeadline]]

\* The deadline k of s will still close it.
Watched(s, k) == s.deadlines[k].armed \/ "current" \in s.deadlines[k].late

\* Before Start has run on the strand nothing of s is under way.
Unstarted(s) ==
    ~s.started => /\ s.handshake = "none" /\ s.read = "none" /\ s.write = "none"
                  /\ ~s.request /\ ~s.login /\ ~s.answer /\ ~s.authenticated /\ ~s.registered
                  /\ \A k \in Kinds : ~Watched(s, k)

\* A closed session is known to no manager, and the authentication server has none.
Forgotten(s) ==
    /\ s.closed => ~s.listed /\ ~s.identity
    /\ s.server = "auth" => ~s.listed /\ ~s.identity

\* Only the authentication server shakes hands, and nothing else happens meanwhile.
Shaking(s) ==
    /\ s.server = "game" => s.handshake = "none"
    /\ s.handshake # "none" => /\ s.read = "none" /\ ~s.login /\ ~s.answer /\ ~s.authenticated
                               /\ ~Watched(s, "auth")

\* A request of an open session is at its service or its answer waits for the strand.
Requested(s) == s.started /\ ~s.closed => (s.request <=> s.login \/ s.answer)

\* The login of s is still to come.
Outstanding(s) ==
    IF s.server = "game" THEN ~s.registered ELSE s.handshake = "none" /\ ~s.authenticated

\* While s is open a deadline runs exactly as long as what it is for.
Timed(s) ==
    s.started /\ ~s.closed =>
        /\ s.handshake = "waiting" => Watched(s, "handshake")
        /\ s.read = "waiting" => Watched(s, "read")
        /\ s.write = "waiting" => Watched(s, "write")
        /\ Outstanding(s) => Watched(s, "auth")
        /\ Watched(s, "handshake") => s.handshake # "none"
        /\ Watched(s, "read") => s.read # "none"
        /\ Watched(s, "write") => s.write # "none"
        /\ Watched(s, "auth") => Outstanding(s) \/ (s.server = "auth" /\ s.answer)

\* What holds of a record even while a handler works on it: enough to close the session.
Loose(s) ==
    /\ s \in FreshSession
    /\ Unstarted(s) /\ Forgotten(s) /\ Shaking(s)
    /\ ~(s.login /\ s.answer)

\* What holds of a record between any two functions of the strand, the write queue apart.
Steady(s) == Loose(s) /\ Requested(s) /\ Timed(s)

\* An open session is shaking hands, reading or answering.
Engaged(s) ==
    s.started /\ ~s.closed => s.handshake # "none" \/ s.read # "none" \/ s.login \/ s.answer

\* The bytes of the queue are accounted for, within the limits; a witness of AddsUpTo that
\* is known to increase.
Accounted(s) ==
    /\ \E sum \in [0..Len(s.queue) -> Nat] :
          /\ sum[0] = 0 /\ sum[Len(s.queue)] = s.bytes
          /\ \A i \in 1..Len(s.queue) : sum[i] = sum[i - 1] + s.queue[i]
          /\ \A i, j \in 0..Len(s.queue) : i <= j => sum[i] <= sum[j]
    /\ s.bytes <= MaxPendingWriteBytes
    /\ Len(s.queue) <= MaxPendingWriteMessages

\* There is something to write while a write is under way, and the other way round.
Writing(s) ==
    /\ s.write # "none" => s.queue # <<>>
    /\ ~s.closed /\ s.queue # <<>> => s.write # "none"

\* What s has to write is left alone on the way to t.
SameWrites(s, t) ==
    /\ t.queue = s.queue /\ t.bytes = s.bytes
    /\ t.write = "none" <=> s.write = "none"
    /\ s.closed => t.closed

Good(s) == Steady(s) /\ Engaged(s) /\ Accounted(s) /\ Writing(s)

SessionsInv == Good(session) /\ arrived \in 0..MaxPackets
-----------------------------------------------------------------------------
(* The functions of the strand.                                            *)

\* Start of a deadline: it watches the session, and the other deadlines do as before.
LEMMA ArmKeeps ==
    ASSUME NEW s \in FreshSession, NEW k \in Kinds
    PROVE  /\ Arm(s, k) \in FreshSession
           /\ Watched(Arm(s, k), k)
           /\ \A j \in Kinds \ {k} : Watched(Arm(s, k), j) <=> Watched(s, j)
<1> USE DEF Arm, Armed, Superseded, Outlasting, Watched, FreshSession, FreshDeadline
<1>1. Arm(s, k) \in FreshSession
  OBVIOUS
<1>2. Watched(Arm(s, k), k)
  OBVIOUS
<1>3. \A j \in Kinds \ {k} : Watched(Arm(s, k), j) <=> Watched(s, j)
  OBVIOUS
<1> QED  BY <1>1, <1>2, <1>3

\* Cancel of a deadline: it no longer watches the session, the others do as before.
LEMMA DisarmKeeps ==
    ASSUME NEW s \in FreshSession, NEW k \in Kinds
    PROVE  /\ Disarm(s, k) \in FreshSession
           /\ ~Watched(Disarm(s, k), k)
           /\ \A j \in Kinds \ {k} : Watched(Disarm(s, k), j) <=> Watched(s, j)
<1> USE DEF Disarm, Cancelled, Superseded, Watched, FreshSession, FreshDeadline
<1>1. Disarm(s, k) \in FreshSession
  OBVIOUS
<1>2. ~Watched(Disarm(s, k), k)
  OBVIOUS
<1>3. \A j \in Kinds \ {k} : Watched(Disarm(s, k), j) <=> Watched(s, j)
  OBVIOUS
<1> QED  BY <1>1, <1>2, <1>3

\* CloseOnStrand and Close end every deadline and operation and touch no queue.
LEMMA CloseKeeps ==
    ASSUME NEW s, Loose(s),
           NEW t, \/ s.server = "game" /\ t = CloseOnStrand(s)
                  \/ s.server = "auth" /\ t = Close(s)
    PROVE  Steady(t) /\ Engaged(t) /\ SameWrites(s, t) /\ t.closed
<1> USE DEF Steady, Loose, Engaged, SameWrites
<1>1. CASE s.closed
  BY <1>1 DEF CloseOnStrand, Close, Requested, Timed
<1>2. CASE ~s.closed
  <2> DEFINE ended == [k \in Kinds |-> Cancelled(s.deadlines[k])]
  <2>1. t = IF s.server = "game"
            THEN [s EXCEPT !.closed = TRUE, !.listed = FALSE, !.identity = FALSE,
                           !.deadlines = ended,
                           !.read = Aborted(s.read), !.write = Aborted(s.write)]
            ELSE [s EXCEPT !.closed = TRUE, !.deadlines = ended,
                           !.handshake = Aborted(s.handshake),
                           !.read = Aborted(s.read), !.write = Aborted(s.write)]
    BY <1>2 DEF CloseOnStrand, Close
  <2>2. /\ ended \in [Kinds -> FreshDeadline]
        /\ \A k \in Kinds : ~ended[k].armed /\ "current" \notin ended[k].late
    BY DEF FreshSession, FreshDeadline, Cancelled, Superseded
  <2> HIDE DEF ended
  <2>3. t \in FreshSession /\ t.deadlines = ended
    <3>1. \A o \in Operation : Aborted(o) \in Operation
      BY DEF Operation, Aborted
    <3>2. t \in FreshSession
      BY <2>1, <2>2, <3>1 DEF FreshSession
    <3>3. t.deadlines = ended
      BY <2>1 DEF FreshSession
    <3> QED  BY <3>2, <3>3
  <2>4. \A k \in Kinds : ~Watched(t, k)
    BY <2>2, <2>3 DEF Watched
  <2>5. /\ t.closed /\ t.queue = s.queue /\ t.bytes = s.bytes
        /\ t.write = "none" <=> s.write = "none"
    BY <2>1 DEF FreshSession, Aborted
  <2>6. Unstarted(t)
    BY <2>1, <2>4 DEF Unstarted, FreshSession, Aborted
  <2>7. Forgotten(t)
    BY <2>1 DEF Forgotten, FreshSession
  <2>8. Shaking(t)
    BY <2>1, <2>4 DEF Shaking, FreshSession, Kinds, Aborted
  <2>9. Requested(t) /\ ~(t.login /\ t.answer)
    BY <2>1 DEF Requested, FreshSession
  <2>10. Timed(t)
    BY <2>5 DEF Timed
  <2> QED  BY <2>3, <2>5, <2>6, <2>7, <2>8, <2>9, <2>10
<1> QED  BY <1>1, <1>2

\* StartRead, of a session that is not shaking hands.
LEMMA StartReadKeeps ==
    ASSUME NEW s, Steady(s), s.started, s.handshake = "none"
    PROVE  Steady(StartRead(s)) /\ Engaged(StartRead(s)) /\ SameWrites(s, StartRead(s))
<1> DEFINE t == StartRead(s)
<1>1. CASE s.closed
  BY <1>1 DEF StartRead, Engaged, SameWrites
<1>2. CASE ~s.closed
  <2> USE <1>2 DEF Steady, Loose
  <2>1. /\ t \in FreshSession
        /\ Watched(t, "read")
        /\ \A j \in Kinds \ {"read"} : Watched(t, j) <=> Watched(s, j)
    <3>1. /\ Arm(s, "read") \in FreshSession /\ Watched(Arm(s, "read"), "read")
          /\ \A j \in Kinds \ {"read"} : Watched(Arm(s, "read"), j) <=> Watched(s, j)
      BY ArmKeeps DEF Kinds
    <3> QED  BY <3>1 DEF StartRead, Watched, FreshSession, Operation
  <2>2. t.read = "waiting" /\ t = [s EXCEPT !.deadlines = t.deadlines, !.read = "waiting"]
    BY <2>1 DEF StartRead, Arm, FreshSession
  <2>3. Unstarted(t)
    BY <2>2 DEF Unstarted, FreshSession
  <2>4. Forgotten(t)
    BY <2>2 DEF Forgotten, FreshSession
  <2>5. Shaking(t)
    BY <2>2 DEF Shaking, FreshSession
  <2>6. Requested(t) /\ ~(t.login /\ t.answer)
    BY <2>2 DEF Requested, FreshSession
  <2>7. Timed(t)
    BY <2>1, <2>2 DEF Timed, Outstanding, FreshSession, Kinds
  <2>8. Engaged(t) /\ SameWrites(s, t)
    BY <2>2 DEF Engaged, SameWrites, FreshSession
  <2> QED  BY <2>1, <2>3, <2>4, <2>5, <2>6, <2>7, <2>8
<1> QED  BY <1>1, <1>2

\* The bytes received concern nothing else.
LEMMA ReceivedApart ==
    ASSUME NEW s, Steady(s), NEW n \in Int, s.received + n \in Nat
    PROVE  LET t == [s EXCEPT !.received = @ + n]
           IN  /\ Steady(t) /\ SameWrites(s, t)
               /\ t.server = s.server /\ t.started = s.started /\ t.handshake = s.handshake
<1> DEFINE t == [s EXCEPT !.received = @ + n]
<1>1. t \in FreshSession
  BY DEF Steady, Loose, FreshSession
<1>2. \A k \in Kinds : Watched(t, k) <=> Watched(s, k)
  BY DEF Watched, Steady, Loose, FreshSession
<1>3. Unstarted(t) /\ Forgotten(t) /\ Shaking(t) /\ Requested(t) /\ ~(t.login /\ t.answer)
  BY <1>2 DEF Steady, Loose, FreshSession, Unstarted, Forgotten, Shaking, Requested, Kinds
<1>4. Timed(t)
  BY <1>2 DEF Steady, Loose, FreshSession, Timed, Outstanding, Kinds
<1>5. /\ SameWrites(s, t) /\ t.server = s.server /\ t.started = s.started
      /\ t.handshake = s.handshake
  BY DEF Steady, Loose, FreshSession, SameWrites
<1> QED  BY <1>1, <1>3, <1>4, <1>5 DEF Steady, Loose

\* DispatchNextPacket of either server: the session is closed, reads on or takes up a request.
LEMMA DispatchKeeps ==
    ASSUME NEW s, Steady(s), s.started, s.handshake = "none",
           NEW t, \/ s.server = "game" /\ t \in DispatchNextPacket(s)
                  \/ s.server = "auth" /\ t \in DispatchNextRequest(s)
    PROVE  Steady(t) /\ Engaged(t) /\ SameWrites(s, t)
<1> USE DEF DispatchNextPacket, DispatchNextRequest
<1>1. CASE s.closed \/ s.request
  <2>1. t = s
    BY <1>1
  <2> QED  BY <1>1, <2>1 DEF Steady, Loose, Requested, Engaged, SameWrites
<1>2. CASE ~s.closed /\ ~s.request /\ s.received = 0
  BY <1>2, StartReadKeeps
<1>3. CASE ~s.closed /\ ~s.request /\ s.received # 0
  <2> DEFINE r == [s EXCEPT !.received = @ - 1]
  <2>1. Steady(r) /\ SameWrites(s, r) /\ r.server = s.server
    <3>1. r = [s EXCEPT !.received = @ + (-1)] /\ s.received + (-1) \in Nat
      BY <1>3 DEF Steady, Loose, FreshSession
    <3> QED  BY <3>1, ReceivedApart
  <2>2. CASE t = CloseOnStrand(r) /\ s.server = "game"
    BY ZenonT(60), <2>1, <2>2, CloseKeeps DEF SameWrites, Steady
  <2>3. CASE t = Close(r) /\ s.server = "auth"
    BY ZenonT(60), <2>1, <2>3, CloseKeeps DEF SameWrites, Steady
  <2>4. CASE \/ t = [r EXCEPT !.request = TRUE, !.answer = TRUE] /\ s.server = "game"
             \/ t = [r EXCEPT !.request = TRUE, !.login = TRUE]
    <3>1. t \in FreshSession /\ t.request /\ (t.login \/ t.answer) /\ ~(t.login /\ t.answer)
      <4>1. r \in FreshSession /\ ~r.login /\ ~r.answer
        BY <1>3, <2>1 DEF Steady, Loose, FreshSession, Requested
      <4> HIDE DEF r
      <4>2. CASE t = [r EXCEPT !.request = TRUE, !.answer = TRUE]
        BY <4>1, <4>2 DEF FreshSession
      <4>3. CASE t = [r EXCEPT !.request = TRUE, !.login = TRUE]
        BY <4>1, <4>3 DEF FreshSession
      <4> QED  BY <2>4, <4>2, <4>3
    <3>2. /\ \A k \in Kinds : Watched(t, k) <=> Watched(s, k)
          /\ t.server = s.server /\ t.started /\ t.closed = s.closed /\ t.handshake = "none"
          /\ t.read = s.read /\ t.write = s.write /\ t.registered = s.registered
          /\ t.authenticated = s.authenticated /\ t.queue = s.queue /\ t.bytes = s.bytes
          /\ t.listed = s.listed /\ t.identity = s.identity
      <4>1. CASE t = [r EXCEPT !.request = TRUE, !.answer = TRUE]
        BY <4>1 DEF Watched, Steady, Loose, FreshSession
      <4>2. CASE t = [r EXCEPT !.request = TRUE, !.login = TRUE]
        BY <4>2 DEF Watched, Steady, Loose, FreshSession
      <4> QED  BY <2>4, <4>1, <4>2
    <3>3. s.server = "auth" => ~s.answer
      BY <1>3 DEF Steady, Loose, Requested
    <3>4. Timed(t)
      BY <1>3, <3>2, <3>3 DEF Steady, Loose, Timed, Outstanding, Kinds
    <3>5. Unstarted(t) /\ Forgotten(t) /\ Shaking(t) /\ Requested(t)
      BY <3>1, <3>2 DEF Steady, Loose, Unstarted, Forgotten, Shaking, Requested
    <3> QED  BY <3>1, <3>2, <3>4, <3>5 DEF Steady, Loose, Engaged, SameWrites
  <2> QED  BY <1>3, <2>2, <2>3, <2>4
<1> QED  BY <1>1, <1>2, <1>3

-----------------------------------------------------------------------------
(* The write queue.                                                        *)

\* The unsigned subtraction of QueueWrite does not wrap once the size was compared.
LEMMA RoomIsRoom ==
    ASSUME NEW s \in FreshSession, NEW size \in ResponseSizes, HasWriteRoom(s, size)
    PROVE  s.bytes + size <= MaxPendingWriteBytes /\ Len(s.queue) + 1 <= MaxPendingWriteMessages
<1>1. \A x, m \in Nat : x < m => x % m = x
  OBVIOUS
<1>2. MaxPendingWriteBytes - size \in Nat /\ MaxPendingWriteBytes - size < SizeModulus
  BY TcpAssumption DEF HasWriteRoom
<1>3. (MaxPendingWriteBytes - size) % SizeModulus = MaxPendingWriteBytes - size
  BY <1>1, <1>2, TcpAssumption
<1>4. s.bytes \in Nat /\ Len(s.queue) \in Nat
  BY DEF FreshSession
<1> QED  BY <1>3, <1>4, TcpAssumption DEF HasWriteRoom

\* The accounts only look at the queue and its bytes.
LEMMA AccountedAlike ==
    ASSUME NEW s, NEW t, t.queue = s.queue, t.bytes = s.bytes, Accounted(s)
    PROVE  Accounted(t)
BY DEF Accounted

\* A message that fits keeps the queue accounted for.
LEMMA AppendAccounted ==
    ASSUME NEW s \in FreshSession, Accounted(s), NEW size \in ResponseSizes, HasWriteRoom(s, size)
    PROVE  Accounted([s EXCEPT !.queue = Append(@, size), !.bytes = @ + size])
<1> DEFINE q == s.queue
           t == [s EXCEPT !.queue = Append(@, size), !.bytes = @ + size]
<1>1. q \in Seq(ResponseSizes) /\ Len(q) \in Nat /\ s.bytes \in Nat /\ size \in Nat
  BY TcpAssumption DEF FreshSession
<1>2. t.queue = Append(q, size) /\ t.bytes = s.bytes + size
  BY DEF FreshSession
<1>3. PICK sum \in [0..Len(q) -> Nat] :
          /\ sum[0] = 0 /\ sum[Len(q)] = s.bytes
          /\ \A i \in 1..Len(q) : sum[i] = sum[i - 1] + q[i]
          /\ \A i, j \in 0..Len(q) : i <= j => sum[i] <= sum[j]
  BY DEF Accounted
<1> DEFINE more == [i \in 0..Len(q) + 1 |-> IF i = Len(q) + 1 THEN s.bytes + size ELSE sum[i]]
           new == Append(q, size)
<1>4. /\ Len(new) = Len(q) + 1 /\ new[Len(q) + 1] = size
      /\ \A i \in 1..Len(q) : new[i] = q[i]
  BY <1>1
<1>5. more \in [0..Len(q) + 1 -> Nat] /\ more[0] = 0 /\ more[Len(q) + 1] = s.bytes + size
  BY <1>1, <1>3
<1>6. \A i \in 0..Len(q) : more[i] = sum[i]
  BY <1>1
<1> HIDE DEF more, new, q
<1>7. \A i \in 1..Len(q) + 1 : more[i] = more[i - 1] + new[i]
  <2>1. TAKE i \in 1..Len(q) + 1
  <2>2. CASE i \in 1..Len(q)
    BY <1>1, <1>3, <1>4, <1>6, <2>2
  <2>3. CASE i = Len(q) + 1
    BY <1>1, <1>3, <1>4, <1>5, <1>6, <2>3
  <2> QED  BY <1>1, <2>2, <2>3
<1>8. \A i, j \in 0..Len(q) + 1 : i <= j => more[i] <= more[j]
  <2>1. \A i \in 0..Len(q) : more[i] \in Nat /\ more[i] <= s.bytes
    BY <1>1, <1>3, <1>6
  <2>2. TAKE i, j \in 0..Len(q) + 1
  <2>3. CASE j \in 0..Len(q)
    BY <1>1, <1>3, <1>6, <2>3
  <2>4. CASE j = Len(q) + 1
    BY SMTT(40), <1>1, <1>5, <2>1, <2>4
  <2> QED  BY <1>1, <2>3, <2>4
<1>9. s.bytes + size <= MaxPendingWriteBytes /\ Len(q) + 1 <= MaxPendingWriteMessages
  BY RoomIsRoom DEF q
<1>10. t.queue = new /\ t.bytes = s.bytes + size
  BY <1>2 DEF new, q
<1> HIDE DEF t
<1>11. Accounted(t)
  BY <1>4, <1>5, <1>7, <1>8, <1>9, <1>10 DEF Accounted
<1> QED  BY <1>11 DEF t

\* The message that was written leaves the queue with its bytes.
LEMMA TailAccounted ==
    ASSUME NEW s \in FreshSession, Accounted(s), s.queue # <<>>
    PROVE  /\ Accounted([s EXCEPT !.bytes = @ - Head(s.queue), !.queue = Tail(@)])
           /\ s.bytes - Head(s.queue) \in Nat /\ Tail(s.queue) \in Seq(ResponseSizes)
<1> DEFINE q == s.queue
           new == Tail(q)
           t == [s EXCEPT !.bytes = @ - Head(s.queue), !.queue = Tail(@)]
<1>1. q \in Seq(ResponseSizes) /\ q # <<>> /\ s.bytes \in Nat
  BY DEF FreshSession
<1>2. t.queue = new /\ t.bytes = s.bytes - q[1]
  BY <1>1 DEF FreshSession
<1>3. PICK sum \in [0..Len(q) -> Nat] :
          /\ sum[0] = 0 /\ sum[Len(q)] = s.bytes
          /\ \A i \in 1..Len(q) : sum[i] = sum[i - 1] + q[i]
          /\ \A i, j \in 0..Len(q) : i <= j => sum[i] <= sum[j]
  BY DEF Accounted
<1>4. /\ Len(q) \in Nat \ {0} /\ Len(new) = Len(q) - 1 /\ Head(q) = q[1]
      /\ \A i \in 1..Len(q) - 1 : new[i] = q[i + 1]
      /\ new \in Seq(ResponseSizes) /\ \A i \in 1..Len(q) : q[i] \in Nat
  <2> HIDE DEF q
  <2>1. Len(q) \in Nat \ {0} /\ Len(new) = Len(q) - 1 /\ Head(q) = q[1]
    BY <1>1
  <2>2. \A i \in 1..Len(q) - 1 : new[i] = q[i + 1]
    BY <1>1
  <2>3. new \in Seq(ResponseSizes)
    BY <1>1
  <2>4. \A i \in 1..Len(q) : q[i] \in Nat
    <3>1. \A i \in 1..Len(q) : q[i] \in ResponseSizes
      BY <1>1
    <3> QED  BY <3>1, TcpAssumption
  <2> QED  BY <2>1, <2>2, <2>3, <2>4
<1> DEFINE rest == [i \in 0..Len(q) - 1 |-> sum[i + 1] - q[1]]
<1>5. sum[1] = q[1]
  BY <1>3, <1>4
<1>6. \A i \in 0..Len(q) - 1 : rest[i] = sum[i + 1] - q[1] /\ rest[i] \in Nat
  <2> HIDE DEF q
  <2>1. \A i \in 0..Len(q) - 1 : rest[i] = sum[i + 1] - q[1]
    OBVIOUS
  <2>2. \A i \in 0..Len(q) - 1 : sum[i + 1] \in Nat /\ sum[1] <= sum[i + 1]
    BY <1>3, <1>4
  <2>3. q[1] \in Nat
    BY <1>4
  <2> QED  BY <1>5, <2>1, <2>2, <2>3
<1>7. rest \in [0..Len(q) - 1 -> Nat] /\ rest[0] = 0 /\ rest[Len(q) - 1] = s.bytes - q[1]
  BY <1>3, <1>4, <1>5, <1>6
<1> HIDE DEF rest, new, q
<1>8. \A i \in 1..Len(q) - 1 : rest[i] = rest[i - 1] + new[i]
  <2>1. TAKE i \in 1..Len(q) - 1
  <2>2. rest[i] = sum[i + 1] - q[1] /\ rest[i - 1] = sum[i] - q[1] /\ new[i] = q[i + 1]
    BY <1>4, <1>6
  <2>3. sum[i + 1] = sum[i] + q[i + 1] /\ sum[i] \in Nat /\ q[i + 1] \in Nat /\ q[1] \in Nat
    BY SMTT(40), <1>3, <1>4
  <2> QED  BY <2>2, <2>3
<1>9. \A i, j \in 0..Len(q) - 1 : i <= j => rest[i] <= rest[j]
  <2>1. TAKE i, j \in 0..Len(q) - 1
  <2>2. HAVE i <= j
  <2>3. i + 1 \in 0..Len(q) /\ j + 1 \in 0..Len(q) /\ i + 1 <= j + 1
    BY <1>4, <2>2
  <2>4. \A a, b \in 0..Len(q) : a <= b => sum[a] <= sum[b]
    BY <1>3
  <2>5. sum[i + 1] <= sum[j + 1]
    BY <2>3, <2>4
  <2>6. sum[i + 1] \in Nat /\ sum[j + 1] \in Nat
    BY <2>3
  <2>7. q[1] \in Nat
    BY <1>4
  <2> QED  BY <1>6, <2>5, <2>6, <2>7
<1>10. s.bytes - q[1] <= MaxPendingWriteBytes /\ Len(q) - 1 <= MaxPendingWriteMessages
  BY SMTT(40), <1>1, <1>4, TcpAssumption DEF Accounted, q
<1> HIDE DEF t
<1>11. Accounted(t)
  BY <1>2, <1>4, <1>7, <1>8, <1>9, <1>10 DEF Accounted
<1> QED  BY SMTT(40), <1>4, <1>7, <1>11 DEF t, q, new

\* The queue and its bytes concern nothing else.
LEMMA QueueApart ==
    ASSUME NEW s, Steady(s), NEW q \in Seq(ResponseSizes), NEW n \in Nat
    PROVE  Steady([s EXCEPT !.queue = q, !.bytes = n])
<1> DEFINE t == [s EXCEPT !.queue = q, !.bytes = n]
<1> USE DEF Steady, Loose
<1>1. t \in FreshSession
  BY DEF FreshSession
<1>2. \A k \in Kinds : Watched(t, k) <=> Watched(s, k)
  BY DEF Watched, FreshSession
<1>3. Unstarted(t) /\ Forgotten(t) /\ Shaking(t) /\ Requested(t)
  BY <1>2 DEF FreshSession, Unstarted, Forgotten, Shaking, Requested, Kinds
<1>4. Timed(t)
  BY <1>2 DEF FreshSession, Timed, Outstanding, Kinds
<1> QED  BY <1>1, <1>3, <1>4

\* What a function leaves alone of the life of the session.
SameLife(s, t) ==
    /\ t.server = s.server /\ t.started = s.started /\ t.closed = s.closed
    /\ t.handshake = s.handshake /\ t.read = s.read /\ t.login = s.login /\ t.answer = s.answer

\* StartWrite
LEMMA StartWriteKeeps ==
    ASSUME NEW s, Steady(s), s.started
    PROVE  /\ Steady(StartWrite(s)) /\ SameLife(s, StartWrite(s))
           /\ StartWrite(s).queue = s.queue /\ StartWrite(s).bytes = s.bytes
           /\ StartWrite(s).write # "none"
<1> DEFINE t == StartWrite(s)
           w == IF s.closed THEN "error" ELSE "waiting"
<1> USE DEF Steady, Loose
<1>1. /\ Arm(s, "write") \in FreshSession /\ Watched(Arm(s, "write"), "write")
      /\ \A j \in Kinds \ {"write"} : Watched(Arm(s, "write"), j) <=> Watched(s, j)
  BY ArmKeeps DEF Kinds
<1>2. /\ t \in FreshSession
      /\ Watched(t, "write")
      /\ \A j \in Kinds \ {"write"} : Watched(t, j) <=> Watched(s, j)
  BY <1>1 DEF StartWrite, Watched, FreshSession, Operation
<1>3. t = [s EXCEPT !.deadlines = t.deadlines, !.write = w]
  BY <1>2 DEF StartWrite, Arm, FreshSession
<1>4. Unstarted(t)
  BY <1>3 DEF Unstarted, FreshSession
<1>5. Forgotten(t)
  BY <1>3 DEF Forgotten, FreshSession
<1>6. Shaking(t)
  BY <1>2, <1>3 DEF Shaking, FreshSession, Kinds
<1>7. Requested(t) /\ ~(t.login /\ t.answer)
  BY <1>3 DEF Requested, FreshSession
<1>8. t.write # "none"
  BY <1>3 DEF FreshSession
<1>9. Timed(t)
  BY ZenonT(60), <1>2, <1>3, <1>8 DEF Timed, Outstanding, FreshSession, Kinds
<1>10. SameLife(s, t) /\ t.queue = s.queue /\ t.bytes = s.bytes
  BY <1>3 DEF SameLife, FreshSession
<1> QED  BY <1>2, <1>4, <1>5, <1>6, <1>7, <1>8, <1>9, <1>10

\* QueueWrite of a response that fits.
LEMMA QueueWriteKeeps ==
    ASSUME NEW s, Steady(s), Accounted(s), Writing(s), s.started,
           NEW size \in ResponseSizes, HasWriteRoom(s, size),
           NEW t, t = QueueWrite(s, size)
    PROVE  Steady(t) /\ Accounted(t) /\ Writing(t) /\ SameLife(s, t)
<1> DEFINE r == [s EXCEPT !.queue = Append(@, size), !.bytes = @ + size]
<1>1. s \in FreshSession /\ s.queue \in Seq(ResponseSizes) /\ s.bytes \in Nat
  BY DEF Steady, Loose, FreshSession
<1>2. /\ r.queue # <<>> /\ r.write = s.write /\ SameLife(s, r)
  <2>1. r.queue = Append(s.queue, size) /\ r.write = s.write /\ SameLife(s, r)
    BY <1>1 DEF FreshSession, SameLife
  <2>2. Append(s.queue, size) # <<>>
    BY <1>1
  <2> QED  BY <2>1, <2>2
<1>3. Steady(r)
  <2>1. Append(s.queue, size) \in Seq(ResponseSizes) /\ s.bytes + size \in Nat
    BY <1>1, TcpAssumption
  <2> QED  BY <2>1, QueueApart
<1>4. Accounted(r)
  BY <1>1, AppendAccounted
<1>5. t = IF s.queue = <<>> THEN StartWrite(r) ELSE r
  BY DEF QueueWrite
<1> HIDE DEF r
<1>6. CASE s.queue = <<>>
  <2>1. /\ Steady(t) /\ SameLife(r, t) /\ t.write # "none"
        /\ t.queue = r.queue /\ t.bytes = r.bytes
    BY ZenonT(60), <1>2, <1>3, <1>5, <1>6, StartWriteKeeps DEF SameLife
  <2>2. Accounted(t)
    BY <1>4, <2>1, AccountedAlike
  <2> QED  BY <1>2, <2>1, <2>2 DEF Writing, SameLife
<1>7. CASE s.queue # <<>>
  BY <1>2, <1>3, <1>4, <1>5, <1>7 DEF Writing, SameLife
<1> QED  BY <1>6, <1>7

\* The end of a write that succeeded.
LEMMA WrittenKeeps ==
    ASSUME NEW s, Steady(s), Accounted(s), s.started, s.write = "none", s.queue # <<>>,
           NEW t, t = Written(s)
    PROVE  Steady(t) /\ Accounted(t) /\ Writing(t) /\ SameLife(s, t)
<1> DEFINE r == [s EXCEPT !.bytes = @ - Head(s.queue), !.queue = Tail(@)]
<1>1. s \in FreshSession
  BY DEF Steady, Loose
<1>2. r.write = "none" /\ SameLife(s, r)
  BY <1>1 DEF FreshSession, SameLife
<1>3. /\ Accounted(r)
      /\ s.bytes - Head(s.queue) \in Nat /\ Tail(s.queue) \in Seq(ResponseSizes)
  BY <1>1, TailAccounted
<1>4. \A q, n : [s EXCEPT !.bytes = n, !.queue = q] = [s EXCEPT !.queue = q, !.bytes = n]
  BY <1>1 DEF FreshSession
<1>5. Steady(r)
  <2>1. Steady([s EXCEPT !.queue = Tail(s.queue), !.bytes = s.bytes - Head(s.queue)])
    BY <1>3, QueueApart
  <2> QED  BY <1>4, <2>1
<1>6. t = IF r.queue = <<>> THEN r ELSE StartWrite(r)
  BY DEF Written
<1> HIDE DEF r
<1>7. CASE r.queue = <<>>
  BY <1>2, <1>3, <1>5, <1>6, <1>7 DEF Writing
<1>8. CASE r.queue # <<>>
  <2>1. /\ Steady(t) /\ SameLife(r, t) /\ t.write # "none"
        /\ t.queue = r.queue /\ t.bytes = r.bytes
    BY ZenonT(60), <1>2, <1>5, <1>6, <1>8, StartWriteKeeps DEF SameLife
  <2>2. Accounted(t)
    BY <1>3, <2>1, AccountedAlike
  <2>3. Writing(t)
    BY <1>8, <2>1 DEF Writing
  <2>4. SameLife(s, t)
    BY <1>2, <2>1 DEF SameLife
  <2> QED  BY <2>1, <2>2, <2>3, <2>4
<1> QED  BY <1>7, <1>8

\* Whatever leaves the writes alone keeps them in order.
LEMMA WritesKept ==
    ASSUME NEW s, NEW t, SameWrites(s, t), Accounted(s), Writing(s)
    PROVE  Accounted(t) /\ Writing(t)
<1>1. Accounted(t)
  BY AccountedAlike DEF SameWrites
<1>2. Writing(t)
  BY DEF SameWrites, Writing
<1> QED  BY <1>1, <1>2

-----------------------------------------------------------------------------
(* The handlers.                                                           *)

\* The record as Start finds it, with its first deadline k started.
LEMMA StartedKeeps ==
    ASSUME NEW s, Steady(s), ~s.started,
           NEW k \in Kinds, NEW t, t = Arm([s EXCEPT !.started = TRUE], k)
    PROVE  /\ Loose(t) /\ Requested(t) /\ t.started /\ SameWrites(s, t)
           /\ t.server = s.server /\ t.handshake = "none" /\ t.read = "none" /\ t.write = "none"
           /\ ~t.login /\ ~t.answer /\ ~t.authenticated /\ ~t.registered
           /\ Watched(t, k) /\ \A j \in Kinds \ {k} : ~Watched(t, j)
<1> DEFINE r == [s EXCEPT !.started = TRUE]
<1>1. r \in FreshSession /\ \A j \in Kinds : ~Watched(r, j)
  BY DEF Steady, Loose, Unstarted, Watched, FreshSession
<1>2. t \in FreshSession /\ Watched(t, k) /\ \A j \in Kinds \ {k} : ~Watched(t, j)
  BY <1>1, ArmKeeps
<1>3. t = [s EXCEPT !.started = TRUE, !.deadlines = t.deadlines]
  BY <1>2 DEF Steady, Loose, Arm, FreshSession
<1>4. /\ t.started /\ SameWrites(s, t)
      /\ t.server = s.server /\ t.handshake = "none" /\ t.read = "none" /\ t.write = "none"
      /\ ~t.login /\ ~t.answer /\ ~t.authenticated /\ ~t.registered
  BY <1>3 DEF Steady, Loose, Unstarted, SameWrites, FreshSession
<1>5. Unstarted(t) /\ Shaking(t)
  BY <1>4 DEF Unstarted, Shaking
<1>6. Forgotten(t) /\ Requested(t)
  BY <1>3, <1>4 DEF Steady, Loose, Unstarted, Forgotten, Requested, FreshSession
<1> QED  BY <1>2, <1>4, <1>5, <1>6 DEF Loose

\* Start of a game session.
LEMMA StartOnStrandKeeps == SessionsInv /\ StartOnStrand => SessionsInv'
<1> SUFFICES ASSUME SessionsInv, StartOnStrand PROVE Good(session')
  BY DEF SessionsInv, StartOnStrand
<1> DEFINE s == session
           r == [s EXCEPT !.started = TRUE]
<1> USE DEF SessionsInv, Good
<1>1. s \in FreshSession /\ ~s.started /\ s.server = "game" /\ Steady(s)
  BY DEF StartOnStrand, Game, Steady, Loose
<1>2. CASE s.closed
  <2>1. session' = r
    BY <1>1, <1>2 DEF StartOnStrand, FreshSession
  <2>2. r \in FreshSession /\ r.closed /\ SameWrites(s, r) /\ r.started
    BY <1>1, <1>2 DEF SameWrites, FreshSession
  <2>3. \A j \in Kinds : Watched(r, j) <=> Watched(s, j)
    BY <1>1 DEF Watched, FreshSession
  <2>4. Unstarted(r) /\ Forgotten(r) /\ Shaking(r) /\ ~(r.login /\ r.answer)
    BY <1>1, <2>2, <2>3 DEF Steady, Loose, Unstarted, Forgotten, Shaking, FreshSession
  <2>5. Requested(r) /\ Timed(r) /\ Engaged(r)
    BY <2>2 DEF Requested, Timed, Engaged
  <2> QED  BY <2>1, <2>2, <2>4, <2>5, WritesKept DEF Steady, Loose
<1>3. CASE ~s.closed
  <2> DEFINE t == Arm(r, "auth")
  <2>1. session' = StartRead(t)
    BY <1>1, <1>3 DEF StartOnStrand, FreshSession
  <2>2. /\ Loose(t) /\ Requested(t) /\ t.started /\ SameWrites(s, t)
        /\ t.server = "game" /\ t.handshake = "none" /\ t.read = "none" /\ t.write = "none"
        /\ ~t.login /\ ~t.answer /\ ~t.authenticated /\ ~t.registered
        /\ Watched(t, "auth") /\ \A j \in Kinds \ {"auth"} : ~Watched(t, j)
    BY SMTT(60), <1>1, <1>3, StartedKeeps DEF Kinds
  <2> HIDE DEF t
  <2>3. Timed(t)
    BY <2>2 DEF Timed, Outstanding, Kinds
  <2>4. Good(StartRead(t))
    <3>1. Accounted(t) /\ Writing(t)
      BY <2>2, WritesKept
    <3>2. Steady(StartRead(t)) /\ Engaged(StartRead(t)) /\ SameWrites(t, StartRead(t))
      BY <2>2, <2>3, StartReadKeeps DEF Steady
    <3> QED  BY <3>1, <3>2, WritesKept
  <2> QED  BY <2>1, <2>4
<1> QED  BY <1>2, <1>3

\* Start of a session of the authentication server.
LEMMA TlsStartKeeps == SessionsInv /\ TlsStart => SessionsInv'
<1> SUFFICES ASSUME SessionsInv, TlsStart PROVE Good(session')
  BY DEF SessionsInv, TlsStart
<1> DEFINE s == session
           r == [s EXCEPT !.started = TRUE]
           t == Arm(r, "handshake")
           u == [t EXCEPT !.handshake = "waiting"]
<1> USE DEF SessionsInv, Good
<1>1. s \in FreshSession /\ ~s.started /\ s.server = "auth" /\ Steady(s)
  BY DEF TlsStart, Game, Steady, Loose, FreshSession
<1>2. session' = u
  BY DEF TlsStart, StartHandshake
<1>3. /\ Loose(t) /\ Requested(t) /\ t.started /\ SameWrites(s, t)
      /\ t.server = "auth" /\ t.handshake = "none" /\ t.read = "none" /\ t.write = "none"
      /\ ~t.login /\ ~t.answer /\ ~t.authenticated /\ ~t.registered
      /\ Watched(t, "handshake") /\ \A j \in Kinds \ {"handshake"} : ~Watched(t, j)
  BY SMTT(40), <1>1, StartedKeeps DEF Kinds
<1> HIDE DEF t
<1>4. u \in FreshSession /\ \A j \in Kinds : Watched(u, j) <=> Watched(t, j)
  BY <1>3 DEF Loose, Watched, FreshSession, Operation
<1>5. /\ u.handshake = "waiting" /\ u.started /\ SameWrites(t, u)
      /\ u.server = "auth" /\ u.read = "none" /\ u.write = "none"
      /\ ~u.login /\ ~u.answer /\ ~u.authenticated /\ ~u.registered
      /\ u.request = t.request /\ u.closed = t.closed
      /\ u.listed = t.listed /\ u.identity = t.identity
  BY <1>3 DEF Loose, SameWrites, FreshSession
<1> HIDE DEF u
<1>6. Unstarted(u) /\ Forgotten(u) /\ Shaking(u) /\ Requested(u)
  BY <1>3, <1>4, <1>5 DEF Unstarted, Forgotten, Shaking, Requested, Loose, Kinds
<1>7. Timed(u) /\ Engaged(u)
  BY <1>3, <1>4, <1>5 DEF Timed, Outstanding, Engaged, Kinds
<1>8. Accounted(u) /\ Writing(u)
  BY <1>3, <1>5, WritesKept
<1> QED  BY <1>2, <1>4, <1>5, <1>6, <1>7, <1>8 DEF Steady, Loose

\* The end of a handshake.
LEMMA HandshakeKeeps == SessionsInv /\ HandshakeHandler => SessionsInv'
<1> SUFFICES ASSUME SessionsInv, HandshakeHandler PROVE Good(session')
  BY DEF SessionsInv, HandshakeHandler
<1> DEFINE s == session
           d == Disarm(s, "handshake")
           r == [d EXCEPT !.handshake = "none"]
           t == Arm(r, "auth")
<1> USE DEF SessionsInv, Good
<1>1. /\ s \in FreshSession /\ s.started /\ s.server = "auth" /\ s.handshake \in {"done", "error"}
      /\ s.read = "none" /\ ~s.login /\ ~s.answer /\ ~s.authenticated /\ ~Watched(s, "auth")
  BY DEF HandshakeHandler, Game, Steady, Loose, Unstarted, Shaking, FreshSession
<1>2. session' = IF s.handshake = "error" THEN Close(r) ELSE StartRead(t)
  BY DEF HandshakeHandler, HandshakeDone
<1>3. /\ r \in FreshSession /\ ~Watched(r, "handshake")
      /\ \A j \in Kinds \ {"handshake"} : Watched(r, j) <=> Watched(s, j)
  <2>1. /\ d \in FreshSession /\ ~Watched(d, "handshake")
        /\ \A j \in Kinds \ {"handshake"} : Watched(d, j) <=> Watched(s, j)
    BY <1>1, DisarmKeeps DEF Kinds
  <2> HIDE DEF d
  <2> QED  BY <2>1 DEF Watched, FreshSession, Operation
<1>4. r = [s EXCEPT !.deadlines = r.deadlines, !.handshake = "none"]
  BY <1>1, <1>3 DEF Disarm, FreshSession
<1> HIDE DEF r
<1>5. Loose(r) /\ Requested(r) /\ SameWrites(s, r) /\ r.server = "auth" /\ r.started
  BY ZenonT(60), <1>1, <1>3, <1>4 DEF Steady, Loose, Unstarted, Forgotten, Shaking, Requested, SameWrites, FreshSession
<1>6. CASE s.handshake = "error"
  BY <1>2, <1>5, <1>6, CloseKeeps, WritesKept
<1>7. CASE s.handshake = "done"
  <2>1. /\ t \in FreshSession /\ Watched(t, "auth")
        /\ \A j \in Kinds \ {"auth"} : Watched(t, j) <=> Watched(r, j)
    BY <1>3, ArmKeeps DEF Kinds
  <2>2. t = [s EXCEPT !.deadlines = t.deadlines, !.handshake = "none"]
    BY <1>1, <1>3, <1>4, <2>1 DEF Arm, FreshSession
  <2> HIDE DEF t
  <2>3. Unstarted(t) /\ Forgotten(t) /\ Shaking(t) /\ Requested(t) /\ ~(t.login /\ t.answer)
        /\ SameWrites(s, t) /\ t.started /\ t.handshake = "none"
    BY <1>1, <2>1, <2>2 DEF Steady, Loose, Unstarted, Forgotten, Shaking, Requested, SameWrites, FreshSession
  <2>4. Timed(t)
    BY ZenonT(60), <1>1, <1>3, <2>1, <2>2 DEF Steady, Timed, Outstanding, FreshSession, Kinds
  <2>5. Accounted(t) /\ Writing(t)
    BY <2>3, WritesKept
  <2> QED  BY <1>2, <1>7, <2>1, <2>3, <2>4, <2>5, StartReadKeeps, WritesKept DEF Steady, Loose
<1> QED  BY <1>1, <1>6, <1>7

\* The end of a read on either server.
LEMMA ReadKeeps == SessionsInv /\ (ReadHandler \/ TlsReadHandler) => SessionsInv'
<1> SUFFICES ASSUME SessionsInv, ReadHandler \/ TlsReadHandler PROVE SessionsInv'
  OBVIOUS
<1> DEFINE s == session
           d == Disarm(s, "read")
           r == [d EXCEPT !.read = "none"]
<1> USE DEF SessionsInv, Good
<1>1. s \in FreshSession /\ s.started /\ s.read # "none" /\ s.read # "waiting" /\ s.handshake = "none"
  BY DEF ReadHandler, TlsReadHandler, Game, Steady, Loose, Unstarted, Shaking, FreshSession
<1>2. /\ r \in FreshSession /\ ~Watched(r, "read")
      /\ \A j \in Kinds \ {"read"} : Watched(r, j) <=> Watched(s, j)
  <2>1. /\ d \in FreshSession /\ ~Watched(d, "read")
        /\ \A j \in Kinds \ {"read"} : Watched(d, j) <=> Watched(s, j)
    BY <1>1, DisarmKeeps DEF Kinds
  <2> HIDE DEF d
  <2> QED  BY <2>1 DEF Watched, FreshSession, Operation
<1>3. r = [s EXCEPT !.deadlines = r.deadlines, !.read = "none"]
  BY <1>1, <1>2 DEF Disarm, FreshSession
<1> DEFINE p(n) == [r EXCEPT !.received = @ + n]
<1>4. \/ /\ \/ s.server = "game" /\ session' = CloseOnStrand(r)
            \/ s.server = "auth" /\ session' = Close(r)
         /\ arrived' = arrived
      \/ \E n \in 0..(MaxPackets - arrived) :
            /\ \/ s.server = "game" /\ session' \in DispatchNextPacket(p(n))
               \/ s.server = "auth" /\ session' \in DispatchNextRequest(p(n))
            /\ arrived' = arrived + n
  BY <1>1 DEF ReadHandler, TlsReadHandler, Game, FreshSession
<1> HIDE DEF r
<1>5. /\ SameWrites(s, r) /\ r.server = s.server /\ r.started /\ r.handshake = "none"
      /\ Unstarted(r) /\ Forgotten(r) /\ Shaking(r) /\ ~(r.login /\ r.answer) /\ Requested(r)
  BY ZenonT(60), <1>1, <1>2, <1>3 DEF Steady, Loose, Unstarted, Forgotten, Shaking, Requested, SameWrites, FreshSession
<1>6. Timed(r)
  BY ZenonT(60), <1>1, <1>2, <1>3 DEF Steady, Timed, Outstanding, FreshSession, Kinds
<1>7. Steady(r) /\ Accounted(r) /\ Writing(r)
  BY <1>2, <1>5, <1>6, WritesKept DEF Steady, Loose
<1>8. CASE /\ \/ s.server = "game" /\ session' = CloseOnStrand(r)
              \/ s.server = "auth" /\ session' = Close(r)
           /\ arrived' = arrived
  BY <1>5, <1>7, <1>8, CloseKeeps, WritesKept DEF Steady
<1>9. ASSUME NEW n \in 0..(MaxPackets - arrived),
             \/ s.server = "game" /\ session' \in DispatchNextPacket(p(n))
             \/ s.server = "auth" /\ session' \in DispatchNextRequest(p(n)),
             arrived' = arrived + n
      PROVE  SessionsInv'
  <2>1. n \in Nat /\ arrived + n \in 0..MaxPackets
    BY TcpAssumption
  <2>2. /\ Steady(p(n)) /\ SameWrites(r, p(n)) /\ p(n).started /\ p(n).handshake = "none"
        /\ p(n).server = s.server
    <3>1. r.received + n \in Nat
      BY <1>2, <2>1 DEF FreshSession
    <3> QED  BY <1>5, <1>7, <2>1, <3>1, ReceivedApart
  <2> HIDE DEF p
  <2>3. Steady(session') /\ Engaged(session') /\ SameWrites(p(n), session')
    BY <1>9, <2>2, DispatchKeeps
  <2>4. Accounted(session') /\ Writing(session')
    BY <1>7, <2>2, <2>3, WritesKept
  <2> QED  BY <1>9, <2>1, <2>3, <2>4
<1> QED  BY <1>4, <1>8, <1>9

\* The end of HandleResponse: the response is queued and the next packet dispatched, or the
\* session is closed.
LEMMA RespondKeeps ==
    ASSUME NEW s, Steady(s), Accounted(s), Writing(s), s.started, s.handshake = "none",
           NEW size \in ResponseSizes,
           NEW t, \/ s.server = "game" /\ t \in Respond(s, size)
                  \/ s.server = "auth" /\ t \in QueueResponse(s, size)
    PROVE  Good(t)
<1> DEFINE q == QueueWrite(s, size)
<1>1. CASE HasWriteRoom(s, size)
  <2>1. Steady(q) /\ Accounted(q) /\ Writing(q) /\ SameLife(s, q)
    BY <1>1, QueueWriteKeeps
  <2>2. \/ q.server = "game" /\ t \in DispatchNextPacket(q)
        \/ q.server = "auth" /\ t \in DispatchNextRequest(q)
    BY <1>1, <2>1 DEF Respond, QueueResponse, SameLife
  <2>3. q.started /\ q.handshake = "none"
    BY <2>1 DEF SameLife
  <2> HIDE DEF q
  <2>4. Steady(t) /\ Engaged(t) /\ SameWrites(q, t)
    BY <2>1, <2>2, <2>3, DispatchKeeps
  <2> QED  BY <2>1, <2>4, WritesKept DEF Good
<1>2. CASE ~HasWriteRoom(s, size)
  <2>1. \/ s.server = "game" /\ t = CloseOnStrand(s)
        \/ s.server = "auth" /\ t = Close(s)
    BY <1>2 DEF Respond, QueueResponse
  <2> QED  BY <2>1, CloseKeeps, WritesKept DEF Good, Steady
<1> QED  BY <1>1, <1>2

\* The handler of a response that finds its session closed only forgets the answer.
LEMMA ClosedResponseKeeps ==
    ASSUME NEW s, Good(s), s.closed, NEW t, t = [s EXCEPT !.answer = FALSE]
    PROVE  Good(t)
<1> USE DEF Good, Steady, Loose
<1>1. t \in FreshSession /\ \A k \in Kinds : Watched(t, k) <=> Watched(s, k)
  BY DEF FreshSession, Watched
<1>2. t.closed /\ SameWrites(s, t)
  BY DEF FreshSession, SameWrites
<1>3. Unstarted(t) /\ Forgotten(t) /\ Shaking(t) /\ ~(t.login /\ t.answer)
  BY <1>1 DEF FreshSession, Unstarted, Forgotten, Shaking, Kinds
<1>4. Requested(t) /\ Timed(t) /\ Engaged(t)
  BY <1>2 DEF Requested, Timed, Engaged
<1> QED  BY <1>1, <1>2, <1>3, <1>4, WritesKept

\* What the handler of a response starts from on an open session.
LEMMA AnsweredKeeps ==
    ASSUME NEW s, Good(s), s.answer, ~s.closed,
           NEW t, t = [s EXCEPT !.answer = FALSE, !.request = FALSE]
    PROVE  /\ s.started /\ s.handshake = "none"
           /\ Loose(t) /\ Requested(t) /\ SameWrites(s, t) /\ ~t.closed /\ t.started
           /\ t.handshake = "none" /\ t.read = s.read /\ t.write = s.write
           /\ t.server = s.server /\ t.registered = s.registered
           /\ t.authenticated = s.authenticated
           /\ \A k \in Kinds : Watched(t, k) <=> Watched(s, k)
<1> USE DEF Good, Steady, Loose
<1>1. t \in FreshSession /\ \A k \in Kinds : Watched(t, k) <=> Watched(s, k)
  BY DEF FreshSession, Watched
<1>2. /\ ~t.closed /\ t.started /\ SameWrites(s, t) /\ t.handshake = "none"
      /\ s.started /\ s.handshake = "none" /\ t.server = s.server /\ t.registered = s.registered /\ t.authenticated = s.authenticated
      /\ t.read = s.read /\ t.write = s.write
  BY DEF FreshSession, SameWrites, Unstarted, Shaking
<1>3. Unstarted(t) /\ Forgotten(t) /\ Shaking(t) /\ ~(t.login /\ t.answer) /\ Requested(t)
  BY <1>1 DEF FreshSession, Unstarted, Forgotten, Shaking, Requested, Kinds
<1> QED  BY <1>1, <1>2, <1>3

\* HandleResponse of a game session.
LEMMA ResponseKeeps == SessionsInv /\ ResponseHandler => SessionsInv'
<1> SUFFICES ASSUME SessionsInv, ResponseHandler PROVE Good(session')
  BY DEF SessionsInv, ResponseHandler
<1> DEFINE s == session
           t == [s EXCEPT !.answer = FALSE, !.request = FALSE]
<1>1. Good(s) /\ s.answer /\ s.server = "game" /\ s \in FreshSession
  BY DEF SessionsInv, ResponseHandler, Game, Good, Steady, Loose
<1>2. PICK size \in ResponseSizes : session' \in HandleResponse(s, size)
  BY DEF ResponseHandler
<1>3. CASE s.closed
  BY <1>1, <1>2, <1>3, ClosedResponseKeeps DEF HandleResponse
<1>4. CASE ~s.closed
  <2>1. PICK u \in Registered(t) : session' \in IF u.closed THEN {u} ELSE Respond(u, size)
    BY <1>2, <1>4 DEF HandleResponse
  <2>2. /\ s.started /\ s.handshake = "none"
        /\ Loose(t) /\ Requested(t) /\ SameWrites(s, t) /\ ~t.closed /\ t.started
        /\ t.handshake = "none" /\ t.read = s.read /\ t.write = s.write
        /\ t.server = "game" /\ t.registered = s.registered
        /\ \A k \in Kinds : Watched(t, k) <=> Watched(s, k)
    BY ZenonT(60), <1>1, <1>4, AnsweredKeeps
  <2> HIDE DEF t
  <2>3. Timed(t)
    BY <1>1, <1>4, <2>2 DEF Good, Steady, Timed, Outstanding, Kinds
  <2>4. Accounted(t) /\ Writing(t)
    BY <1>1, <2>2, WritesKept DEF Good
  <2>5. Steady(u) /\ SameWrites(t, u) /\ u.server = "game" /\ u.started /\ u.handshake = "none"
        /\ (u.closed => Engaged(u))
    <3> DEFINE d == Disarm(t, "auth")
    <3>1. \/ u = t \/ u = CloseOnStrand(t) \/ (u = d /\ t.registered)
          \/ u = [d EXCEPT !.registered = TRUE, !.identity = TRUE]
      <4> DEFINE e == [d EXCEPT !.registered = TRUE, !.identity = TRUE]
      <4> HIDE DEF d, e
      <4>1. ~t.authenticated => Registered(t) = {t}
        BY DEF Registered
      <4>2. t.authenticated /\ t.registered => Registered(t) = {d}
        BY DEF Registered, d
      <4>3. t.authenticated /\ ~t.registered => Registered(t) = {CloseOnStrand(t), e}
        BY Zenon DEF Registered, d, e
      <4>4. \/ u = t \/ u = CloseOnStrand(t) \/ (u = d /\ t.registered) \/ u = e
        BY <2>1, <4>1, <4>2, <4>3
      <4> QED  BY <4>4 DEF e
    <3>2. CASE u = t
      BY <2>2, <2>3, <3>2 DEF Steady, SameWrites, Engaged
    <3>3. CASE u = CloseOnStrand(t)
      <4>1. Steady(u) /\ Engaged(u) /\ SameWrites(t, u)
        BY <2>2, <3>3, CloseKeeps
      <4>2. u.server = t.server /\ u.started = t.started /\ u.handshake = t.handshake
        BY <2>2, <3>3 DEF CloseOnStrand, Loose, FreshSession
      <4> QED  BY <2>2, <4>1, <4>2
    <3>4. CASE (u = d /\ t.registered) \/ u = [d EXCEPT !.registered = TRUE, !.identity = TRUE]
      <4>1. /\ d \in FreshSession /\ ~Watched(d, "auth")
            /\ \A j \in Kinds \ {"auth"} : Watched(d, j) <=> Watched(t, j)
        BY <2>2, DisarmKeeps DEF Loose, Kinds
      <4>2. d = [t EXCEPT !.deadlines = d.deadlines]
        BY <2>2 DEF Disarm, Loose, FreshSession
      <4> HIDE DEF d
      <4>3. /\ u \in FreshSession /\ ~Watched(u, "auth") /\ u.registered
            /\ \A j \in Kinds \ {"auth"} : Watched(u, j) <=> Watched(t, j)
        <5>1. CASE u = d /\ t.registered
          BY <2>2, <4>1, <4>2, <5>1 DEF Loose, FreshSession
        <5>2. CASE u = [d EXCEPT !.registered = TRUE, !.identity = TRUE]
          BY <4>1, <5>2 DEF FreshSession, Watched
        <5> QED  BY <3>4, <5>1, <5>2
      <4>4. /\ u.server = t.server /\ u.started = t.started /\ u.closed = t.closed
            /\ u.handshake = t.handshake /\ u.read = t.read /\ u.write = t.write
            /\ u.login = t.login /\ u.answer = t.answer /\ u.request = t.request
            /\ u.queue = t.queue /\ u.bytes = t.bytes
        <5>1. d.server = t.server /\ d.started = t.started /\ d.closed = t.closed
              /\ d.handshake = t.handshake /\ d.read = t.read /\ d.write = t.write
              /\ d.login = t.login /\ d.answer = t.answer /\ d.request = t.request
              /\ d.queue = t.queue /\ d.bytes = t.bytes
          BY <2>2, <4>2 DEF Loose, FreshSession
        <5> QED  BY <3>4, <4>1, <5>1 DEF FreshSession
      <4>5. Unstarted(u) /\ Forgotten(u) /\ Shaking(u) /\ ~(u.login /\ u.answer) /\ Requested(u)
        BY <2>2, <4>4 DEF Loose, Unstarted, Forgotten, Shaking, Requested
      <4>6. Timed(u)
        BY <2>2, <2>3, <4>3, <4>4 DEF Timed, Outstanding, Kinds
      <4> QED  BY <2>2, <4>3, <4>4, <4>5, <4>6 DEF Steady, Loose, SameWrites
    <3> QED  BY <3>1, <3>2, <3>3, <3>4
  <2>6. Accounted(u) /\ Writing(u)
    BY <2>4, <2>5, WritesKept
  <2>7. CASE u.closed
    BY <2>1, <2>5, <2>6, <2>7 DEF Good
  <2>8. CASE ~u.closed
    BY <2>1, <2>5, <2>6, <2>8, RespondKeeps
  <2> QED  BY <2>7, <2>8
<1> QED  BY <1>3, <1>4

\* HandleResponse of the authentication server.
LEMMA TlsResponseKeeps == SessionsInv /\ TlsResponseHandler => SessionsInv'
<1> SUFFICES ASSUME SessionsInv, TlsResponseHandler PROVE Good(session')
  BY DEF SessionsInv, TlsResponseHandler
<1> DEFINE s == session
           t == [s EXCEPT !.answer = FALSE, !.request = FALSE]
           u == IF s.authenticated THEN Disarm(t, "auth") ELSE t
<1>1. Good(s) /\ s.answer /\ s.server = "auth" /\ s \in FreshSession
  BY DEF SessionsInv, TlsResponseHandler, Game, Good, Steady, Loose, FreshSession
<1>2. PICK size \in ResponseSizes : session' \in HandleAuthResponse(s, size)
  BY DEF TlsResponseHandler
<1>3. CASE s.closed
  BY <1>1, <1>2, <1>3, ClosedResponseKeeps DEF HandleAuthResponse
<1>4. CASE ~s.closed
  <2>1. session' \in QueueResponse(u, size)
    BY <1>2, <1>4 DEF HandleAuthResponse
  <2>2. /\ s.started /\ s.handshake = "none"
        /\ Loose(t) /\ Requested(t) /\ SameWrites(s, t) /\ ~t.closed /\ t.started
        /\ t.handshake = "none" /\ t.read = s.read /\ t.write = s.write
        /\ t.server = "auth" /\ t.authenticated = s.authenticated
        /\ \A k \in Kinds : Watched(t, k) <=> Watched(s, k)
    BY ZenonT(60), <1>1, <1>4, AnsweredKeeps
  <2> HIDE DEF t
  <2>3. CASE ~s.authenticated
    <3>1. Timed(t)
      BY <1>1, <1>4, <2>2, <2>3 DEF Good, Steady, Timed, Outstanding, Kinds
    <3>2. Accounted(t) /\ Writing(t)
      BY <1>1, <2>2, WritesKept DEF Good
    <3> QED  BY <2>1, <2>2, <2>3, <3>1, <3>2, RespondKeeps DEF Steady
  <2>4. CASE s.authenticated
    <3> DEFINE d == Disarm(t, "auth")
    <3>1. /\ d \in FreshSession /\ ~Watched(d, "auth")
          /\ \A j \in Kinds \ {"auth"} : Watched(d, j) <=> Watched(t, j)
      BY <2>2, DisarmKeeps DEF Loose, Kinds
    <3>2. d = [t EXCEPT !.deadlines = d.deadlines]
      BY <2>2 DEF Disarm, Loose, FreshSession
    <3> HIDE DEF d
    <3>3. /\ d.server = t.server /\ d.started = t.started /\ d.closed = t.closed
          /\ d.handshake = t.handshake /\ d.read = t.read /\ d.write = t.write
          /\ d.login = t.login /\ d.answer = t.answer /\ d.request = t.request
          /\ d.authenticated = t.authenticated /\ d.registered = t.registered
          /\ d.listed = t.listed /\ d.identity = t.identity
          /\ d.queue = t.queue /\ d.bytes = t.bytes
      BY <2>2, <3>2 DEF Loose, FreshSession
    <3>4. Unstarted(d) /\ Forgotten(d) /\ Shaking(d) /\ ~(d.login /\ d.answer) /\ Requested(d)
      BY <2>2, <3>3 DEF Loose, Unstarted, Forgotten, Shaking, Requested
    <3>5. Timed(d)
      BY <1>1, <1>4, <2>2, <2>4, <3>1, <3>3 DEF Good, Steady, Timed, Outstanding, Kinds
    <3>6. SameWrites(s, d)
      BY <2>2, <3>3 DEF SameWrites
    <3>7. Accounted(d) /\ Writing(d)
      BY <1>1, <3>6, WritesKept DEF Good
    <3>8. session' \in QueueResponse(d, size)
      BY <2>1, <2>4 DEF d
    <3> QED  BY <2>2, <3>1, <3>3, <3>4, <3>5, <3>7, <3>8, RespondKeeps DEF Steady, Loose
  <2> QED  BY <2>3, <2>4
<1> QED  BY <1>3, <1>4

\* The end of a write on either server.
LEMMA WriteKeeps == SessionsInv /\ (WriteHandler \/ TlsWriteHandler) => SessionsInv'
<1> SUFFICES ASSUME SessionsInv, WriteHandler \/ TlsWriteHandler PROVE Good(session')
  BY DEF SessionsInv, WriteHandler, TlsWriteHandler
<1> DEFINE s == session
           d == Disarm(s, "write")
           r == [d EXCEPT !.write = "none"]
<1> USE DEF SessionsInv, Good
<1>1. s \in FreshSession /\ s.started /\ s.write # "none" /\ s.queue # <<>>
  BY DEF WriteHandler, TlsWriteHandler, Game, Steady, Loose, Unstarted, Writing, FreshSession
<1>2. /\ r \in FreshSession /\ ~Watched(r, "write")
      /\ \A j \in Kinds \ {"write"} : Watched(r, j) <=> Watched(s, j)
  <2>1. /\ d \in FreshSession /\ ~Watched(d, "write")
        /\ \A j \in Kinds \ {"write"} : Watched(d, j) <=> Watched(s, j)
    BY <1>1, DisarmKeeps DEF Kinds
  <2> HIDE DEF d
  <2> QED  BY <2>1 DEF Watched, FreshSession, Operation
<1>3. r = [s EXCEPT !.deadlines = r.deadlines, !.write = "none"]
  BY <1>1, <1>2 DEF Disarm, FreshSession
<1>4. \/ s.server = "game" /\ session' = CloseOnStrand(r)
      \/ s.server = "auth" /\ session' = Close(r)
      \/ session' = Written(r)
  BY <1>1 DEF WriteHandler, TlsWriteHandler, Game, FreshSession
<1> HIDE DEF r
<1>5. /\ r.server = s.server /\ r.started = s.started /\ r.closed = s.closed
      /\ r.handshake = s.handshake /\ r.read = s.read /\ r.write = "none"
      /\ r.login = s.login /\ r.answer = s.answer /\ r.request = s.request
      /\ r.authenticated = s.authenticated /\ r.registered = s.registered
      /\ r.listed = s.listed /\ r.identity = s.identity
      /\ r.queue = s.queue /\ r.bytes = s.bytes
  BY <1>1, <1>3 DEF FreshSession
<1>6. Loose(r) /\ Requested(r)
  BY <1>1, <1>2, <1>5 DEF Steady, Loose, Unstarted, Forgotten, Shaking, Requested, Kinds
<1>7. Timed(r)
  BY <1>2, <1>5 DEF Steady, Timed, Outstanding, Kinds
<1>8. Accounted(r)
  BY <1>5, AccountedAlike
<1>9. CASE \/ s.server = "game" /\ session' = CloseOnStrand(r)
           \/ s.server = "auth" /\ session' = Close(r)
  <2>1. Steady(session') /\ Engaged(session') /\ SameWrites(r, session') /\ session'.closed
    BY <1>5, <1>6, <1>9, CloseKeeps
  <2>2. Writing(session')
    BY <1>5, <2>1 DEF Writing, SameWrites
  <2>3. Accounted(session')
    BY <1>8, <2>1, AccountedAlike DEF SameWrites
  <2> QED  BY <2>1, <2>2, <2>3
<1>10. CASE session' = Written(r)
  <2>1. Steady(session') /\ Accounted(session') /\ Writing(session') /\ SameLife(r, session')
    BY <1>1, <1>5, <1>6, <1>7, <1>8, <1>10, WrittenKeeps DEF Steady
  <2>2. Engaged(session')
    BY <1>5, <2>1 DEF Engaged, SameLife
  <2> QED  BY <2>1, <2>2
<1> QED  BY <1>4, <1>9, <1>10

\* A callback that is stale changes nothing that matters.
LEMMA TimeoutKeeps ==
    ASSUME SessionsInv, NEW k \in Kinds, TimeoutHandler(k) \/ TlsTimeoutHandler(k)
    PROVE  SessionsInv'
<1> SUFFICES Good(session')
  BY DEF SessionsInv, TimeoutHandler, TlsTimeoutHandler
<1> DEFINE s == session
<1> USE DEF SessionsInv, Good
<1>1. s \in FreshSession /\ s.deadlines \in [Kinds -> FreshDeadline]
  BY DEF Steady, Loose, FreshSession
<1>2. PICK callback \in s.deadlines[k].late :
        LET r == [s EXCEPT !.deadlines[k].late = @ \ {callback}]
        IN  session' = IF callback = "stale" THEN r
                       ELSE IF s.server = "game" THEN CloseOnStrand(r) ELSE Close(r)
  BY <1>1 DEF TimeoutHandler, TlsTimeoutHandler, Game, IsCurrent, FreshSession
<1> DEFINE r == [s EXCEPT !.deadlines[k].late = @ \ {callback}]
<1>3. /\ r \in FreshSession
      /\ \A j \in Kinds : Watched(r, j) => Watched(s, j)
      /\ callback # "current" => \A j \in Kinds : Watched(s, j) => Watched(r, j)
  <2>1. r \in FreshSession
    BY <1>1 DEF FreshSession, FreshDeadline
  <2>2. /\ \A j \in Kinds : Watched(r, j) => Watched(s, j)
        /\ callback # "current" => \A j \in Kinds : Watched(s, j) => Watched(r, j)
    BY <1>1 DEF Watched, FreshSession, FreshDeadline
  <2> QED  BY <2>1, <2>2
<1>4. /\ r.server = s.server /\ r.started = s.started /\ r.closed = s.closed
      /\ r.handshake = s.handshake /\ r.read = s.read /\ r.write = s.write
      /\ r.login = s.login /\ r.answer = s.answer /\ r.request = s.request
      /\ r.authenticated = s.authenticated /\ r.registered = s.registered
      /\ r.listed = s.listed /\ r.identity = s.identity
      /\ r.queue = s.queue /\ r.bytes = s.bytes
  BY <1>1 DEF FreshSession
<1>5. \/ session' = r /\ callback # "current"
      \/ s.server = "game" /\ session' = CloseOnStrand(r)
      \/ s.server = "auth" /\ session' = Close(r)
  BY <1>1, <1>2 DEF FreshSession
<1> HIDE DEF r
<1>6. Loose(r) /\ Requested(r) /\ SameWrites(s, r) /\ Engaged(r)
  BY <1>3, <1>4 DEF Steady, Loose, Unstarted, Forgotten, Shaking, Requested, Engaged, SameWrites, Kinds
<1>7. Accounted(r) /\ Writing(r)
  BY <1>6, WritesKept
<1>8. CASE session' = r /\ callback # "current"
  <2>1. Timed(r)
    BY <1>3, <1>4, <1>8 DEF Steady, Timed, Outstanding, Kinds
  <2> QED  BY <1>6, <1>7, <1>8, <2>1 DEF Steady
<1>9. CASE \/ s.server = "game" /\ session' = CloseOnStrand(r)
           \/ s.server = "auth" /\ session' = Close(r)
  BY <1>4, <1>6, <1>7, <1>9, CloseKeeps, WritesKept
<1> QED  BY <1>5, <1>8, <1>9

\* Stop
LEMMA StopKeeps == SessionsInv /\ StopSession => SessionsInv'
BY CloseKeeps, WritesKept DEF SessionsInv, Good, Steady, StopSession, Game

\* The socket completes the handshake, the read or the write.
LEMMA SocketKeeps ==
    SessionsInv /\ (SocketReads \/ SocketWrites \/ SocketShakesHands) => SessionsInv'
<1> SUFFICES ASSUME SessionsInv, SocketReads \/ SocketWrites \/ SocketShakesHands
             PROVE  Good(session')
  BY DEF SessionsInv, SocketReads, SocketWrites, SocketShakesHands
<1> DEFINE s == session
           t == session'
<1> USE DEF SessionsInv, Good
<1>1. s \in FreshSession
  BY DEF Steady, Loose
<1>2. PICK result \in {"done", "error"} :
         \/ s.read = "waiting" /\ t = [s EXCEPT !.read = result]
         \/ s.write = "waiting" /\ t = [s EXCEPT !.write = result]
         \/ s.handshake = "waiting" /\ t = [s EXCEPT !.handshake = result] /\ s.server = "auth"
  BY <1>1 DEF SocketReads, SocketWrites, SocketShakesHands, Game, FreshSession
<1>3. t \in FreshSession
  <2>1. result \in Operation
    BY DEF Operation
  <2> QED  BY <1>1, <1>2, <2>1 DEF FreshSession
<1>4. /\ t.server = s.server /\ t.started = s.started /\ t.closed = s.closed
      /\ t.login = s.login /\ t.answer = s.answer /\ t.request = s.request
      /\ t.authenticated = s.authenticated /\ t.registered = s.registered
      /\ t.listed = s.listed /\ t.identity = s.identity
      /\ t.queue = s.queue /\ t.bytes = s.bytes /\ t.deadlines = s.deadlines
  BY <1>1, <1>2 DEF FreshSession
<1>5. /\ t.handshake = "none" <=> s.handshake = "none"
      /\ t.read = "none" <=> s.read = "none"
      /\ t.write = "none" <=> s.write = "none"
      /\ t.handshake = "waiting" => s.handshake = "waiting"
      /\ t.read = "waiting" => s.read = "waiting"
      /\ t.write = "waiting" => s.write = "waiting"
  BY <1>1, <1>2 DEF FreshSession
<1>6. \A k \in Kinds : Watched(t, k) <=> Watched(s, k)
  BY <1>4 DEF Watched
<1>7. Loose(t) /\ Requested(t) /\ Engaged(t) /\ SameWrites(s, t)
  BY <1>3, <1>4, <1>5, <1>6
     DEF Steady, Loose, Unstarted, Forgotten, Shaking, Requested, Engaged, SameWrites, Kinds
<1>8. Timed(t)
  BY <1>4, <1>5, <1>6 DEF Steady, Timed, Outstanding, Kinds
<1> QED  BY <1>7, <1>8, WritesKept DEF Steady

\* An expired timer still closes the session, by its callback.
LEMMA ExpireKeeps ==
    ASSUME SessionsInv, NEW k \in Kinds, Expire(k)
    PROVE  SessionsInv'
<1> SUFFICES Good(session')
  BY DEF SessionsInv, Expire
<1> DEFINE s == session
           t == session'
<1> USE DEF SessionsInv, Good
<1>1. s \in FreshSession /\ s.deadlines \in [Kinds -> FreshDeadline]
  BY DEF Steady, Loose, FreshSession
<1>2. /\ s.deadlines[k].armed
      /\ t = [s EXCEPT !.deadlines[k] = [armed |-> FALSE, late |-> @.late \cup {"current"}]]
  BY DEF Expire
<1>3. t \in FreshSession /\ \A j \in Kinds : Watched(t, j) <=> Watched(s, j)
  <2>1. t \in FreshSession
    BY <1>1, <1>2 DEF FreshSession, FreshDeadline
  <2>2. \A j \in Kinds : Watched(t, j) <=> Watched(s, j)
    BY <1>1, <1>2 DEF Watched, FreshSession, FreshDeadline
  <2> QED  BY <2>1, <2>2
<1>4. /\ t.server = s.server /\ t.started = s.started /\ t.closed = s.closed
      /\ t.handshake = s.handshake /\ t.read = s.read /\ t.write = s.write
      /\ t.login = s.login /\ t.answer = s.answer /\ t.request = s.request
      /\ t.authenticated = s.authenticated /\ t.registered = s.registered
      /\ t.listed = s.listed /\ t.identity = s.identity
      /\ t.queue = s.queue /\ t.bytes = s.bytes
  BY <1>1, <1>2 DEF FreshSession
<1>5. Loose(t) /\ Requested(t) /\ Engaged(t) /\ SameWrites(s, t)
  BY <1>3, <1>4
     DEF Steady, Loose, Unstarted, Forgotten, Shaking, Requested, Engaged, SameWrites, Kinds
<1>6. Timed(t)
  BY <1>3, <1>4 DEF Steady, Timed, Outstanding, Kinds
<1> QED  BY <1>5, <1>6, WritesKept DEF Steady

\* The answer of a service.
LEMMA CompletionKeeps == SessionsInv /\ (LoginCompletes \/ RequestCompletes) => SessionsInv'
<1> SUFFICES ASSUME SessionsInv, LoginCompletes \/ RequestCompletes PROVE Good(session')
  BY DEF SessionsInv, LoginCompletes, RequestCompletes
<1> DEFINE s == session
           t == session'
<1> USE DEF SessionsInv, Good
<1>1. /\ s \in FreshSession /\ s.login /\ s.started /\ s.handshake = "none"
      /\ s.server \in {"game", "auth"}
  BY DEF LoginCompletes, RequestCompletes, Steady, Loose, Unstarted, Shaking, FreshSession
<1>2. PICK ok \in BOOLEAN, posted \in BOOLEAN :
        /\ t = [s EXCEPT !.login = FALSE, !.authenticated = ok, !.answer = posted]
        /\ posted \/ s.closed
        /\ s.server = "auth" => posted /\ (s.authenticated => ok)
  <2>1. CASE LoginCompletes
    BY <1>1, <2>1 DEF LoginCompletes, Game
  <2>2. CASE RequestCompletes
    <3>1. PICK yes \in BOOLEAN :
            t = [s EXCEPT !.login = FALSE, !.authenticated = @ \/ yes, !.answer = TRUE]
      BY <2>2 DEF RequestCompletes
    <3> QED  BY <3>1
  <2> QED  BY <2>1, <2>2
<1>3. t \in FreshSession
  BY ZenonT(60), <1>1, <1>2 DEF FreshSession
<1>4. /\ t.server = s.server /\ t.started /\ t.closed = s.closed
      /\ t.handshake = "none" /\ t.read = s.read /\ t.write = s.write
      /\ ~t.login /\ t.request = s.request
      /\ t.registered = s.registered
      /\ t.listed = s.listed /\ t.identity = s.identity
      /\ t.queue = s.queue /\ t.bytes = s.bytes /\ t.deadlines = s.deadlines
  BY <1>1, <1>2 DEF FreshSession
<1>5. /\ t.answer \/ t.closed
      /\ t.server = "auth" => t.answer /\ (s.authenticated => t.authenticated)
  BY <1>1, <1>2 DEF FreshSession
<1>6. \A k \in Kinds : Watched(t, k) <=> Watched(s, k)
  BY <1>4 DEF Watched
<1>7. Loose(t) /\ Requested(t) /\ Engaged(t) /\ SameWrites(s, t)
  BY <1>1, <1>3, <1>4, <1>5, <1>6
     DEF Steady, Loose, Unstarted, Forgotten, Shaking, Requested, Engaged, SameWrites, Kinds
<1>8. Timed(t)
  BY <1>1, <1>4, <1>5, <1>6 DEF Steady, Timed, Outstanding, Kinds
<1> QED  BY <1>7, <1>8, WritesKept DEF Steady

-----------------------------------------------------------------------------
(* The invariant and what it says.                                         *)

\* A connection that was just accepted satisfies the invariant.
LEMMA SessionsInitially == SessionsInit => SessionsInv
<1> SUFFICES ASSUME SessionsInit PROVE Good(session) /\ arrived \in 0..MaxPackets
  BY DEF SessionsInv
<1>1. arrived \in 0..MaxPackets
  BY TcpAssumption DEF SessionsInit, TcpInit, TlsInit
<1>2. PICK server \in {"game", "auth"} : session = NewSession(server)
  BY DEF SessionsInit, TcpInit, TlsInit
<1>3. /\ session \in FreshSession
      /\ session.server = server /\ ~session.started /\ ~session.closed
      /\ session.listed = (server = "game") /\ ~session.identity
      /\ session.handshake = "none" /\ session.read = "none" /\ session.write = "none"
      /\ ~session.request /\ ~session.login /\ ~session.answer
      /\ ~session.authenticated /\ ~session.registered
      /\ session.queue = <<>> /\ session.bytes = 0
      /\ \A k \in Kinds : ~Watched(session, k)
  <2>1. session \in FreshSession
    BY <1>2 DEF NewSession, FreshSession, FreshDeadline, Operation
  <2>2. \A k \in Kinds : ~Watched(session, k)
    BY <1>2 DEF NewSession, Watched
  <2> QED  BY <1>2, <2>1, <2>2 DEF NewSession
<1>4. Steady(session) /\ Engaged(session) /\ Writing(session)
  BY <1>3 DEF Steady, Loose, Unstarted, Forgotten, Shaking, Requested, Timed, Engaged, Writing, Kinds
<1>5. Accounted(session)
  <2> DEFINE sum == [i \in 0..0 |-> 0]
  <2>1. sum \in [0..0 -> Nat] /\ sum[0] = 0
    OBVIOUS
  <2>2. /\ \A i \in 1..0 : sum[i] = sum[i - 1] + <<>>[i]
        /\ \A i, j \in 0..0 : i <= j => sum[i] <= sum[j]
    OBVIOUS
  <2>3. Len(session.queue) = 0
    BY <1>3
  <2> HIDE DEF sum
  <2> QED  BY <1>3, <2>1, <2>2, <2>3, TcpAssumption DEF Accounted
<1> QED  BY <1>1, <1>4, <1>5 DEF Good

\* Every step of either server preserves the invariant.
LEMMA SessionsInductive == SessionsInv /\ [SessionsNext]_tcpVars => SessionsInv'
<1> SUFFICES ASSUME SessionsInv, [SessionsNext]_tcpVars PROVE SessionsInv'
  OBVIOUS
<1>1. CASE UNCHANGED tcpVars
  BY <1>1 DEF tcpVars, SessionsInv, Good, Steady, Loose, Unstarted, Forgotten, Shaking, Requested,
              Timed, Outstanding, Watched, Engaged, Accounted, Writing
<1>2. CASE SessionsNext
  BY <1>2, StartOnStrandKeeps, TlsStartKeeps, HandshakeKeeps, ReadKeeps, ResponseKeeps,
     TlsResponseKeeps, WriteKeeps, TimeoutKeeps, StopKeeps, SocketKeeps, ExpireKeeps,
     CompletionKeeps
     DEF SessionsNext, TcpNext, TlsNext, StrandStep
<1> QED  BY <1>1, <1>2

\* The invariant holds in every state.
LEMMA SessionsInvariant == SessionsSpec => []SessionsInv
BY SessionsInitially, SessionsInductive, PTL DEF SessionsSpec

\* The invariant in the terms of the runs.
LEMMA SessionsMeaning ==
    SessionsInv => TcpTypeOK /\ ClosedIsForgotten /\ NeverAbandoned /\ WriteQueueAccounted
<1> SUFFICES ASSUME SessionsInv
             PROVE  TcpTypeOK /\ ClosedIsForgotten /\ NeverAbandoned /\ WriteQueueAccounted
  OBVIOUS
<1> USE DEF SessionsInv, Good, Steady, Loose
<1>1. TcpTypeOK
  <2>1. FreshDeadline \subseteq Deadline
    BY DEF FreshDeadline, Deadline
  <2> QED  BY <2>1 DEF TcpTypeOK, FreshSession, Session
<1>2. ClosedIsForgotten
  BY DEF ClosedIsForgotten, Forgotten
<1>3. NeverAbandoned
  BY DEF NeverAbandoned, Engaged, Requested, Timed, Outstanding, LoginOutstanding, Game,
         Watched, Guarded, IsCurrent
<1>4. AddsUpTo(session.queue, session.bytes)
  <2>1. PICK sum \in [0..Len(session.queue) -> Nat] :
          /\ sum[0] = 0 /\ sum[Len(session.queue)] = session.bytes
          /\ \A i \in 1..Len(session.queue) : sum[i] = sum[i - 1] + session.queue[i]
          /\ \A i, j \in 0..Len(session.queue) : i <= j => sum[i] <= sum[j]
    BY DEF Accounted
  <2>2. Len(session.queue) \in Nat /\ session.bytes \in Nat
    BY DEF FreshSession
  <2>3. \A i \in 0..Len(session.queue) : sum[i] \in 0..session.bytes
    <3> HIDE DEF SessionsInv, Good, Steady, Loose
    <3> SUFFICES ASSUME NEW i \in 0..Len(session.queue) PROVE sum[i] \in 0..session.bytes
      OBVIOUS
    <3>1. i <= Len(session.queue) /\ Len(session.queue) \in 0..Len(session.queue)
      BY <2>2
    <3>2. sum[i] \in Nat /\ sum[i] <= session.bytes
      BY <2>1, <3>1
    <3> QED  BY <2>2, <3>2
  <2>4. sum \in [0..Len(session.queue) -> 0..session.bytes]
    BY <2>3
  <2> QED  BY <2>1, <2>4 DEF AddsUpTo
<1>5. WriteQueueAccounted
  BY <1>4 DEF WriteQueueAccounted, Accounted, Writing
<1> QED  BY <1>1, <1>2, <1>3, <1>5

\* A closed connection is known to no manager, however late its answers, timeouts and
\* completions reach the strand.
THEOREM SessionsForgotten == SessionsSpec => []ClosedIsForgotten
BY SessionsInvariant, SessionsMeaning, PTL

\* An open connection is never abandoned: something is under way for it, and a deadline
\* runs for whatever it waits for from the client.
THEOREM SessionsWatched == SessionsSpec => []NeverAbandoned
BY SessionsInvariant, SessionsMeaning, PTL

\* The write queue keeps its byte count and both its limits for responses of any sizes: the
\* unsigned comparison of QueueWrite never wraps.
THEOREM WritesAccounted == SessionsSpec => []WriteQueueAccounted
BY SessionsInvariant, SessionsMeaning, PTL

\* The callbacks that will find their generation current are of the operation that is
\* under way: every Start and every Cancel has made the earlier ones stale.
THEOREM LateTimeouts == SessionsSpec => []LateTimeoutHarmless
<1>1. ASSUME SessionsInv, ~session.closed,
             NEW k \in Kinds, NEW callback \in session.deadlines[k].late, IsCurrent(callback)
      PROVE  callback = "current" /\ Awaited(k)
  <2> DEFINE s == session
  <2>1. s \in FreshSession /\ s.deadlines[k] \in FreshDeadline
    BY <1>1 DEF SessionsInv, Good, Steady, Loose, FreshSession
  <2>2. callback = "current"
    BY <1>1, <2>1 DEF FreshDeadline, IsCurrent
  <2>3. Watched(s, k) /\ s.started
    BY <1>1, <2>2 DEF Watched, SessionsInv, Good, Steady, Loose, Unstarted
  <2>4. Awaited(k)
    BY <1>1, <2>1, <2>3
       DEF SessionsInv, Good, Steady, Timed, Outstanding, Awaited, LoginOutstanding, Game,
           Kinds, FreshSession
  <2> QED  BY <2>2, <2>4
<1>2. SessionsInv => LateTimeoutHarmless
  BY <1>1 DEF LateTimeoutHarmless
<1> QED  BY <1>2, SessionsInvariant, PTL
-----------------------------------------------------------------------------
(* The snapshot pump of a UDP session.                                     *)

\* While the session is not stopped, snapshotPumpScheduled_ says exactly whether a
\* pump runs or is about to be posted, and never both; a waiting snapshot has it set.
FlagMeansPump ==
    /\ tickAt = "post" => pumpAt = "none"
    /\ ~stopped => (scheduled <=> PumpRunning \/ tickAt = "post")
    /\ ~stopped /\ pending # 0 => scheduled

\* stopped_ is set by the first half of Stop.
StopIsFlagged == stopped <=> stopAt # "rest"

\* Nothing is newer than the last snapshot offered, and one that is being offered is
\* newer than everything.
OfferedIsNewest ==
    /\ offered >= pending /\ offered >= active
    /\ \A e \in Endpoints : offered >= delivered[e]
    /\ tickAt = "lock" => /\ offered > pending /\ offered > active
                          /\ \A e \in Endpoints : offered > delivered[e]

SnapshotInv ==
    /\ SnapshotTypeOK
    /\ SinglePump
    /\ StopDrains
    /\ PendingIsNewer
    /\ FlagMeansPump
    /\ StopIsFlagged
    /\ OfferedIsNewest
-----------------------------------------------------------------------------
\* A new session satisfies the invariant.
LEMMA SnapshotInitially == SnapshotInit => SnapshotInv
<1> SUFFICES ASSUME SnapshotInit PROVE SnapshotInv
  OBVIOUS
<1> USE SnapshotAssumption DEF SnapshotInit, Snapshots, PumpRunning
<1>1. SnapshotTypeOK
  <2>1. stopped \in BOOLEAN /\ scheduled \in BOOLEAN
    BY Zenon
  <2>2. /\ pending \in Snapshots /\ active \in Snapshots /\ offered \in Snapshots
        /\ delivered \in [Endpoints -> Snapshots]
    OBVIOUS
  <2> QED  BY <2>1, <2>2 DEF SnapshotTypeOK
<1>2. SinglePump
  BY DEF SinglePump
<1>3. StopDrains
  BY DEF StopDrains
<1>4. PendingIsNewer
  BY DEF PendingIsNewer
<1>5. FlagMeansPump
  BY DEF FlagMeansPump
<1>6. StopIsFlagged
  BY DEF StopIsFlagged
<1>7. OfferedIsNewest
  BY DEF OfferedIsNewest
<1> QED  BY <1>1, <1>2, <1>3, <1>4, <1>5, <1>6, <1>7 DEF SnapshotInv

\* Every step of the tick, the pump and Stop preserves the invariant.
LEMMA SnapshotInductive == SnapshotInv /\ [SnapshotNext]_pumpVars => SnapshotInv'
<1> SUFFICES ASSUME SnapshotInv, [SnapshotNext]_pumpVars PROVE SnapshotInv'
  OBVIOUS
<1> USE SnapshotAssumption
    DEF SnapshotInv, SnapshotTypeOK, Snapshots, SinglePump, StopDrains, PendingIsNewer,
        FlagMeansPump, PumpRunning, StopIsFlagged, OfferedIsNewest
<1>1. CASE Offer
  BY <1>1 DEF Offer
<1>2. CASE Accept
  <2>1. SnapshotTypeOK'
    BY <1>2 DEF Accept
  <2>2. SinglePump'
    BY <1>2 DEF Accept
  <2>3. StopDrains'
    BY <1>2 DEF Accept
  <2>4. PendingIsNewer'
    BY <1>2 DEF Accept
  <2>5. FlagMeansPump'
    BY <1>2 DEF Accept
  <2>6. StopIsFlagged'
    BY <1>2 DEF Accept
  <2>7. OfferedIsNewest'
    BY <1>2 DEF Accept
  <2> QED  BY <2>1, <2>2, <2>3, <2>4, <2>5, <2>6, <2>7
<1>3. CASE Post
  BY <1>3 DEF Post
<1>4. CASE Pump
  <2>1. SnapshotTypeOK'
    <3>1. stopped' \in BOOLEAN /\ scheduled' \in BOOLEAN
      BY <1>4, Zenon DEF Pump
    <3>2. pending' \in Snapshots /\ active' \in Snapshots
      BY <1>4 DEF Pump
    <3>3. /\ destinations' \in SUBSET Endpoints /\ endpoints' \in SUBSET Endpoints
          /\ offered' \in Snapshots /\ tickAt' \in {"rest", "lock", "post"}
          /\ stopAt' \in {"rest", "lock", "done"}
          /\ pumpAt' \in {"none", "posted", "take", "collect", "send", "sending", "finish",
                         "twice"}
          /\ delivered' \in [Endpoints -> Snapshots]
      BY <1>4 DEF Pump
    <3> QED  BY <3>1, <3>2, <3>3, Zenon DEF SnapshotTypeOK
  <2>2. SinglePump'
    BY <1>4 DEF Pump
  <2>3. StopDrains'
    BY <1>4 DEF Pump
  <2>4. PendingIsNewer'
    BY <1>4 DEF Pump
  <2>5. FlagMeansPump'
    BY <1>4 DEF Pump
  <2>6. StopIsFlagged'
    BY <1>4 DEF Pump
  <2>7. OfferedIsNewest'
    BY <1>4 DEF Pump
  <2> QED  BY <2>1, <2>2, <2>3, <2>4, <2>5, <2>6, <2>7
<1>5. CASE Take
  <2>1. SnapshotTypeOK'
    <3>1. stopped' \in BOOLEAN /\ scheduled' \in BOOLEAN
      BY <1>5, Zenon DEF Take
    <3>2. pending' \in Snapshots /\ active' \in Snapshots
      BY <1>5 DEF Take
    <3>3. /\ destinations' \in SUBSET Endpoints /\ endpoints' \in SUBSET Endpoints
          /\ offered' \in Snapshots /\ tickAt' \in {"rest", "lock", "post"}
          /\ stopAt' \in {"rest", "lock", "done"}
          /\ pumpAt' \in {"none", "posted", "take", "collect", "send", "sending", "finish",
                         "twice"}
          /\ delivered' \in [Endpoints -> Snapshots]
      BY <1>5 DEF Take
    <3> QED  BY <3>1, <3>2, <3>3, Zenon DEF SnapshotTypeOK
  <2>2. SinglePump'
    BY <1>5 DEF Take
  <2>3. StopDrains'
    BY <1>5 DEF Take
  <2>4. PendingIsNewer'
    BY <1>5 DEF Take
  <2>5. FlagMeansPump'
    BY <1>5 DEF Take
  <2>6. StopIsFlagged'
    BY <1>5 DEF Take
  <2>7. OfferedIsNewest'
    BY <1>5 DEF Take
  <2> QED  BY <2>1, <2>2, <2>3, <2>4, <2>5, <2>6, <2>7
<1>6. CASE Collect
  BY <1>6 DEF Collect
<1>7. CASE SendNext
  BY <1>7 DEF SendNext
<1>8. CASE Sent
  BY <1>8 DEF Sent
<1>9. CASE StopFlag
  BY <1>9 DEF StopFlag
<1>10. CASE StopClear
  <2>1. SnapshotTypeOK'
    <3>1. stopped' \in BOOLEAN /\ scheduled' \in BOOLEAN
      BY <1>10, Zenon DEF StopClear
    <3>2. pending' \in Snapshots /\ active' \in Snapshots
      BY <1>10 DEF StopClear
    <3>3. /\ destinations' \in SUBSET Endpoints /\ endpoints' \in SUBSET Endpoints
          /\ offered' \in Snapshots /\ tickAt' \in {"rest", "lock", "post"}
          /\ stopAt' \in {"rest", "lock", "done"}
          /\ pumpAt' \in {"none", "posted", "take", "collect", "send", "sending", "finish",
                         "twice"}
          /\ delivered' \in [Endpoints -> Snapshots]
      BY <1>10 DEF StopClear
    <3> QED  BY <3>1, <3>2, <3>3, Zenon DEF SnapshotTypeOK
  <2>2. SinglePump'
    BY <1>10 DEF StopClear
  <2>3. StopDrains'
    BY <1>10 DEF StopClear
  <2>4. PendingIsNewer'
    BY <1>10 DEF StopClear
  <2>5. FlagMeansPump'
    BY <1>10 DEF StopClear
  <2>6. StopIsFlagged'
    BY <1>10 DEF StopClear
  <2>7. OfferedIsNewest'
    BY <1>10 DEF StopClear
  <2> QED  BY <2>1, <2>2, <2>3, <2>4, <2>5, <2>6, <2>7
<1>11. CASE EndpointsChange
  BY <1>11 DEF EndpointsChange
<1>12. CASE UNCHANGED pumpVars
  BY <1>12 DEF pumpVars
<1> QED  BY <1>1, <1>2, <1>3, <1>4, <1>5, <1>6, <1>7, <1>8, <1>9, <1>10, <1>11, <1>12
            DEF SnapshotNext, TickStep, PumpStep, StopStep

\* The invariant holds throughout every behaviour.
LEMMA SnapshotInvariant == SnapshotSpec => []SnapshotInv
BY SnapshotInitially, SnapshotInductive, PTL DEF SnapshotSpec

\* For any endpoints and any number of snapshots: a waiting snapshot has a pump, and
\* never two, whatever SendSnapshot, the strand and Stop do to the scheduled flag.
THEOREM SnapshotPumped == SnapshotSpec => [](SnapshotTypeOK /\ OnePumpForPending)
<1>1. SnapshotInv => SnapshotTypeOK /\ OnePumpForPending
  BY DEF SnapshotInv, FlagMeansPump, PendingHasPump, OnePumpForPending
<1> QED  BY <1>1, SnapshotInvariant, PTL

\* For any endpoints and any number of snapshots: nothing waits once Stop is done,
\* also when SendSnapshot was between its two looks at stopped_.
THEOREM SnapshotStopDrains == SnapshotSpec => []StopDrains
<1>1. SnapshotInv => StopDrains
  BY DEF SnapshotInv
<1> QED  BY <1>1, SnapshotInvariant, PTL

\* For any endpoints and any number of snapshots: every endpoint is sent newer and
\* newer snapshots, although a slow send lets others overtake it.
THEOREM SnapshotsNewer == SnapshotSpec => []PendingIsNewer
<1>1. SnapshotInv => PendingIsNewer
  BY DEF SnapshotInv
<1> QED  BY <1>1, SnapshotInvariant, PTL
=============================================================================
