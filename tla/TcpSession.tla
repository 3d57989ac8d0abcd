----------------------------- MODULE TcpSession -----------------------------
(***************************************************************************)
(* One TCP connection of the game server (src/TcpSession.cpp) with its     *)
(* three deadlines (include/SessionDeadline.h).  Its handlers run on a     *)
(* strand, one at a time and each to its end, so a handler is one action.  *)
(* The socket, the timers, the database's answer to a login and the        *)
(* server's Stop only queue work for the strand: their handlers may run    *)
(* late and in any order.                                                  *)
(*                                                                         *)
(* The state of the session is one record, and what the strand's functions *)
(* do to it is written as functions on such records; a function with       *)
(* several outcomes returns the set of them.                               *)
(*                                                                         *)
(* A deadline counts its Starts and Cancels and a callback carries the     *)
(* count it was started with.  The two differ when something was started   *)
(* or cancelled since: of the callbacks that wait for the strand, those    *)
(* are "stale", of which the model keeps one.  The others would close the  *)
(* session; whether they may is auxiliary: "current" is one whose timer    *)
(* was started last, "earlier" one that has outlasted a further Start and  *)
(* so belongs to an operation before the present one.                      *)
(*                                                                         *)
(* The authentication server's session has the same reads, writes and      *)
(* deadlines after a TLS handshake: AuthTlsSession builds it from these    *)
(* parts, and the record is the one of both.                               *)
(***************************************************************************)
EXTENDS Integers, Sequences

CONSTANTS
    MaxPackets,                \* bound on the packets the client sends
    MaxPendingWriteMessages,   \* maxPendingWriteMessages
    MaxPendingWriteBytes,      \* maxPendingWriteBytes
    ResponseSizes,             \* sizes of responses
    SizeModulus                \* 2 ^ the width of std::size_t

ASSUME TcpAssumption ==
    /\ MaxPackets \in Nat
    /\ MaxPendingWriteMessages \in Nat \ {0}
    /\ MaxPendingWriteBytes \in Nat \ {0}
    /\ ResponseSizes \subseteq Nat \ {0}
    /\ SizeModulus \in Nat
    /\ \A n \in ResponseSizes \cup {MaxPendingWriteBytes} : n < SizeModulus

VARIABLES
    session,    \* the TcpSession and what waits for its strand
    arrived     \* how many packets the client has sent

tcpVars == <<session, arrived>>

Kinds == {"handshake", "auth", "read", "write"}

Operation == {"none", "waiting", "done", "error"}    \* an asynchronous operation

Deadline == [armed : BOOLEAN, late : SUBSET {"current", "earlier", "stale"}]

Session == [server : {"game", "auth"},   \* the server that accepted the connection
            started : BOOLEAN,           \* Start has run on the strand
            closed : BOOLEAN,            \* closed_
            listed : BOOLEAN,            \* in sessions_ of the SessionManager
            identity : BOOLEAN,          \* known to the DungeonManager as a player's connection
            received : Nat,              \* whole packets in receiveBuffer_
            handshake : Operation,       \* async_handshake (authentication server)
            read : Operation,            \* async_read_some
            request : BOOLEAN,           \* requestInProgress_
            login : BOOLEAN,             \* the request is with the database's services
            answer : BOOLEAN,            \* HandleResponse waits for the strand
            authenticated : BOOLEAN,     \* authState_ has a snapshot
            registered : BOOLEAN,        \* authenticationRegistered_
            queue : Seq(ResponseSizes),  \* writeQueue_
            bytes : Nat,                 \* pendingWriteBytes_
            write : Operation,           \* async_write
            deadlines : [Kinds -> Deadline]]

TcpTypeOK == session \in Session /\ arrived \in 0..MaxPackets

\* A session whose Start was dispatched; that of the game server is in sessions_.
NewSession(server) ==
    [server |-> server, started |-> FALSE, closed |-> FALSE, listed |-> server = "game",
     identity |-> FALSE, received |-> 0, handshake |-> "none", read |-> "none",
     request |-> FALSE, login |-> FALSE, answer |-> FALSE, authenticated |-> FALSE,
     registered |-> FALSE, queue |-> <<>>, bytes |-> 0, write |-> "none",
     deadlines |-> [k \in Kinds |-> [armed |-> FALSE, late |-> {}]]]

\* The connection is one of the game server.
Game == session.server = "game"

TcpInit == session = NewSession("game") /\ arrived = 0

-----------------------------------------------------------------------------
(* SessionDeadline                                                         *)

\* Mutant of Superseded: the generation stays as it is.
SupersededNever(late) == late

\* What a new generation makes of the callbacks that wait for the strand.
Superseded(late) == {"stale" : callback \in late}

\* What waits for the strand when a timer is started is about something earlier.
Outlasting(late) == {IF callback = "current" THEN "earlier" ELSE callback : callback \in late}

\* SessionDeadline::Start
Armed(deadline) == [armed |-> TRUE, late |-> Superseded(Outlasting(deadline.late))]

\* SessionDeadline::Cancel
Cancelled(deadline) == [armed |-> FALSE, late |-> Superseded(deadline.late)]

Arm(s, k) == [s EXCEPT !.deadlines[k] = Armed(@)]

Disarm(s, k) == [s EXCEPT !.deadlines[k] = Cancelled(@)]

\* generation == generation_
IsCurrent(callback) == callback # "stale"

-----------------------------------------------------------------------------
(* The functions of the strand.                                            *)

\* Closing the socket completes a pending operation with an error; one that has
\* completed keeps its result.
Aborted(operation) == IF operation = "waiting" THEN "error" ELSE operation

\* Mutant of CloseOnStrand: the authentication deadline is left running.
CloseKeepsAuthDeadline(s) ==
    IF s.closed THEN s
    ELSE [s EXCEPT !.closed = TRUE, !.listed = FALSE, !.identity = FALSE,
                   !.deadlines = [k \in Kinds |-> IF k = "auth" THEN @[k] ELSE Cancelled(@[k])],
                   !.read = Aborted(@), !.write = Aborted(@)]

\* CloseOnStrand, with RemoveSession (which GameServer takes apart).
CloseOnStrand(s) ==
    IF s.closed THEN s
    ELSE [s EXCEPT !.closed = TRUE, !.listed = FALSE, !.identity = FALSE,
                   !.deadlines = [k \in Kinds |-> Cancelled(@[k])],
                   !.read = Aborted(@), !.write = Aborted(@)]

StartRead(s) == IF s.closed THEN s ELSE [Arm(s, "read") EXCEPT !.read = "waiting"]

\* DispatchNextPacket.  A packet is undecodable, unknown or out of place, or its
\* handler throws: the session is closed.  Otherwise a login is handed to the
\* PlayerLoginService and any other request is answered at once.
DispatchNextPacket(s) ==
    IF s.closed \/ s.request THEN {s}
    ELSE IF s.received = 0 THEN {StartRead(s)}
    ELSE LET t == [s EXCEPT !.received = @ - 1]
         IN  {CloseOnStrand(t),
              IF s.authenticated
              THEN [t EXCEPT !.request = TRUE, !.answer = TRUE]
              ELSE [t EXCEPT !.request = TRUE, !.login = TRUE]}

\* Writing to a closed socket fails.
StartWrite(s) ==
    [Arm(s, "write") EXCEPT !.write = IF s.closed THEN "error" ELSE "waiting"]

\* A write has succeeded: its message leaves the queue and the next one is written.
Written(s) ==
    LET t == [s EXCEPT !.bytes = @ - Head(s.queue), !.queue = Tail(@)]
    IN  IF t.queue = <<>> THEN t ELSE StartWrite(t)

\* Mutant of HasWriteRoom: only the subtraction is compared.
HasWriteRoomUnguarded(s, size) ==
    /\ Len(s.queue) < MaxPendingWriteMessages
    /\ s.bytes <= (MaxPendingWriteBytes - size) % SizeModulus

\* The two limits of QueueWrite, in the arithmetic of std::size_t.
HasWriteRoom(s, size) ==
    /\ Len(s.queue) < MaxPendingWriteMessages
    /\ size <= MaxPendingWriteBytes
    /\ s.bytes <= (MaxPendingWriteBytes - size) % SizeModulus

\* QueueWrite, where there is room.
QueueWrite(s, size) ==
    LET t == [s EXCEPT !.queue = Append(@, size), !.bytes = @ + size]
    IN  IF s.queue = <<>> THEN StartWrite(t) ELSE t

\* The end of HandleResponse: queue the response, then look for the next packet.
Respond(s, size) ==
    IF HasWriteRoom(s, size)
    THEN DispatchNextPacket(QueueWrite(s, size))
    ELSE {CloseOnStrand(s)}

\* RegisterAuthenticatedPlayer, once the session is authenticated; it may refuse.
Registered(s) ==
    IF ~s.authenticated THEN {s}
    ELSE IF s.registered THEN {Disarm(s, "auth")}
    ELSE {CloseOnStrand(s), [Disarm(s, "auth") EXCEPT !.registered = TRUE, !.identity = TRUE]}

\* Mutant of HandleResponse: the answer is handled although the session is closed.
HandleResponseUnchecked(s, size) ==
    UNION {IF t.closed /\ ~s.closed THEN {t} ELSE Respond(t, size) :
               t \in Registered([s EXCEPT !.answer = FALSE, !.request = FALSE])}

HandleResponse(s, size) ==
    IF s.closed THEN {[s EXCEPT !.answer = FALSE]}
    ELSE UNION {IF t.closed THEN {t} ELSE Respond(t, size) :
                    t \in Registered([s EXCEPT !.answer = FALSE, !.request = FALSE])}

-----------------------------------------------------------------------------
(* What runs on the strand.                                                *)

\* Start
StartOnStrand ==
    /\ Game
    /\ ~session.started
    /\ session' = LET s == [session EXCEPT !.started = TRUE]
                  IN  IF s.closed THEN s ELSE StartRead(Arm(s, "auth"))
    /\ UNCHANGED arrived

\* The completion of async_read_some, with HandleRead: any number of the client's
\* packets may have been completed by the bytes received.
ReadHandler ==
    /\ Game
    /\ session.read \in {"done", "error"}
    /\ LET s == [Disarm(session, "read") EXCEPT !.read = "none"] IN
       \/ /\ session.read = "error"
          /\ session' = CloseOnStrand(s)
          /\ UNCHANGED arrived
       \/ /\ session.read = "done"
          /\ \E n \in 0..(MaxPackets - arrived) :
                /\ session' \in DispatchNextPacket([s EXCEPT !.received = @ + n])
                /\ arrived' = arrived + n

\* The HandleResponse that the dispatcher's completion has posted.
ResponseHandler ==
    /\ Game
    /\ session.answer
    /\ \E size \in ResponseSizes : session' \in HandleResponse(session, size)
    /\ UNCHANGED arrived

\* The completion of async_write.
WriteHandler ==
    /\ Game
    /\ session.write \in {"done", "error"}
    /\ session' = LET s == [Disarm(session, "write") EXCEPT !.write = "none"]
                  IN  IF session.write = "error" THEN CloseOnStrand(s) ELSE Written(s)
    /\ UNCHANGED arrived

\* The callback of a timer that has expired.
TimeoutHandler(k) ==
    /\ Game
    /\ \E callback \in session.deadlines[k].late :
          LET s == [session EXCEPT !.deadlines[k].late = @ \ {callback}]
          IN  session' = IF IsCurrent(callback) THEN CloseOnStrand(s) ELSE s
    /\ UNCHANGED arrived

\* Stop, dispatched by SessionManager::Stop.
StopSession ==
    /\ Game
    /\ session' = CloseOnStrand(session)
    /\ UNCHANGED arrived

-----------------------------------------------------------------------------
(* What the strand waits for.                                              *)

\* The socket completes the read or the write.
SocketReads ==
    /\ session.read = "waiting"
    /\ \E result \in {"done", "error"} : session' = [session EXCEPT !.read = result]
    /\ UNCHANGED arrived

SocketWrites ==
    /\ session.write = "waiting"
    /\ \E result \in {"done", "error"} : session' = [session EXCEPT !.write = result]
    /\ UNCHANGED arrived

\* A timer expires: its callback can no longer be cancelled.
Expire(k) ==
    /\ session.deadlines[k].armed
    /\ session' = [session EXCEPT !.deadlines[k] =
                       [armed |-> FALSE, late |-> @.late \cup {"current"}]]
    /\ UNCHANGED arrived

\* The completion of a login, on any thread of the io_context: on success it
\* authenticates, and it posts the response unless the session object is gone.
LoginCompletes ==
    /\ Game
    /\ session.login
    /\ \E ok \in BOOLEAN, posted \in BOOLEAN :
          /\ posted \/ session.closed
          /\ session' = [session EXCEPT !.login = FALSE, !.authenticated = ok, !.answer = posted]
    /\ UNCHANGED arrived

StrandStep ==
    \/ StartOnStrand \/ ReadHandler \/ ResponseHandler \/ WriteHandler
    \/ \E k \in Kinds : TimeoutHandler(k)

TcpNext ==
    \/ StrandStep
    \/ StopSession
    \/ SocketReads \/ SocketWrites
    \/ \E k \in Kinds : Expire(k)
    \/ LoginCompletes

TcpSpec == TcpInit /\ [][TcpNext]_tcpVars
-----------------------------------------------------------------------------
\* A closed session is known to no manager, although the answer to its login may
\* come after the close: CloseOnStrand runs RemoveSession once, so an identity
\* registered later would stay forever and lock its player out.
ClosedIsForgotten == session.closed => ~session.listed /\ ~session.identity

\* The deadline k will still close the session.
Guarded(k) == session.deadlines[k].armed \/ \E c \in session.deadlines[k].late : IsCurrent(c)

\* The client still owes the server a login.
LoginOutstanding ==
    IF Game THEN ~session.registered
    ELSE session.handshake = "none" /\ ~session.authenticated

\* An open session is never abandoned: it shakes hands, reads or answers a request,
\* and whatever it waits for from the client, a handshake, bytes, room for a response
\* or a login, a deadline is running for it.
NeverAbandoned ==
    session.started /\ ~session.closed =>
        /\ session.handshake # "none" \/ session.read # "none" \/ session.login \/ session.answer
        /\ session.handshake = "waiting" => Guarded("handshake")
        /\ session.request <=> session.login \/ session.answer
        /\ session.read = "waiting" => Guarded("read")
        /\ session.write = "waiting" => Guarded("write")
        /\ LoginOutstanding => Guarded("auth")

\* total is the sum of queue: the running totals go from 0 to it.
AddsUpTo(queue, total) ==
    \E sum \in [0..Len(queue) -> 0..total] :
        /\ sum[0] = 0 /\ sum[Len(queue)] = total
        /\ \A i \in 1..Len(queue) : sum[i] = sum[i - 1] + queue[i]

\* The write queue and its byte count agree and stay within their limits, and an
\* open session with something to write is writing.
WriteQueueAccounted ==
    /\ AddsUpTo(session.queue, session.bytes)
    /\ session.bytes <= MaxPendingWriteBytes
    /\ Len(session.queue) <= MaxPendingWriteMessages
    /\ ~session.closed => (session.write # "none" <=> session.queue # <<>>)

\* No operation, no posted handler and no timer of the session is pending, except that
\* a TLS handshake that ends just after its session was closed starts the
\* authentication timeout.  A request that is still with the database is the
\* executor's work: its completion is handed to the io_context when it ends.
Released ==
    /\ session.handshake = "none" /\ session.read = "none" /\ session.write = "none"
    /\ ~session.answer
    /\ \A k \in Kinds : \/ ~session.deadlines[k].armed /\ session.deadlines[k].late = {}
                        \/ ~Game /\ k = "auth"

\* A closed session is released without waiting for a timer to expire: the threads
\* of the io_context end, and with them the server, only when no timer is pending.
ClosedIsReleased == session.closed ~> Released
=============================================================================
