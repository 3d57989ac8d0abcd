--------------------------- MODULE AuthTlsSession ---------------------------
(***************************************************************************)
(* One connection of the authentication server (src/AuthTlsSession.cpp),   *)
(* built from the parts of TcpSession.  It differs in this: a TLS          *)
(* handshake with a deadline of its own comes first; no manager keeps it   *)
(* and nobody stops it, so it lives as long as a handler refers to it;     *)
(* every request goes to a service and is answered by a completion that    *)
(* keeps the session alive; and it counts as authenticated as soon as an   *)
(* account is set, without being registered anywhere.                      *)
(*                                                                         *)
(* SessionsSpec runs a connection of either server.                        *)
(***************************************************************************)
EXTENDS TcpSession

TlsInit == session = NewSession("auth") /\ arrived = 0

-----------------------------------------------------------------------------
(* The functions of the strand.                                            *)

\* Close
Close(s) ==
    IF s.closed THEN s
    ELSE [s EXCEPT !.closed = TRUE, !.deadlines = [k \in Kinds |-> Cancelled(@[k])],
                   !.handshake = Aborted(@), !.read = Aborted(@), !.write = Aborted(@)]

\* Start, with StartHandshake.
StartHandshake(s) == [Arm(s, "handshake") EXCEPT !.handshake = "waiting"]

\* Mutant of HandshakeDone: the authentication timeout is left to the first login.
HandshakeDoneUntimed(s) == StartRead(s)

\* The end of a handshake without an error: the deadline is started before anyone
\* looks at closed_.
HandshakeDone(s) == StartRead(Arm(s, "auth"))

\* DispatchNextPacket: the dispatcher throws, or hands the request to its service.
DispatchNextRequest(s) ==
    IF s.closed \/ s.request THEN {s}
    ELSE IF s.received = 0 THEN {StartRead(s)}
    ELSE LET t == [s EXCEPT !.received = @ - 1]
         IN  {Close(t), [t EXCEPT !.request = TRUE, !.login = TRUE]}

\* QueueWrite, then the next packet.
QueueResponse(s, size) ==
    IF HasWriteRoom(s, size)
    THEN DispatchNextRequest(QueueWrite(s, size))
    ELSE {Close(s)}

\* HandleResponse
HandleAuthResponse(s, size) ==
    LET t == [s EXCEPT !.answer = FALSE, !.request = FALSE]
    IN  IF s.closed THEN {[s EXCEPT !.answer = FALSE]}
        ELSE QueueResponse(IF s.authenticated THEN Disarm(t, "auth") ELSE t, size)

-----------------------------------------------------------------------------
(* What runs on the strand.                                                *)

TlsStart ==
    /\ ~Game
    /\ ~session.started
    /\ session' = StartHandshake([session EXCEPT !.started = TRUE])
    /\ UNCHANGED arrived

\* The completion of async_handshake.
HandshakeHandler ==
    /\ ~Game
    /\ session.handshake \in {"done", "error"}
    /\ LET s == [Disarm(session, "handshake") EXCEPT !.handshake = "none"]
       IN  session' = IF session.handshake = "error" THEN Close(s) ELSE HandshakeDone(s)
    /\ UNCHANGED arrived

\* The completion of async_read_some, with HandleRead.
TlsReadHandler ==
    /\ ~Game
    /\ session.read \in {"done", "error"}
    /\ LET s == [Disarm(session, "read") EXCEPT !.read = "none"] IN
       \/ /\ session.read = "error"
          /\ session' = Close(s)
          /\ UNCHANGED arrived
       \/ /\ session.read = "done"
          /\ \E n \in 0..(MaxPackets - arrived) :
                /\ session' \in DispatchNextRequest([s EXCEPT !.received = @ + n])
                /\ arrived' = arrived + n

TlsResponseHandler ==
    /\ ~Game
    /\ session.answer
    /\ \E size \in ResponseSizes : session' \in HandleAuthResponse(session, size)
    /\ UNCHANGED arrived

\* The completion of async_write.
TlsWriteHandler ==
    /\ ~Game
    /\ session.write \in {"done", "error"}
    /\ session' = LET s == [Disarm(session, "write") EXCEPT !.write = "none"]
                  IN  IF session.write = "error" THEN Close(s) ELSE Written(s)
    /\ UNCHANGED arrived

\* The callback of one of the four timers.
TlsTimeoutHandler(k) ==
    /\ ~Game
    /\ \E callback \in session.deadlines[k].late :
          LET s == [session EXCEPT !.deadlines[k].late = @ \ {callback}]
          IN  session' = IF IsCurrent(callback) THEN Close(s) ELSE s
    /\ UNCHANGED arrived

-----------------------------------------------------------------------------
(* What the strand waits for, beside what TcpSession has.                  *)

SocketShakesHands ==
    /\ ~Game
    /\ session.handshake = "waiting"
    /\ \E result \in {"done", "error"} : session' = [session EXCEPT !.handshake = result]
    /\ UNCHANGED arrived

\* The service calls the dispatcher's completion: a login that succeeded sets the
\* account, and the response is posted to the strand.
RequestCompletes ==
    /\ ~Game
    /\ session.login
    /\ \E ok \in BOOLEAN :
          session' = [session EXCEPT !.login = FALSE, !.authenticated = @ \/ ok, !.answer = TRUE]
    /\ UNCHANGED arrived

TlsNext ==
    \/ TlsStart \/ HandshakeHandler \/ TlsReadHandler \/ TlsResponseHandler \/ TlsWriteHandler
    \/ \E k \in Kinds : TlsTimeoutHandler(k)
    \/ SocketShakesHands
    \/ RequestCompletes

\* A connection of the game server or one of the authentication server.
SessionsInit == TcpInit \/ TlsInit

SessionsNext == TcpNext \/ TlsNext

SessionsSpec == SessionsInit /\ [][SessionsNext]_tcpVars

\* An io_context runs what is queued for a strand, in the order in which it was
\* queued, so no handler waits forever.  Nothing is assumed of the client, the
\* timers or the database.
FairSessionsSpec ==
    /\ SessionsSpec
    /\ WF_tcpVars(StartOnStrand \/ TlsStart)
    /\ WF_tcpVars(HandshakeHandler)
    /\ WF_tcpVars(ReadHandler \/ TlsReadHandler)
    /\ WF_tcpVars(ResponseHandler \/ TlsResponseHandler)
    /\ WF_tcpVars(WriteHandler \/ TlsWriteHandler)
    /\ \A k \in Kinds : WF_tcpVars(TimeoutHandler(k) \/ TlsTimeoutHandler(k))
-----------------------------------------------------------------------------
\* Something that the deadline k watches is going on.
Awaited(k) ==
    \/ k = "handshake" /\ session.handshake # "none"
    \/ k = "auth" /\ LoginOutstanding
    \/ k = "auth" /\ ~Game /\ session.answer
    \/ k = "read" /\ session.read # "none"
    \/ k = "write" /\ session.write # "none"

\* The comment in SessionDeadline::Start: a callback that comes late, after its timer
\* was cancelled, does not close what was begun since.  So, of the callbacks that wait
\* for the strand of an open session, those that will find their generation current
\* are of the operation that is under way: it has not ended, and none of its kind was
\* begun after it.
LateTimeoutHarmless ==
    ~session.closed => \A k \in Kinds : \A callback \in session.deadlines[k].late :
        IsCurrent(callback) => callback = "current" /\ Awaited(k)
=============================================================================
