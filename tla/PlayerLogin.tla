---------------------------- MODULE PlayerLogin -----------------------------
(***************************************************************************)
(* Logging in to the game server with a ticket of the authentication       *)
(* server (src/PlayerLoginService.cpp, src/SqliteAuthTicketStore.cpp and   *)
(* HandleLoginRequestAsync of src/PacketDispatcher.cpp).  A login is a     *)
(* task of the DatabaseExecutor; the task consumes the ticket in a         *)
(* transaction, under the mutex of the database connection, looks the      *)
(* player up and posts the result to the io_context.  A task of the        *)
(* executor is one login; SessionOf says whose.                            *)
(*                                                                         *)
(* A session is reduced to what matters here: whether it is closed,        *)
(* whether a request is in progress and whether it is authenticated        *)
(* (TcpSession has the rest).                                              *)
(***************************************************************************)
EXTENDS DatabaseExecutor

CONSTANTS
    Tickets,      \* tickets the authentication server may issue
    Sessions,     \* TCP sessions
    SessionOf,    \* the session of each login
    None          \* absent value

\* The statuses of a PlayerLoginResult.
Statuses == {"Success", "InvalidTicket", "PlayerNotFound", "ServiceBusy", "StorageError"}

ASSUME LoginAssumption ==
    /\ SessionOf \in [Tasks -> Sessions]
    /\ None \notin Tickets \cup Tasks \cup Statuses

VARIABLES
    tickets,             \* the rows of auth_tickets: "absent", "valid" or "expired"
    issued,              \* the tickets that have been issued
    connectionMutex,     \* the task that holds database_.ConnectionMutex()
    loginAt,             \* where each login is
    ticketOf,            \* work->ticket
    fresh,               \* expires_at_unix > nowUnix, with the nowUnix of Verify
    result,              \* result.status
    authenticatedBy,     \* the ticket each session's authState_ was set from
    requestInProgress,   \* requestInProgress_ of each session
    closed,              \* closed_ of each session
    ioRunning            \* the threads of the io_context have not ended

loginVars == <<tickets, issued, connectionMutex, loginAt, ticketOf, fresh, result,
               authenticatedBy, requestInProgress, closed, ioRunning>>
allVars   == <<executorVars, loginVars>>

InTask == {"verify", "lock", "select", "delete", "find"}

LoginTypeOK ==
    /\ ExecutorTypeOK
    /\ tickets \in [Tickets -> {"absent", "valid", "expired"}]
    /\ issued \in SUBSET Tickets
    /\ connectionMutex \in Tasks \cup {None}
    /\ loginAt \in [Tasks -> InTask \cup {"new", "queued", "complete", "done"}]
    /\ ticketOf \in [Tasks -> Tickets \cup {None}]
    /\ fresh \in [Tasks -> BOOLEAN]
    /\ result \in [Tasks -> Statuses \cup {None}]
    /\ authenticatedBy \in [Sessions -> Tickets \cup {None}]
    /\ requestInProgress \in [Sessions -> BOOLEAN]
    /\ closed \in [Sessions -> BOOLEAN]
    /\ ioRunning \in BOOLEAN

LoginInit ==
    /\ ExecutorInit
    /\ tickets = [k \in Tickets |-> "absent"]
    /\ issued = {}
    /\ connectionMutex = None
    /\ loginAt = [t \in Tasks |-> "new"]
    /\ ticketOf = [t \in Tasks |-> None]
    /\ fresh = [t \in Tasks |-> FALSE]
    /\ result = [t \in Tasks |-> None]
    /\ authenticatedBy = [s \in Sessions |-> None]
    /\ requestInProgress = [s \in Sessions |-> FALSE]
    /\ closed = [s \in Sessions |-> FALSE]
    /\ ioRunning = TRUE

-----------------------------------------------------------------------------
(* The authentication server, another process on the same database.        *)

\* IssueTicket, from AuthTicketIssuer::Issue: a ticket is a fresh random number.
IssueTicket(k) ==
    /\ k \notin issued
    /\ issued' = issued \cup {k}
    /\ tickets' = [tickets EXCEPT ![k] = "valid"]
    /\ UNCHANGED <<executorVars, connectionMutex, loginAt, ticketOf, fresh, result,
                   authenticatedBy, requestInProgress, closed, ioRunning>>

\* expires_at_unix has passed.
ExpireTicket(k) ==
    /\ tickets[k] = "valid"
    /\ tickets' = [tickets EXCEPT ![k] = "expired"]
    /\ UNCHANGED <<executorVars, issued, connectionMutex, loginAt, ticketOf, fresh, result,
                   authenticatedBy, requestInProgress, closed, ioRunning>>

-----------------------------------------------------------------------------
(* PlayerLoginService::Login                                               *)

Goto(t, step) == loginAt' = [loginAt EXCEPT ![t] = step]

\* Mutant of Busy: no completion is posted when the queue is full.
BusyUnanswered(t) ==
    /\ ~CanPost
    /\ Goto(t, "done")
    /\ result' = [result EXCEPT ![t] = "ServiceBusy"]
    /\ UNCHANGED executorVars

\* TryPost returned false: the completion is posted at once.
Busy(t) ==
    /\ ~CanPost
    /\ Goto(t, "complete")
    /\ result' = [result EXCEPT ![t] = "ServiceBusy"]
    /\ UNCHANGED executorVars

\* HandleLoginRequestAsync of an open session that is not authenticated and has no
\* request in progress.  The client presents any ticket it likes.
Login(t, k) ==
    LET s == SessionOf[t] IN
    /\ ioRunning /\ ~closed[s] /\ ~requestInProgress[s] /\ authenticatedBy[s] = None
    /\ loginAt[t] = "new"
    /\ requestInProgress' = [requestInProgress EXCEPT ![s] = TRUE]
    /\ ticketOf' = [ticketOf EXCEPT ![t] = k]
    /\ \/ TryPost(t) /\ Goto(t, "queued") /\ UNCHANGED result
       \/ Busy(t)
    /\ UNCHANGED <<tickets, issued, connectionMutex, fresh, authenticatedBy, closed, ioRunning>>

\* A worker begins the login.
BeginLogin(t) ==
    /\ BeginTask(t)
    /\ Goto(t, "verify")
    /\ UNCHANGED <<tickets, issued, connectionMutex, ticketOf, fresh, result, authenticatedBy,
                   requestInProgress, closed, ioRunning>>

\* SqliteAuthTicketVerifier::Verify reads the clock, before it waits for the mutex.
ReadClock(t) ==
    /\ loginAt[t] = "verify"
    /\ fresh' = [fresh EXCEPT ![t] = tickets[ticketOf[t]] # "expired"]
    /\ Goto(t, "lock")
    /\ UNCHANGED <<executorVars, tickets, issued, connectionMutex, ticketOf, result,
                   authenticatedBy, requestInProgress, closed, ioRunning>>

\* The task posts its result to the io_context and ends; its locks are released.
Finish(t, status) ==
    /\ EndTask(t)
    /\ Goto(t, "complete")
    /\ result' = [result EXCEPT ![t] = status]
    /\ connectionMutex' = IF connectionMutex = t THEN None ELSE connectionMutex
    /\ UNCHANGED <<issued, ticketOf, fresh, authenticatedBy, requestInProgress, closed, ioRunning>>

\* Mutant of LockConnection: the connection is not locked.
LockNothing(t) ==
    /\ loginAt[t] = "lock"
    /\ Goto(t, "select")
    /\ UNCHANGED <<executorVars, tickets, issued, connectionMutex, ticketOf, fresh, result,
                   authenticatedBy, requestInProgress, closed, ioRunning>>

\* ConsumeTicket takes the mutex and begins its transaction.
LockConnection(t) ==
    /\ loginAt[t] = "lock"
    /\ connectionMutex = None
    /\ connectionMutex' = t
    /\ Goto(t, "select")
    /\ UNCHANGED <<executorVars, tickets, issued, ticketOf, fresh, result, authenticatedBy,
                   requestInProgress, closed, ioRunning>>

\* Its SELECT: without a row the ticket is invalid.
SelectTicket(t) ==
    /\ loginAt[t] = "select"
    /\ \/ /\ tickets[ticketOf[t]] = "absent"
          /\ Finish(t, "InvalidTicket")
          /\ UNCHANGED tickets
       \/ /\ tickets[ticketOf[t]] # "absent"
          /\ Goto(t, "delete")
          /\ UNCHANGED <<executorVars, tickets, issued, connectionMutex, ticketOf, fresh, result,
                         authenticatedBy, requestInProgress, closed, ioRunning>>

\* Its DELETE and COMMIT.  An expired ticket is deleted too.
DeleteTicket(t) ==
    /\ loginAt[t] = "delete"
    /\ tickets' = [tickets EXCEPT ![ticketOf[t]] = "absent"]
    /\ \/ /\ ~fresh[t]
          /\ Finish(t, "InvalidTicket")
       \/ /\ fresh[t]
          /\ connectionMutex' = IF connectionMutex = t THEN None ELSE connectionMutex
          /\ Goto(t, "find")
          /\ UNCHANGED <<executorVars, issued, ticketOf, fresh, result, authenticatedBy,
                         requestInProgress, closed, ioRunning>>

\* A statement throws: the transaction is rolled back.
StorageFails(t) ==
    /\ loginAt[t] \in {"select", "delete", "find"}
    /\ Finish(t, "StorageError")
    /\ UNCHANGED tickets

\* FindPlayer
FindPlayer(t) ==
    /\ loginAt[t] = "find"
    /\ \E status \in {"Success", "PlayerNotFound"} : Finish(t, status)
    /\ UNCHANGED tickets

\* The completion handler on the io_context: it authenticates the session, closed or
\* not, and the response ends the request unless the session is closed.
CompleteLogin(t) ==
    LET s == SessionOf[t] IN
    /\ ioRunning
    /\ loginAt[t] = "complete"
    /\ Goto(t, "done")
    /\ authenticatedBy' = [authenticatedBy EXCEPT ![s] =
           IF result[t] = "Success" /\ @ = None THEN ticketOf[t] ELSE @]
    /\ requestInProgress' = [requestInProgress EXCEPT ![s] = closed[s] /\ @]
    /\ UNCHANGED <<executorVars, tickets, issued, connectionMutex, ticketOf, fresh, result, closed,
                   ioRunning>>

-----------------------------------------------------------------------------
\* CloseOnStrand, for any reason: the login in progress goes on.
CloseSession(s) ==
    /\ ioRunning /\ ~closed[s]
    /\ closed' = [closed EXCEPT ![s] = TRUE]
    /\ UNCHANGED <<executorVars, tickets, issued, connectionMutex, loginAt, ticketOf, fresh, result,
                   authenticatedBy, requestInProgress, ioRunning>>

\* After StopOnIoContext the threads of the io_context end when nothing is left for
\* them.  The tasks of the executor are no work of the io_context.
IoEnds ==
    /\ ioRunning
    /\ \A s \in Sessions : closed[s]
    /\ \A t \in Tasks : loginAt[t] # "complete"
    /\ ioRunning' = FALSE
    /\ UNCHANGED <<executorVars, tickets, issued, connectionMutex, loginAt, ticketOf, fresh, result,
                   authenticatedBy, requestInProgress, closed>>

\* ServerApplication::Run then drains the executor, and so does the executor's
\* destructor; DrainAndStop allows them to be different threads.
Drain(x) ==
    /\ ~ioRunning
    /\ DrainAndStop(x)
    /\ UNCHANGED loginVars

DrainGoesOn(x) == DrainStep(x) /\ UNCHANGED loginVars

\* What a worker does for the login t.
LoginStep(t) ==
    \/ BeginLogin(t) \/ ReadClock(t) \/ LockConnection(t) \/ SelectTicket(t) \/ DeleteTicket(t)
    \/ StorageFails(t) \/ FindPlayer(t)

LoginNext ==
    \/ \E k \in Tickets : IssueTicket(k) \/ ExpireTicket(k) \/ \E t \in Tasks : Login(t, k)
    \/ \E t \in Tasks : LoginStep(t) \/ CompleteLogin(t)
    \/ \E s \in Sessions : CloseSession(s)
    \/ IoEnds
    \/ \E x \in Stoppers : Drain(x) \/ DrainGoesOn(x)

LoginSpec == LoginInit /\ [][LoginNext]_allVars

\* The workers, the threads of the io_context and those inside DrainAndStop are
\* scheduled.
FairLoginSpec ==
    /\ LoginSpec
    /\ \A t \in Tasks : WF_allVars(LoginStep(t)) /\ WF_allVars(CompleteLogin(t))
    /\ \A x \in Stoppers : WF_allVars(DrainGoesOn(x))
-----------------------------------------------------------------------------
\* One ticket, one login: whatever two connections that present the same ticket at
\* the same time, retry after an error or are closed meanwhile, at most one login
\* succeeds with it, and then the row is gone.
TicketUsedOnce ==
    \A t, u \in Tasks :
        result[t] = "Success" =>
            /\ ticketOf[t] \in issued /\ tickets[ticketOf[t]] = "absent"
            /\ result[u] = "Success" /\ ticketOf[u] = ticketOf[t] => u = t

\* A login that was begun is answered or its session is closed: a full queue, a
\* failing database and a ticket someone else is consuming included.
LoginAnswered ==
    \A s \in Sessions : requestInProgress[s] ~> ~requestInProgress[s] \/ closed[s]
=============================================================================
