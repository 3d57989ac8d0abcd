-------------------------- MODULE PlayerLoginProofs --------------------------
(***************************************************************************)
(* For any tasks, limits and threads: the executor's queue is counted      *)
(* exactly and bounded, and a drained executor stays drained, by itself    *)
(* and under the logins of PlayerLogin; and a ticket admits one login.     *)
(***************************************************************************)
EXTENDS PlayerLogin, FiniteSetTheorems, TLAPS

-----------------------------------------------------------------------------
(* DatabaseExecutor                                                        *)

\* Nothing is waiting, nothing runs, nothing more is accepted.
Idle == stopping /\ queued = {} /\ running = {}

\* Whoever is past workers_.join(), and everybody once joined_ is set, finds the
\* executor idle; whoever has entered DrainAndStop has closed it.
DrainedWhenPast ==
    /\ acceptingTasks <=> ~stopping
    /\ joined => Idle
    /\ \A x \in Stoppers :
          /\ stopAt[x] # "outside" => stopping
          /\ stopAt[x] \in {"notify", "returned"} => Idle

ExecutorInv == ExecutorTypeOK /\ QueueDepthExact /\ DrainedWhenPast

\* The initial state.
LEMMA ExecutorInitial == ExecutorInit => ExecutorInv
<1> SUFFICES ASSUME ExecutorInit PROVE ExecutorInv
  OBVIOUS
<1>1. ExecutorTypeOK
  BY DEF ExecutorInit, ExecutorTypeOK
<1>2. QueueDepthExact
  BY FS_EmptySet, ExecutorAssumption DEF ExecutorInit, QueueDepthExact
<1>3. DrainedWhenPast
  BY DEF ExecutorInit, DrainedWhenPast, Idle
<1> QED  BY <1>1, <1>2, <1>3 DEF ExecutorInv

\* A task is accepted only while nobody has called DrainAndStop.
LEMMA TryPostPreserves ==
    ASSUME ExecutorInv, NEW t \in Tasks, TryPost(t)
    PROVE  ExecutorInv'
<1> USE DEF ExecutorInv
<1>1. ExecutorTypeOK'
  BY DEF ExecutorTypeOK, TryPost
<1>2. QueueDepthExact'
  <2>1. IsFiniteSet(queued)
    BY FS_Subset, ExecutorAssumption DEF ExecutorTypeOK
  <2>2. Cardinality(queued \cup {t}) = Cardinality(queued) + 1
    BY <2>1, FS_AddElement DEF TryPost
  <2> QED  BY <2>2, ExecutorAssumption DEF TryPost, CanPost, QueueDepthExact, ExecutorTypeOK
<1>3. DrainedWhenPast'
  <2>1. ~stopping /\ ~joined /\ \A x \in Stoppers : stopAt[x] = "outside"
    BY DEF TryPost, CanPost, DrainedWhenPast, Idle
  <2> QED  BY <2>1 DEF TryPost, CanPost, DrainedWhenPast, ExecutorTypeOK
<1> QED  BY <1>1, <1>2, <1>3

\* A task that begins leaves the queue: nobody was past the join.
LEMMA BeginTaskPreserves ==
    ASSUME ExecutorInv, NEW t \in Tasks, BeginTask(t)
    PROVE  ExecutorInv'
<1> USE DEF ExecutorInv
<1>1. IsFiniteSet(queued)
  BY FS_Subset, ExecutorAssumption DEF ExecutorTypeOK
<1>2. Cardinality(queued \ {t}) = Cardinality(queued) - 1 /\ Cardinality(queued \ {t}) \in Nat
  BY <1>1, FS_RemoveElement, FS_CardinalityType DEF BeginTask
<1>3. ExecutorTypeOK'
  BY <1>2 DEF ExecutorTypeOK, BeginTask, QueueDepthExact
<1>4. QueueDepthExact'
  BY <1>2, ExecutorAssumption DEF BeginTask, QueueDepthExact, ExecutorTypeOK
<1>5. DrainedWhenPast'
  <2>1. ~joined /\ \A x \in Stoppers : stopAt[x] \notin {"notify", "returned"}
    BY DEF BeginTask, DrainedWhenPast, Idle
  <2> QED  BY <2>1 DEF BeginTask, DrainedWhenPast
<1> QED  BY <1>3, <1>4, <1>5

\* A task that ends only empties the executor further.
LEMMA EndTaskPreserves ==
    ASSUME ExecutorInv, NEW t \in Tasks, EndTask(t)
    PROVE  ExecutorInv'
<1> USE DEF ExecutorInv
<1>1. ExecutorTypeOK'
  BY DEF ExecutorTypeOK, EndTask
<1>2. QueueDepthExact'
  BY DEF EndTask, QueueDepthExact
<1>3. DrainedWhenPast'
  BY DEF EndTask, DrainedWhenPast, Idle
<1> QED  BY <1>1, <1>2, <1>3

\* A thread moves on inside DrainAndStop.
LEMMA DrainPreserves ==
    ASSUME ExecutorInv, NEW x \in Stoppers, DrainAndStop(x) \/ DrainStep(x)
    PROVE  ExecutorInv'
<1> USE DEF ExecutorInv, StopGoto
<1>1. QueueDepthExact'
  BY DEF DrainAndStop, DrainStep, JoinWorkers, SetJoined, AwaitJoined, QueueDepthExact
<1>2. CASE DrainAndStop(x)
  <2>1. ExecutorTypeOK'
    BY <1>2 DEF ExecutorTypeOK, DrainAndStop
  <2>2. DrainedWhenPast'
    BY <1>2 DEF ExecutorTypeOK, DrainAndStop, DrainedWhenPast, Idle
  <2> QED  BY <1>1, <2>1, <2>2
<1>3. CASE JoinWorkers(x)
  <2>1. ExecutorTypeOK'
    BY <1>3 DEF ExecutorTypeOK, JoinWorkers
  <2>2. DrainedWhenPast'
    BY <1>3 DEF ExecutorTypeOK, JoinWorkers, DrainedWhenPast, Idle
  <2> QED  BY <1>1, <2>1, <2>2
<1>4. CASE SetJoined(x)
  <2>1. ExecutorTypeOK'
    BY <1>4 DEF ExecutorTypeOK, SetJoined
  <2>2. DrainedWhenPast'
    BY <1>4 DEF ExecutorTypeOK, SetJoined, DrainedWhenPast, Idle
  <2> QED  BY <1>1, <2>1, <2>2
<1>5. CASE AwaitJoined(x)
  <2>1. ExecutorTypeOK'
    BY <1>5 DEF ExecutorTypeOK, AwaitJoined
  <2>2. DrainedWhenPast'
    BY <1>5 DEF ExecutorTypeOK, AwaitJoined, DrainedWhenPast, Idle
  <2> QED  BY <1>1, <2>1, <2>2
<1> QED  BY <1>2, <1>3, <1>4, <1>5 DEF DrainStep

\* So does every other step of the executor, and what leaves it alone.
LEMMA ExecutorPreserves == ExecutorInv /\ [ExecutorNext]_executorVars => ExecutorInv'
<1> SUFFICES ASSUME ExecutorInv, [ExecutorNext]_executorVars PROVE ExecutorInv'
  OBVIOUS
<1>1. CASE UNCHANGED executorVars
  <2>1. ExecutorTypeOK' /\ QueueDepthExact'
    BY <1>1 DEF executorVars, ExecutorInv, ExecutorTypeOK, QueueDepthExact
  <2>2. DrainedWhenPast'
    BY <1>1 DEF executorVars, ExecutorInv, DrainedWhenPast, Idle
  <2> QED  BY <2>1, <2>2 DEF ExecutorInv
<1>2. CASE ExecutorNext
  BY <1>2, TryPostPreserves, BeginTaskPreserves, EndTaskPreserves, DrainPreserves
     DEF ExecutorNext, WorkerStep
<1> QED  BY <1>1, <1>2

\* The strengthened invariant holds in every reachable state.
LEMMA ExecutorInvariant == ExecutorSpec => []ExecutorInv
  BY ExecutorInitial, ExecutorPreserves, PTL DEF ExecutorSpec

\* DatabaseExecutor.cpp: whatever calls of TryPost and DrainAndStop overlap, the
\* queue is counted exactly and within its limit, and no caller of DrainAndStop
\* returns while an accepted task is waiting or running.
THEOREM ExecutorDrains == ExecutorSpec => [](QueueDepthExact /\ DrainLosesNothing)
<1>1. ExecutorInv => QueueDepthExact /\ DrainLosesNothing
  BY DEF ExecutorInv, DrainedWhenPast, DrainLosesNothing, Idle
<1> QED  BY <1>1, ExecutorInvariant, PTL
-----------------------------------------------------------------------------
(* PlayerLogin                                                             *)

\* Only the login that holds the connection's mutex is inside ConsumeTicket.
ConnectionExclusive ==
    \A t \in Tasks : loginAt[t] \in {"select", "delete"} => connectionMutex = t

\* A login that waits has not begun; it has a ticket from its first step on and a
\* status once it is complete.
LoginProgress ==
    \A t \in Tasks :
        /\ t \in queued => loginAt[t] = "queued"
        /\ loginAt[t] # "new" => ticketOf[t] \in Tickets
        /\ result[t] # None => loginAt[t] \in {"complete", "done"}

\* A row that exists was issued; the SELECT of a login has found a row, and nobody
\* else has deleted it since.
RowsIssued ==
    /\ \A k \in Tickets : tickets[k] # "absent" => k \in issued
    /\ \A t \in Tasks : loginAt[t] = "delete" => tickets[ticketOf[t]] # "absent"

\* The login t has deleted the row of its ticket while it was fresh.
Consumed(t) == loginAt[t] = "find" \/ result[t] = "Success"

ConsumedOnce ==
    \A t, u \in Tasks :
        Consumed(t) =>
            /\ ticketOf[t] \in issued /\ tickets[ticketOf[t]] = "absent"
            /\ Consumed(u) /\ ticketOf[u] = ticketOf[t] => u = t

LoginInv ==
    /\ LoginTypeOK
    /\ ConnectionExclusive
    /\ LoginProgress
    /\ RowsIssued
    /\ ConsumedOnce
\* The initial state.
LEMMA LoginInitial == LoginInit => LoginInv
<1> SUFFICES ASSUME LoginInit PROVE LoginInv
  OBVIOUS
<1>1. LoginTypeOK
  <2>1. ExecutorTypeOK
    BY ExecutorInitial DEF LoginInit, ExecutorInv
  <2> QED
    BY <2>1 DEF LoginInit, LoginTypeOK
<1>2. ConnectionExclusive /\ LoginProgress /\ RowsIssued /\ ConsumedOnce
  BY LoginAssumption DEF LoginInit, ExecutorInit, ConnectionExclusive, LoginProgress, RowsIssued,
     ConsumedOnce, Consumed, Statuses
<1> QED  BY <1>1, <1>2 DEF LoginInv

\* Of the executor, every step of a login does at most one step.
LEMMA LoginUsesExecutor == [LoginNext]_allVars => [ExecutorNext]_executorVars
<1> SUFFICES ASSUME [LoginNext]_allVars PROVE ExecutorNext \/ UNCHANGED executorVars
  OBVIOUS
<1> USE DEF ExecutorNext, WorkerStep
<1>1. ASSUME NEW k \in Tickets, IssueTicket(k) \/ ExpireTicket(k)
      PROVE  UNCHANGED executorVars
  BY <1>1 DEF IssueTicket, ExpireTicket
<1>2. ASSUME NEW k \in Tickets, NEW t \in Tasks, Login(t, k)
      PROVE  ExecutorNext \/ UNCHANGED executorVars
  BY <1>2 DEF Login, Busy
<1>3. ASSUME NEW t \in Tasks, LoginStep(t)
      PROVE  ExecutorNext \/ UNCHANGED executorVars
  BY <1>3 DEF LoginStep, BeginLogin, ReadClock, LockConnection, SelectTicket, DeleteTicket,
     StorageFails, FindPlayer, Finish
<1>4. ASSUME NEW t \in Tasks, CompleteLogin(t)
      PROVE  UNCHANGED executorVars
  BY <1>4 DEF CompleteLogin
<1>5. ASSUME NEW s \in Sessions, CloseSession(s)
      PROVE  UNCHANGED executorVars
  BY <1>5 DEF CloseSession
<1>6. CASE IoEnds
  BY <1>6 DEF IoEnds
<1>7. ASSUME NEW x \in Stoppers, Drain(x) \/ DrainGoesOn(x)
      PROVE  ExecutorNext
  BY <1>7 DEF Drain, DrainGoesOn
<1>8. CASE UNCHANGED allVars
  BY <1>8 DEF allVars
<1> QED
  BY <1>1, <1>2, <1>3, <1>4, <1>5, <1>6, <1>7, <1>8 DEF LoginNext

\* PlayerLogin keeps the executor's guarantee: nobody returns from DrainAndStop, and
\* no repository is destroyed, while the task of a login waits or runs.
THEOREM LoginDrains == LoginSpec => []DrainLosesNothing
<1>1. ExecutorInv => DrainLosesNothing
  BY DEF ExecutorInv, DrainedWhenPast, DrainLosesNothing, Idle
<1>2. LoginInit => ExecutorInv
  BY ExecutorInitial DEF LoginInit
<1>3. ExecutorInv /\ [LoginNext]_allVars => ExecutorInv'
  BY LoginUsesExecutor, ExecutorPreserves
<1> QED
  BY <1>1, <1>2, <1>3, PTL DEF LoginSpec

\* A ticket is issued once, so no login has consumed it.
LEMMA IssueTicketKeeps ==
    ASSUME LoginInv, NEW k \in Tickets, IssueTicket(k)
    PROVE  LoginInv'
<1> USE LoginAssumption DEF LoginInv
<1>1. LoginTypeOK'
  BY DEF LoginTypeOK, ExecutorTypeOK, InTask, Statuses, IssueTicket, executorVars
<1>2. ConnectionExclusive'
  BY DEF ConnectionExclusive, LoginTypeOK, IssueTicket, executorVars
<1>3. LoginProgress'
  BY DEF LoginProgress, LoginTypeOK, IssueTicket, executorVars
<1>4. RowsIssued'
  BY DEF RowsIssued, ConnectionExclusive, LoginProgress, LoginTypeOK, IssueTicket, executorVars
<1>5. ConsumedOnce'
  BY DEF ConsumedOnce, Consumed, RowsIssued, LoginProgress, LoginTypeOK, IssueTicket, executorVars
<1> QED  BY <1>1, <1>2, <1>3, <1>4, <1>5

\* An expired row is still a row.
LEMMA ExpireTicketKeeps ==
    ASSUME LoginInv, NEW k \in Tickets, ExpireTicket(k)
    PROVE  LoginInv'
<1> USE LoginAssumption DEF LoginInv
<1>1. LoginTypeOK'
  BY DEF LoginTypeOK, ExecutorTypeOK, InTask, Statuses, ExpireTicket, executorVars
<1>2. ConnectionExclusive'
  BY DEF ConnectionExclusive, LoginTypeOK, ExpireTicket, executorVars
<1>3. LoginProgress'
  BY DEF LoginProgress, LoginTypeOK, ExpireTicket, executorVars
<1>4. RowsIssued'
  BY DEF RowsIssued, ConnectionExclusive, LoginProgress, LoginTypeOK, ExpireTicket, executorVars
<1>5. ConsumedOnce'
  BY DEF ConsumedOnce, Consumed, RowsIssued, LoginProgress, LoginTypeOK, ExpireTicket, executorVars
<1> QED  BY <1>1, <1>2, <1>3, <1>4, <1>5

\* A login that begins has consumed nothing.
LEMMA LoginKeeps ==
    ASSUME LoginInv, NEW t \in Tasks, NEW k \in Tickets, Login(t, k)
    PROVE  LoginInv'
<1> USE LoginAssumption DEF LoginInv
<1>1. LoginTypeOK'
  <2>1. CASE Busy(t)
    BY <2>1 DEF LoginTypeOK, ExecutorTypeOK, Statuses, InTask, Login, Busy, Goto, executorVars
  <2>2. CASE TryPost(t) /\ Goto(t, "queued") /\ UNCHANGED result
    BY <2>2 DEF LoginTypeOK, ExecutorTypeOK, Statuses, InTask, Login, TryPost, Goto
  <2> QED  BY <2>1, <2>2 DEF Login
<1>2. ConnectionExclusive'
  BY DEF ConnectionExclusive, LoginTypeOK, Login, Busy, TryPost, Goto, executorVars
<1>3. LoginProgress'
  BY DEF LoginProgress, LoginTypeOK, Login, Busy, TryPost, Goto, executorVars
<1>4. RowsIssued'
  BY DEF RowsIssued, ConnectionExclusive, LoginProgress, LoginTypeOK, Login, Busy, TryPost, Goto, executorVars
<1>5. ConsumedOnce'
  <2>1. \A u \in Tasks : Consumed(u)' => Consumed(u) /\ ticketOf'[u] = ticketOf[u] /\ u # t
    BY DEF Consumed, LoginProgress, LoginTypeOK, Statuses, Login, Busy, TryPost, Goto
  <2>2. tickets' = tickets /\ issued' = issued
    BY DEF Login
  <2> QED
    BY <2>1, <2>2 DEF ConsumedOnce
<1> QED  BY <1>1, <1>2, <1>3, <1>4, <1>5

\* A worker takes a login that waits.
LEMMA BeginLoginKeeps ==
    ASSUME LoginInv, ExecutorInv', NEW t \in Tasks, BeginLogin(t)
    PROVE  LoginInv'
<1> USE LoginAssumption DEF LoginInv
<1>1. LoginTypeOK'
  BY DEF LoginTypeOK, ExecutorInv, InTask, Statuses, BeginLogin, Goto
<1>2. ConnectionExclusive'
  BY DEF ConnectionExclusive, LoginTypeOK, BeginLogin, BeginTask, Goto
<1>3. LoginProgress'
  BY DEF LoginProgress, LoginTypeOK, BeginLogin, BeginTask, Goto
<1>4. RowsIssued'
  BY DEF RowsIssued, ConnectionExclusive, LoginProgress, LoginTypeOK, BeginLogin, BeginTask, Goto
<1>5. ConsumedOnce'
  BY DEF ConsumedOnce, Consumed, RowsIssued, LoginProgress, LoginTypeOK, BeginLogin, BeginTask, Goto
<1> QED  BY <1>1, <1>2, <1>3, <1>4, <1>5

\* Verify only reads the clock.
LEMMA ReadClockKeeps ==
    ASSUME LoginInv, NEW t \in Tasks, ReadClock(t)
    PROVE  LoginInv'
<1> USE LoginAssumption DEF LoginInv
<1>1. LoginTypeOK'
  BY DEF LoginTypeOK, ExecutorTypeOK, InTask, Statuses, ReadClock, Goto, executorVars
<1>2. ConnectionExclusive'
  BY DEF ConnectionExclusive, LoginTypeOK, ReadClock, Goto, executorVars
<1>3. LoginProgress'
  BY DEF LoginProgress, LoginTypeOK, ReadClock, Goto, executorVars
<1>4. RowsIssued'
  BY DEF RowsIssued, ConnectionExclusive, LoginProgress, LoginTypeOK, ReadClock, Goto, executorVars
<1>5. ConsumedOnce'
  BY DEF ConsumedOnce, Consumed, RowsIssued, LoginProgress, LoginTypeOK, ReadClock, Goto, executorVars
<1> QED  BY <1>1, <1>2, <1>3, <1>4, <1>5

\* The mutex is taken when it is free.
LEMMA LockConnectionKeeps ==
    ASSUME LoginInv, NEW t \in Tasks, LockConnection(t)
    PROVE  LoginInv'
<1> USE LoginAssumption DEF LoginInv
<1>1. LoginTypeOK'
  BY DEF LoginTypeOK, ExecutorTypeOK, InTask, Statuses, LockConnection, Goto, executorVars
<1>2. ConnectionExclusive'
  BY DEF ConnectionExclusive, LoginTypeOK, LockConnection, Goto, executorVars
<1>3. LoginProgress'
  BY DEF LoginProgress, LoginTypeOK, LockConnection, Goto, executorVars
<1>4. RowsIssued'
  BY DEF RowsIssued, ConnectionExclusive, LoginProgress, LoginTypeOK, LockConnection, Goto, executorVars
<1>5. ConsumedOnce'
  BY DEF ConsumedOnce, Consumed, RowsIssued, LoginProgress, LoginTypeOK, LockConnection, Goto, executorVars
<1> QED  BY <1>1, <1>2, <1>3, <1>4, <1>5

\* A login goes on only with a row that exists.
LEMMA SelectTicketKeeps ==
    ASSUME LoginInv, NEW t \in Tasks, SelectTicket(t)
    PROVE  LoginInv'
<1> USE LoginAssumption DEF LoginInv
<1>1. LoginTypeOK'
  BY DEF LoginTypeOK, ExecutorTypeOK, InTask, Statuses, SelectTicket, Finish, EndTask, Goto, executorVars
<1>2. ConnectionExclusive'
  BY DEF ConnectionExclusive, LoginTypeOK, SelectTicket, Finish, EndTask, Goto, executorVars
<1>3. LoginProgress'
  BY DEF LoginProgress, LoginTypeOK, SelectTicket, Finish, EndTask, Goto, executorVars
<1>4. RowsIssued'
  BY DEF RowsIssued, ConnectionExclusive, LoginProgress, LoginTypeOK, SelectTicket, Finish, EndTask, Goto, executorVars
<1>5. ConsumedOnce'
  BY DEF ConsumedOnce, Consumed, RowsIssued, LoginProgress, LoginTypeOK, SelectTicket, Finish, EndTask, Goto, executorVars
<1> QED  BY <1>1, <1>2, <1>3, <1>4, <1>5

\* The row that is deleted existed until now, so nobody has consumed it before; the
\* other logins are outside ConsumeTicket.
LEMMA DeleteTicketKeeps ==
    ASSUME LoginInv, NEW t \in Tasks, DeleteTicket(t)
    PROVE  LoginInv'
<1> USE LoginAssumption DEF LoginInv
<1>1. LoginTypeOK'
  BY ZenonT(60) DEF LoginTypeOK, ExecutorTypeOK, InTask, Statuses, DeleteTicket, Finish, EndTask, Goto, executorVars
<1>2. ConnectionExclusive'
  BY DEF ConnectionExclusive, LoginTypeOK, DeleteTicket, Finish, EndTask, Goto, executorVars
<1>3. LoginProgress'
  BY DEF LoginProgress, LoginTypeOK, DeleteTicket, Finish, EndTask, Goto, executorVars
<1>4. RowsIssued'
  BY DEF RowsIssued, ConnectionExclusive, LoginProgress, LoginTypeOK, DeleteTicket, Finish, EndTask, Goto, executorVars
<1>5. ConsumedOnce'
  BY DEF ConsumedOnce, Consumed, RowsIssued, LoginProgress, LoginTypeOK, DeleteTicket, Finish, EndTask, Goto, executorVars
<1> QED  BY <1>1, <1>2, <1>3, <1>4, <1>5

\* A rollback leaves the row.
LEMMA StorageFailsKeeps ==
    ASSUME LoginInv, NEW t \in Tasks, StorageFails(t)
    PROVE  LoginInv'
<1> USE LoginAssumption DEF LoginInv
<1>1. LoginTypeOK'
  BY DEF LoginTypeOK, ExecutorTypeOK, InTask, Statuses, StorageFails, Finish, EndTask, Goto
<1>2. ConnectionExclusive'
  BY DEF ConnectionExclusive, LoginTypeOK, StorageFails, Finish, EndTask, Goto
<1>3. LoginProgress'
  BY DEF LoginProgress, LoginTypeOK, StorageFails, Finish, EndTask, Goto
<1>4. RowsIssued'
  BY DEF RowsIssued, ConnectionExclusive, LoginProgress, LoginTypeOK, StorageFails, Finish, EndTask, Goto
<1>5. ConsumedOnce'
  BY DEF ConsumedOnce, Consumed, RowsIssued, LoginProgress, LoginTypeOK, StorageFails, Finish, EndTask, Goto
<1> QED  BY <1>1, <1>2, <1>3, <1>4, <1>5

\* A login that has consumed its ticket may succeed.
LEMMA FindPlayerKeeps ==
    ASSUME LoginInv, NEW t \in Tasks, FindPlayer(t)
    PROVE  LoginInv'
<1> USE LoginAssumption DEF LoginInv
<1>1. LoginTypeOK'
  BY DEF LoginTypeOK, ExecutorTypeOK, InTask, Statuses, FindPlayer, Finish, EndTask, Goto
<1>2. ConnectionExclusive'
  BY DEF ConnectionExclusive, LoginTypeOK, FindPlayer, Finish, EndTask, Goto
<1>3. LoginProgress'
  BY DEF LoginProgress, LoginTypeOK, FindPlayer, Finish, EndTask, Goto
<1>4. RowsIssued'
  BY DEF RowsIssued, ConnectionExclusive, LoginProgress, LoginTypeOK, FindPlayer, Finish, EndTask, Goto
<1>5. ConsumedOnce'
  BY DEF ConsumedOnce, Consumed, RowsIssued, LoginProgress, LoginTypeOK, FindPlayer, Finish, EndTask, Goto
<1> QED  BY <1>1, <1>2, <1>3, <1>4, <1>5

\* The completion changes the session only.
LEMMA CompleteLoginKeeps ==
    ASSUME LoginInv, NEW t \in Tasks, CompleteLogin(t)
    PROVE  LoginInv'
<1> USE LoginAssumption DEF LoginInv
<1>1. LoginTypeOK'
  BY DEF LoginTypeOK, ExecutorTypeOK, InTask, Statuses, CompleteLogin, Goto, executorVars
<1>2. ConnectionExclusive'
  BY DEF ConnectionExclusive, LoginTypeOK, CompleteLogin, Goto, executorVars
<1>3. LoginProgress'
  BY DEF LoginProgress, LoginTypeOK, CompleteLogin, Goto, executorVars
<1>4. RowsIssued'
  BY DEF RowsIssued, ConnectionExclusive, LoginProgress, LoginTypeOK, CompleteLogin, Goto, executorVars
<1>5. ConsumedOnce'
  BY DEF ConsumedOnce, Consumed, RowsIssued, LoginProgress, LoginTypeOK, CompleteLogin, Goto, executorVars
<1> QED  BY <1>1, <1>2, <1>3, <1>4, <1>5

\* Every step keeps the invariant.
LEMMA LoginPreserves ==
    LoginInv /\ ExecutorInv /\ [LoginNext]_allVars => LoginInv'
<1> SUFFICES ASSUME LoginInv, ExecutorInv, [LoginNext]_allVars PROVE LoginInv'
  OBVIOUS
<1>1. ExecutorInv'
  BY LoginUsesExecutor, ExecutorPreserves
<1>2. ASSUME UNCHANGED <<tickets, issued, connectionMutex, loginAt, ticketOf, fresh, result,
                         authenticatedBy, requestInProgress>>,
             queued' \subseteq queued,
             closed' \in [Sessions -> BOOLEAN], ioRunning' \in BOOLEAN
      PROVE  LoginInv'
  <2>1. LoginTypeOK'
    BY <1>1, <1>2 DEF LoginInv, ExecutorInv, LoginTypeOK
  <2> QED
    BY <1>2, <2>1 DEF LoginInv, ConnectionExclusive, LoginProgress, RowsIssued, ConsumedOnce, Consumed
<1>3. ASSUME NEW s \in Sessions, CloseSession(s)
      PROVE  LoginInv'
  BY <1>2, <1>3 DEF CloseSession, executorVars, LoginInv, LoginTypeOK
<1>4. CASE IoEnds
  BY <1>2, <1>4 DEF IoEnds, executorVars, LoginInv, LoginTypeOK
<1>5. ASSUME NEW x \in Stoppers, Drain(x) \/ DrainGoesOn(x)
      PROVE  LoginInv'
  BY <1>2, <1>5 DEF Drain, DrainGoesOn, DrainAndStop, DrainStep, JoinWorkers, SetJoined, AwaitJoined,
     loginVars, LoginInv, LoginTypeOK
<1>6. CASE UNCHANGED allVars
  BY <1>2, <1>6 DEF allVars, loginVars, executorVars, LoginInv, LoginTypeOK
<1>7. ASSUME NEW t \in Tasks, LoginStep(t)
      PROVE  LoginInv'
  BY <1>1, <1>7, BeginLoginKeeps, ReadClockKeeps, LockConnectionKeeps, SelectTicketKeeps,
     DeleteTicketKeeps, StorageFailsKeeps, FindPlayerKeeps DEF LoginStep
<1> QED
  BY <1>3, <1>4, <1>5, <1>6, <1>7, IssueTicketKeeps, ExpireTicketKeeps, LoginKeeps, CompleteLoginKeeps
     DEF LoginNext

\* SqliteAuthTicketStore.cpp, PlayerLoginService.cpp: for any number of connections
\* that present the same ticket at the same time, of workers and of retries, at most
\* one login succeeds with a ticket, and then its row is gone.
THEOREM TicketAdmitsOneLogin == LoginSpec => []TicketUsedOnce
<1>1. LoginInv => TicketUsedOnce
  BY DEF LoginInv, ConsumedOnce, Consumed, TicketUsedOnce
<1>2. LoginInit => LoginInv /\ ExecutorInv
  BY LoginInitial, ExecutorInitial DEF LoginInit
<1>3. LoginInv /\ ExecutorInv /\ [LoginNext]_allVars => LoginInv' /\ ExecutorInv'
  BY LoginPreserves, LoginUsesExecutor, ExecutorPreserves
<1> QED
  BY <1>1, <1>2, <1>3, PTL DEF LoginSpec
=============================================================================
