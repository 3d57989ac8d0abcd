-------------------------- MODULE DatabaseExecutor --------------------------
(***************************************************************************)
(* The thread pool for database work (src/DatabaseExecutor.cpp): a bounded *)
(* queue, a fixed number of workers, and DrainAndStop, which any number of *)
(* threads may call.  TryPost and the two critical sections of             *)
(* DrainAndStop exclude each other through lifecycleMutex_; the workers    *)
(* share only the statistics with them, of which queueDepth decides        *)
(* whether a task is accepted.  The other statistics are left out.         *)
(***************************************************************************)
EXTENDS Integers, FiniteSets

CONSTANTS
    Tasks,            \* the tasks that are ever posted
    MaxQueuedTasks,   \* maxQueuedTasks_
    WorkerCount,      \* the threads of workers_
    Stoppers          \* the threads that call DrainAndStop

ASSUME ExecutorAssumption ==
    /\ MaxQueuedTasks \in Nat \ {0}
    /\ WorkerCount \in Nat \ {0}
    /\ IsFiniteSet(Tasks)

VARIABLES
    acceptingTasks,   \* acceptingTasks_
    stopping,         \* stopping_
    joined,           \* joined_
    queued,           \* the tasks waiting in workers_
    running,          \* the tasks that workers are executing
    queueDepth,       \* stats_.queueDepth
    stopAt            \* where each thread is in DrainAndStop

executorVars == <<acceptingTasks, stopping, joined, queued, running, queueDepth, stopAt>>

ExecutorTypeOK ==
    /\ acceptingTasks \in BOOLEAN
    /\ stopping \in BOOLEAN
    /\ joined \in BOOLEAN
    /\ queued \in SUBSET Tasks
    /\ running \in SUBSET Tasks
    /\ queueDepth \in Nat
    /\ stopAt \in [Stoppers -> {"outside", "waiting", "joining", "notify", "returned"}]

ExecutorInit ==
    /\ acceptingTasks = TRUE
    /\ stopping = FALSE
    /\ joined = FALSE
    /\ queued = {}
    /\ running = {}
    /\ queueDepth = 0
    /\ stopAt = [x \in Stoppers |-> "outside"]

-----------------------------------------------------------------------------
\* TryPost returns true.
CanPost == acceptingTasks /\ queueDepth < MaxQueuedTasks

\* TryPost; posting to the pool may throw, which takes the count back.
TryPost(t) ==
    /\ CanPost
    /\ t \notin queued \cup running
    /\ queued' = queued \cup {t}
    /\ queueDepth' = queueDepth + 1
    /\ UNCHANGED <<acceptingTasks, stopping, joined, running, stopAt>>

\* A worker takes a task.
BeginTask(t) ==
    /\ t \in queued
    /\ Cardinality(running) < WorkerCount
    /\ queued' = queued \ {t}
    /\ running' = running \cup {t}
    /\ queueDepth' = queueDepth - 1
    /\ UNCHANGED <<acceptingTasks, stopping, joined, stopAt>>

\* The task returns or throws.
EndTask(t) ==
    /\ t \in running
    /\ running' = running \ {t}
    /\ UNCHANGED <<acceptingTasks, stopping, joined, queued, queueDepth, stopAt>>

StopGoto(x, step) == stopAt' = [stopAt EXCEPT ![x] = step]

\* Mutant of DrainAndStop: a second caller does not wait for the first.
DrainAndStopNoWait(x) ==
    /\ stopAt[x] = "outside"
    /\ acceptingTasks' = FALSE
    /\ stopping' = TRUE
    /\ StopGoto(x, IF joined \/ stopping THEN "returned" ELSE "joining")
    /\ UNCHANGED <<joined, queued, running, queueDepth>>

\* The first critical section of DrainAndStop.  (acceptingTasks_ is false whenever
\* stopping_ is true: a second caller changes neither.)
DrainAndStop(x) ==
    /\ stopAt[x] = "outside"
    /\ acceptingTasks' = FALSE
    /\ stopping' = TRUE
    /\ StopGoto(x, IF joined THEN "returned" ELSE IF stopping THEN "waiting" ELSE "joining")
    /\ UNCHANGED <<joined, queued, running, queueDepth>>

\* workers_.join() returns once the pool has nothing left to do.
JoinWorkers(x) ==
    /\ stopAt[x] = "joining"
    /\ queued = {} /\ running = {}
    /\ StopGoto(x, "notify")
    /\ UNCHANGED <<acceptingTasks, stopping, joined, queued, running, queueDepth>>

\* Mutant of SetJoined: joined_ is not set before notify_all.
SetJoinedForgotten(x) ==
    /\ stopAt[x] = "notify"
    /\ StopGoto(x, "returned")
    /\ UNCHANGED <<acceptingTasks, stopping, joined, queued, running, queueDepth>>

\* The last critical section, and notify_all.
SetJoined(x) ==
    /\ stopAt[x] = "notify"
    /\ joined' = TRUE
    /\ StopGoto(x, "returned")
    /\ UNCHANGED <<acceptingTasks, stopping, queued, running, queueDepth>>

\* The wait on lifecycleCondition_ ends.
AwaitJoined(x) ==
    /\ stopAt[x] = "waiting"
    /\ joined
    /\ StopGoto(x, "returned")
    /\ UNCHANGED <<acceptingTasks, stopping, joined, queued, running, queueDepth>>

WorkerStep == \E t \in Tasks : BeginTask(t) \/ EndTask(t)

DrainStep(x) == JoinWorkers(x) \/ SetJoined(x) \/ AwaitJoined(x)

ExecutorNext ==
    \/ \E t \in Tasks : TryPost(t)
    \/ WorkerStep
    \/ \E x \in Stoppers : DrainAndStop(x) \/ DrainStep(x)

ExecutorSpec == ExecutorInit /\ [][ExecutorNext]_executorVars

-----------------------------------------------------------------------------
\* The count that limits the queue is its length, and the limit holds.
QueueDepthExact ==
    /\ queueDepth = Cardinality(queued)
    /\ queueDepth <= MaxQueuedTasks

\* Whoever has returned from DrainAndStop, the first caller or a later one, finds
\* every accepted task finished and no other will ever be accepted: what the tasks
\* refer to may then be destroyed.
DrainLosesNothing ==
    \A x \in Stoppers : stopAt[x] = "returned" => ~acceptingTasks /\ queued = {} /\ running = {}

\* Every call of DrainAndStop returns.
DrainReturns == \A x \in Stoppers : stopAt[x] # "outside" ~> stopAt[x] = "returned"
=============================================================================
