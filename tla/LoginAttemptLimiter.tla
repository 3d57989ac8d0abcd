------------------------ MODULE LoginAttemptLimiter ------------------------
(***************************************************************************)
(* Admission of password checks on the authentication server               *)
(* (src/LoginAttemptLimiter.cpp): at most so many attempts per client      *)
(* address and per account within a sliding window, at most so many        *)
(* addresses and accounts tracked, and at most so many password checks at  *)
(* once.  A thread reads the clock before it takes the mutex, so the       *)
(* history of a key need not be in order.                                  *)
(*                                                                         *)
(* The maps hold no empty history: a key that is absent has none.          *)
(***************************************************************************)
EXTENDS Integers, Sequences, FiniteSetsExt

CONSTANTS
    Addresses,                   \* client addresses
    LoginIds,                    \* normalized login ids
    MaxAttemptsPerIp,            \* maxAttemptsPerIp
    MaxAttemptsPerAccount,       \* maxAttemptsPerAccount
    MaxTrackedIps,               \* maxTrackedIps
    MaxTrackedAccounts,          \* maxTrackedAccounts
    MaxConcurrentPasswordJobs,   \* maxConcurrentPasswordJobs
    AttemptWindow,               \* attemptWindow
    MaxTime                      \* bound on the clock

\* LoginAttemptLimiterOptions::IsValid
ASSUME LimiterOptionsValid ==
    /\ {MaxAttemptsPerIp, MaxAttemptsPerAccount, MaxTrackedIps, MaxTrackedAccounts,
        MaxConcurrentPasswordJobs, AttemptWindow} \subseteq Nat \ {0}
    /\ MaxTime \in Nat

VARIABLES
    clock,                    \* Clock::now()
    ipAttempts,               \* ipAttempts
    accountAttempts,          \* accountAttempts
    concurrentPasswordJobs,   \* stats.concurrentPasswordJobs
    admitted                  \* all the attempts admitted, in order

limiterVars == <<clock, ipAttempts, accountAttempts, concurrentPasswordJobs, admitted>>

LimiterInit ==
    /\ clock = 0
    /\ ipAttempts = [k \in Addresses |-> <<>>]
    /\ accountAttempts = [k \in LoginIds |-> <<>>]
    /\ concurrentPasswordJobs = 0
    /\ admitted = <<>>

-----------------------------------------------------------------------------
\* Mutant of Pruned: the front is dropped without looking at its time.
PrunedBlindly(history, cutoff) == IF history = <<>> THEN <<>> ELSE Tail(history)

\* The loop of FindAndPrune and PruneExpired: the front is dropped while it has expired.
Pruned(history, cutoff) ==
    LET live == {i \in DOMAIN history : history[i] > cutoff}
    IN  IF live = {} THEN <<>> ELSE SubSeq(history, Min(live), Len(history))

FindAndPrune(attempts, key, cutoff) == [attempts EXCEPT ![key] = Pruned(@, cutoff)]

PruneExpired(attempts, cutoff) == [k \in DOMAIN attempts |-> Pruned(attempts[k], cutoff)]

Tracked(attempts) == Cardinality({k \in DOMAIN attempts : attempts[k] # <<>>})

NeedsEntry(attempts, key) == attempts[key] = <<>>

\* A full map is pruned before a key is added to it.
MakeRoom(attempts, key, limit, cutoff) ==
    IF NeedsEntry(attempts, key) /\ Tracked(attempts) >= limit
    THEN PruneExpired(attempts, cutoff)
    ELSE attempts

NoRoom(attempts, key, limit) == NeedsEntry(attempts, key) /\ Tracked(attempts) >= limit

Push(attempts, key, now) == [attempts EXCEPT ![key] = Append(@, now)]

\* What TryAcquire does with the time it has read, under the mutex.
Admission(ip, account, now) ==
    LET cutoff   == now - AttemptWindow
        ips1     == FindAndPrune(ipAttempts, ip, cutoff)
        accts1   == FindAndPrune(accountAttempts, account, cutoff)
        ips2     == MakeRoom(ips1, ip, MaxTrackedIps, cutoff)
        accts2   == MakeRoom(accts1, account, MaxTrackedAccounts, cutoff)
        Out(status, ips, accts) == [status |-> status, ips |-> ips, accounts |-> accts]
    IN  IF Len(ips1[ip]) >= MaxAttemptsPerIp
        THEN Out("RateLimited", ips1, accountAttempts)
        ELSE IF Len(accts1[account]) >= MaxAttemptsPerAccount
        THEN Out("RateLimited", ips1, accts1)
        ELSE IF \/ NoRoom(ips2, ip, MaxTrackedIps)
                \/ NoRoom(accts2, account, MaxTrackedAccounts)
                \/ concurrentPasswordJobs >= MaxConcurrentPasswordJobs
        THEN Out("ServiceBusy", ips2, accts2)
        ELSE Out("Accepted", Push(ips2, ip, now), Push(accts2, account, now))

\* TryAcquire, from the lock on.
TryAcquire(ip, account, now) ==
    LET a == Admission(ip, account, now) IN
    /\ ipAttempts' = a.ips
    /\ accountAttempts' = a.accounts
    /\ concurrentPasswordJobs' =
           concurrentPasswordJobs + (IF a.status = "Accepted" THEN 1 ELSE 0)
    /\ admitted' = IF a.status = "Accepted"
                   THEN Append(admitted, [ip |-> ip, account |-> account, at |-> now])
                   ELSE admitted
    /\ UNCHANGED clock

\* The release of a LoginAttemptPermit.
ReleasePermit ==
    /\ concurrentPasswordJobs' = IF concurrentPasswordJobs > 0
                                 THEN concurrentPasswordJobs - 1 ELSE 0
    /\ UNCHANGED <<clock, ipAttempts, accountAttempts, admitted>>

\* Time passes.
Tick ==
    /\ clock < MaxTime
    /\ clock' = clock + 1
    /\ UNCHANGED <<ipAttempts, accountAttempts, concurrentPasswordJobs, admitted>>
=============================================================================
