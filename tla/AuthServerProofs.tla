-------------------------- MODULE AuthServerProofs --------------------------
(***************************************************************************)
(* Proofs about the authentication server (AuthServer), for any number of  *)
(* sessions, requests, threads, workers and accounts and any limits.       *)
(***************************************************************************)
EXTENDS AuthServer, FiniteSetTheorems, WellFoundedInduction, TLAPS

-----------------------------------------------------------------------------
(* The inductive invariant.                                                *)

Attempt == [ip : Addresses, account : LoginIds, at : 0..MaxTime]

LimiterTypeOK ==
    /\ clock \in 0..MaxTime
    /\ ipAttempts \in [Addresses -> Seq(0..MaxTime)]
    /\ accountAttempts \in [LoginIds -> Seq(0..MaxTime)]
    /\ admitted \in Seq(Attempt)

\* Where a request is, and what is known of it there: a handler of an io thread is
\* that of a login, a task of a selection is that of a session that has logged in,
\* and the executor holds exactly the requests that wait for it or that it runs.
Placed(r) ==
    /\ request[r].now <= clock
    /\ request[r].at \in OnIoThread => request[r].kind = "login" /\ request[r].login \in LoginIds
    /\ request[r].at \in {"new"} \cup OnIoThread => r \notin queued \cup running
    /\ r \in queued => request[r].at = "queued" /\ r \notin running
    /\ request[r].at \in OnWorker => r \in queued \cup running
    /\ request[r].at \in OnWorker /\ request[r].kind = "select" =>
          request[r].player \in Players /\ account[SessionOf[r]] \in LoginIds
    /\ request[r].at = "issue" =>
          request[r].kind = "select" /\ ownerOf[request[r].player] = account[SessionOf[r]]

RequestsPlaced == \A r \in Tasks : Placed(r)

\* The logins that hold a permit.
Permits ==
    {r \in Tasks : request[r].kind = "login" /\ (request[r].at = "post" \/ r \in queued \cup running)}

PermitsCounted ==
    concurrentPasswordJobs = Cardinality(Permits) /\ concurrentPasswordJobs <= MaxConcurrentPasswordJobs

\* The requests of a session that have not been answered.
Unanswered(s) == {r \in Tasks : SessionOf[r] = s /\ request[r].at \notin {"new", "done"}}

OneUnanswered ==
    \A s \in Sessions : ~closed[s] =>
        IF requestInProgress[s] THEN \E r \in Tasks : Unanswered(s) = {r} ELSE Unanswered(s) = {}

\* The transaction of the administration tool is about a new character.
ProvisioningIsNew ==
    admin.at = "open" => /\ admin.account \in LoginIds /\ admin.player \in Players
                         /\ admin.player \notin players

\* The io threads that are inside a handler.
Busy == {r \in Tasks : request[r].at \in OnIoThread}

\* The logins that have read a time not after t and not yet taken the mutex.
Late(t) == {r \in Tasks : request[r].at = "admit" /\ request[r].now <= t}

Between(at, t) == t - AttemptWindow < at /\ at <= t

InHistory(history, t) == {i \in DOMAIN history : Between(history[i], t)}

IpHits(k, t)      == {i \in DOMAIN admitted : admitted[i].ip = k /\ Between(admitted[i].at, t)}
AccountHits(k, t) == {i \in DOMAIN admitted : admitted[i].account = k /\ Between(admitted[i].at, t)}

\* Of the attempts of one key in the window that ends at t, either none has been
\* dropped from the history and they are within the limit, or the window is over and
\* only the late logins can still join it.
WindowBounded(hits, history, t, limit) ==
    \/ Cardinality(hits) <= Cardinality(InHistory(history, t)) /\ Cardinality(hits) <= limit
    \/ t < clock /\ Cardinality(hits) + Cardinality(Late(t)) <= limit + (IoThreads - 1)

WindowsBounded ==
    \A t \in 0..MaxTime :
        /\ \A k \in Addresses : WindowBounded(IpHits(k, t), ipAttempts[k], t, MaxAttemptsPerIp)
        /\ \A k \in LoginIds :
              WindowBounded(AccountHits(k, t), accountAttempts[k], t, MaxAttemptsPerAccount)

AuthInv ==
    /\ AuthTypeOK
    /\ LimiterTypeOK
    /\ QueueDepthExact
    /\ RequestsPlaced
    /\ PermitsCounted
    /\ OneUnanswered
    /\ ProvisioningIsNew
    /\ EveryCharacterOwned
    /\ TicketsForOwners
    /\ Cardinality(Busy) <= IoThreads
    /\ WindowsBounded
-----------------------------------------------------------------------------
(* The limiter: what is dropped from a history, and what is counted.       *)

\* A set of natural numbers that is not empty has a least element.
LEMMA LeastNumber ==
    ASSUME NEW T \in SUBSET Nat, T # {}
    PROVE  Min(T) \in T /\ \A y \in T : Min(T) <= y
<1> DEFINE R == {ss \in Nat \X Nat : ss[1] < ss[2]}
<1>1. OpToRel(<, Nat) = R
  BY Zenon DEF OpToRel
<1>2. PICK x \in T : \A y \in T : ~(<<y, x>> \in R)
  BY <1>1, NatLessThanWellFounded, WFMin, ZenonT(40)
<1>3. ASSUME NEW y \in T
      PROVE  x <= y
  <2>1. ~(<<y, x>> \in R)
    BY <1>2
  <2>2. <<y, x>> \in Nat \X Nat /\ <<y, x>>[1] = y /\ <<y, x>>[2] = x
    OBVIOUS
  <2> QED
    BY <2>1, <2>2
<1>4. \E z \in T : \A y \in T : z <= y
  BY <1>3
<1> QED
  BY <1>4, Zenon DEF Min

\* FindAndPrune and PruneExpired drop a front part of a history, and only what has
\* expired.
LEMMA PrunedFront ==
    ASSUME NEW h \in Seq(0..MaxTime), NEW cutoff \in Int
    PROVE  /\ Pruned(h, cutoff) \in Seq(0..MaxTime)
           /\ \E d \in 0..Len(h) :
                 /\ Len(Pruned(h, cutoff)) = Len(h) - d
                 /\ \A i \in 1..(Len(h) - d) : Pruned(h, cutoff)[i] = h[i + d]
                 /\ \A i \in 1..d : h[i] <= cutoff
<1> DEFINE live == {i \in DOMAIN h : h[i] > cutoff}
<1>1. /\ Len(h) \in Nat /\ DOMAIN h = 1..Len(h) /\ live \in SUBSET Nat
      /\ \A i \in 1..Len(h) : h[i] \in 0..MaxTime /\ h[i] \in Int
  BY SMTT(40), LimiterOptionsValid
<1>2. CASE live = {}
  <2>1. Pruned(h, cutoff) = <<>>
    BY <1>2 DEF Pruned
  <2>2. \A i \in 1..Len(h) : h[i] <= cutoff
    BY <1>1, <1>2
  <2>3. /\ Len(h) \in 0..Len(h) /\ Len(Pruned(h, cutoff)) = Len(h) - Len(h)
        /\ 1..(Len(h) - Len(h)) = {}
    BY <1>1, <2>1
  <2> QED
    BY <2>1, <2>2, <2>3
<1>3. CASE live # {}
  <2> DEFINE m == Min(live)
  <2>1. m \in live /\ \A y \in live : m <= y
    BY <1>1, <1>3, LeastNumber
  <2>2. Pruned(h, cutoff) = SubSeq(h, m, Len(h))
    BY <1>3 DEF Pruned
  <2> HIDE DEF m
  <2>3. m \in 1..Len(h) /\ \A i \in 1..(m - 1) : h[i] <= cutoff
    BY <1>1, <2>1
  <2>4. /\ SubSeq(h, m, Len(h)) \in Seq(0..MaxTime)
        /\ Len(SubSeq(h, m, Len(h))) = Len(h) - (m - 1)
        /\ \A i \in 1..(Len(h) - (m - 1)) : SubSeq(h, m, Len(h))[i] = h[i + (m - 1)]
    BY <1>1, <2>3
  <2>5. m - 1 \in 0..Len(h)
    BY <1>1, <2>3
  <2> QED
    BY <2>2, <2>3, <2>4, <2>5
<1> QED
  BY <1>2, <1>3

\* What a history has in a window is finite and no more than its length.
LEMMA HistorySize ==
    ASSUME NEW h \in Seq(0..MaxTime), NEW t \in 0..MaxTime
    PROVE  /\ IsFiniteSet(InHistory(h, t))
           /\ Cardinality(InHistory(h, t)) \in Nat
           /\ Cardinality(InHistory(h, t)) <= Len(h)
<1>1. InHistory(h, t) \in SUBSET (1..Len(h)) /\ Len(h) \in Nat
  BY DEF InHistory
<1>2. IsFiniteSet(1..Len(h)) /\ Cardinality(1..Len(h)) = Len(h)
  <2>1. 1 \in Int /\ Len(h) \in Int
    BY <1>1
  <2>2. /\ IsFiniteSet(1..Len(h))
        /\ Cardinality(1..Len(h)) = IF 1 > Len(h) THEN 0 ELSE Len(h) - 1 + 1
    BY <2>1, FS_Interval
  <2> QED
    BY <1>1, <2>2
<1>3. IsFiniteSet(InHistory(h, t)) /\ Cardinality(InHistory(h, t)) <= Len(h)
  BY <1>1, <1>2, FS_Subset
<1> QED
  BY <1>3, FS_CardinalityType

\* A thread whose time is not after t drops nothing of the window that ends at t.
LEMMA PrunedKeepsWindow ==
    ASSUME NEW h \in Seq(0..MaxTime), NEW t \in 0..MaxTime, NEW cutoff \in Int,
           cutoff <= t - AttemptWindow
    PROVE  Cardinality(InHistory(h, t)) <= Cardinality(InHistory(Pruned(h, cutoff), t))
<1> DEFINE p == Pruned(h, cutoff)
<1>1. PICK d \in 0..Len(h) :
          /\ Len(p) = Len(h) - d
          /\ \A i \in 1..(Len(h) - d) : p[i] = h[i + d]
          /\ \A i \in 1..d : h[i] <= cutoff
  BY PrunedFront
<1>2. p \in Seq(0..MaxTime)
  BY PrunedFront
<1> HIDE DEF p
<1> DEFINE f == [i \in InHistory(h, t) |-> i - d]
<1>3. Len(h) \in Nat /\ DOMAIN h = 1..Len(h) /\ DOMAIN p = 1..(Len(h) - d) /\ d \in Nat
  BY <1>1, <1>2
<1>4. \A i \in 1..Len(h) : h[i] \in Int
  BY <1>3, LimiterOptionsValid
<1>5. AttemptWindow \in Nat /\ t \in Int
  BY LimiterOptionsValid
<1>6. ASSUME NEW i \in InHistory(h, t)
      PROVE  i \in Int /\ i - d \in InHistory(p, t)
  <2>1. i \in 1..Len(h) /\ t - AttemptWindow < h[i] /\ h[i] <= t
    BY <1>3 DEF InHistory, Between
  <2>2. ~(i \in 1..d)
    BY <1>1, <1>4, <1>5, <2>1
  <2>3. i - d \in 1..(Len(h) - d) /\ p[i - d] = h[i]
    BY <1>1, <1>3, <2>1, <2>2
  <2> QED
    BY <1>3, <2>1, <2>3 DEF InHistory, Between
<1>7. f \in [InHistory(h, t) -> InHistory(p, t)] /\ \A i, j \in InHistory(h, t) : f[i] = f[j] => i = j
  BY <1>3, <1>6
<1>8. f \in Injection(InHistory(h, t), InHistory(p, t))
  BY <1>7, Zenon DEF Injection, IsInjective
<1>9. IsFiniteSet(InHistory(p, t))
  BY <1>2, HistorySize
<1> QED
  BY <1>8, <1>9, FS_Injection DEF p

\* A new entry is in the window when its time is.
LEMMA AppendedHistory ==
    ASSUME NEW h \in Seq(0..MaxTime), NEW t \in 0..MaxTime, NEW now \in 0..MaxTime
    PROVE  Cardinality(InHistory(Append(h, now), t)) =
               Cardinality(InHistory(h, t)) + (IF Between(now, t) THEN 1 ELSE 0)
<1> DEFINE g == Append(h, now)
           n == Len(h) + 1
<1>1. /\ Len(h) \in Nat /\ DOMAIN h = 1..Len(h) /\ DOMAIN g = 1..n
      /\ g[n] = now /\ \A i \in 1..Len(h) : g[i] = h[i]
  OBVIOUS
<1> HIDE DEF g
<1>2. IsFiniteSet(InHistory(h, t)) /\ n \notin InHistory(h, t)
  BY <1>1, HistorySize DEF InHistory
<1>3. CASE Between(now, t)
  <2>1. InHistory(g, t) = InHistory(h, t) \cup {n}
    BY <1>1, <1>3 DEF InHistory
  <2> QED
    BY <1>2, <1>3, <2>1, FS_AddElement DEF g
<1>4. CASE ~Between(now, t)
  <2>1. InHistory(g, t) = InHistory(h, t)
    BY <1>1, <1>4 DEF InHistory
  <2>2. Cardinality(InHistory(h, t)) \in Nat
    BY HistorySize
  <2> QED
    BY <1>4, <2>1, <2>2 DEF g
<1> QED
  BY <1>3, <1>4

\* The bound of one key with n attempts in the window that ends at t, at time c.
Bounded(n, h, t, late, limit, c) ==
    \/ n <= Cardinality(InHistory(h, t)) /\ n <= limit
    \/ t < c /\ n + late <= limit + (IoThreads - 1)

\* What TryAcquire does to it: the history h becomes h2, the attempts n become n2 and
\* the late logins late2; taken when it is the key's attempt that is admitted.
KeyStep(taken, now, t, limit, h, h2, n, n2, late, late2) ==
    /\ taken => /\ h2 = Append(Pruned(h, now - AttemptWindow), now)
                /\ Len(Pruned(h, now - AttemptWindow)) < limit
                /\ n2 = n + (IF Between(now, t) THEN 1 ELSE 0)
    /\ ~taken => (h2 = h \/ h2 = Pruned(h, now - AttemptWindow)) /\ n2 = n
    /\ now <= t => late2 = late - 1
    /\ now > t => late2 = late /\ late2 <= IoThreads - 1

\* Such a step keeps the bound.
LEMMA WindowStep ==
    ASSUME NEW t \in 0..MaxTime, NEW now \in 0..MaxTime, NEW taken \in BOOLEAN,
           NEW h \in Seq(0..MaxTime), NEW h2, NEW limit \in Nat \ {0},
           NEW n \in Nat, NEW n2 \in Nat, NEW late \in Nat, NEW late2 \in Nat, NEW c \in 0..MaxTime,
           now <= c, Bounded(n, h, t, late, limit, c),
           KeyStep(taken, now, t, limit, h, h2, n, n2, late, late2)
    PROVE  Bounded(n2, h2, t, late2, limit, c)
<1> USE DEF Bounded, KeyStep
<1> DEFINE p == Pruned(h, now - AttemptWindow)
<1>1. AttemptWindow \in Nat \ {0} /\ IoThreads \in Nat \ {0} /\ now \in Int /\ t \in Int /\ c \in Int
  BY LimiterOptionsValid, AuthAssumption
<1>2. p \in Seq(0..MaxTime)
  BY <1>1, PrunedFront
<1>3. /\ Cardinality(InHistory(h, t)) \in Nat /\ Cardinality(InHistory(p, t)) \in Nat
      /\ Cardinality(InHistory(p, t)) <= Len(p) /\ Len(p) \in Nat
  BY <1>2, HistorySize
<1>4. now <= t => Cardinality(InHistory(h, t)) <= Cardinality(InHistory(p, t))
  BY <1>1, PrunedKeepsWindow
<1>5. Cardinality(InHistory(Append(p, now), t)) =
          Cardinality(InHistory(p, t)) + (IF Between(now, t) THEN 1 ELSE 0)
  BY <1>2, AppendedHistory
<1>6. Between(now, t) => now <= t
  BY DEF Between
<1> HIDE DEF p
<1>7. CASE t < c /\ n + late <= limit + (IoThreads - 1)
  <2>1. CASE now <= t
    BY <1>1, <1>7, <2>1
  <2>2. CASE now > t
    BY <1>1, <1>6, <1>7, <2>2
  <2> QED
    BY <1>1, <2>1, <2>2
<1>8. CASE n <= Cardinality(InHistory(h, t)) /\ n <= limit
  <2>1. CASE now > t
    BY <1>1, <1>6, <1>8, <2>1
  <2>2. CASE now <= t /\ ~taken
    BY <1>1, <1>3, <1>4, <1>8, <2>2 DEF p
  <2>3. CASE now <= t /\ taken
    <3>1. h2 = Append(p, now) /\ Len(p) < limit
      BY <2>3 DEF p
    <3>2. n <= Cardinality(InHistory(p, t))
      BY <1>3, <1>4, <1>8, <2>3
    <3> QED
      BY <1>3, <1>5, <2>3, <3>1, <3>2
  <2> QED
    BY <1>1, <2>1, <2>2, <2>3
<1> QED
  BY <1>7, <1>8

\* One map of TryAcquire, m, after FindAndPrune and after MakeRoom: the key's history
\* is pruned, the others may be.
MapPruned(K, m, key, cutoff, m1, m2) ==
    /\ m1 \in [K -> Seq(0..MaxTime)] /\ m2 \in [K -> Seq(0..MaxTime)]
    /\ m1[key] = Pruned(m[key], cutoff) /\ m2[key] = Pruned(m[key], cutoff)
    /\ \A k \in K : m1[k] = m[k] \/ m1[k] = Pruned(m[k], cutoff)
    /\ \A k \in K : m2[k] = m[k] \/ m2[k] = Pruned(m[k], cutoff)

\* FindAndPrune and MakeRoom do that.
LEMMA MapIsPruned ==
    ASSUME NEW K, NEW m \in [K -> Seq(0..MaxTime)], NEW key \in K, NEW limit, NEW cutoff \in Int,
           NEW m1, m1 = FindAndPrune(m, key, cutoff),
           NEW m2, m2 = MakeRoom(m1, key, limit, cutoff)
    PROVE  MapPruned(K, m, key, cutoff, m1, m2)
<1> USE DEF MapPruned
<1>1. \A h \in Seq(0..MaxTime) : Pruned(h, cutoff) \in Seq(0..MaxTime)
  BY PrunedFront
<1>2. /\ m1 = [m EXCEPT ![key] = Pruned(m[key], cutoff)]
      /\ m1 \in [K -> Seq(0..MaxTime)] /\ m1[key] = Pruned(m[key], cutoff)
      /\ \A k \in K : k # key => m1[k] = m[k]
  BY <1>1 DEF FindAndPrune
<1>3. m2 = m1 \/ (m1[key] = <<>> /\ m2 = [k \in DOMAIN m1 |-> Pruned(m1[k], cutoff)])
  BY DEF MakeRoom, NeedsEntry, PruneExpired
<1>4. Pruned(<<>>, cutoff) = <<>>
  BY DEF Pruned
<1>5. CASE m2 = m1
  BY <1>2, <1>5
<1>6. CASE m1[key] = <<>> /\ m2 = [k \in DOMAIN m1 |-> Pruned(m1[k], cutoff)]
  <2>1. DOMAIN m1 = K /\ \A k \in K : m1[k] \in Seq(0..MaxTime)
    BY <1>2
  <2>2. m2 \in [K -> Seq(0..MaxTime)] /\ \A k \in K : m2[k] = Pruned(m1[k], cutoff)
    BY <1>1, <1>6, <2>1
  <2>3. m2[key] = Pruned(m[key], cutoff)
    BY <1>2, <1>4, <1>6, <2>2
  <2>4. \A k \in K : m2[k] = m[k] \/ m2[k] = Pruned(m[k], cutoff)
    BY <1>2, <2>2, <2>3
  <2>5. \A k \in K : m1[k] = m[k] \/ m1[k] = Pruned(m[k], cutoff)
    BY <1>2
  <2> QED
    BY <1>2, <2>2, <2>3, <2>4, <2>5
<1> QED
  BY <1>3, <1>5, <1>6

\* TryAcquire: an attempt is admitted only below every limit, and joins the pruned
\* histories of its address and its account; no other history grows.
Decided(a, ip, acct, now) ==
    /\ a.ips \in [Addresses -> Seq(0..MaxTime)]
    /\ a.accounts \in [LoginIds -> Seq(0..MaxTime)]
    /\ a.status = "Accepted" =>
          /\ concurrentPasswordJobs < MaxConcurrentPasswordJobs
          /\ a.ips[ip] = Append(Pruned(ipAttempts[ip], now - AttemptWindow), now)
          /\ Len(Pruned(ipAttempts[ip], now - AttemptWindow)) < MaxAttemptsPerIp
          /\ a.accounts[acct] = Append(Pruned(accountAttempts[acct], now - AttemptWindow), now)
          /\ Len(Pruned(accountAttempts[acct], now - AttemptWindow)) < MaxAttemptsPerAccount
    /\ \A k \in Addresses : ~(a.status = "Accepted" /\ k = ip) =>
          a.ips[k] = ipAttempts[k] \/ a.ips[k] = Pruned(ipAttempts[k], now - AttemptWindow)
    /\ \A k \in LoginIds : ~(a.status = "Accepted" /\ k = acct) =>
          \/ a.accounts[k] = accountAttempts[k]
          \/ a.accounts[k] = Pruned(accountAttempts[k], now - AttemptWindow)

\* Admission decides so.
LEMMA AdmissionResult ==
    ASSUME LimiterTypeOK, concurrentPasswordJobs \in Nat,
           NEW ip \in Addresses, NEW acct \in LoginIds, NEW now \in 0..MaxTime,
           NEW a, a = Admission(ip, acct, now)
    PROVE  Decided(a, ip, acct, now)
<1> USE DEF Decided
<1> DEFINE cutoff == now - AttemptWindow
           ips1 == FindAndPrune(ipAttempts, ip, cutoff)
           accts1 == FindAndPrune(accountAttempts, acct, cutoff)
           ips2 == MakeRoom(ips1, ip, MaxTrackedIps, cutoff)
           accts2 == MakeRoom(accts1, acct, MaxTrackedAccounts, cutoff)
           Out(status, ips, accts) == [status |-> status, ips |-> ips, accounts |-> accts]
<1>1. cutoff \in Int /\ {MaxAttemptsPerIp, MaxAttemptsPerAccount, MaxConcurrentPasswordJobs} \subseteq Nat
  BY LimiterOptionsValid
<1>2. /\ ipAttempts \in [Addresses -> Seq(0..MaxTime)]
      /\ accountAttempts \in [LoginIds -> Seq(0..MaxTime)]
  BY DEF LimiterTypeOK
<1>3. \/ a = Out("RateLimited", ips1, accountAttempts)
      \/ a = Out("RateLimited", ips1, accts1)
      \/ a = Out("ServiceBusy", ips2, accts2)
      \/ /\ ~(Len(ips1[ip]) >= MaxAttemptsPerIp)
         /\ ~(Len(accts1[acct]) >= MaxAttemptsPerAccount)
         /\ ~(concurrentPasswordJobs >= MaxConcurrentPasswordJobs)
         /\ a = Out("Accepted", [ips2 EXCEPT ![ip] = Append(@, now)],
                    [accts2 EXCEPT ![acct] = Append(@, now)])
  BY Zenon DEF Admission, Push
<1>e. /\ ips1 = FindAndPrune(ipAttempts, ip, cutoff)
      /\ ips2 = MakeRoom(ips1, ip, MaxTrackedIps, cutoff)
      /\ accts1 = FindAndPrune(accountAttempts, acct, cutoff)
      /\ accts2 = MakeRoom(accts1, acct, MaxTrackedAccounts, cutoff)
  OBVIOUS
<1> HIDE DEF ips1, accts1, ips2, accts2, cutoff
<1>4. MapPruned(Addresses, ipAttempts, ip, cutoff, ips1, ips2)
  BY <1>1, <1>2, <1>e, MapIsPruned
<1>5. MapPruned(LoginIds, accountAttempts, acct, cutoff, accts1, accts2)
  BY <1>1, <1>2, <1>e, MapIsPruned
<1> USE DEF MapPruned
<1>6. CASE a = Out("RateLimited", ips1, accountAttempts)
  <2>1. a.ips = ips1 /\ a.accounts = accountAttempts /\ a.status # "Accepted"
    BY <1>6
  <2> QED
    BY <1>2, <1>4, <2>1 DEF cutoff
<1>7. CASE a = Out("RateLimited", ips1, accts1)
  <2>1. a.ips = ips1 /\ a.accounts = accts1 /\ a.status # "Accepted"
    BY <1>7
  <2> QED
    BY <1>4, <1>5, <2>1 DEF cutoff
<1>8. CASE a = Out("ServiceBusy", ips2, accts2)
  <2>1. a.ips = ips2 /\ a.accounts = accts2 /\ a.status # "Accepted"
    BY <1>8
  <2> QED
    BY <1>4, <1>5, <2>1 DEF cutoff
<1>9. CASE /\ ~(Len(ips1[ip]) >= MaxAttemptsPerIp)
           /\ ~(Len(accts1[acct]) >= MaxAttemptsPerAccount)
           /\ ~(concurrentPasswordJobs >= MaxConcurrentPasswordJobs)
           /\ a = Out("Accepted", [ips2 EXCEPT ![ip] = Append(@, now)],
                      [accts2 EXCEPT ![acct] = Append(@, now)])
  <2>1. /\ a.ips = [ips2 EXCEPT ![ip] = Append(@, now)]
        /\ a.accounts = [accts2 EXCEPT ![acct] = Append(@, now)]
        /\ a.status = "Accepted"
    BY <1>9
  <2>2. /\ Append(ips2[ip], now) \in Seq(0..MaxTime)
        /\ Append(accts2[acct], now) \in Seq(0..MaxTime)
    BY <1>4, <1>5
  <2>3. /\ a.ips \in [Addresses -> Seq(0..MaxTime)]
        /\ a.ips[ip] = Append(ips2[ip], now)
        /\ \A k \in Addresses : k # ip => a.ips[k] = ips2[k]
    BY <1>4, <2>1, <2>2
  <2>4. /\ a.accounts \in [LoginIds -> Seq(0..MaxTime)]
        /\ a.accounts[acct] = Append(accts2[acct], now)
        /\ \A k \in LoginIds : k # acct => a.accounts[k] = accts2[k]
    BY <1>5, <2>1, <2>2
  <2>5. /\ Len(Pruned(ipAttempts[ip], cutoff)) < MaxAttemptsPerIp
        /\ Len(Pruned(accountAttempts[acct], cutoff)) < MaxAttemptsPerAccount
        /\ concurrentPasswordJobs < MaxConcurrentPasswordJobs
    BY <1>1, <1>4, <1>5, <1>9
  <2> QED
    BY <1>4, <1>5, <2>1, <2>3, <2>4, <2>5 DEF cutoff
<1> QED
  BY <1>3, <1>6, <1>7, <1>8, <1>9

-----------------------------------------------------------------------------
(* The bound on a window, step by step.                                    *)

\* Sets of requests and sets of admitted attempts are finite.
LEMMA FiniteCounts ==
    ASSUME LimiterTypeOK
    PROVE  /\ \A t : IsFiniteSet(Late(t)) /\ Cardinality(Late(t)) \in Nat
           /\ \A k, t : IsFiniteSet(IpHits(k, t)) /\ Cardinality(IpHits(k, t)) \in Nat
           /\ \A k, t : IsFiniteSet(AccountHits(k, t)) /\ Cardinality(AccountHits(k, t)) \in Nat
<1>1. IsFiniteSet(1..Len(admitted)) /\ DOMAIN admitted = 1..Len(admitted)
  BY FS_Interval DEF LimiterTypeOK
<1>2. \A t : IsFiniteSet(Late(t))
  BY FS_Subset, ExecutorAssumption DEF Late
<1>3. \A k, t : IsFiniteSet(IpHits(k, t))
  BY <1>1, FS_Subset DEF IpHits
<1>4. \A k, t : IsFiniteSet(AccountHits(k, t))
  BY <1>1, FS_Subset DEF AccountHits
<1> QED
  BY <1>2, <1>3, <1>4, FS_CardinalityType

\* A step that leaves the limiter's histories alone keeps the bounds, unless it makes
\* a login late for a window that is over.
LEMMA WindowsKept ==
    ASSUME LimiterTypeOK, WindowsBounded, UNCHANGED <<ipAttempts, accountAttempts, admitted>>,
           clock' \in 0..MaxTime, clock <= clock',
           \A t \in 0..MaxTime : t < clock => Late(t)' \subseteq Late(t)
    PROVE  WindowsBounded'
<1>1. ASSUME NEW t \in 0..MaxTime, NEW hits, NEW h, NEW limit \in Nat, Cardinality(hits) \in Nat,
             WindowBounded(hits, h, t, limit)
      PROVE  \/ Cardinality(hits) <= Cardinality(InHistory(h, t)) /\ Cardinality(hits) <= limit
             \/ t < clock' /\ Cardinality(hits) + Cardinality(Late(t)') <= limit + (IoThreads - 1)
  <2>1. CASE t < clock /\ Cardinality(hits) + Cardinality(Late(t)) <= limit + (IoThreads - 1)
    <3>1. /\ IsFiniteSet(Late(t)) /\ Cardinality(Late(t)) \in Nat
          /\ Late(t)' \in SUBSET Late(t)
      BY <2>1, FiniteCounts
    <3>2. Cardinality(Late(t)') \in Nat /\ Cardinality(Late(t)') <= Cardinality(Late(t))
      BY <3>1, FS_Subset, FS_CardinalityType
    <3>3. clock \in Int /\ t \in Int /\ clock' \in Int /\ IoThreads \in Int
      BY AuthAssumption DEF LimiterTypeOK
    <3> QED
      BY <1>1, <2>1, <3>1, <3>2, <3>3
  <2> QED
    BY <1>1, <2>1 DEF WindowBounded
<1>2. \A k, t : IpHits(k, t)' = IpHits(k, t) /\ AccountHits(k, t)' = AccountHits(k, t)
  BY DEF IpHits, AccountHits
<1>3. \A k, t : Cardinality(IpHits(k, t)) \in Nat /\ Cardinality(AccountHits(k, t)) \in Nat
  BY FiniteCounts
<1>4. MaxAttemptsPerIp \in Nat /\ MaxAttemptsPerAccount \in Nat
  BY LimiterOptionsValid
<1>5. ASSUME NEW t \in 0..MaxTime, NEW k \in Addresses
      PROVE  WindowBounded(IpHits(k, t), ipAttempts[k], t, MaxAttemptsPerIp)'
  <2>1. WindowBounded(IpHits(k, t), ipAttempts[k], t, MaxAttemptsPerIp)
    BY DEF WindowsBounded
  <2> QED
    BY <1>1, <1>2, <1>3, <1>4, <2>1 DEF WindowBounded, InHistory
<1>6. ASSUME NEW t \in 0..MaxTime, NEW k \in LoginIds
      PROVE  WindowBounded(AccountHits(k, t), accountAttempts[k], t, MaxAttemptsPerAccount)'
  <2>1. WindowBounded(AccountHits(k, t), accountAttempts[k], t, MaxAttemptsPerAccount)
    BY DEF WindowsBounded
  <2> QED
    BY <1>1, <1>2, <1>3, <1>4, <2>1 DEF WindowBounded, InHistory
<1> QED
  BY <1>5, <1>6 DEF WindowsBounded

\* What AdmitLogin does to its request.
LEMMA AdmitUpdates ==
    ASSUME AuthTypeOK, NEW r \in Tasks, AdmitLogin(r)
    PROVE  \E q \in Request :
              /\ request' = [request EXCEPT ![r] = q]
              /\ q.at = IF Admission(AddressOf[SessionOf[r]], request[r].login, request[r].now).status = "Accepted"
                        THEN "post" ELSE "complete"
              /\ q.kind = request[r].kind /\ q.login = request[r].login /\ q.now = request[r].now
<1> DEFINE status == Admission(AddressOf[SessionOf[r]], request[r].login, request[r].now).status
           q == IF status = "Accepted" THEN [request[r] EXCEPT !.at = "post"] ELSE Finished(r, status)
<1>1. request[r] \in Request
  BY DEF AuthTypeOK
<1>2. request' = [request EXCEPT ![r] = q]
  BY DEF AdmitLogin, Update
<1>3. CASE status = "Accepted"
  <2>1. q = [request[r] EXCEPT !.at = "post"]
    BY <1>3
  <2>2. /\ q \in Request /\ q.at = "post"
        /\ q.kind = request[r].kind /\ q.login = request[r].login /\ q.now = request[r].now
    BY <1>1, <2>1 DEF Request, OnIoThread
  <2> QED
    BY <1>2, <1>3, <2>2
<1>4. CASE status # "Accepted"
  <2> DEFINE ok == status = "Success"
  <2>1. q = [request[r] EXCEPT !.at = "complete", !.success = ok] /\ ok \in BOOLEAN
    BY <1>4 DEF Finished
  <2> HIDE DEF ok
  <2>2. /\ q \in Request /\ q.at = "complete"
        /\ q.kind = request[r].kind /\ q.login = request[r].login /\ q.now = request[r].now
    BY <1>1, <2>1 DEF Request
  <2> QED
    BY <1>2, <1>4, <2>2
<1> QED
  BY <1>3, <1>4

\* TryAcquire keeps the bounds: a thread with a time after t is itself one of the
\* threads and not late for t.
LEMMA WindowsAdmit ==
    ASSUME AuthInv, NEW r \in Tasks, AdmitLogin(r)
    PROVE  WindowsBounded' /\ LimiterTypeOK'
<1> DEFINE now == request[r].now
           acct == request[r].login
           ip == AddressOf[SessionOf[r]]
           a == Admission(ip, acct, now)
           accepted == a.status = "Accepted"
           new == [ip |-> ip, account |-> acct, at |-> now]
<1>1. /\ request[r].at = "admit" /\ request[r] \in Request
      /\ now \in 0..MaxTime /\ now <= clock /\ clock \in 0..MaxTime
      /\ acct \in LoginIds /\ ip \in Addresses
  <2>1. request[r].at = "admit" /\ request[r] \in Request
    BY DEF AdmitLogin, AuthInv, AuthTypeOK
  <2>2. now \in 0..MaxTime
    BY <2>1 DEF Request
  <2>3. now <= clock /\ acct \in LoginIds /\ clock \in 0..MaxTime
    BY <2>1 DEF AuthInv, RequestsPlaced, Placed, OnIoThread, LimiterTypeOK
  <2> QED
    BY <2>1, <2>2, <2>3, AuthAssumption
<1>2. /\ clock' = clock /\ ipAttempts' = a.ips /\ accountAttempts' = a.accounts
      /\ admitted' = IF accepted THEN Append(admitted, new) ELSE admitted
  BY DEF AdmitLogin, TryAcquire
<1>3. PICK q \in Request : request' = [request EXCEPT ![r] = q] /\ q.at # "admit" /\ q.now = now
  BY AdmitUpdates DEF AuthInv
<1>4. LimiterTypeOK /\ concurrentPasswordJobs \in Nat
  BY LimiterOptionsValid DEF AuthInv, AuthTypeOK
<1>5. Decided(a, ip, acct, now)
  BY <1>1, <1>4, AdmissionResult
<1>6. accepted \in BOOLEAN
  OBVIOUS
<1> HIDE DEF now, acct, ip, a, accepted
<1>7. new \in Attempt /\ new.ip = ip /\ new.account = acct /\ new.at = now
  BY <1>1 DEF Attempt
<1> HIDE DEF new
<1>8. LimiterTypeOK'
  BY <1>1, <1>2, <1>4, <1>5, <1>7 DEF LimiterTypeOK, Decided
<1>9. ASSUME NEW t \in 0..MaxTime
      PROVE  /\ Cardinality(Late(t)) \in Nat /\ Cardinality(Late(t)') \in Nat
             /\ now <= t => Cardinality(Late(t)') = Cardinality(Late(t)) - 1
             /\ now > t => Cardinality(Late(t)') = Cardinality(Late(t)) /\ Cardinality(Late(t)') <= IoThreads - 1
  <2>1. IsFiniteSet(Late(t)) /\ Cardinality(Late(t)) \in Nat
    BY <1>4, FiniteCounts
  <2>2. Late(t)' = Late(t) \ {r}
    BY <1>3 DEF Late, AuthInv, AuthTypeOK
  <2>3. r \in Late(t) <=> now <= t
    BY <1>1 DEF Late, now
  <2>4. Cardinality(Late(t)') = (IF r \in Late(t) THEN Cardinality(Late(t)) - 1 ELSE Cardinality(Late(t)))
    BY <2>1, <2>2, FS_RemoveElement
  <2>5. Cardinality(Late(t)') \in Nat
    BY <2>1, <2>2, FS_RemoveElement, FS_CardinalityType
  <2>6. ASSUME now > t
        PROVE  Cardinality(Late(t)) <= IoThreads - 1
    <3>1. IsFiniteSet(Busy) /\ r \in Busy
      BY <1>1, FS_Subset, ExecutorAssumption DEF Busy, OnIoThread
    <3>2. /\ IsFiniteSet(Busy \ {r}) /\ Cardinality(Busy \ {r}) = Cardinality(Busy) - 1
          /\ Cardinality(Busy) \in Nat
      BY <3>1, FS_RemoveElement, FS_CardinalityType
    <3>3. r \notin Late(t)
      BY <1>1, <2>3, <2>6
    <3>4. Late(t) \in SUBSET (Busy \ {r})
      BY <3>3 DEF Late, Busy, OnIoThread
    <3>5. Cardinality(Late(t)) <= Cardinality(Busy \ {r})
      BY <3>2, <3>4, FS_Subset
    <3> QED
      BY <2>1, <3>2, <3>5, AuthAssumption DEF AuthInv
  <2> QED
    BY <1>1, <2>1, <2>3, <2>4, <2>5, <2>6
<1>10. ASSUME NEW t \in 0..MaxTime, NEW k
       PROVE  /\ Cardinality(IpHits(k, t)) \in Nat /\ Cardinality(IpHits(k, t)') \in Nat
              /\ Cardinality(IpHits(k, t)') = Cardinality(IpHits(k, t)) +
                    (IF accepted /\ k = ip /\ Between(now, t) THEN 1 ELSE 0)
              /\ Cardinality(AccountHits(k, t)) \in Nat /\ Cardinality(AccountHits(k, t)') \in Nat
              /\ Cardinality(AccountHits(k, t)') = Cardinality(AccountHits(k, t)) +
                    (IF accepted /\ k = acct /\ Between(now, t) THEN 1 ELSE 0)
  <2>1. /\ IsFiniteSet(IpHits(k, t)) /\ Cardinality(IpHits(k, t)) \in Nat
        /\ IsFiniteSet(AccountHits(k, t)) /\ Cardinality(AccountHits(k, t)) \in Nat
    BY <1>4, FiniteCounts
  <2> DEFINE n == Len(admitted) + 1
  <2>2. CASE ~accepted
    <3>1. IpHits(k, t)' = IpHits(k, t) /\ AccountHits(k, t)' = AccountHits(k, t)
      BY <1>2, <2>2 DEF IpHits, AccountHits
    <3> QED
      BY <2>1, <2>2, <3>1
  <2>3. CASE accepted
    <3>1. /\ Len(admitted) \in Nat /\ DOMAIN admitted = 1..Len(admitted) /\ DOMAIN admitted' = 1..n
          /\ admitted'[n] = new /\ \A i \in 1..Len(admitted) : admitted'[i] = admitted[i]
      BY <1>2, <1>4, <1>7, <2>3 DEF LimiterTypeOK
    <3>2. n \notin IpHits(k, t) /\ n \notin AccountHits(k, t)
      BY <3>1 DEF IpHits, AccountHits
    <3>3. IpHits(k, t)' = IF k = ip /\ Between(now, t) THEN IpHits(k, t) \cup {n} ELSE IpHits(k, t)
      BY <1>7, <3>1 DEF IpHits
    <3>4. AccountHits(k, t)' =
              IF k = acct /\ Between(now, t) THEN AccountHits(k, t) \cup {n} ELSE AccountHits(k, t)
      BY <1>7, <3>1 DEF AccountHits
    <3> HIDE DEF n
    <3>5. Cardinality(IpHits(k, t)') = Cardinality(IpHits(k, t)) +
              (IF accepted /\ k = ip /\ Between(now, t) THEN 1 ELSE 0)
      <4>1. CASE k = ip /\ Between(now, t)
        <5>1. IpHits(k, t)' = IpHits(k, t) \cup {n}
          BY <3>3, <4>1
        <5> QED
          BY <2>1, <2>3, <3>2, <4>1, <5>1, FS_AddElement
      <4>2. CASE ~(k = ip /\ Between(now, t))
        BY <2>1, <3>3, <4>2
      <4> QED
        BY <4>1, <4>2
    <3>6. Cardinality(AccountHits(k, t)') = Cardinality(AccountHits(k, t)) +
              (IF accepted /\ k = acct /\ Between(now, t) THEN 1 ELSE 0)
      <4>1. CASE k = acct /\ Between(now, t)
        <5>1. AccountHits(k, t)' = AccountHits(k, t) \cup {n}
          BY <3>4, <4>1
        <5> QED
          BY <2>1, <2>3, <3>2, <4>1, <5>1, FS_AddElement
      <4>2. CASE ~(k = acct /\ Between(now, t))
        BY <2>1, <3>4, <4>2
      <4> QED
        BY <4>1, <4>2
    <3> QED
      BY <2>1, <3>5, <3>6
  <2> QED
    BY <2>2, <2>3
<1>11. ASSUME NEW t \in 0..MaxTime, NEW k \in Addresses
       PROVE  WindowBounded(IpHits(k, t), ipAttempts[k], t, MaxAttemptsPerIp)'
  <2> DEFINE taken == accepted /\ k = ip
  <2>1. taken \in BOOLEAN /\ MaxAttemptsPerIp \in Nat \ {0} /\ ipAttempts[k] \in Seq(0..MaxTime)
    BY LimiterOptionsValid, <1>4 DEF LimiterTypeOK
  <2>2. Bounded(Cardinality(IpHits(k, t)), ipAttempts[k], t, Cardinality(Late(t)), MaxAttemptsPerIp, clock)
    BY DEF AuthInv, WindowsBounded, WindowBounded, Bounded
  <2>3. KeyStep(taken, now, t, MaxAttemptsPerIp, ipAttempts[k], a.ips[k], Cardinality(IpHits(k, t)),
                Cardinality(IpHits(k, t)'), Cardinality(Late(t)), Cardinality(Late(t)'))
    BY SMTT(40), <1>5, <1>9, <1>10 DEF KeyStep, Decided, accepted
  <2> HIDE DEF taken
  <2>4. Bounded(Cardinality(IpHits(k, t)'), a.ips[k], t, Cardinality(Late(t)'), MaxAttemptsPerIp, clock)
    BY SMTT(40), <1>1, <1>9, <1>10, <2>1, <2>2, <2>3, WindowStep
  <2> QED
    BY <1>2, <2>4 DEF WindowBounded, InHistory, Bounded
<1>12. ASSUME NEW t \in 0..MaxTime, NEW k \in LoginIds
       PROVE  WindowBounded(AccountHits(k, t), accountAttempts[k], t, MaxAttemptsPerAccount)'
  <2> DEFINE taken == accepted /\ k = acct
  <2>1. taken \in BOOLEAN /\ MaxAttemptsPerAccount \in Nat \ {0} /\ accountAttempts[k] \in Seq(0..MaxTime)
    BY LimiterOptionsValid, <1>4 DEF LimiterTypeOK
  <2>2. Bounded(Cardinality(AccountHits(k, t)), accountAttempts[k], t, Cardinality(Late(t)), MaxAttemptsPerAccount, clock)
    BY DEF AuthInv, WindowsBounded, WindowBounded, Bounded
  <2>3. KeyStep(taken, now, t, MaxAttemptsPerAccount, accountAttempts[k], a.accounts[k],
                Cardinality(AccountHits(k, t)), Cardinality(AccountHits(k, t)'),
                Cardinality(Late(t)), Cardinality(Late(t)'))
    <3>1. CASE taken
      <4>1. /\ a.accounts[k] = Append(Pruned(accountAttempts[k], now - AttemptWindow), now)
            /\ Len(Pruned(accountAttempts[k], now - AttemptWindow)) < MaxAttemptsPerAccount
        BY <1>5, <3>1 DEF Decided, accepted
      <4> QED
        BY <1>9, <1>10, <3>1, <4>1 DEF KeyStep
    <3>2. CASE ~taken
      <4>1. \/ a.accounts[k] = accountAttempts[k]
            \/ a.accounts[k] = Pruned(accountAttempts[k], now - AttemptWindow)
        BY <1>5, <3>2 DEF Decided, accepted
      <4> QED
        BY <1>9, <1>10, <3>2, <4>1 DEF KeyStep
    <3> QED
      BY <3>1, <3>2
  <2> HIDE DEF taken
  <2>4. Bounded(Cardinality(AccountHits(k, t)'), a.accounts[k], t, Cardinality(Late(t)'), MaxAttemptsPerAccount, clock)
    BY SMTT(40), <1>1, <1>9, <1>10, <2>1, <2>2, <2>3, WindowStep
  <2> QED
    BY <1>2, <2>4 DEF WindowBounded, InHistory, Bounded
<1> QED
  BY <1>8, <1>11, <1>12 DEF WindowsBounded

-----------------------------------------------------------------------------
(* What the other parts of the invariant depend on.                        *)

\* The tables, the accounts of the sessions and the administration tool.
StorageInv == ProvisioningIsNew /\ EveryCharacterOwned /\ TicketsForOwners

\* The limiter's histories and the threads of the io_context.
LimiterInv == LimiterTypeOK /\ WindowsBounded /\ Cardinality(Busy) <= IoThreads

\* A step that touches none of the tables.
LEMMA StorageKept ==
    ASSUME StorageInv, UNCHANGED <<players, ownerOf, tickets, admin, account>>
    PROVE  StorageInv'
  BY DEF StorageInv, ProvisioningIsNew, EveryCharacterOwned, TicketsForOwners

\* A step on a request r that does not enter a handler or finds a thread free, and
\* reads no time that is over.
LEMMA LimiterKept ==
    ASSUME AuthTypeOK, LimiterInv, UNCHANGED <<clock, ipAttempts, accountAttempts, admitted>>,
           NEW r \in Tasks, NEW q, request' = [request EXCEPT ![r] = q],
           q.at \in OnIoThread => request[r].at \in OnIoThread \/ Cardinality(Busy) < IoThreads,
           q.at = "admit" => q.now = clock
    PROVE  LimiterInv'
<1>1. LimiterTypeOK'
  BY DEF LimiterInv, LimiterTypeOK
<1>2. DOMAIN request = Tasks /\ request'[r] = q /\ \A x \in Tasks : x # r => request'[x] = request[x]
  BY DEF AuthTypeOK
<1>3. \A t \in 0..MaxTime : t < clock => Late(t)' \subseteq Late(t)
  <2> SUFFICES ASSUME NEW t \in 0..MaxTime, t < clock, NEW x \in Late(t)'
               PROVE  x \in Late(t)
    OBVIOUS
  <2>1. x \in Tasks /\ request'[x].at = "admit" /\ request'[x].now <= t
    BY DEF Late
  <2>2. clock \in Int /\ t \in Int
    BY DEF LimiterInv, LimiterTypeOK
  <2>3. x # r
    BY <1>2, <2>1, <2>2
  <2> QED
    BY <1>2, <2>1, <2>3 DEF Late
<1>4. WindowsBounded'
  <2>1. clock' = clock /\ clock' \in 0..MaxTime /\ clock <= clock'
    BY DEF LimiterInv, LimiterTypeOK
  <2> QED
    BY <1>3, <2>1, WindowsKept DEF LimiterInv
<1>5. Cardinality(Busy') <= IoThreads
  <2>1. IsFiniteSet(Busy) /\ Cardinality(Busy) \in Nat /\ Cardinality(Busy) <= IoThreads
    BY FS_Subset, FS_CardinalityType, ExecutorAssumption DEF Busy, LimiterInv
  <2>2. CASE q.at \in OnIoThread /\ request[r].at \notin OnIoThread
    <3>1. Busy' = Busy \cup {r} /\ r \notin Busy
      BY <1>2, <2>2 DEF Busy
    <3>2. Cardinality(Busy') = Cardinality(Busy) + 1
      BY <2>1, <3>1, FS_AddElement
    <3> QED
      BY <2>1, <2>2, <3>2, AuthAssumption
  <2>3. CASE ~(q.at \in OnIoThread /\ request[r].at \notin OnIoThread)
    <3>1. Busy' \in SUBSET Busy
      BY <1>2, <2>3 DEF Busy
    <3>2. Cardinality(Busy') \in Nat /\ Cardinality(Busy') <= Cardinality(Busy)
      BY <2>1, <3>1, FS_Subset, FS_CardinalityType
    <3> QED
      BY <2>1, <3>2, AuthAssumption
  <2> QED
    BY <2>2, <2>3
<1> QED
  BY <1>1, <1>4, <1>5 DEF LimiterInv

\* A step that leaves the requests alone.
LEMMA LimiterSame ==
    ASSUME LimiterInv, UNCHANGED <<request, ipAttempts, accountAttempts, admitted>>,
           clock' \in 0..MaxTime, clock <= clock'
    PROVE  LimiterInv'
<1>1. LimiterTypeOK'
  BY DEF LimiterInv, LimiterTypeOK
<1>2. Busy' = Busy /\ \A t : Late(t)' = Late(t)
  BY DEF Busy, Late
<1>3. WindowsBounded'
  BY <1>2, WindowsKept DEF LimiterInv
<1> QED
  BY <1>1, <1>2, <1>3 DEF LimiterInv

\* An io thread that is free is not inside a handler.
LEMMA FreeThread ==
    ASSUME IoThreadFree
    PROVE  Cardinality(Busy) < IoThreads
<1>1. Cardinality(Busy) \in Nat
  BY FS_Subset, FS_CardinalityType, ExecutorAssumption DEF Busy
<1> QED
  BY <1>1, AuthAssumption DEF IoThreadFree, Busy

\* The permits do not change when nobody takes one or gives one back.
LEMMA PermitsKept ==
    ASSUME PermitsCounted, Permits' = Permits, concurrentPasswordJobs' = concurrentPasswordJobs
    PROVE  PermitsCounted'
  BY DEF PermitsCounted

\* The sessions wait for the same requests when the same ones are under way.
LEMMA UnansweredKept ==
    ASSUME OneUnanswered, \A s \in Sessions : Unanswered(s)' = Unanswered(s),
           requestInProgress' = requestInProgress,
           \A s \in Sessions : closed[s] => closed'[s]
    PROVE  OneUnanswered'
  BY DEF OneUnanswered

\* The parts make up the invariant.
LEMMA AllParts ==
    ASSUME AuthTypeOK', QueueDepthExact', RequestsPlaced', PermitsCounted', OneUnanswered',
           StorageInv', LimiterInv'
    PROVE  AuthInv'
  BY DEF AuthInv, StorageInv, LimiterInv

\* A request stays one.
LEMMA RequestTyped ==
    ASSUME AuthTypeOK, NEW r \in Tasks, NEW q \in Request, request' = [request EXCEPT ![r] = q]
    PROVE  request' \in [Tasks -> Request]
  BY DEF AuthTypeOK

-----------------------------------------------------------------------------
(* The tasks on the workers.                                               *)

\* A step of a task: its request goes on, or is complete.
TaskUpdate(r, q) ==
    /\ r \in running /\ request[r].at \in OnWorker
    /\ request' = [request EXCEPT ![r] = q]
    /\ q \in Request /\ q.at \in {"ids", "profiles", "issue", "complete"}
    /\ q.kind = request[r].kind /\ q.now = request[r].now /\ q.player = request[r].player
    /\ q.at = "issue" => q.kind = "select" /\ ownerOf[q.player] = account[SessionOf[r]]
    /\ \/ tickets' = tickets
       \/ /\ request[r].at = "issue"
          /\ tickets' = tickets \cup {<<account[SessionOf[r]], request[r].player>>}
    /\ UNCHANGED <<executorVars, limiterVars, sessionVars, admin, accounts, players, ownerOf>>

\* Such a step keeps the invariant: a ticket is issued to the owner.
LEMMA TaskKeeps ==
    ASSUME AuthInv, NEW r \in Tasks, NEW q, TaskUpdate(r, q)
    PROVE  AuthInv'
<1> USE DEF TaskUpdate
<1>1. DOMAIN request = Tasks /\ request'[r] = q /\ \A x \in Tasks : x # r => request'[x] = request[x]
  BY DEF AuthInv, AuthTypeOK
<1>2. QueueDepthExact'
  BY DEF AuthInv, QueueDepthExact, executorVars
<1>3. RequestsPlaced'
  <2>1. ASSUME NEW x \in Tasks, x # r
        PROVE  Placed(x)'
    BY <1>1, <2>1 DEF AuthInv, RequestsPlaced, Placed, executorVars, limiterVars, sessionVars
  <2>2. Placed(r)'
    BY <1>1 DEF AuthInv, RequestsPlaced, Placed, executorVars, limiterVars, sessionVars, OnIoThread,
       OnWorker
  <2> QED
    BY <2>1, <2>2 DEF RequestsPlaced
<1>4. PermitsCounted'
  <2>1. Permits' = Permits
    BY <1>1 DEF Permits, executorVars, OnWorker
  <2> QED
    BY <2>1, PermitsKept DEF AuthInv, limiterVars
<1>5. OneUnanswered'
  <2>1. \A s \in Sessions : Unanswered(s)' = Unanswered(s)
    BY <1>1 DEF Unanswered, OnWorker
  <2> QED
    BY <2>1, UnansweredKept DEF AuthInv, sessionVars
<1>6. StorageInv'
  <2>1. ProvisioningIsNew' /\ EveryCharacterOwned'
    BY DEF AuthInv, ProvisioningIsNew, EveryCharacterOwned
  <2>2. request[r].at = "issue" => ownerOf[request[r].player] = account[SessionOf[r]]
    BY DEF AuthInv, RequestsPlaced, Placed
  <2>3. SessionOf[r] \in Sessions /\ account' = account /\ ownerOf' = ownerOf
    BY AuthAssumption DEF sessionVars
  <2>4. TicketsForOwners'
    BY <2>2, <2>3 DEF AuthInv, TicketsForOwners
  <2> QED
    BY <2>1, <2>4 DEF StorageInv
<1>7. LimiterInv'
  <2>1. q.at \notin OnIoThread
    BY DEF OnIoThread, OnWorker
  <2>2. UNCHANGED <<clock, ipAttempts, accountAttempts, admitted>>
    BY DEF limiterVars
  <2> QED
    BY <2>1, <2>2, LimiterKept DEF AuthInv, LimiterInv, OnIoThread
<1>8. AuthTypeOK'
  <2>1. tickets' \in SUBSET (LoginIds \X Players)
    BY DEF AuthInv, AuthTypeOK, RequestsPlaced, Placed, OnWorker
  <2>2. UNCHANGED <<executorVars, concurrentPasswordJobs, sessionVars, accounts, players, ownerOf, admin>>
    BY DEF limiterVars
  <2> QED
    BY <2>1, <2>2, RequestTyped DEF AuthInv, AuthTypeOK, ExecutorTypeOK, executorVars, sessionVars
<1> QED
  BY <1>2, <1>3, <1>4, <1>5, <1>6, <1>7, <1>8, AllParts

\* What is stored when a task posts its completion.
LEMMA FinishedRequest ==
    ASSUME AuthTypeOK, NEW r \in Tasks, NEW status
    PROVE  /\ Finished(r, status) \in Request /\ Finished(r, status).at = "complete"
           /\ Finished(r, status).kind = request[r].kind /\ Finished(r, status).now = request[r].now
           /\ Finished(r, status).player = request[r].player
<1> DEFINE ok == status = "Success"
<1>1. request[r] \in Request /\ ok \in BOOLEAN
  BY DEF AuthTypeOK
<1>2. Finished(r, status) = [request[r] EXCEPT !.at = "complete", !.success = ok]
  BY DEF Finished
<1> HIDE DEF ok
<1> QED
  BY <1>1, <1>2 DEF Request

\* The steps of the tasks keep the invariant.
LEMMA TasksKeep ==
    ASSUME AuthInv, NEW r \in Tasks, TaskStep(r)
    PROVE  AuthInv'
<1> SUFFICES \E q : TaskUpdate(r, q)
  BY TaskKeeps
<1>1. request[r] \in Request /\ AuthTypeOK
  BY DEF AuthInv, AuthTypeOK
<1>2. \A status : LET f == Finished(r, status) IN
          f \in Request /\ f.at = "complete" /\ f.kind = request[r].kind /\ f.now = request[r].now /\ f.player = request[r].player
  BY <1>1, FinishedRequest
<1>3. ASSUME NEW status, NEW kind, NEW at \in OnWorker, Running(r, kind, at),
             Update(r, Finished(r, status)), UNCHANGED storageVars
      PROVE  TaskUpdate(r, Finished(r, status))
  BY <1>2, <1>3 DEF TaskUpdate, Running, Update, storageVars
<1>4. CASE Verify(r)
  BY <1>3, <1>4 DEF Verify, OnWorker
<1>5. CASE TaskFails(r)
  BY <1>3, <1>5 DEF TaskFails
<1>6. CASE FindAccount(r)
  <2>1. CASE account[SessionOf[r]] \in accounts
    <3> DEFINE q == [request[r] EXCEPT !.at = "ids"]
    <3>1. q \in Request /\ q.at = "ids" /\ q.kind = request[r].kind /\ q.now = request[r].now /\ q.player = request[r].player
      BY <1>1 DEF Request, OnWorker
    <3>2. Update(r, q) /\ Running(r, "list", "queued") /\ UNCHANGED storageVars
      BY <1>6, <2>1 DEF FindAccount
    <3> HIDE DEF q
    <3>3. TaskUpdate(r, q)
      BY <3>1, <3>2 DEF TaskUpdate, Running, Update, storageVars, OnWorker
    <3> QED
      BY <3>3
  <2>2. CASE account[SessionOf[r]] \notin accounts
    BY <1>3, <1>6, <2>2 DEF FindAccount, OnWorker
  <2> QED
    BY <2>1, <2>2
<1>7. CASE FindPlayerIds(r)
  <2> DEFINE found == {p \in Players : ownerOf[p] = account[SessionOf[r]]}
             q == [request[r] EXCEPT !.at = "profiles", !.found = found]
  <2>1. found \in SUBSET Players
    OBVIOUS
  <2>2. Update(r, q) /\ Running(r, "list", "ids") /\ UNCHANGED storageVars
    BY <1>7 DEF FindPlayerIds
  <2> HIDE DEF found
  <2>3. q \in Request /\ q.at = "profiles" /\ q.kind = request[r].kind /\ q.now = request[r].now /\ q.player = request[r].player
    BY <1>1, <2>1 DEF Request, OnWorker
  <2> HIDE DEF q
  <2>4. TaskUpdate(r, q)
    BY <2>2, <2>3 DEF TaskUpdate, Running, Update, storageVars, OnWorker
  <2> QED
    BY <2>4
<1>8. CASE FindPlayer(r)
  <2>1. Running(r, "list", "profiles") /\ UNCHANGED storageVars
    BY <1>8 DEF FindPlayer
  <2>2. CASE \E status : Update(r, Finished(r, status))
    BY <1>3, <2>1, <2>2 DEF OnWorker
  <2>3. ASSUME NEW p \in request[r].found, Update(r, [request[r] EXCEPT !.found = request[r].found \ {p}])
        PROVE  \E q : TaskUpdate(r, q)
    <3> DEFINE q == [request[r] EXCEPT !.found = request[r].found \ {p}]
    <3>1. q \in Request /\ q.at = request[r].at /\ q.kind = request[r].kind /\ q.now = request[r].now /\ q.player = request[r].player
      BY <1>1 DEF Request
    <3>2. Update(r, q)
      BY <2>3
    <3> HIDE DEF q
    <3>3. TaskUpdate(r, q)
      BY <2>1, <3>1, <3>2 DEF TaskUpdate, Running, Update, storageVars, OnWorker
    <3> QED
      BY <3>3
  <2> QED
    BY <1>8, <2>2, <2>3 DEF FindPlayer
<1>9. CASE OwnsPlayer(r)
  <2>1. CASE Owns(account[SessionOf[r]], request[r].player)
    <3> DEFINE q == [request[r] EXCEPT !.at = "issue"]
    <3>1. q \in Request /\ q.at = "issue" /\ q.kind = request[r].kind /\ q.now = request[r].now /\ q.player = request[r].player
      BY <1>1 DEF Request, OnWorker
    <3>2. Update(r, q) /\ Running(r, "select", "queued") /\ UNCHANGED storageVars
      BY <1>9, <2>1 DEF OwnsPlayer
    <3> HIDE DEF q
    <3>3. TaskUpdate(r, q)
      BY <2>1, <3>1, <3>2 DEF TaskUpdate, Running, Update, storageVars, OnWorker, Owns
    <3> QED
      BY <3>3
  <2>2. CASE ~Owns(account[SessionOf[r]], request[r].player)
    BY <1>3, <1>9, <2>2 DEF OwnsPlayer, OnWorker
  <2> QED
    BY <2>1, <2>2
<1>10. CASE IssueTicket(r)
  <2>1. TaskUpdate(r, Finished(r, "Success"))
    BY <1>2, <1>10 DEF IssueTicket, TaskUpdate, Running, Update, OnWorker
  <2> QED
    BY <2>1
<1> QED
  BY <1>4, <1>5, <1>6, <1>7, <1>8, <1>9, <1>10 DEF TaskStep

\* The queue is finite, and so are the permits that are held.
LEMMA FiniteHolders ==
    ASSUME AuthTypeOK
    PROVE  /\ IsFiniteSet(queued) /\ Cardinality(queued) \in Nat
           /\ IsFiniteSet(Permits) /\ Cardinality(Permits) \in Nat
<1>1. queued \in SUBSET Tasks /\ Permits \in SUBSET Tasks
  BY DEF AuthTypeOK, ExecutorTypeOK, Permits
<1>2. IsFiniteSet(queued) /\ IsFiniteSet(Permits)
  BY <1>1, FS_Subset, ExecutorAssumption
<1> QED
  BY <1>2, FS_CardinalityType

\* A task that begins was waiting: it keeps its permit.
LEMMA BeginKeeps ==
    ASSUME AuthInv, NEW r \in Tasks, BeginRequest(r)
    PROVE  AuthInv'
<1>1. BeginTask(r) /\ UNCHANGED <<limiterVars, request, sessionVars, storageVars, admin>>
  BY DEF BeginRequest
<1>2. IsFiniteSet(queued) /\ Cardinality(queued) \in Nat
  BY FiniteHolders DEF AuthInv
<1>3. Cardinality(queued \ {r}) = Cardinality(queued) - 1 /\ Cardinality(queued \ {r}) \in Nat
  BY <1>1, <1>2, FS_RemoveElement, FS_CardinalityType DEF BeginTask
<1>4. QueueDepthExact'
  BY <1>1, <1>2, <1>3, ExecutorAssumption DEF AuthInv, QueueDepthExact, BeginTask
<1>5. AuthTypeOK'
  <2>1. queueDepth' \in Nat
    BY <1>1, <1>3, <1>4 DEF QueueDepthExact, BeginTask
  <2> QED
    BY <1>1, <2>1 DEF AuthInv, AuthTypeOK, ExecutorTypeOK, BeginTask, limiterVars, sessionVars, storageVars
<1>6. RequestsPlaced'
  BY <1>1 DEF AuthInv, RequestsPlaced, Placed, BeginTask, limiterVars, sessionVars, storageVars, OnIoThread, OnWorker
<1>7. PermitsCounted'
  <2>1. Permits' = Permits
    BY <1>1 DEF Permits, BeginTask
  <2> QED
    BY <1>1, <2>1, PermitsKept DEF AuthInv, limiterVars
<1>8. OneUnanswered'
  <2>1. \A s \in Sessions : Unanswered(s)' = Unanswered(s)
    BY <1>1 DEF Unanswered
  <2> QED
    BY <1>1, <2>1, UnansweredKept DEF AuthInv, sessionVars
<1>9. StorageInv'
  BY <1>1, StorageKept DEF AuthInv, StorageInv, storageVars, sessionVars
<1>10. LimiterInv'
  <2>1. clock' = clock /\ clock \in 0..MaxTime /\ clock <= clock
    BY <1>1 DEF AuthInv, LimiterTypeOK, limiterVars
  <2> QED
    BY <1>1, <2>1, LimiterSame DEF AuthInv, LimiterInv, limiterVars
<1> QED
  BY <1>4, <1>5, <1>6, <1>7, <1>8, <1>9, <1>10, AllParts

\* A permit that is held can be given back.
LEMMA PermitReturned ==
    ASSUME AuthInv, NEW r \in Permits, Permits' = Permits \ {r}, ReleasePermit
    PROVE  PermitsCounted' /\ concurrentPasswordJobs' \in 0..MaxConcurrentPasswordJobs
<1>1. IsFiniteSet(Permits) /\ Cardinality(Permits) \in Nat
  BY FiniteHolders DEF AuthInv
<1>2. Cardinality(Permits \ {r}) = Cardinality(Permits) - 1 /\ Cardinality(Permits \ {r}) \in Nat
  BY <1>1, FS_RemoveElement, FS_CardinalityType
<1>3. concurrentPasswordJobs = Cardinality(Permits) /\ Cardinality(Permits) <= MaxConcurrentPasswordJobs
  BY DEF AuthInv, PermitsCounted
<1>4. concurrentPasswordJobs' = Cardinality(Permits) - 1
  BY <1>1, <1>2, <1>3 DEF ReleasePermit
<1>5. MaxConcurrentPasswordJobs \in Nat
  BY LimiterOptionsValid
<1> QED
  BY <1>1, <1>2, <1>3, <1>4, <1>5 DEF PermitsCounted

\* A task that ends gives back the permit of a login, whose answer may have been
\* sent before.
LEMMA EndKeeps ==
    ASSUME AuthInv, NEW r \in Tasks, EndRequest(r)
    PROVE  AuthInv'
<1>1. /\ EndTask(r) /\ request[r].at \notin OnWorker
      /\ IF request[r].kind = "login" THEN ReleasePermit ELSE UNCHANGED limiterVars
      /\ UNCHANGED <<request, sessionVars, storageVars, admin>>
  BY DEF EndRequest
<1>2. UNCHANGED <<clock, ipAttempts, accountAttempts, admitted>>
  BY <1>1 DEF ReleasePermit, limiterVars
<1>3. r \in running /\ r \notin queued /\ request[r].at # "post"
  BY <1>1 DEF EndTask, AuthInv, RequestsPlaced, Placed, OnIoThread
<1>4. QueueDepthExact'
  BY <1>1 DEF AuthInv, QueueDepthExact, EndTask
<1>5. PermitsCounted' /\ concurrentPasswordJobs' \in 0..MaxConcurrentPasswordJobs
  <2>1. CASE request[r].kind = "login"
    <3>1. r \in Permits /\ Permits' = Permits \ {r}
      BY <1>1, <1>3, <2>1 DEF Permits, EndTask
    <3> QED
      BY <1>1, <2>1, <3>1, PermitReturned
  <2>2. CASE request[r].kind # "login"
    <3>1. Permits' = Permits
      BY <1>1, <2>2 DEF Permits, EndTask
    <3> QED
      BY <1>1, <2>2, <3>1, PermitsKept DEF AuthInv, AuthTypeOK, limiterVars
  <2> QED
    BY <2>1, <2>2
<1>6. AuthTypeOK'
  BY <1>1, <1>5 DEF AuthInv, AuthTypeOK, ExecutorTypeOK, EndTask, sessionVars, storageVars
<1>7. RequestsPlaced'
  BY <1>1, <1>2 DEF AuthInv, RequestsPlaced, Placed, EndTask, sessionVars, storageVars, OnIoThread, OnWorker
<1>8. OneUnanswered'
  <2>1. \A s \in Sessions : Unanswered(s)' = Unanswered(s)
    BY <1>1 DEF Unanswered
  <2> QED
    BY <1>1, <2>1, UnansweredKept DEF AuthInv, sessionVars
<1>9. StorageInv'
  BY <1>1, StorageKept DEF AuthInv, StorageInv, storageVars, sessionVars
<1>10. LimiterInv'
  <2>1. clock' = clock /\ clock \in 0..MaxTime /\ clock <= clock
    BY <1>2 DEF AuthInv, LimiterTypeOK
  <2> QED
    BY <1>1, <1>2, <2>1, LimiterSame DEF AuthInv, LimiterInv
<1> QED
  BY <1>4, <1>5, <1>6, <1>7, <1>8, <1>9, <1>10, AllParts

-----------------------------------------------------------------------------
(* The administration tool, the shutdown, closing and the clock.           *)

\* What these leave alone.
RequestsAlone ==
    UNCHANGED <<request, queued, running, queueDepth, concurrentPasswordJobs, ipAttempts,
                accountAttempts, admitted, requestInProgress, account>>

\* A step that leaves the requests alone, and the characters for which a ticket is
\* about to be issued.
LEMMA AloneKeeps ==
    ASSUME AuthInv, RequestsAlone, AuthTypeOK', StorageInv',
           clock' \in 0..MaxTime, clock <= clock', \A s \in Sessions : closed[s] => closed'[s],
           \A p \in Players : ownerOf[p] # None => ownerOf'[p] = ownerOf[p]
    PROVE  AuthInv'
<1> USE DEF RequestsAlone
<1>1. QueueDepthExact'
  BY DEF AuthInv, QueueDepthExact
<1>2. RequestsPlaced'
  <2> SUFFICES ASSUME NEW r \in Tasks
               PROVE  Placed(r)'
    BY DEF RequestsPlaced
  <2>1. Placed(r)
    BY DEF AuthInv, RequestsPlaced
  <2>2. request[r].now <= clock'
    <3>1. request[r].now \in Int /\ clock \in Int /\ clock' \in Int
      BY DEF AuthInv, AuthTypeOK, Request, LimiterTypeOK
    <3> QED
      BY <2>1, <3>1 DEF Placed
  <2>3. request[r].at = "issue" => ownerOf'[request[r].player] = account[SessionOf[r]]
    BY <2>1, AuthAssumption DEF Placed, OnWorker
  <2> QED
    BY <2>1, <2>2, <2>3 DEF Placed
<1>3. PermitsCounted'
  <2>1. Permits' = Permits
    BY DEF Permits
  <2> QED
    BY <2>1, PermitsKept DEF AuthInv
<1>4. OneUnanswered'
  <2>1. \A s \in Sessions : Unanswered(s)' = Unanswered(s)
    BY DEF Unanswered
  <2> QED
    BY <2>1, UnansweredKept DEF AuthInv
<1>5. LimiterInv'
  BY LimiterSame DEF AuthInv, LimiterInv
<1> QED
  BY <1>1, <1>2, <1>3, <1>4, <1>5, AllParts

\* Closing, the shutdown and the clock.
LEMMA OutsideKeeps ==
    ASSUME AuthInv,
           \/ \E s \in Sessions : CloseSession(s)
           \/ StopOnIoContext \/ StopIoContext
           \/ \E x \in Stoppers : ContinueDrain(x)
           \/ PassTime
           \/ UNCHANGED authVars
    PROVE  AuthInv'
<1> USE DEF AuthInv, RequestsAlone
<1>1. AuthTypeOK /\ clock \in 0..MaxTime /\ clock \in Int /\ clock <= clock
  BY DEF LimiterTypeOK
<1>2. ASSUME NEW s \in Sessions, CloseSession(s)
      PROVE  AuthInv'
  <2>1. AuthTypeOK'
    BY <1>2 DEF CloseSession, AuthTypeOK, ExecutorTypeOK, executorVars, limiterVars, storageVars
  <2>2. StorageInv'
    BY <1>2, StorageKept DEF StorageInv, CloseSession, storageVars
  <2>3. RequestsAlone /\ clock' = clock /\ ownerOf' = ownerOf /\ \A x \in Sessions : closed[x] => closed'[x]
    BY <1>2 DEF CloseSession, AuthTypeOK, executorVars, limiterVars, storageVars
  <2> QED
    BY <1>1, <2>1, <2>2, <2>3, AloneKeeps
<1>3. ASSUME StopOnIoContext \/ \E x \in Stoppers : ContinueDrain(x)
      PROVE  AuthInv'
  <2>1. PICK x \in Stoppers : DrainAndStop(x) \/ DrainStep(x)
    BY <1>3, AuthAssumption DEF StopOnIoContext, ContinueDrain
  <2>2. UNCHANGED <<limiterVars, request, sessionVars, storageVars, admin>>
    BY <1>3 DEF StopOnIoContext, ContinueDrain
  <2>3. ExecutorTypeOK' /\ UNCHANGED <<queued, running, queueDepth>>
    BY <1>1, <2>1 DEF AuthTypeOK, ExecutorTypeOK, DrainAndStop, DrainStep, JoinWorkers, SetJoined,
       AwaitJoined, StopGoto
  <2>4. AuthTypeOK'
    BY <1>1, <2>2, <2>3 DEF AuthTypeOK, limiterVars, sessionVars, storageVars
  <2>5. StorageInv'
    BY <2>2, StorageKept DEF StorageInv, storageVars, sessionVars
  <2>6. RequestsAlone /\ clock' = clock /\ ownerOf' = ownerOf /\ closed' = closed
    BY <2>2, <2>3 DEF limiterVars, sessionVars, storageVars
  <2> QED
    BY <1>1, <2>4, <2>5, <2>6, AloneKeeps
<1>4. CASE StopIoContext \/ UNCHANGED authVars
  <2>1. /\ UNCHANGED <<executorVars, limiterVars, request, requestInProgress, closed, account, storageVars, admin>>
        /\ ioRunning' \in BOOLEAN
    BY <1>1, <1>4 DEF StopIoContext, authVars, sessionVars, AuthTypeOK
  <2>2. AuthTypeOK'
    BY <1>1, <2>1 DEF AuthTypeOK, ExecutorTypeOK, executorVars, limiterVars, storageVars
  <2>3. StorageInv'
    BY <2>1, StorageKept DEF StorageInv, storageVars
  <2>4. RequestsAlone /\ clock' = clock /\ ownerOf' = ownerOf /\ closed' = closed
    BY <2>1 DEF executorVars, limiterVars, storageVars
  <2> QED
    BY <1>1, <2>2, <2>3, <2>4, AloneKeeps
<1>5. CASE PassTime
  <2>1. Tick /\ UNCHANGED <<executorVars, request, sessionVars, storageVars, admin>>
    BY <1>5 DEF PassTime
  <2>2. AuthTypeOK'
    BY <1>1, <2>1 DEF AuthTypeOK, ExecutorTypeOK, Tick, executorVars, sessionVars, storageVars
  <2>3. StorageInv'
    BY <2>1, StorageKept DEF StorageInv, storageVars, sessionVars
  <2>4. RequestsAlone /\ ownerOf' = ownerOf /\ closed' = closed
    BY <2>1 DEF Tick, executorVars, sessionVars, storageVars
  <2>5. clock' \in 0..MaxTime /\ clock <= clock'
    BY <1>1, <2>1, LimiterOptionsValid DEF Tick
  <2> QED
    BY <2>2, <2>3, <2>4, <2>5, AloneKeeps
<1> QED
  BY <1>2, <1>3, <1>4, <1>5

\* The administration tool: a character that has an owner keeps it, and a new one
\* gets its rows together.
LEMMA AdminKeeps ==
    ASSUME AuthInv, AdminStep
    PROVE  AuthInv'
<1> USE DEF AuthInv, RequestsAlone
<1>1. AuthTypeOK /\ clock \in 0..MaxTime /\ clock \in Int /\ clock <= clock
  BY DEF LimiterTypeOK
<1>2. /\ UNCHANGED <<executorVars, limiterVars, request, sessionVars, tickets>>
      /\ RequestsAlone /\ clock' = clock /\ closed' = closed
  BY DEF AdminStep, CreateAccount, BeginProvisioning, CommitProvisioning, AbortProvisioning, storageVars,
     executorVars, limiterVars, sessionVars
<1>3. CASE \E l \in LoginIds : CreateAccount(l)
  <2>1. UNCHANGED <<players, ownerOf, admin>> /\ accounts' \in SUBSET LoginIds
    BY <1>1, <1>3 DEF CreateAccount, AuthTypeOK
  <2>2. AuthTypeOK'
    BY <1>1, <1>2, <2>1 DEF AuthTypeOK, ExecutorTypeOK, executorVars, limiterVars, sessionVars
  <2>3. StorageInv'
    BY <1>2, <2>1, StorageKept DEF StorageInv, sessionVars
  <2> QED
    BY <1>1, <1>2, <2>1, <2>2, <2>3, AloneKeeps
<1>4. CASE AbortProvisioning \/ \E l \in LoginIds, p \in Players : BeginProvisioning(l, p)
  <2>1. UNCHANGED storageVars
    BY <1>4 DEF AbortProvisioning, BeginProvisioning
  <2>2. /\ ProvisioningIsNew'
        /\ admin' \in [at : {"idle", "open"}, account : LoginIds \cup {None}, player : Players \cup {None}]
    BY <1>4, <2>1 DEF AbortProvisioning, BeginProvisioning, ProvisioningIsNew, Idle, storageVars
  <2>3. AuthTypeOK'
    BY <1>1, <1>2, <2>1, <2>2 DEF AuthTypeOK, ExecutorTypeOK, executorVars, limiterVars, sessionVars, storageVars
  <2>4. EveryCharacterOwned' /\ TicketsForOwners'
    BY <1>2, <2>1 DEF EveryCharacterOwned, TicketsForOwners, storageVars, sessionVars
  <2> QED
    BY <1>1, <1>2, <2>1, <2>2, <2>3, <2>4, AloneKeeps DEF StorageInv, storageVars
<1>5. CASE CommitProvisioning
  <2> DEFINE p == admin.player
             l == admin.account
  <2>1. p \in Players /\ l \in LoginIds /\ p \notin players /\ ownerOf[p] = None
    BY <1>5 DEF CommitProvisioning, ProvisioningIsNew, EveryCharacterOwned
  <2>2. /\ players' = players \cup {p} /\ ownerOf' = [ownerOf EXCEPT ![p] = l] /\ admin' = Idle
        /\ accounts' = accounts
    BY <1>5 DEF CommitProvisioning
  <2> HIDE DEF p, l
  <2>3. /\ ownerOf' \in [Players -> LoginIds \cup {None}] /\ ownerOf'[p] = l
        /\ \A x \in Players : x # p => ownerOf'[x] = ownerOf[x]
    BY <1>1, <2>1, <2>2 DEF AuthTypeOK
  <2>4. AuthTypeOK'
    BY <1>1, <1>2, <2>1, <2>2, <2>3 DEF AuthTypeOK, ExecutorTypeOK, Idle, executorVars, limiterVars, sessionVars
  <2>5. ProvisioningIsNew'
    BY <2>2 DEF ProvisioningIsNew, Idle
  <2>6. EveryCharacterOwned'
    BY <2>1, <2>2, <2>3, AuthAssumption DEF EveryCharacterOwned
  <2>7. TicketsForOwners'
    <3> SUFFICES ASSUME NEW k \in tickets
                 PROVE  ownerOf'[k[2]] = k[1] /\ \E s \in Sessions : account[s] = k[1]
      BY <1>2 DEF TicketsForOwners, sessionVars
    <3>1. k[1] \in LoginIds /\ k[2] \in Players
      BY <1>1 DEF AuthTypeOK
    <3>2. ownerOf[k[2]] = k[1] /\ \E s \in Sessions : account[s] = k[1]
      BY DEF TicketsForOwners
    <3>3. k[2] # p
      BY <2>1, <3>1, <3>2, AuthAssumption
    <3> QED
      BY <2>3, <3>1, <3>2, <3>3
  <2>8. \A x \in Players : ownerOf[x] # None => ownerOf'[x] = ownerOf[x]
    BY <2>1, <2>3
  <2> QED
    BY <1>1, <1>2, <2>4, <2>5, <2>6, <2>7, <2>8, AloneKeeps DEF StorageInv
<1> QED
  BY <1>3, <1>4, <1>5 DEF AdminStep

-----------------------------------------------------------------------------
(* The handlers on the io threads.                                         *)

\* A task that is posted is counted.
LEMMA PostCounted ==
    ASSUME AuthInv, NEW r \in Tasks, TryPost(r)
    PROVE  QueueDepthExact' /\ ExecutorTypeOK'
<1>1. IsFiniteSet(queued) /\ Cardinality(queued) \in Nat
  BY FiniteHolders DEF AuthInv
<1>2. Cardinality(queued \cup {r}) = Cardinality(queued) + 1
  BY <1>1, FS_AddElement DEF TryPost
<1>3. QueueDepthExact'
  BY <1>1, <1>2, ExecutorAssumption DEF AuthInv, TryPost, CanPost, QueueDepthExact
<1>4. ExecutorTypeOK'
  BY <1>1 DEF AuthInv, AuthTypeOK, ExecutorTypeOK, TryPost
<1> QED
  BY <1>3, <1>4

\* The executor as a handler leaves it: r has been posted, or nothing has changed.
MayPost(r) == TryPost(r) \/ UNCHANGED executorVars

\* The other requests are where they were, whatever a handler does with r.
LEMMA OthersPlaced ==
    ASSUME AuthInv, NEW r \in Tasks, NEW q, request' = [request EXCEPT ![r] = q], MayPost(r),
           clock' = clock, ownerOf' = ownerOf, Placed(r)',
           \A s \in Sessions : account[s] # None => account'[s] = account[s]
    PROVE  RequestsPlaced'
<1> SUFFICES ASSUME NEW x \in Tasks, x # r
             PROVE  Placed(x)'
  BY DEF RequestsPlaced
<1>1. Placed(x) /\ request'[x] = request[x]
  BY DEF AuthInv, AuthTypeOK, RequestsPlaced
<1>2. (x \in queued' <=> x \in queued) /\ running' = running
  BY DEF MayPost, TryPost, executorVars
<1>3. SessionOf[x] \in Sessions
  BY AuthAssumption
<1>4. account[SessionOf[x]] \in LoginIds => account'[SessionOf[x]] = account[SessionOf[x]]
  BY <1>3, AuthAssumption
<1>5. request[x].at = "issue" => account[SessionOf[x]] \in LoginIds
  BY <1>1 DEF Placed, OnWorker
<1> QED
  BY <1>1, <1>2, <1>4, <1>5 DEF Placed

\* A handler that takes a packet: q is what becomes of the request.
AcceptedUpdate(r, q) ==
    /\ Update(r, q) /\ q \in Request
    /\ \/ TryPost(r) /\ q.at = "queued" /\ q.kind # "login"
       \/ UNCHANGED executorVars /\ q.at \in {"admit", "complete", "respond"}
    /\ q.now \in {request[r].now, clock}
    /\ q.at = "admit" => q.now = clock /\ q.kind = "login" /\ q.login \in LoginIds
    /\ q.at = "queued" /\ q.kind = "select" => q.player \in Players /\ account[SessionOf[r]] \in LoginIds

\* Taking a packet keeps the invariant: the session had no request under way.
LEMMA AcceptKeeps ==
    ASSUME AuthInv, NEW r \in Tasks, NEW kind, Accepts(r, kind), NEW q, AcceptedUpdate(r, q)
    PROVE  AuthInv'
<1> DEFINE s == SessionOf[r]
<1>1. /\ s \in Sessions /\ request[r].at = "new" /\ ~closed[s] /\ ~requestInProgress[s] /\ IoThreadFree
      /\ requestInProgress' = [requestInProgress EXCEPT ![s] = TRUE]
      /\ UNCHANGED <<limiterVars, closed, account, ioRunning, storageVars, admin>>
  BY AuthAssumption DEF Accepts
<1>2. /\ request' = [request EXCEPT ![r] = q] /\ q \in Request /\ MayPost(r)
      /\ request'[r] = q /\ \A x \in Tasks : x # r => request'[x] = request[x]
  BY DEF AcceptedUpdate, Update, MayPost, AuthInv, AuthTypeOK
<1>3. r \notin queued \cup running
  BY <1>1 DEF AuthInv, RequestsPlaced, Placed
<1>4. QueueDepthExact' /\ ExecutorTypeOK'
  <2>1. CASE TryPost(r)
    BY <2>1, PostCounted
  <2>2. CASE UNCHANGED executorVars
    BY <2>2 DEF AuthInv, AuthTypeOK, ExecutorTypeOK, QueueDepthExact, executorVars
  <2> QED
    BY <1>2, <2>1, <2>2 DEF MayPost
<1>5. AuthTypeOK'
  BY <1>1, <1>2, <1>4, RequestTyped DEF AuthInv, AuthTypeOK, limiterVars, storageVars
<1>6. RequestsPlaced'
  <2>1. clock' = clock /\ ownerOf' = ownerOf /\ account' = account
    BY <1>1 DEF limiterVars, storageVars
  <2>2. q.now <= clock
    <3>1. request[r].now <= clock /\ clock \in Int
      BY DEF AuthInv, RequestsPlaced, Placed, LimiterTypeOK
    <3> QED
      BY <3>1 DEF AcceptedUpdate
  <2>3. CASE TryPost(r) /\ q.at = "queued"
    <3>1. r \in queued' /\ r \notin running'
      BY <1>3, <2>3 DEF TryPost
    <3>2. Placed(r)'
      BY <1>2, <2>1, <2>2, <2>3, <3>1 DEF Placed, AcceptedUpdate, OnIoThread, OnWorker
    <3> QED
      BY <1>2, <2>1, <3>2, OthersPlaced
  <2>4. CASE UNCHANGED executorVars /\ q.at \in {"admit", "complete", "respond"}
    <3>1. r \notin queued' \cup running'
      BY <1>3, <2>4 DEF executorVars
    <3>2. Placed(r)'
      BY <1>2, <2>1, <2>2, <2>4, <3>1 DEF Placed, AcceptedUpdate, OnIoThread, OnWorker
    <3> QED
      BY <1>2, <2>1, <3>2, OthersPlaced
  <2> QED
    BY <2>3, <2>4 DEF AcceptedUpdate
<1>7. PermitsCounted'
  <2>1. Permits' = Permits
    <3>1. r \notin Permits
      BY <1>1, <1>3 DEF Permits
    <3>2. r \notin Permits'
      BY <1>2, <1>3 DEF Permits, AcceptedUpdate, executorVars
    <3>3. ASSUME NEW x \in Tasks, x # r
          PROVE  x \in Permits' <=> x \in Permits
      BY <1>2, <3>3 DEF Permits, MayPost, TryPost, executorVars
    <3>4. Permits \in SUBSET Tasks /\ Permits' \in SUBSET Tasks
      BY DEF Permits
    <3> QED
      BY <3>1, <3>2, <3>3, <3>4
  <2> QED
    BY <1>1, <2>1, PermitsKept DEF AuthInv, limiterVars
<1>8. OneUnanswered'
  <2>1. Unanswered(s) = {}
    BY <1>1 DEF AuthInv, OneUnanswered
  <2>2. q.at \notin {"new", "done"}
    BY DEF AcceptedUpdate
  <2>3. Unanswered(s)' = {r}
    BY <1>2, <2>1, <2>2 DEF Unanswered
  <2>4. requestInProgress'[s] = TRUE /\ closed' = closed
    BY <1>1 DEF AuthInv, AuthTypeOK
  <2>5. ASSUME NEW z \in Sessions, z # s
        PROVE  Unanswered(z)' = Unanswered(z) /\ requestInProgress'[z] = requestInProgress[z]
    BY <1>1, <1>2, <2>5 DEF Unanswered, AuthInv, AuthTypeOK
  <2> QED
    BY <2>3, <2>4, <2>5 DEF AuthInv, OneUnanswered
<1>9. StorageInv'
  BY <1>1, StorageKept DEF AuthInv, StorageInv, storageVars
<1>10. LimiterInv'
  <2>1. Cardinality(Busy) < IoThreads
    BY <1>1, FreeThread
  <2>2. UNCHANGED <<clock, ipAttempts, accountAttempts, admitted>>
    BY <1>1 DEF limiterVars
  <2> QED
    BY <1>2, <2>1, <2>2, LimiterKept DEF AuthInv, LimiterInv, AcceptedUpdate
<1> QED
  BY <1>4, <1>5, <1>6, <1>7, <1>8, <1>9, <1>10, AllParts

\* A request that TryPost is asked to take for a session that has logged in.
LEMMA PostedUpdate ==
    ASSUME AuthInv, NEW r \in Tasks, NEW next \in Request, PostTask(r, next),
           account[SessionOf[r]] # None, next.now = request[r].now, next.kind # "login",
           next.kind = "select" => next.player \in Players
    PROVE  \E q : AcceptedUpdate(r, q)
<1>1. account[SessionOf[r]] \in LoginIds
  BY AuthAssumption DEF AuthInv, AuthTypeOK
<1>2. CASE TryPost(r) /\ Update(r, [next EXCEPT !.at = "queued"])
  <2> DEFINE q == [next EXCEPT !.at = "queued"]
  <2>1. /\ q \in Request /\ q.at = "queued" /\ q.kind = next.kind /\ q.now = next.now
        /\ q.player = next.player
    BY DEF Request, OnWorker
  <2>2. Update(r, q)
    BY <1>2
  <2> HIDE DEF q
  <2>3. AcceptedUpdate(r, q)
    BY <1>1, <1>2, <2>1, <2>2 DEF AcceptedUpdate
  <2> QED
    BY <2>3
<1>3. CASE Update(r, [next EXCEPT !.at = "complete"]) /\ UNCHANGED executorVars
  <2> DEFINE q == [next EXCEPT !.at = "complete"]
  <2>1. q \in Request /\ q.at = "complete" /\ q.now = next.now
    BY DEF Request
  <2>2. Update(r, q)
    BY <1>3
  <2> HIDE DEF q
  <2>3. AcceptedUpdate(r, q)
    BY <1>3, <2>1, <2>2 DEF AcceptedUpdate
  <2> QED
    BY <2>3
<1> QED
  BY <1>2, <1>3 DEF PostTask

\* A packet that is answered at once, without the executor.
LEMMA AnsweredUpdate ==
    ASSUME AuthInv, NEW r \in Tasks, NEW q \in Request, Update(r, q), UNCHANGED executorVars,
           q.at \in {"complete", "respond"}, q.now = request[r].now
    PROVE  AcceptedUpdate(r, q)
  BY DEF AcceptedUpdate

\* The three requests keep the invariant.
LEMMA RequestsKeep ==
    ASSUME AuthInv, NEW r \in Tasks,
           LoginRequest(r) \/ CharacterListRequest(r) \/ CharacterSelectionRequest(r)
    PROVE  AuthInv'
<1>1. /\ request[r] \in Request /\ clock \in 0..MaxTime
      /\ \A status : /\ Finished(r, status) \in Request /\ Finished(r, status).at = "complete"
                     /\ Finished(r, status).now = request[r].now
  BY FinishedRequest DEF AuthInv, AuthTypeOK, LimiterTypeOK
<1>2. ASSUME NEW kind \in {"login", "list", "select"}, NEW status, UNCHANGED executorVars,
             Update(r, [Finished(r, status) EXCEPT !.kind = kind])
      PROVE  \E q : AcceptedUpdate(r, q)
  <2> DEFINE f == Finished(r, status)
             q == [f EXCEPT !.kind = kind]
  <2>1. f \in Request /\ f.at = "complete" /\ f.now = request[r].now
    BY <1>1
  <2>2. Update(r, q)
    BY <1>2
  <2> HIDE DEF f
  <2>3. q \in Request /\ q.at = "complete" /\ q.now = request[r].now
    BY <2>1 DEF Request
  <2> HIDE DEF q
  <2> QED
    BY <1>2, <2>2, <2>3, AnsweredUpdate
<1>3. ASSUME NEW kind \in {"login", "list", "select"}, UNCHANGED executorVars,
             Update(r, [request[r] EXCEPT !.at = "respond", !.kind = kind])
      PROVE  \E q : AcceptedUpdate(r, q)
  <2> DEFINE q == [request[r] EXCEPT !.at = "respond", !.kind = kind]
  <2>1. q \in Request /\ q.at = "respond" /\ q.now = request[r].now
    BY <1>1 DEF Request
  <2>2. Update(r, q)
    BY <1>3
  <2> HIDE DEF q
  <2> QED
    BY <1>3, <2>1, <2>2, AnsweredUpdate
<1>4. ASSUME LoginRequest(r)
      PROVE  Accepts(r, "login") /\ \E q : AcceptedUpdate(r, q)
  <2>1. Accepts(r, "login") /\ UNCHANGED executorVars
    BY <1>4 DEF LoginRequest
  <2>2. ASSUME NEW l \in LoginIds,
               Update(r, [request[r] EXCEPT !.at = "admit", !.kind = "login", !.login = l, !.now = clock])
        PROVE  \E q : AcceptedUpdate(r, q)
    <3> DEFINE q == [request[r] EXCEPT !.at = "admit", !.kind = "login", !.login = l, !.now = clock]
    <3>1. q \in Request /\ q.at = "admit" /\ q.kind = "login" /\ q.login = l /\ q.now = clock
      BY <1>1 DEF Request, OnIoThread
    <3>2. Update(r, q)
      BY <2>2
    <3> HIDE DEF q
    <3>3. AcceptedUpdate(r, q)
      BY <2>1, <3>1, <3>2 DEF AcceptedUpdate
    <3> QED
      BY <3>3
  <2>3. ASSUME Update(r, [Finished(r, "InvalidCredentials") EXCEPT !.kind = "login"])
        PROVE  \E q : AcceptedUpdate(r, q)
    BY <1>2, <2>1, <2>3
  <2> QED
    BY <1>4, <2>1, <2>2, <2>3 DEF LoginRequest
<1>5. ASSUME CharacterListRequest(r)
      PROVE  Accepts(r, "list") /\ \E q : AcceptedUpdate(r, q)
  <2>1. CASE account[SessionOf[r]] = None
    BY <1>3, <1>5, <2>1 DEF CharacterListRequest
  <2>2. CASE account[SessionOf[r]] # None
    <3> DEFINE next == [request[r] EXCEPT !.kind = "list"]
    <3>1. next \in Request /\ next.kind = "list" /\ next.now = request[r].now
      BY <1>1 DEF Request
    <3>2. PostTask(r, next)
      BY <1>5, <2>2 DEF CharacterListRequest
    <3> HIDE DEF next
    <3> QED
      BY <1>5, <2>2, <3>1, <3>2, PostedUpdate DEF CharacterListRequest
  <2> QED
    BY <2>1, <2>2
<1>6. ASSUME CharacterSelectionRequest(r)
      PROVE  Accepts(r, "select") /\ \E q : AcceptedUpdate(r, q)
  <2>1. CASE account[SessionOf[r]] = None
    BY <1>3, <1>6, <2>1 DEF CharacterSelectionRequest
  <2>2. ASSUME account[SessionOf[r]] # None, NEW p \in Players,
               PostTask(r, [request[r] EXCEPT !.kind = "select", !.player = p])
        PROVE  \E q : AcceptedUpdate(r, q)
    <3> DEFINE next == [request[r] EXCEPT !.kind = "select", !.player = p]
    <3>1. next \in Request /\ next.kind = "select" /\ next.now = request[r].now /\ next.player = p
      BY <1>1 DEF Request
    <3>2. PostTask(r, next)
      BY <2>2
    <3> HIDE DEF next
    <3> QED
      BY <2>2, <3>1, <3>2, PostedUpdate
  <2>3. ASSUME Update(r, [Finished(r, "InvalidSelection") EXCEPT !.kind = "select"]), UNCHANGED executorVars
        PROVE  \E q : AcceptedUpdate(r, q)
    BY <1>2, <2>3
  <2> QED
    BY <1>6, <2>1, <2>2, <2>3 DEF CharacterSelectionRequest
<1> QED
  BY <1>4, <1>5, <1>6, AcceptKeeps

\* The sessions wait for the same requests when r stays unanswered.
LEMMA StillUnanswered ==
    ASSUME AuthInv, NEW r \in Tasks, NEW q, request' = [request EXCEPT ![r] = q],
           request[r].at \notin {"new", "done"}, q.at \notin {"new", "done"},
           UNCHANGED <<requestInProgress, closed>>
    PROVE  OneUnanswered'
<1>1. request'[r] = q /\ \A x \in Tasks : x # r => request'[x] = request[x]
  BY DEF AuthInv, AuthTypeOK
<1>2. \A s \in Sessions : Unanswered(s)' = Unanswered(s)
  BY <1>1 DEF Unanswered
<1> QED
  BY <1>2, UnansweredKept DEF AuthInv

\* TryAcquire counts the permit that it gives.
LEMMA AdmitKeeps ==
    ASSUME AuthInv, NEW r \in Tasks, AdmitLogin(r)
    PROVE  AuthInv'
<1> DEFINE now == request[r].now
           acct == request[r].login
           ip == AddressOf[SessionOf[r]]
           a == Admission(ip, acct, now)
           accepted == a.status = "Accepted"
<1>1. /\ request[r].at = "admit" /\ request[r] \in Request /\ AuthTypeOK /\ LimiterTypeOK
      /\ UNCHANGED <<executorVars, sessionVars, storageVars, admin>>
  BY DEF AdmitLogin, AuthInv, AuthTypeOK
<1>2. PICK q \in Request :
          /\ request' = [request EXCEPT ![r] = q]
          /\ q.at = IF accepted THEN "post" ELSE "complete"
          /\ q.kind = request[r].kind /\ q.login = acct /\ q.now = now
  BY <1>1, AdmitUpdates
<1>3. /\ request[r].kind = "login" /\ acct \in LoginIds /\ now <= clock /\ r \notin queued \cup running
      /\ now \in 0..MaxTime /\ ip \in Addresses
  <2>1. Placed(r)
    BY DEF AuthInv, RequestsPlaced
  <2>2. now \in 0..MaxTime
    BY <1>1 DEF Request
  <2>3. ip \in Addresses
    BY AuthAssumption
  <2> QED
    BY <1>1, <2>1, <2>2, <2>3 DEF Placed, OnIoThread
<1>4. /\ request'[r] = q /\ (\A x \in Tasks : x # r => request'[x] = request[x])
      /\ (accepted => q.at = "post") /\ (~accepted => q.at = "complete")
  BY <1>1, <1>2 DEF AuthTypeOK
<1>5. /\ clock' = clock /\ ipAttempts' = a.ips /\ accountAttempts' = a.accounts
      /\ concurrentPasswordJobs' = concurrentPasswordJobs + (IF accepted THEN 1 ELSE 0)
  BY DEF AdmitLogin, TryAcquire
<1>6. Decided(a, ip, acct, now)
  <2>1. concurrentPasswordJobs \in Nat
    BY <1>1, LimiterOptionsValid DEF AuthTypeOK
  <2> QED
    BY <1>1, <1>3, <2>1, AdmissionResult
<1>7. accepted => concurrentPasswordJobs < MaxConcurrentPasswordJobs
  BY <1>6 DEF Decided
<1> HIDE DEF now, acct, ip, a, accepted
<1>8. PermitsCounted' /\ concurrentPasswordJobs' \in 0..MaxConcurrentPasswordJobs
  <2>1. IsFiniteSet(Permits) /\ Cardinality(Permits) \in Nat /\ MaxConcurrentPasswordJobs \in Nat
    BY <1>1, FiniteHolders, LimiterOptionsValid
  <2>2. concurrentPasswordJobs = Cardinality(Permits) /\ concurrentPasswordJobs <= MaxConcurrentPasswordJobs
    BY DEF AuthInv, PermitsCounted
  <2>3. r \notin Permits
    BY <1>1, <1>3 DEF Permits
  <2>4. UNCHANGED <<queued, running>>
    BY <1>1 DEF executorVars
  <2>5. CASE accepted
    <3>1. Permits' = Permits \cup {r}
      BY <1>2, <1>3, <1>4, <2>4, <2>5 DEF Permits
    <3>2. Cardinality(Permits') = Cardinality(Permits) + 1
      BY <2>1, <2>3, <3>1, FS_AddElement
    <3> QED
      BY <1>5, <1>7, <2>1, <2>2, <2>5, <3>2 DEF PermitsCounted
  <2>6. CASE ~accepted
    <3>1. Permits' = Permits
      BY <1>1, <1>3, <1>4, <2>4, <2>6 DEF Permits
    <3> QED
      BY <1>5, <2>1, <2>2, <2>6, <3>1 DEF PermitsCounted
  <2> QED
    BY <2>5, <2>6
<1>9. AuthTypeOK'
  BY <1>1, <1>2, <1>8, RequestTyped DEF AuthTypeOK, ExecutorTypeOK, executorVars, sessionVars, storageVars
<1>10. RequestsPlaced'
  <2>1. UNCHANGED <<queued, running, account, ownerOf>>
    BY <1>1 DEF executorVars, sessionVars, storageVars
  <2>2. Placed(r)'
    BY <1>2, <1>3, <1>4, <1>5, <2>1 DEF Placed, OnIoThread, OnWorker, now
  <2> QED
    BY <1>1, <1>2, <1>5, <2>1, <2>2, OthersPlaced DEF MayPost
<1>11. OneUnanswered'
  BY <1>1, <1>2, <1>4, StillUnanswered DEF sessionVars
<1>12. StorageInv'
  BY <1>1, StorageKept DEF AuthInv, StorageInv, storageVars, sessionVars
<1>13. LimiterInv'
  <2>1. IsFiniteSet(Busy) /\ Cardinality(Busy) \in Nat /\ Cardinality(Busy) <= IoThreads
    BY FS_Subset, FS_CardinalityType, ExecutorAssumption DEF Busy, AuthInv
  <2>2. Busy' \in SUBSET Busy
    BY <1>1, <1>4 DEF Busy, OnIoThread
  <2>3. Cardinality(Busy') \in Nat /\ Cardinality(Busy') <= Cardinality(Busy)
    BY <2>1, <2>2, FS_Subset, FS_CardinalityType
  <2> QED
    BY <2>1, <2>3, WindowsAdmit, AuthAssumption DEF LimiterInv
<1>14. QueueDepthExact'
  BY <1>1 DEF AuthInv, QueueDepthExact, executorVars
<1> QED
  BY <1>8, <1>9, <1>10, <1>11, <1>12, <1>13, <1>14, AllParts

\* The permit goes with the task that is posted, or back.
LEMMA PostKeeps ==
    ASSUME AuthInv, NEW r \in Tasks, PostLogin(r)
    PROVE  AuthInv'
<1>1. /\ request[r].at = "post" /\ request[r] \in Request /\ AuthTypeOK
      /\ PostTask(r, request[r]) /\ KeepPermit
      /\ UNCHANGED <<sessionVars, storageVars, admin>>
  BY DEF PostLogin, AuthInv, AuthTypeOK
<1>2. request[r].kind = "login" /\ r \notin queued \cup running /\ request[r].now <= clock
  BY <1>1 DEF AuthInv, RequestsPlaced, Placed, OnIoThread
<1>3. UNCHANGED <<clock, ipAttempts, accountAttempts, admitted>>
  BY <1>1 DEF KeepPermit, ReleasePermit, limiterVars
<1>4. r \in Permits
  BY <1>1, <1>2 DEF Permits
<1>5. ASSUME NEW q \in Request, request' = [request EXCEPT ![r] = q], MayPost(r), Placed(r)',
             q.at \in {"queued", "complete"}, QueueDepthExact', ExecutorTypeOK', PermitsCounted',
             concurrentPasswordJobs' \in 0..MaxConcurrentPasswordJobs
      PROVE  AuthInv'
  <2>1. AuthTypeOK'
    BY <1>1, <1>5, RequestTyped DEF AuthTypeOK, sessionVars, storageVars
  <2>2. RequestsPlaced'
    <3>1. UNCHANGED <<account, ownerOf>>
      BY <1>1 DEF sessionVars, storageVars
    <3> QED
      BY <1>3, <1>5, <3>1, OthersPlaced
  <2>3. OneUnanswered'
    BY <1>1, <1>5, StillUnanswered DEF sessionVars
  <2>4. StorageInv'
    BY <1>1, StorageKept DEF AuthInv, StorageInv, storageVars, sessionVars
  <2>5. LimiterInv'
    BY <1>1, <1>3, <1>5, LimiterKept DEF AuthInv, LimiterInv, OnIoThread
  <2> QED
    BY <1>5, <2>1, <2>2, <2>3, <2>4, <2>5, AllParts
<1>6. CASE TryPost(r) /\ Update(r, [request[r] EXCEPT !.at = "queued"])
  <2> DEFINE q == [request[r] EXCEPT !.at = "queued"]
  <2>1. q \in Request /\ q.at = "queued" /\ q.kind = "login" /\ q.now = request[r].now
    BY <1>1, <1>2 DEF Request, OnWorker
  <2>2. request' = [request EXCEPT ![r] = q]
    BY <1>6 DEF Update
  <2> HIDE DEF q
  <2>3. request'[r] = q /\ \A x \in Tasks : x # r => request'[x] = request[x]
    BY <1>1, <2>2 DEF AuthTypeOK
  <2>4. CanPost /\ queued' = queued \cup {r} /\ running' = running
    BY <1>6 DEF TryPost
  <2>5. concurrentPasswordJobs' = concurrentPasswordJobs
    BY <1>1, <2>4 DEF KeepPermit, limiterVars
  <2>6. Permits' = Permits
    BY <1>2, <1>4, <2>1, <2>3, <2>4 DEF Permits
  <2>7. PermitsCounted' /\ concurrentPasswordJobs' \in 0..MaxConcurrentPasswordJobs
    BY <1>1, <2>5, <2>6, PermitsKept DEF AuthInv, AuthTypeOK
  <2>8. Placed(r)'
    BY <1>2, <1>3, <2>1, <2>3, <2>4 DEF Placed, OnIoThread, OnWorker
  <2>9. QueueDepthExact' /\ ExecutorTypeOK' /\ MayPost(r)
    BY <1>6, PostCounted DEF MayPost
  <2> QED
    BY <1>5, <2>1, <2>2, <2>7, <2>8, <2>9
<1>7. CASE ~CanPost /\ Update(r, [request[r] EXCEPT !.at = "complete"]) /\ UNCHANGED executorVars
  <2> DEFINE q == [request[r] EXCEPT !.at = "complete"]
  <2>1. q \in Request /\ q.at = "complete" /\ q.kind = "login" /\ q.now = request[r].now
    BY <1>1, <1>2 DEF Request
  <2>2. request' = [request EXCEPT ![r] = q]
    BY <1>7 DEF Update
  <2> HIDE DEF q
  <2>3. request'[r] = q /\ \A x \in Tasks : x # r => request'[x] = request[x]
    BY <1>1, <2>2 DEF AuthTypeOK
  <2>4. UNCHANGED <<queued, running>>
    BY <1>7 DEF executorVars
  <2>5. ReleasePermit
    BY <1>1, <1>7 DEF KeepPermit
  <2>6. Permits' = Permits \ {r}
    BY <1>2, <1>4, <2>1, <2>3, <2>4 DEF Permits
  <2>7. PermitsCounted' /\ concurrentPasswordJobs' \in 0..MaxConcurrentPasswordJobs
    BY <1>4, <2>5, <2>6, PermitReturned
  <2>8. Placed(r)'
    BY <1>2, <1>3, <2>1, <2>3, <2>4 DEF Placed, OnIoThread, OnWorker
  <2>9. QueueDepthExact' /\ ExecutorTypeOK' /\ MayPost(r)
    BY <1>1, <1>7 DEF MayPost, AuthInv, AuthTypeOK, ExecutorTypeOK, QueueDepthExact, executorVars
  <2> QED
    BY <1>5, <2>1, <2>2, <2>7, <2>8, <2>9
<1> QED
  BY <1>1, <1>6, <1>7 DEF PostTask

\* The permits are the same when r keeps its kind and was not about to be posted.
LEMMA SamePermits ==
    ASSUME AuthInv, NEW r \in Tasks, NEW q, request' = [request EXCEPT ![r] = q], q.at # "post",
           request[r].at # "post", q.kind = request[r].kind,
           UNCHANGED <<queued, running, concurrentPasswordJobs>>
    PROVE  PermitsCounted'
<1>1. request'[r] = q /\ \A x \in Tasks : x # r => request'[x] = request[x]
  BY DEF AuthInv, AuthTypeOK
<1>2. Permits' = Permits
  BY <1>1 DEF Permits
<1> QED
  BY <1>2, PermitsKept DEF AuthInv

\* A completion names the account of a session that had none.
LEMMA CompleteKeeps ==
    ASSUME AuthInv, NEW r \in Tasks, Complete(r)
    PROVE  AuthInv'
<1> DEFINE q == [request[r] EXCEPT !.at = "respond"]
<1>1. /\ request[r].at = "complete" /\ request[r] \in Request /\ AuthTypeOK
      /\ request' = [request EXCEPT ![r] = q]
      /\ UNCHANGED <<executorVars, limiterVars, requestInProgress, closed, ioRunning, storageVars, admin>>
  BY DEF Complete, Update, AuthInv, AuthTypeOK
<1>2. q \in Request /\ q.at = "respond" /\ q.kind = request[r].kind /\ q.now = request[r].now
  BY <1>1 DEF Request
<1> HIDE DEF q
<1>3. request'[r] = q
  BY <1>1 DEF AuthTypeOK
<1>4. /\ account' \in [Sessions -> LoginIds \cup {None}]
      /\ \A s \in Sessions : account[s] # None => account'[s] = account[s]
  <2>1. request[r].login \in LoginIds \cup {None}
    BY <1>1 DEF Request
  <2>2. SessionOf[r] \in Sessions
    BY AuthAssumption
  <2>3. \/ account' = account
        \/ account[SessionOf[r]] = None /\ account' = [account EXCEPT ![SessionOf[r]] = request[r].login]
    BY DEF Complete
  <2> QED
    BY <1>1, <2>1, <2>2, <2>3 DEF AuthTypeOK
<1>5. AuthTypeOK'
  BY <1>1, <1>2, <1>4, RequestTyped DEF AuthTypeOK, ExecutorTypeOK, executorVars, limiterVars, storageVars
<1>6. RequestsPlaced'
  <2>1. UNCHANGED <<clock, ownerOf, queued, running>> /\ request[r].now <= clock /\ r \notin queued
    BY <1>1 DEF limiterVars, storageVars, executorVars, AuthInv, RequestsPlaced, Placed
  <2>2. Placed(r)'
    BY <1>2, <1>3, <2>1 DEF Placed, OnIoThread, OnWorker
  <2> QED
    BY <1>1, <1>4, <2>1, <2>2, OthersPlaced DEF MayPost
<1>7. PermitsCounted'
  BY <1>1, <1>2, SamePermits DEF executorVars, limiterVars
<1>8. OneUnanswered'
  BY <1>1, <1>2, StillUnanswered
<1>9. StorageInv'
  <2>1. ProvisioningIsNew' /\ EveryCharacterOwned'
    BY <1>1 DEF AuthInv, ProvisioningIsNew, EveryCharacterOwned, storageVars
  <2>2. TicketsForOwners'
    <3> SUFFICES ASSUME NEW k \in tickets
                 PROVE  ownerOf[k[2]] = k[1] /\ \E s \in Sessions : account'[s] = k[1]
      BY <1>1 DEF TicketsForOwners, storageVars
    <3>1. k[1] \in LoginIds /\ ownerOf[k[2]] = k[1] /\ \E s \in Sessions : account[s] = k[1]
      BY DEF AuthInv, AuthTypeOK, TicketsForOwners
    <3> QED
      BY <1>4, <3>1, AuthAssumption
  <2> QED
    BY <2>1, <2>2 DEF StorageInv
<1>10. LimiterInv'
  BY <1>1, <1>2, LimiterKept DEF AuthInv, LimiterInv, limiterVars, OnIoThread
<1>11. QueueDepthExact'
  BY <1>1 DEF AuthInv, QueueDepthExact, executorVars
<1> QED
  BY <1>5, <1>6, <1>7, <1>8, <1>9, <1>10, <1>11, AllParts

\* A response leaves its session free for the next packet.
LEMMA ResponseKeeps ==
    ASSUME AuthInv, NEW r \in Tasks, HandleResponse(r)
    PROVE  AuthInv'
<1> DEFINE s == SessionOf[r]
           q == [NoRequest EXCEPT !.at = "done", !.kind = request[r].kind]
<1>1. /\ request[r].at = "respond" /\ request[r] \in Request /\ AuthTypeOK /\ s \in Sessions
      /\ request' = [request EXCEPT ![r] = q]
      /\ requestInProgress' = IF closed[s] THEN requestInProgress ELSE [requestInProgress EXCEPT ![s] = FALSE]
      /\ UNCHANGED <<executorVars, limiterVars, closed, account, ioRunning, storageVars, admin>>
  BY AuthAssumption DEF HandleResponse, Update, AuthInv, AuthTypeOK
<1>2. q \in Request /\ q.at = "done" /\ q.kind = request[r].kind /\ q.now = 0
  <2>1. NoRequest \in Request /\ NoRequest.now = 0
    BY LimiterOptionsValid DEF NoRequest, Request
  <2> QED
    BY <1>1, <2>1 DEF Request
<1> HIDE DEF q
<1>3. request'[r] = q /\ \A x \in Tasks : x # r => request'[x] = request[x]
  BY <1>1 DEF AuthTypeOK
<1>4. AuthTypeOK'
  BY <1>1, <1>2, RequestTyped DEF AuthTypeOK, ExecutorTypeOK, executorVars, limiterVars, storageVars
<1>5. RequestsPlaced'
  <2>1. UNCHANGED <<clock, ownerOf, queued, running, account>> /\ 0 <= clock /\ r \notin queued
    BY <1>1 DEF limiterVars, storageVars, executorVars, AuthInv, RequestsPlaced, Placed, LimiterTypeOK
  <2>2. Placed(r)'
    BY <1>2, <1>3, <2>1 DEF Placed, OnIoThread, OnWorker
  <2> QED
    BY <1>1, <2>1, <2>2, OthersPlaced DEF MayPost
<1>6. PermitsCounted'
  BY <1>1, <1>2, SamePermits DEF executorVars, limiterVars
<1>7. OneUnanswered'
  <2>1. Unanswered(s)' = Unanswered(s) \ {r} /\ r \in Unanswered(s)
    BY <1>1, <1>2, <1>3 DEF Unanswered
  <2>2. ~closed[s] => Unanswered(s)' = {} /\ ~requestInProgress'[s]
    BY <1>1, <2>1 DEF AuthInv, OneUnanswered, AuthTypeOK
  <2>3. ASSUME NEW z \in Sessions, z # s
        PROVE  Unanswered(z)' = Unanswered(z) /\ requestInProgress'[z] = requestInProgress[z]
    BY <1>1, <1>3, <2>3 DEF Unanswered, AuthTypeOK
  <2> QED
    BY <1>1, <2>2, <2>3 DEF AuthInv, OneUnanswered
<1>8. StorageInv'
  BY <1>1, StorageKept DEF AuthInv, StorageInv, storageVars
<1>9. LimiterInv'
  BY <1>1, <1>2, LimiterKept DEF AuthInv, LimiterInv, limiterVars, OnIoThread
<1>10. QueueDepthExact'
  BY <1>1 DEF AuthInv, QueueDepthExact, executorVars
<1> QED
  BY <1>4, <1>5, <1>6, <1>7, <1>8, <1>9, <1>10, AllParts

-----------------------------------------------------------------------------
(* The theorems.                                                           *)

\* The initial state.
LEMMA AuthInitial == AuthInit => AuthInv
<1> SUFFICES ASSUME AuthInit PROVE AuthInv
  OBVIOUS
<1>1. NoRequest \in Request /\ NoRequest.at = "new" /\ NoRequest.now = 0
  BY LimiterOptionsValid DEF NoRequest, Request
<1>2. \A r \in Tasks : request[r] = NoRequest
  BY DEF AuthInit
<1>3. AuthTypeOK
  <2>1. ExecutorTypeOK
    BY DEF AuthInit, ExecutorInit, ExecutorTypeOK
  <2>2. concurrentPasswordJobs \in 0..MaxConcurrentPasswordJobs
    BY LimiterOptionsValid DEF AuthInit, LimiterInit
  <2>3. request \in [Tasks -> Request]
    BY <1>1 DEF AuthInit
  <2>4. admin \in [at : {"idle", "open"}, account : LoginIds \cup {None}, player : Players \cup {None}]
    BY DEF AuthInit, Idle
  <2>5. /\ requestInProgress \in [Sessions -> BOOLEAN] /\ closed \in [Sessions -> BOOLEAN]
        /\ account \in [Sessions -> LoginIds \cup {None}] /\ ioRunning \in BOOLEAN
        /\ accounts \in SUBSET LoginIds /\ players \in SUBSET Players
        /\ ownerOf \in [Players -> LoginIds \cup {None}] /\ tickets \in SUBSET (LoginIds \X Players)
    BY AuthAssumption DEF AuthInit
  <2> QED
    BY <2>1, <2>2, <2>3, <2>4, <2>5 DEF AuthTypeOK
<1>4. LimiterTypeOK
  BY LimiterOptionsValid DEF AuthInit, LimiterInit, LimiterTypeOK
<1>5. QueueDepthExact
  BY FS_EmptySet, ExecutorAssumption DEF AuthInit, ExecutorInit, QueueDepthExact
<1>6. RequestsPlaced
  BY <1>1, <1>2 DEF AuthInit, ExecutorInit, LimiterInit, RequestsPlaced, Placed, OnIoThread, OnWorker
<1>7. PermitsCounted
  <2>1. Permits = {}
    BY <1>1, <1>2 DEF Permits, AuthInit, ExecutorInit
  <2> QED
    BY <2>1, FS_EmptySet, LimiterOptionsValid DEF PermitsCounted, AuthInit, LimiterInit
<1>8. OneUnanswered
  BY <1>1, <1>2 DEF OneUnanswered, Unanswered, AuthInit
<1>9. ProvisioningIsNew /\ EveryCharacterOwned /\ TicketsForOwners
  BY DEF AuthInit, Idle, ProvisioningIsNew, EveryCharacterOwned, TicketsForOwners
<1>10. Cardinality(Busy) <= IoThreads
  <2>1. Busy = {}
    BY <1>1, <1>2 DEF Busy, OnIoThread
  <2> QED
    BY <2>1, FS_EmptySet, AuthAssumption
<1>11. WindowsBounded
  <2>1. \A k, t : IpHits(k, t) = {} /\ AccountHits(k, t) = {}
    BY DEF AuthInit, LimiterInit, IpHits, AccountHits
  <2>2. \A h, t : h = <<>> => InHistory(h, t) = {}
    BY DEF InHistory
  <2>3. Cardinality({}) = 0
    BY FS_EmptySet
  <2>4. /\ \A k \in Addresses : ipAttempts[k] = <<>>
        /\ \A k \in LoginIds : accountAttempts[k] = <<>>
        /\ MaxAttemptsPerIp \in Nat /\ MaxAttemptsPerAccount \in Nat
    BY LimiterOptionsValid DEF AuthInit, LimiterInit
  <2>5. ASSUME NEW hits, NEW h, NEW t, NEW limit \in Nat, hits = {}, h = <<>>
        PROVE  WindowBounded(hits, h, t, limit)
    <3>1. Cardinality(hits) = 0 /\ Cardinality(InHistory(h, t)) = 0
      <4>1. InHistory(h, t) = {}
        BY <2>2, <2>5
      <4> QED
        BY <2>3, <2>5, <4>1
    <3> QED
      BY <3>1 DEF WindowBounded
  <2>6. ASSUME NEW t \in 0..MaxTime, NEW k \in Addresses
        PROVE  WindowBounded(IpHits(k, t), ipAttempts[k], t, MaxAttemptsPerIp)
    <3>1. IpHits(k, t) = {} /\ ipAttempts[k] = <<>>
      BY <2>1, <2>4
    <3> QED
      BY <2>4, <2>5, <3>1
  <2>7. ASSUME NEW t \in 0..MaxTime, NEW k \in LoginIds
        PROVE  WindowBounded(AccountHits(k, t), accountAttempts[k], t, MaxAttemptsPerAccount)
    <3>1. AccountHits(k, t) = {} /\ accountAttempts[k] = <<>>
      BY <2>1, <2>4
    <3> QED
      BY <2>4, <2>5, <3>1
  <2> QED
    BY <2>6, <2>7 DEF WindowsBounded
<1> QED
  BY <1>3, <1>4, <1>5, <1>6, <1>7, <1>8, <1>9, <1>10, <1>11 DEF AuthInv

\* Every step keeps the invariant.
LEMMA AuthPreserves == AuthInv /\ [AuthNext]_authVars => AuthInv'
<1> SUFFICES ASSUME AuthInv, [AuthNext]_authVars PROVE AuthInv'
  OBVIOUS
<1>1. ASSUME NEW r \in Tasks, IoStep(r)
      PROVE  AuthInv'
  BY <1>1, AdmitKeeps, PostKeeps, CompleteKeeps, ResponseKeeps DEF IoStep
<1>2. CASE WorkStep
  BY <1>2, BeginKeeps, TasksKeep, EndKeeps DEF WorkStep
<1> QED
  BY <1>1, <1>2, RequestsKeep, AdminKeeps, OutsideKeeps DEF AuthNext

\* So it holds in every reachable state.
LEMMA AuthInvariant == AuthSpec => []AuthInv
  BY AuthInitial, AuthPreserves, PTL DEF AuthSpec

\* LoginAttemptLimiter and AuthPacketDispatcher: whatever requests, refusals, answers
\* and shutdowns overlap, the password checks are counted exactly, from the admission
\* to the destruction of the task, and never exceed their limit.
THEOREM PermitsNeverLeak == AuthSpec => []PermitsExact
<1>1. AuthInv => PermitsExact
  BY DEF AuthInv, PermitsCounted, Permits, PermitsExact
<1> QED
  BY <1>1, AuthInvariant, PTL

\* LoginAttemptLimiter::TryAcquire: although the threads read the clock before they
\* take the mutex, no window has more attempts of an address or an account than the
\* limit and one for each other thread.
THEOREM AttemptsStayBounded == AuthSpec => []AttemptsBounded
<1>1. ASSUME AuthInv
      PROVE  AttemptsBounded
  <2>1. ASSUME NEW t \in 0..MaxTime, NEW hits, NEW h, NEW limit \in Nat, Cardinality(hits) \in Nat,
               WindowBounded(hits, h, t, limit)
        PROVE  Cardinality(hits) <= limit + (IoThreads - 1)
    <3>1. Cardinality(Late(t)) \in Nat /\ IoThreads \in Nat \ {0}
      BY <1>1, FiniteCounts, AuthAssumption DEF AuthInv
    <3> QED
      BY <2>1, <3>1 DEF WindowBounded
  <2>2. /\ \A k, t : Cardinality(IpHits(k, t)) \in Nat /\ Cardinality(AccountHits(k, t)) \in Nat
        /\ MaxAttemptsPerIp \in Nat /\ MaxAttemptsPerAccount \in Nat
    BY <1>1, FiniteCounts, LimiterOptionsValid DEF AuthInv
  <2>3. ASSUME NEW t \in 0..MaxTime, NEW k \in Addresses
        PROVE  Cardinality(IpHits(k, t)) <= MaxAttemptsPerIp + (IoThreads - 1)
    BY <1>1, <2>1, <2>2 DEF AuthInv, WindowsBounded
  <2>4. ASSUME NEW t \in 0..MaxTime, NEW k \in LoginIds
        PROVE  Cardinality(AccountHits(k, t)) <= MaxAttemptsPerAccount + (IoThreads - 1)
    BY <1>1, <2>1, <2>2 DEF AuthInv, WindowsBounded
  <2> QED
    BY <2>3, <2>4 DEF AttemptsBounded, AttemptsWithin, IpHits, AccountHits, Between
<1> QED
  BY <1>1, AuthInvariant, PTL

\* CharacterSelectionService: a ticket is issued only for a character of the account
\* that asks, although the question of the owner and the INSERT are two transactions.
THEOREM TicketsAreTheOwners == AuthSpec => []TicketsForOwners
<1>1. AuthInv => TicketsForOwners
  BY DEF AuthInv
<1> QED
  BY <1>1, AuthInvariant, PTL

\* SqliteCharacterProvisioner::CreateOwnedPlayer: wherever the administration tool
\* ends, no character is left without an owner and no owner without the character.
THEOREM CharactersHaveOwners == AuthSpec => []EveryCharacterOwned
<1>1. AuthInv => EveryCharacterOwned
  BY DEF AuthInv
<1> QED
  BY <1>1, AuthInvariant, PTL

\* AuthTlsSession and AuthPacketDispatcher: an open session waits for one request at
\* most, exactly when it says so, and that request is somewhere.
THEOREM RequestsAnswered == AuthSpec => []NoRequestLost
<1>1. ASSUME AuthInv
      PROVE  NoRequestLost
  <2> SUFFICES ASSUME NEW s \in Sessions
               PROVE  /\ ~closed[s] => Cardinality(Unanswered(s)) = (IF requestInProgress[s] THEN 1 ELSE 0)
                      /\ \A r \in Unanswered(s) : request[r].at \in OnWorker => r \in queued \cup running
    BY DEF NoRequestLost, Unanswered
  <2>1. \A r \in Unanswered(s) : request[r].at \in OnWorker => r \in queued \cup running
    BY <1>1 DEF AuthInv, RequestsPlaced, Placed, Unanswered
  <2>2. CASE ~closed[s] /\ requestInProgress[s]
    <3>1. PICK r \in Tasks : Unanswered(s) = {r}
      BY <1>1, <2>2 DEF AuthInv, OneUnanswered
    <3>2. Cardinality({r}) = 1
      BY FS_Singleton
    <3> QED
      BY <2>1, <2>2, <3>1, <3>2
  <2>3. CASE ~closed[s] /\ ~requestInProgress[s]
    <3>1. Unanswered(s) = {}
      BY <1>1, <2>3 DEF AuthInv, OneUnanswered
    <3> QED
      BY <2>1, <2>3, <3>1, FS_EmptySet
  <2> QED
    BY <2>1, <2>2, <2>3
<1> QED
  BY <1>1, AuthInvariant, PTL
=============================================================================
