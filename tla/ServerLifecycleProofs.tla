----------------------- MODULE ServerLifecycleProofs ------------------------
(***************************************************************************)
(* Proofs about starting and stopping the game server, for any sessions,   *)
(* channels and limits: the arithmetic of the tick's deadlines, the        *)
(* channels' counts, and that nothing is left when Run returns.            *)
(***************************************************************************)
EXTENDS ServerLifecycle, FiniteSetTheorems, TLAPS

-----------------------------------------------------------------------------
(* The arithmetic of AdvanceDeadline (src/DungeonTickService.cpp), for     *)
(* every tick interval, every catch-up limit and every stall.              *)

\* Whole intervals are in the order of their counts.
LEMMA IntervalsMonotone ==
    ASSUME NEW j \in Nat, NEW k \in Nat, j <= k
    PROVE  TickInterval * j <= TickInterval * k
  BY TickAssumption, SMT

\* The division of AdvanceDeadline counts the whole intervals in a time.
LEMMA DivBounds ==
    ASSUME NEW time \in Nat
    PROVE  /\ time \div TickInterval \in Nat
           /\ TickInterval * (time \div TickInterval) <= time
           /\ time < TickInterval * (time \div TickInterval) + TickInterval
  BY TickAssumption, SMT

\* It is the only number with those bounds.
LEMMA DivUnique ==
    ASSUME NEW time \in Nat, NEW q \in Nat,
           TickInterval * q <= time, time < TickInterval * q + TickInterval
    PROVE  time \div TickInterval = q
  <1> DEFINE d == time \div TickInterval
  <1>1. /\ d \in Nat
        /\ TickInterval * d <= time
        /\ time < TickInterval * d + TickInterval
    BY DivBounds
  <1> HIDE DEF d
  <1>2. d <= q
    <2> SUFFICES ASSUME q + 1 <= d PROVE FALSE
      BY <1>1
    <2>1. TickInterval * (q + 1) <= TickInterval * d
      BY <1>1, IntervalsMonotone
    <2>2. TickInterval * (q + 1) = TickInterval * q + TickInterval
      BY TickAssumption, SMT
    <2> QED
      BY <1>1, <2>1, <2>2, TickAssumption
  <1>3. q <= d
    <2> SUFFICES ASSUME d + 1 <= q PROVE FALSE
      BY <1>1
    <2>1. TickInterval * (d + 1) <= TickInterval * q
      BY <1>1, IntervalsMonotone
    <2>2. TickInterval * (d + 1) = TickInterval * d + TickInterval
      BY <1>1, TickAssumption, SMT
    <2> QED
      BY <1>1, <2>1, <2>2, TickAssumption
  <1> QED
    BY <1>1, <1>2, <1>3 DEF d

\* Skipping whole intervals lowers the count by as many.
LEMMA DivShift ==
    ASSUME NEW time \in Nat, NEW k \in Nat, k <= time \div TickInterval
    PROVE  /\ TickInterval * k <= time
           /\ (time - TickInterval * k) \div TickInterval = time \div TickInterval - k
  <1> DEFINE d == time \div TickInterval
  <1>1. /\ d \in Nat
        /\ TickInterval * d <= time
        /\ time < TickInterval * d + TickInterval
    BY DivBounds
  <1>2. k <= d
    OBVIOUS
  <1> HIDE DEF d
  <1>3. TickInterval * k <= TickInterval * d
    BY <1>1, <1>2, IntervalsMonotone
  <1>4. TickInterval * (d - k) = TickInterval * d - TickInterval * k
    BY <1>1, TickAssumption, SMT
  <1>5. TickInterval * k \in Nat /\ TickInterval * d \in Nat /\ d - k \in Nat
    BY <1>1, <1>2, TickAssumption, SMT
  <1>6. /\ time - TickInterval * k \in Nat
        /\ TickInterval * (d - k) <= time - TickInterval * k
        /\ time - TickInterval * k < TickInterval * (d - k) + TickInterval
    BY <1>1, <1>3, <1>4, <1>5, TickAssumption
  <1>7. (time - TickInterval * k) \div TickInterval = d - k
    BY <1>5, <1>6, DivUnique
  <1> QED
    BY <1>1, <1>3, <1>5, <1>7, TickAssumption DEF d

\* After AdvanceDeadline every deadline that had passed is either counted as missed or
\* still overdue; at most MaxCatchUpTicks are overdue, and exactly that many when one
\* was skipped.  So a stall of any length costs a bounded burst of ticks, and no tick
\* is skipped that could have been caught up.
THEOREM StallsAreBounded ==
    ASSUME NEW nextTick \in Nat, NEW now \in Nat
    PROVE  LET missed == MissedTicks(nextTick, now)
               left   == Overdue(AdvanceDeadline(nextTick, now), now)
           IN  /\ Overdue(nextTick + TickInterval, now) = missed + left
               /\ left <= MaxCatchUpTicks
               /\ missed > 0 => left = MaxCatchUpTicks
  <1> DEFINE deadline == nextTick + TickInterval
             overdue  == Overdue(deadline, now)
             missed   == MissedTicks(nextTick, now)
  <1>1. deadline \in Nat
    BY TickAssumption
  <1>2. CASE overdue <= MaxCatchUpTicks
    <2>1. missed = 0
      BY <1>2 DEF MissedTicks, Skipped
    <2>2. TickInterval * missed = 0
      BY <2>1, TickAssumption, SMT
    <2>3. AdvanceDeadline(nextTick, now) = deadline
      BY <2>2, <1>1 DEF AdvanceDeadline
    <2>4. overdue \in Nat
      <3>1. CASE deadline > now
        BY <3>1 DEF Overdue
      <3>2. CASE ~(deadline > now)
        <4>1. now - deadline \in Nat
          BY <1>1, <3>2
        <4>2. (now - deadline) \div TickInterval \in Nat
          BY <4>1, DivBounds
        <4> QED
          BY <4>2, <3>2 DEF Overdue
      <3> QED
        BY <3>1, <3>2
    <2> QED
      BY <1>2, <2>1, <2>3, <2>4
  <1>3. CASE ~(overdue <= MaxCatchUpTicks)
    <2>1. ~(deadline > now)
      BY <1>3, TickAssumption DEF Overdue
    <2> DEFINE time == now - deadline
               d    == time \div TickInterval
    <2>2. time \in Nat
      BY <1>1, <2>1
    <2>3. d \in Nat
      BY <2>2, DivBounds
    <2>4. overdue = d + 1
      BY <2>1 DEF Overdue
    <2> HIDE DEF d
    <2>5. missed = d + 1 - MaxCatchUpTicks
      <3>1. missed = Skipped(overdue)
        BY DEF MissedTicks
      <3>2. missed = Skipped(d + 1)
        BY <3>1, <2>4
      <3>3. ~(d + 1 <= MaxCatchUpTicks)
        BY <1>3, <2>4
      <3> QED
        BY <2>3, <3>2, <3>3, TickAssumption DEF Skipped
    <2>6. missed \in Nat /\ missed <= d /\ missed > 0
      BY <1>3, <2>3, <2>4, <2>5, TickAssumption
    <2> HIDE DEF missed, time
    <2>7. /\ TickInterval * missed <= time
          /\ (time - TickInterval * missed) \div TickInterval = d - missed
      BY <2>2, <2>6, DivShift DEF d
    <2>8. TickInterval * missed \in Nat
      BY <2>6, TickAssumption, SMT
    <2>9. AdvanceDeadline(nextTick, now) = deadline + TickInterval * missed
      BY DEF AdvanceDeadline, missed
    <2>10. now - (deadline + TickInterval * missed) = time - TickInterval * missed
      BY <1>1, <2>8 DEF time
    <2>11. ~(deadline + TickInterval * missed > now)
      BY <1>1, <2>7, <2>8 DEF time
    <2>12. Overdue(AdvanceDeadline(nextTick, now), now) = d - missed + 1
      BY <2>7, <2>9, <2>10, <2>11 DEF Overdue
    <2>13. d - missed + 1 = MaxCatchUpTicks
      BY <2>3, <2>5, TickAssumption
    <2>14. d + 1 = missed + (d - missed + 1)
      BY <2>3, <2>6
    <2> QED
      BY <2>4, <2>6, <2>12, <2>13, <2>14, TickAssumption DEF missed
  <1> QED
    BY <1>2, <1>3

\* The whole intervals from time to now.
Intervals(time, now) == IF time > now THEN 0 ELSE (now - time) \div TickInterval

\* The deadlines that have passed are the first so many, so they are counted by a division.
LEMMA PassedCount ==
    ASSUME NEW time \in Nat, NEW now \in 0..MaxTime
    PROVE  Cardinality(Passed(time, now)) = Intervals(time, now) /\ Intervals(time, now) \in Nat
<1>0. now \in Nat /\ MaxTime \in Nat
  BY TickAssumption
<1>1. CASE time > now
  <2>1. \A k \in 1..MaxTime : k * TickInterval \in Nat
    BY TickAssumption, SMT
  <2>2. Passed(time, now) = {}
    BY <1>0, <1>1, <2>1 DEF Passed
  <2> QED  BY <1>1, <2>2, FS_EmptySet DEF Intervals
<1>2. CASE time <= now
  <2> DEFINE d == (now - time) \div TickInterval
  <2>1. /\ d \in Nat
        /\ TickInterval * d <= now - time
        /\ now - time < TickInterval * d + TickInterval
    BY <1>0, <1>2, DivBounds
  <2> HIDE DEF d
  <2>2. d <= MaxTime
    <3>1. d <= TickInterval * d
      BY <2>1, TickAssumption, SMT
    <3>2. TickInterval * d \in Nat
      BY <2>1, TickAssumption, SMT
    <3> QED  BY <1>0, <2>1, <3>1, <3>2
  <2>3. ASSUME NEW k \in 1..MaxTime
        PROVE  time + k * TickInterval <= now <=> k <= d
    <3>1. k * TickInterval = TickInterval * k /\ k * TickInterval \in Nat
      BY TickAssumption, SMT
    <3>2. CASE k <= d
      <4>1. TickInterval * k <= TickInterval * d
        BY <2>1, <3>2, IntervalsMonotone
      <4>2. TickInterval * d \in Nat
        BY <2>1, TickAssumption, SMT
      <4> QED  BY <1>0, <2>1, <3>1, <3>2, <4>1, <4>2
    <3>3. CASE d + 1 <= k
      <4>1. TickInterval * (d + 1) <= TickInterval * k
        BY <2>1, <3>3, IntervalsMonotone
      <4>2. TickInterval * (d + 1) = TickInterval * d + TickInterval /\ TickInterval * d \in Nat
        BY <2>1, TickAssumption, SMT
      <4> QED  BY <1>0, <2>1, <3>1, <3>3, <4>1, <4>2, TickAssumption
    <3> QED  BY <2>1, <3>2, <3>3
  <2>4. Passed(time, now) = 1..d
    BY <1>0, <2>1, <2>2, <2>3 DEF Passed
  <2>5. Cardinality(1..d) = d
    BY <2>1, FS_Interval
  <2>6. Intervals(time, now) = d
    BY <1>0, <1>2 DEF Intervals, d
  <2> QED  BY <2>1, <2>4, <2>5, <2>6
<1> QED  BY <1>0, <1>1, <1>2

\* overdueTickCount counts the intervals since the tick before the deadline.
LEMMA OverdueCount ==
    ASSUME NEW time \in Nat, NEW now \in Nat
    PROVE  Overdue(time + TickInterval, now) = Intervals(time, now)
<1> USE TickAssumption
<1>1. CASE time + TickInterval > now
  <2>1. Overdue(time + TickInterval, now) = 0
    BY <1>1 DEF Overdue
  <2>2. CASE time > now
    BY <2>1, <2>2 DEF Intervals
  <2>3. CASE time <= now
    <3>1. now - time \in Nat /\ TickInterval * 0 = 0 /\ now - time < TickInterval
      BY <1>1, <2>3
    <3>2. (now - time) \div TickInterval = 0
      BY <3>1, DivUnique
    <3> QED  BY <2>1, <2>3, <3>2 DEF Intervals
  <2> QED  BY <2>2, <2>3
<1>2. CASE time + TickInterval <= now
  <2> DEFINE d == (now - time) \div TickInterval
  <2>1. now - time \in Nat /\ now - (time + TickInterval) = (now - time) - TickInterval
    BY <1>2
  <2>2. d \in Nat /\ now - time < TickInterval * d + TickInterval
    BY <2>1, DivBounds
  <2>3. 1 <= d
    <3> SUFFICES ASSUME d = 0 PROVE FALSE
      BY <2>2
    <3> QED  BY <1>2, <2>1, <2>2
  <2>4. TickInterval * 1 = TickInterval
    BY SMT
  <2>5. ((now - time) - TickInterval * 1) \div TickInterval = d - 1
    BY <2>1, <2>3, DivShift
  <2>6. Overdue(time + TickInterval, now) = d - 1 + 1
    BY <1>2, <2>1, <2>4, <2>5 DEF Overdue
  <2>7. Intervals(time, now) = d
    BY <1>2 DEF Intervals
  <2> QED  BY <2>2, <2>6, <2>7
<1> QED  BY <1>1, <1>2

\* What the model checker tries for small times holds for all of them.
LEMMA TicksAccountedFor == TicksAccounted
<1> SUFFICES ASSUME NEW nextTick \in 0..MaxTime, NEW now \in 0..MaxTime
             PROVE  LET missed == MissedTicks(nextTick, now)
                        left   == Passed(AdvanceDeadline(nextTick, now) - TickInterval, now)
                    IN  /\ Cardinality(Passed(nextTick, now)) = missed + Cardinality(left)
                        /\ Cardinality(left) <= MaxCatchUpTicks
                        /\ missed > 0 => Cardinality(left) = MaxCatchUpTicks
  BY DEF TicksAccounted
<1> DEFINE missed == MissedTicks(nextTick, now)
           last == AdvanceDeadline(nextTick, now) - TickInterval
<1>1. nextTick \in Nat /\ now \in Nat
  BY TickAssumption
<1>2. Overdue(nextTick + TickInterval, now) = Intervals(nextTick, now)
  BY <1>1, OverdueCount
<1>3. missed \in Nat
  <2>1. Intervals(nextTick, now) \in Nat
    BY <1>1, PassedCount
  <2> QED  BY <1>2, <2>1, TickAssumption DEF MissedTicks, Skipped
<1>4. last \in Nat /\ last + TickInterval = AdvanceDeadline(nextTick, now)
  <2>1. TickInterval * missed \in Nat
    BY <1>3, TickAssumption, SMT
  <2> QED  BY <1>1, <2>1, TickAssumption DEF AdvanceDeadline
<1>5. Overdue(AdvanceDeadline(nextTick, now), now) = Intervals(last, now)
  BY <1>1, <1>4, OverdueCount
<1>6. /\ Overdue(nextTick + TickInterval, now)
            = missed + Overdue(AdvanceDeadline(nextTick, now), now)
      /\ Overdue(AdvanceDeadline(nextTick, now), now) <= MaxCatchUpTicks
      /\ missed > 0 => Overdue(AdvanceDeadline(nextTick, now), now) = MaxCatchUpTicks
  BY <1>1, StallsAreBounded
<1>7. /\ Cardinality(Passed(nextTick, now)) = Intervals(nextTick, now)
      /\ Cardinality(Passed(last, now)) = Intervals(last, now)
  BY <1>1, <1>4, PassedCount
<1> QED  BY <1>2, <1>5, <1>6, <1>7

\* Whenever the timer is set, the deadlines that have passed are accounted for.
THEOREM TicksNeverLost == LifecycleSpec => []TicksCaughtUp
<1>1. TicksCaughtUp
  BY TicksAccountedFor DEF TicksCaughtUp
<1> QED  BY <1>1, PTL

-----------------------------------------------------------------------------
(* The shutdown.                                                           *)

\* The SessionManager knows a session from its creation until it is erased, and its channel
\* is left before that.
SessionsListed ==
    \A s \in Sessions :
        /\ s \in listed <=> session[s] \notin {"none", "closed"}
        /\ channelOf[s] # None => session[s] \in {"open", "allocating", "leaving"}

\* The counts of the channels.
ChannelsCounted ==
    \A c \in Channels :
        LET members == {s \in Sessions : channelOf[s] = c}
        IN  /\ IsFiniteSet(members)
            /\ currentPlayers[c] = Cardinality(members)
            /\ currentPlayers[c] <= MaxPlayers

\* A created session is still to be started, so the io_context has work.
CreatedStarts ==
    \A s \in Sessions : session[s] = "created" => accepting = s \/ s \in startQueued

\* The managers have something only while the io_context runs.
QuietUnlessRun ==
    mainAt # "run" => /\ listed = {} /\ dungeons = {} /\ sockets = {}
                      /\ accepting = "none" /\ startQueued = {}

\* Run leaves the io_context only behind a complete shutdown.
ShutdownOrder ==
    /\ shutdownStarted <=> shutdownAt # "none"
    /\ shutdownAt \notin {"none", "done"} => mainAt \in {"run", "shutdown"}
    /\ mainAt = "shutdown" => shutdownAt # "none"
    /\ mainAt \in {"tick", "listen"} => signal = "waiting"
    /\ mainAt = "run" /\ signal = "none" => shutdownStarted
    /\ signal = "aborted" => shutdownStarted
    /\ shutdownAt \in {"udp", "sessions", "done"} => "dungeons" \in stopping
    /\ "dungeons" \in stopping => dungeons = {}

LifecycleInv ==
    /\ LifecycleTypeOK
    /\ SessionsListed /\ ChannelsCounted /\ CreatedStarts /\ QuietUnlessRun /\ ShutdownOrder

\* Every step of the server preserves the invariant.
LEMMA LifecycleInductive == LifecycleInv /\ [LifecycleNext]_vars => LifecycleInv'
<1> SUFFICES ASSUME LifecycleInv, [LifecycleNext]_vars PROVE LifecycleInv'
  OBVIOUS
<1> USE LifecycleAssumption DEF LifecycleInv, runVars, sessionVars, channelVars, dungeonVars,
        restOfRun, parts, restOfAccept, restOfTick, restOfSession, Main, Shutdown, BeginShutdown,
        Cancelled, AcceptAgain, StartSession, Schedule, SessionGoes, CloseOnStrand
<1>1. CASE RunStarts
  BY <1>1
     DEF RunStarts, LifecycleTypeOK, SessionsListed, ChannelsCounted, CreatedStarts,
          QuietUnlessRun, ShutdownOrder
<1>2. CASE RunChecks
  BY <1>2
     DEF RunChecks, LifecycleTypeOK, SessionsListed, ChannelsCounted, CreatedStarts,
          QuietUnlessRun, ShutdownOrder
<1>3. CASE WaitForShutdownSignal
  BY <1>3
     DEF WaitForShutdownSignal, LifecycleTypeOK, SessionsListed, ChannelsCounted, CreatedStarts,
          QuietUnlessRun, ShutdownOrder
<1>4. CASE StartTicks
  <2> USE <1>4 DEF StartTicks
  <2>1. LifecycleTypeOK'
    <3>1. tick' \in [running : BOOLEAN, cancelQueued : BOOLEAN,
                      at : {"none", "starting", "waiting", "ready", "aborted", "handling"}]
      BY DEF LifecycleTypeOK
    <3> QED  BY <3>1 DEF LifecycleTypeOK
  <2>2. SessionsListed' /\ ChannelsCounted' /\ CreatedStarts'
    BY DEF SessionsListed, ChannelsCounted, CreatedStarts, LifecycleTypeOK, QuietUnlessRun
  <2>3. QuietUnlessRun' /\ ShutdownOrder'
    BY DEF QuietUnlessRun, ShutdownOrder, LifecycleTypeOK
  <2> QED  BY <2>1, <2>2, <2>3
<1>5. CASE StartListening
  <2> USE <1>5 DEF StartListening
  <2>1. LifecycleTypeOK'
    <3>1. acceptor' \in [open : BOOLEAN, stopped : BOOLEAN, closeQueued : BOOLEAN]
      BY DEF LifecycleTypeOK
    <3>2. accepting' \in {"none", "waiting", "ready", "aborted"} \cup Sessions
      BY DEF LifecycleTypeOK
    <3> QED  BY <3>1, <3>2 DEF LifecycleTypeOK
  <2>2. SessionsListed' /\ ChannelsCounted' /\ CreatedStarts'
    BY DEF SessionsListed, ChannelsCounted, CreatedStarts, LifecycleTypeOK, QuietUnlessRun
  <2>3. QuietUnlessRun' /\ ShutdownOrder'
    BY DEF QuietUnlessRun, ShutdownOrder, LifecycleTypeOK
  <2> QED  BY <2>1, <2>2, <2>3
<1>6. CASE ListeningFails
  <2> USE <1>6 DEF ListeningFails
  <2>1. LifecycleTypeOK'
    <3>1. acceptor' \in [open : BOOLEAN, stopped : BOOLEAN, closeQueued : BOOLEAN]
      BY DEF LifecycleTypeOK
    <3>2. signal' \in {"none", "waiting", "ready", "aborted"}
      BY DEF LifecycleTypeOK
    <3> QED  BY <3>1, <3>2 DEF LifecycleTypeOK
  <2>2. SessionsListed' /\ ChannelsCounted' /\ CreatedStarts'
    BY DEF SessionsListed, ChannelsCounted, CreatedStarts, LifecycleTypeOK, QuietUnlessRun
  <2>3. QuietUnlessRun' /\ ShutdownOrder'
    BY DEF QuietUnlessRun, ShutdownOrder, LifecycleTypeOK
  <2> QED  BY <2>1, <2>2, <2>3
<1>7. CASE JoinThreads
  BY <1>7
     DEF JoinThreads, Work, LifecycleTypeOK, SessionsListed, ChannelsCounted, CreatedStarts,
          QuietUnlessRun, ShutdownOrder
<1>8. CASE RunReturns
  BY <1>8
     DEF RunReturns, LifecycleTypeOK, SessionsListed, ChannelsCounted, CreatedStarts,
          QuietUnlessRun, ShutdownOrder
<1>9. CASE PostStop
  BY <1>9
     DEF PostStop, LifecycleTypeOK, SessionsListed, ChannelsCounted, CreatedStarts,
          QuietUnlessRun, ShutdownOrder
<1>10. CASE PostedStop
  <2> USE <1>10 DEF PostedStop
  <2>1. LifecycleTypeOK'
    <3>1. signal' \in {"none", "waiting", "ready", "aborted"}
      BY DEF LifecycleTypeOK
    <3>2. shutdownAt' \in {"none", "tcp", "tick", "dungeons", "udp", "sessions", "done"}
      BY DEF LifecycleTypeOK
    <3>3. shutdownStarted' \in BOOLEAN /\ stopPosted' \in BOOLEAN
      BY DEF LifecycleTypeOK
    <3> QED  BY <3>1, <3>2, <3>3 DEF LifecycleTypeOK
  <2>2. SessionsListed' /\ ChannelsCounted' /\ CreatedStarts'
    BY DEF SessionsListed, ChannelsCounted, CreatedStarts, LifecycleTypeOK, QuietUnlessRun
  <2>3. QuietUnlessRun' /\ ShutdownOrder'
    BY DEF QuietUnlessRun, ShutdownOrder, LifecycleTypeOK
  <2> QED  BY <2>1, <2>2, <2>3
<1>11. CASE SignalHandler
  <2> USE <1>11 DEF SignalHandler
  <2>1. LifecycleTypeOK'
    <3>1. signal' \in {"none", "waiting", "ready", "aborted"}
      BY DEF LifecycleTypeOK
    <3>2. shutdownAt' \in {"none", "tcp", "tick", "dungeons", "udp", "sessions", "done"}
      BY DEF LifecycleTypeOK
    <3>3. shutdownStarted' \in BOOLEAN /\ stopRequested' \in BOOLEAN
      BY DEF LifecycleTypeOK
    <3> QED  BY <3>1, <3>2, <3>3 DEF LifecycleTypeOK
  <2>2. SessionsListed' /\ ChannelsCounted' /\ CreatedStarts'
    BY DEF SessionsListed, ChannelsCounted, CreatedStarts, LifecycleTypeOK, QuietUnlessRun
  <2>3. QuietUnlessRun' /\ ShutdownOrder'
    BY DEF QuietUnlessRun, ShutdownOrder, LifecycleTypeOK
  <2> QED  BY <2>1, <2>2, <2>3
<1>12. CASE StopAccepting
  <2> USE <1>12 DEF StopAccepting
  <2>1. LifecycleTypeOK'
    <3>1. acceptor' \in [open : BOOLEAN, stopped : BOOLEAN, closeQueued : BOOLEAN]
      BY DEF LifecycleTypeOK
    <3> QED  BY <3>1 DEF LifecycleTypeOK
  <2>2. SessionsListed' /\ ChannelsCounted' /\ CreatedStarts'
    BY DEF SessionsListed, ChannelsCounted, CreatedStarts, LifecycleTypeOK, QuietUnlessRun
  <2>3. QuietUnlessRun' /\ ShutdownOrder'
    BY DEF QuietUnlessRun, ShutdownOrder, LifecycleTypeOK
  <2> QED  BY <2>1, <2>2, <2>3
<1>13. CASE StopTicks
  <2> USE <1>13 DEF StopTicks
  <2>1. LifecycleTypeOK'
    <3>1. tick' \in [running : BOOLEAN, cancelQueued : BOOLEAN,
                      at : {"none", "starting", "waiting", "ready", "aborted", "handling"}]
      BY DEF LifecycleTypeOK
    <3> QED  BY <3>1 DEF LifecycleTypeOK
  <2>2. SessionsListed' /\ ChannelsCounted' /\ CreatedStarts'
    BY DEF SessionsListed, ChannelsCounted, CreatedStarts, LifecycleTypeOK, QuietUnlessRun
  <2>3. QuietUnlessRun' /\ ShutdownOrder'
    BY DEF QuietUnlessRun, ShutdownOrder, LifecycleTypeOK
  <2> QED  BY <2>1, <2>2, <2>3
<1>14. CASE StopDungeons
  BY <1>14
     DEF StopDungeons, LifecycleTypeOK, SessionsListed, ChannelsCounted, CreatedStarts,
          QuietUnlessRun, ShutdownOrder
<1>15. CASE StopUdp
  BY <1>15
     DEF StopUdp, LifecycleTypeOK, SessionsListed, ChannelsCounted, CreatedStarts,
          QuietUnlessRun, ShutdownOrder
<1>16. CASE StopSessions
  BY <1>16
     DEF StopSessions, LifecycleTypeOK, SessionsListed, ChannelsCounted, CreatedStarts,
          QuietUnlessRun, ShutdownOrder
<1>17. CASE RequestStop
  BY <1>17
     DEF RequestStop, LifecycleTypeOK, SessionsListed, ChannelsCounted, CreatedStarts,
          QuietUnlessRun, ShutdownOrder
<1>18. CASE Signal
  BY <1>18
     DEF Signal, LifecycleTypeOK, SessionsListed, ChannelsCounted, CreatedStarts,
          QuietUnlessRun, ShutdownOrder
<1>19. CASE TickThrows
  BY <1>19
     DEF TickThrows, LifecycleTypeOK, SessionsListed, ChannelsCounted, CreatedStarts,
          QuietUnlessRun, ShutdownOrder
<1>20. CASE Connect
  BY <1>20
     DEF Connect, LifecycleTypeOK, SessionsListed, ChannelsCounted, CreatedStarts,
          QuietUnlessRun, ShutdownOrder
<1>21. CASE AcceptHandler
  BY <1>21
     DEF AcceptHandler, LifecycleTypeOK, SessionsListed, ChannelsCounted, CreatedStarts,
          QuietUnlessRun, ShutdownOrder
<1>22. CASE StartAccepted
  BY <1>22
     DEF StartAccepted, LifecycleTypeOK, SessionsListed, ChannelsCounted, CreatedStarts,
          QuietUnlessRun, ShutdownOrder
<1>23. CASE CloseAcceptor
  <2> USE <1>23 DEF CloseAcceptor
  <2>1. LifecycleTypeOK'
    <3>1. acceptor' \in [open : BOOLEAN, stopped : BOOLEAN, closeQueued : BOOLEAN]
      BY DEF LifecycleTypeOK
    <3>2. accepting' \in {"none", "waiting", "ready", "aborted"} \cup Sessions
      BY DEF LifecycleTypeOK
    <3> QED  BY <3>1, <3>2 DEF LifecycleTypeOK
  <2>2. SessionsListed' /\ ChannelsCounted' /\ CreatedStarts'
    BY DEF SessionsListed, ChannelsCounted, CreatedStarts, LifecycleTypeOK, QuietUnlessRun
  <2>3. QuietUnlessRun' /\ ShutdownOrder'
    BY DEF QuietUnlessRun, ShutdownOrder, LifecycleTypeOK
  <2> QED  BY <2>1, <2>2, <2>3
<1>24. CASE TickStarts
  BY <1>24
     DEF TickStarts, LifecycleTypeOK, SessionsListed, ChannelsCounted, CreatedStarts,
          QuietUnlessRun, ShutdownOrder
<1>25. CASE CancelTimer
  <2> USE <1>25 DEF CancelTimer
  <2>1. LifecycleTypeOK'
    <3>1. tick' \in [running : BOOLEAN, cancelQueued : BOOLEAN,
                      at : {"none", "starting", "waiting", "ready", "aborted", "handling"}]
      BY DEF LifecycleTypeOK
    <3> QED  BY <3>1 DEF LifecycleTypeOK
  <2>2. SessionsListed' /\ ChannelsCounted' /\ CreatedStarts'
    BY DEF SessionsListed, ChannelsCounted, CreatedStarts, LifecycleTypeOK, QuietUnlessRun
  <2>3. QuietUnlessRun' /\ ShutdownOrder'
    BY DEF QuietUnlessRun, ShutdownOrder, LifecycleTypeOK
  <2> QED  BY <2>1, <2>2, <2>3
<1>26. CASE HandleTick
  BY <1>26
     DEF HandleTick, LifecycleTypeOK, SessionsListed, ChannelsCounted, CreatedStarts,
          QuietUnlessRun, ShutdownOrder
<1>27. CASE EndTick
  BY <1>27
     DEF EndTick, LifecycleTypeOK, SessionsListed, ChannelsCounted, CreatedStarts,
          QuietUnlessRun, ShutdownOrder
<1>28. CASE TimerExpires
  BY <1>28
     DEF TimerExpires, LifecycleTypeOK, SessionsListed, ChannelsCounted, CreatedStarts,
          QuietUnlessRun, ShutdownOrder
<1>29. CASE TimerFails
  BY <1>29
     DEF TimerFails, LifecycleTypeOK, SessionsListed, ChannelsCounted, CreatedStarts,
          QuietUnlessRun, ShutdownOrder
<1>30. ASSUME NEW s \in Sessions, SessionStarts(s) PROVE LifecycleInv'
  BY <1>30
     DEF SessionStarts, LifecycleTypeOK, SessionsListed, ChannelsCounted, CreatedStarts,
          QuietUnlessRun, ShutdownOrder
<1>31. ASSUME NEW s \in Sessions, SessionStops(s) PROVE LifecycleInv'
  BY <1>31
     DEF SessionStops, LifecycleTypeOK, SessionsListed, ChannelsCounted, CreatedStarts,
          QuietUnlessRun, ShutdownOrder
<1>32. ASSUME NEW s \in Sessions, SessionCloses(s) PROVE LifecycleInv'
  BY SMTT(40), <1>32
     DEF SessionCloses, LifecycleTypeOK, SessionsListed, ChannelsCounted, CreatedStarts,
          QuietUnlessRun, ShutdownOrder
<1>33. ASSUME NEW s \in Sessions, EraseSession(s) PROVE LifecycleInv'
  BY <1>33
     DEF EraseSession, LifecycleTypeOK, SessionsListed, ChannelsCounted, CreatedStarts,
          QuietUnlessRun, ShutdownOrder
<1>34. ASSUME NEW s \in Sessions, CreateDungeon(s) PROVE LifecycleInv'
  BY <1>34
     DEF CreateDungeon, LifecycleTypeOK, SessionsListed, ChannelsCounted, CreatedStarts,
          QuietUnlessRun, ShutdownOrder
<1>35. ASSUME NEW s \in Sessions, AllocateSocket(s) PROVE LifecycleInv'
  BY <1>35
     DEF AllocateSocket, LifecycleTypeOK, SessionsListed, ChannelsCounted, CreatedStarts,
          QuietUnlessRun, ShutdownOrder
<1>36. ASSUME NEW s \in Sessions, TickEndsDungeon(s) PROVE LifecycleInv'
  BY SMTT(40), <1>36
     DEF TickEndsDungeon, LifecycleTypeOK, SessionsListed, ChannelsCounted, CreatedStarts,
          QuietUnlessRun, ShutdownOrder
<1>37. ASSUME NEW s \in Sessions, LeaveChannel(s) PROVE LifecycleInv'
  <2> USE <1>37 DEF LeaveChannel
  <2>1. LifecycleTypeOK'
    BY DEF LifecycleTypeOK
  <2>2. SessionsListed' /\ CreatedStarts' /\ QuietUnlessRun' /\ ShutdownOrder'
    BY DEF LifecycleTypeOK, SessionsListed, CreatedStarts, QuietUnlessRun, ShutdownOrder
  <2>3. ASSUME NEW c \in Channels
        PROVE  LET members == {t \in Sessions : channelOf'[t] = c}
               IN  /\ IsFiniteSet(members)
                   /\ currentPlayers'[c] = Cardinality(members)
                   /\ currentPlayers'[c] <= MaxPlayers
    <3> DEFINE old == {t \in Sessions : channelOf[t] = c}
               new == {t \in Sessions : channelOf'[t] = c}
    <3>1. IsFiniteSet(old) /\ currentPlayers[c] = Cardinality(old) /\ currentPlayers[c] <= MaxPlayers
      BY DEF ChannelsCounted
    <3>2. CASE channelOf[s] = c
      <4>1. new = old \ {s} /\ s \in old
        BY <3>2 DEF LifecycleTypeOK
      <4>2. IsFiniteSet(new) /\ Cardinality(new) = Cardinality(old) - 1 /\ Cardinality(new) \in Nat
        BY <3>1, <4>1, FS_RemoveElement, FS_CardinalityType
      <4>3. Cardinality(old) \in Nat
        BY <3>1, FS_CardinalityType
      <4>4. currentPlayers'[c] = currentPlayers[c] - 1
        BY <3>1, <3>2, <4>2, <4>3
      <4> HIDE DEF old, new
      <4> QED  BY <3>1, <4>2, <4>3, <4>4 DEF new
    <3>3. CASE channelOf[s] # c
      <4>1. new = old
        BY <3>3 DEF LifecycleTypeOK
      <4>2. currentPlayers'[c] = currentPlayers[c]
        BY <3>3
      <4> QED  BY <3>1, <4>1, <4>2
    <3> QED  BY <3>2, <3>3
  <2>4. ChannelsCounted'
    BY <2>3 DEF ChannelsCounted
  <2> QED  BY <2>1, <2>2, <2>4
<1>38. ASSUME NEW s \in Sessions, NEW d \in Channels, JoinChannel(s, d) PROVE LifecycleInv'
  <2> USE <1>38 DEF JoinChannel
  <2>1. LifecycleTypeOK'
    BY DEF LifecycleTypeOK
  <2>2. SessionsListed' /\ CreatedStarts' /\ QuietUnlessRun' /\ ShutdownOrder'
    BY DEF LifecycleTypeOK, SessionsListed, CreatedStarts, QuietUnlessRun, ShutdownOrder
  <2>3. ASSUME NEW c \in Channels
        PROVE  LET members == {t \in Sessions : channelOf'[t] = c}
               IN  /\ IsFiniteSet(members)
                   /\ currentPlayers'[c] = Cardinality(members)
                   /\ currentPlayers'[c] <= MaxPlayers
    <3> DEFINE old == {t \in Sessions : channelOf[t] = c}
               new == {t \in Sessions : channelOf'[t] = c}
    <3>1. /\ IsFiniteSet(old) /\ currentPlayers[c] = Cardinality(old)
          /\ currentPlayers[c] <= MaxPlayers /\ currentPlayers[c] \in Nat
      BY DEF ChannelsCounted, LifecycleTypeOK
    <3>2. CASE c = d
      <4>1. new = old \cup {s} /\ s \notin old
        BY <3>2 DEF LifecycleTypeOK
      <4>2. IsFiniteSet(new) /\ Cardinality(new) = Cardinality(old) + 1
        BY <3>1, <4>1, FS_AddElement
      <4>3. currentPlayers'[c] = currentPlayers[c] + 1 /\ currentPlayers[c] < MaxPlayers
        BY <3>2 DEF LifecycleTypeOK
      <4> HIDE DEF old, new
      <4> QED  BY <3>1, <4>2, <4>3 DEF new
    <3>3. CASE c # d
      <4>1. new = old
        BY <3>3 DEF LifecycleTypeOK
      <4>2. currentPlayers'[c] = currentPlayers[c]
        BY <3>3 DEF LifecycleTypeOK
      <4> QED  BY <3>1, <4>1, <4>2
    <3> QED  BY <3>2, <3>3
  <2>4. ChannelsCounted'
    BY <2>3 DEF ChannelsCounted
  <2> QED  BY <2>1, <2>2, <2>4
<1>39. CASE UNCHANGED vars
  BY <1>39
     DEF vars, LifecycleTypeOK, SessionsListed, ChannelsCounted, CreatedStarts,
          QuietUnlessRun, ShutdownOrder
<1> QED
  BY <1>1, <1>2, <1>3, <1>4, <1>5, <1>6, <1>7, <1>8, <1>9, <1>10, <1>11, <1>12, <1>13, <1>14,
     <1>15, <1>16, <1>17, <1>18, <1>19, <1>20, <1>21, <1>22, <1>23, <1>24, <1>25, <1>26,
     <1>27, <1>28, <1>29, <1>30, <1>31, <1>32, <1>33, <1>34, <1>35, <1>36, <1>37, <1>38,
     <1>39
     DEF LifecycleNext, ControlStep, RunStep, ShutdownStep, AcceptStep, TickStep, SessionStep

\* The server before Run satisfies the invariant.
LEMMA LifecycleInitially == LifecycleInit => LifecycleInv
<1> SUFFICES ASSUME LifecycleInit PROVE LifecycleInv
  OBVIOUS
<1> USE LifecycleAssumption DEF LifecycleInit
<1>1. LifecycleTypeOK
  BY DEF LifecycleTypeOK
<1>2. SessionsListed /\ CreatedStarts /\ QuietUnlessRun /\ ShutdownOrder
  BY DEF SessionsListed, CreatedStarts, QuietUnlessRun, ShutdownOrder
<1>3. ASSUME NEW c \in Channels
      PROVE  {s \in Sessions : channelOf[s] = c} = {} /\ currentPlayers[c] = 0
  OBVIOUS
<1>4. ChannelsCounted
  BY SMTT(40), <1>3, FS_EmptySet DEF ChannelsCounted
<1> QED  BY <1>1, <1>2, <1>4 DEF LifecycleInv

\* The invariant holds in every state.
LEMMA LifecycleInvariant == LifecycleSpec => []LifecycleInv
BY LifecycleInitially, LifecycleInductive, PTL DEF LifecycleSpec

\* The channels count exactly the sessions that are in them, all of them known to the
\* SessionManager, however joining, closing, leaving and Stop interleave: RemoveSession
\* leaves the channel before it erases the session.
THEOREM ChannelCounts == LifecycleSpec => []ChannelsExact
<1>1. LifecycleInv => ChannelsExact
  <2> SUFFICES ASSUME LifecycleInv, NEW c \in Channels
               PROVE  LET members == {s \in Sessions : channelOf[s] = c}
                      IN  /\ currentPlayers[c] = Cardinality(members)
                          /\ currentPlayers[c] <= MaxPlayers
                          /\ members \subseteq listed
    BY DEF ChannelsExact
  <2>1. \A s \in Sessions : channelOf[s] = c => s \in listed
    BY LifecycleAssumption DEF LifecycleInv, SessionsListed
  <2> QED  BY <2>1 DEF LifecycleInv, ChannelsCounted
<1> QED  BY <1>1, LifecycleInvariant, PTL

\* Run returns with every manager empty, whichever way the stop was asked for: the
\* io_context does not run out of work before the shutdown has reached its end and the
\* last session is erased.
THEOREM NothingIsLeft == LifecycleSpec => []ShutdownComplete
<1>1. LifecycleInv => ShutdownComplete
  <2> SUFFICES ASSUME LifecycleInv, mainAt = "returned"
               PROVE  /\ listed = {} /\ dungeons = {} /\ sockets = {}
                      /\ \A c \in Channels : currentPlayers[c] = 0
    BY DEF ShutdownComplete
  <2>1. listed = {} /\ dungeons = {} /\ sockets = {}
    BY DEF LifecycleInv, QuietUnlessRun
  <2>2. ASSUME NEW c \in Channels PROVE currentPlayers[c] = 0
    <3>1. {s \in Sessions : channelOf[s] = c} = {}
      BY <2>1, LifecycleAssumption DEF LifecycleInv, SessionsListed
    <3> QED  BY <3>1, FS_EmptySet DEF LifecycleInv, ChannelsCounted
  <2> QED  BY <2>1, <2>2
<1> QED  BY <1>1, LifecycleInvariant, PTL
=============================================================================
