----------------------------- MODULE TickClock ------------------------------
(***************************************************************************)
(* The deadlines of the dungeon ticks (AdvanceDeadline of                  *)
(* src/DungeonTickService.cpp).  Ticks are due at fixed intervals; after a *)
(* stall a few are caught up without a pause and the others are skipped,   *)
(* whole intervals at a time, and counted.                                 *)
(***************************************************************************)
EXTENDS Integers, FiniteSets

CONSTANTS
    TickInterval,      \* TICK_INTERVAL
    MaxCatchUpTicks,   \* MAX_DUNGEON_CATCH_UP_TICKS
    MaxTime            \* bound on the times that are tried

ASSUME TickAssumption ==
    /\ TickInterval \in Nat \ {0}
    /\ MaxCatchUpTicks \in Nat \ {0}
    /\ MaxTime \in Nat

\* overdueTickCount, and 0 where AdvanceDeadline returns early.
Overdue(deadline, now) ==
    IF deadline > now THEN 0 ELSE (now - deadline) \div TickInterval + 1

\* Mutant of Skipped: one tick too few is skipped.
SkippedOneShort(overdue) ==
    IF overdue <= MaxCatchUpTicks THEN 0 ELSE overdue - MaxCatchUpTicks - 1

\* skippedTickCount
Skipped(overdue) == IF overdue <= MaxCatchUpTicks THEN 0 ELSE overdue - MaxCatchUpTicks

\* What AdvanceDeadline adds to missedTickCount when the tick of nextTick ends at now,
MissedTicks(nextTick, now) == Skipped(Overdue(nextTick + TickInterval, now))

\* and the nextTick_ it leaves behind.
AdvanceDeadline(nextTick, now) ==
    nextTick + TickInterval + TickInterval * MissedTicks(nextTick, now)
-----------------------------------------------------------------------------
\* The deadlines after nextTick that have passed.
Passed(nextTick, now) == {k \in 1..MaxTime : nextTick + k * TickInterval <= now}

\* However long the tick at nextTick took, every deadline that has passed since is
\* either counted as missed or still to come, at most MaxCatchUpTicks are to come at
\* once, and none is skipped while fewer than that are left.
TicksAccounted ==
    \A nextTick, now \in 0..MaxTime :
        LET missed == MissedTicks(nextTick, now)
            left   == Passed(AdvanceDeadline(nextTick, now) - TickInterval, now)
        IN  /\ Cardinality(Passed(nextTick, now)) = missed + Cardinality(left)
            /\ Cardinality(left) <= MaxCatchUpTicks
            /\ missed > 0 => Cardinality(left) = MaxCatchUpTicks
=============================================================================
