---------------------------- MODULE SnapshotPump ----------------------------
(***************************************************************************)
(* How a dungeon's snapshots reach its clients (SendSnapshot, Stop and the *)
(* pump of src/DungeonUdpSession.cpp).  Three threads meet here: the tick  *)
(* offers a snapshot and may schedule the pump, the session's strand runs  *)
(* the pump, which sends the newest snapshot to one endpoint after the     *)
(* other, and any thread may stop the session.  They share                 *)
(* pendingSnapshot_ and snapshotPumpScheduled_ under snapshotMutex_, and   *)
(* the atomic stopped_.                                                    *)
(*                                                                         *)
(* Snapshots are numbered in the order in which the tick offers them; 0 is *)
(* no snapshot.                                                            *)
(***************************************************************************)
EXTENDS Integers

CONSTANTS
    Endpoints,       \* client endpoints
    MaxSnapshots     \* bound on the snapshots offered

ASSUME SnapshotAssumption == MaxSnapshots \in Nat

VARIABLES
    stopped,         \* stopped_
    pending,         \* pendingSnapshot_
    scheduled,       \* snapshotPumpScheduled_
    active,          \* activeSnapshot_
    destinations,    \* the rest of snapshotDestinations_
    endpoints,       \* the keys of endpoints_
    offered,         \* the number of the last snapshot offered to SendSnapshot
    tickAt,          \* where SendSnapshot is
    stopAt,          \* where Stop is
    pumpAt,          \* where the pump is on the strand; "posted" before it runs
    delivered        \* the last snapshot sent to each endpoint

pumpVars == <<stopped, pending, scheduled, active, destinations, endpoints, offered,
              tickAt, stopAt, pumpAt, delivered>>

Snapshots == 0..MaxSnapshots

SnapshotTypeOK ==
    /\ stopped \in BOOLEAN
    /\ pending \in Snapshots
    /\ scheduled \in BOOLEAN
    /\ active \in Snapshots
    /\ destinations \in SUBSET Endpoints
    /\ endpoints \in SUBSET Endpoints
    /\ offered \in Snapshots
    /\ tickAt \in {"rest", "lock", "post"}
    /\ stopAt \in {"rest", "lock", "done"}
    /\ pumpAt \in {"none", "posted", "take", "collect", "send", "sending", "finish", "twice"}
    /\ delivered \in [Endpoints -> Snapshots]

SnapshotInit ==
    /\ stopped = FALSE
    /\ pending = 0
    /\ scheduled = FALSE
    /\ active = 0
    /\ destinations = {}
    /\ endpoints = {}
    /\ offered = 0
    /\ tickAt = "rest"
    /\ stopAt = "rest"
    /\ pumpAt = "none"
    /\ delivered = [e \in Endpoints |-> 0]

-----------------------------------------------------------------------------
(* SendSnapshot, on the tick's thread.                                     *)

\* The first look at stopped_, before the snapshot is copied.
Offer ==
    /\ tickAt = "rest"
    /\ offered < MaxSnapshots
    /\ offered' = offered + 1
    /\ tickAt' = IF stopped THEN "rest" ELSE "lock"
    /\ UNCHANGED <<stopped, pending, scheduled, active, destinations, endpoints, stopAt,
                   pumpAt, delivered>>

\* Mutant of Accept: stopped_ is not looked at again under the lock.
AcceptUnchecked ==
    /\ tickAt = "lock"
    /\ pending' = offered
    /\ scheduled' = TRUE
    /\ tickAt' = IF scheduled THEN "rest" ELSE "post"
    /\ UNCHANGED <<stopped, active, destinations, endpoints, offered, stopAt, pumpAt, delivered>>

\* Under snapshotMutex_: the snapshot replaces the pending one; the pump is posted
\* unless it is scheduled already.
Accept ==
    /\ tickAt = "lock"
    /\ IF stopped
       THEN /\ tickAt' = "rest"
            /\ UNCHANGED <<pending, scheduled>>
       ELSE /\ pending' = offered
            /\ scheduled' = TRUE
            /\ tickAt' = IF scheduled THEN "rest" ELSE "post"
    /\ UNCHANGED <<stopped, active, destinations, endpoints, offered, stopAt, pumpAt, delivered>>

\* dispatch(strand_, PumpSnapshotOnStrand).  "twice": a pump is already there.
Post ==
    /\ tickAt = "post"
    /\ tickAt' = "rest"
    /\ pumpAt' = IF pumpAt = "none" THEN "posted" ELSE "twice"
    /\ UNCHANGED <<stopped, pending, scheduled, active, destinations, endpoints, offered,
                   stopAt, delivered>>

-----------------------------------------------------------------------------
(* The pump, on the strand.                                                *)

\* PumpSnapshotOnStrand looks at stopped_ and gives up, or goes on to the lock.
Pump ==
    /\ pumpAt \in {"posted", "finish"}
    /\ active' = 0
    /\ destinations' = {}
    /\ IF stopped
       THEN pending' = 0 /\ scheduled' = FALSE /\ pumpAt' = "none"
       ELSE pumpAt' = "take" /\ UNCHANGED <<pending, scheduled>>
    /\ UNCHANGED <<stopped, endpoints, offered, tickAt, stopAt, delivered>>

\* Mutant of Take: snapshotPumpScheduled_ survives the end of the pump.
TakeStaysScheduled ==
    /\ pumpAt = "take"
    /\ active' = pending
    /\ pending' = 0
    /\ pumpAt' = IF pending = 0 THEN "none" ELSE "collect"
    /\ UNCHANGED <<stopped, scheduled, destinations, endpoints, offered, tickAt, stopAt, delivered>>

\* Mutant of Take: the snapshot is copied instead of moved out.
TakeCopies ==
    /\ pumpAt = "take"
    /\ active' = pending
    /\ pumpAt' = IF pending = 0 THEN "none" ELSE "collect"
    /\ scheduled' = (pending # 0)
    /\ UNCHANGED <<stopped, pending, destinations, endpoints, offered, tickAt, stopAt, delivered>>

\* Under snapshotMutex_: the pump takes the pending snapshot, or ends.
Take ==
    /\ pumpAt = "take"
    /\ active' = pending
    /\ pending' = 0
    /\ pumpAt' = IF pending = 0 THEN "none" ELSE "collect"
    /\ scheduled' = IF pending = 0 THEN FALSE ELSE scheduled
    /\ UNCHANGED <<stopped, destinations, endpoints, offered, tickAt, stopAt, delivered>>

\* Under stateMutex_: the endpoints of this moment are the destinations.
Collect ==
    /\ pumpAt = "collect"
    /\ destinations' = endpoints
    /\ pumpAt' = "send"
    /\ UNCHANGED <<stopped, pending, scheduled, active, endpoints, offered, tickAt, stopAt,
                   delivered>>

\* SendSnapshotToNextEndpoint; FinishSnapshotOnStrand runs the pump again.
SendNext ==
    /\ pumpAt = "send"
    /\ pumpAt' = IF stopped \/ destinations = {} THEN "finish" ELSE "sending"
    /\ UNCHANGED <<stopped, pending, scheduled, active, destinations, endpoints, offered,
                   tickAt, stopAt, delivered>>

\* The completion of async_send_to, with or without an error.
Sent ==
    /\ pumpAt = "sending"
    /\ \E e \in destinations :
          /\ destinations' = destinations \ {e}
          /\ delivered' \in {delivered, [delivered EXCEPT ![e] = active]}
    /\ pumpAt' = "send"
    /\ UNCHANGED <<stopped, pending, scheduled, active, endpoints, offered, tickAt, stopAt>>

-----------------------------------------------------------------------------
(* Stop, on any thread.                                                    *)

\* stopped_.exchange(true)
StopFlag ==
    /\ stopAt = "rest"
    /\ stopped' = TRUE
    /\ stopAt' = "lock"
    /\ UNCHANGED <<pending, scheduled, active, destinations, endpoints, offered, tickAt,
                   pumpAt, delivered>>

\* Under snapshotMutex_; closing the socket lets a send in progress complete.
StopClear ==
    /\ stopAt = "lock"
    /\ stopAt' = "done"
    /\ pending' = 0
    /\ scheduled' = FALSE
    /\ UNCHANGED <<stopped, active, destinations, endpoints, offered, tickAt, pumpAt, delivered>>

\* Clients authenticate and disappear.
EndpointsChange ==
    /\ endpoints' \in SUBSET Endpoints
    /\ UNCHANGED <<stopped, pending, scheduled, active, destinations, offered, tickAt, stopAt,
                   pumpAt, delivered>>

PumpStep == Pump \/ Take \/ Collect \/ SendNext \/ Sent
TickStep == Accept \/ Post
StopStep == StopClear

SnapshotNext ==
    \/ Offer \/ TickStep
    \/ PumpStep
    \/ StopFlag \/ StopStep
    \/ EndpointsChange

SnapshotSpec == SnapshotInit /\ [][SnapshotNext]_pumpVars

\* The strand and the threads inside SendSnapshot and Stop are scheduled, and a send
\* completes.  The tick need not offer anything and nobody need stop the session.
FairSnapshotSpec ==
    /\ SnapshotSpec
    /\ WF_pumpVars(PumpStep)
    /\ WF_pumpVars(TickStep)
    /\ WF_pumpVars(StopStep)
-----------------------------------------------------------------------------
PumpRunning == pumpAt \notin {"none", "twice"}

\* The pump runs once at a time: activeSnapshot_ and snapshotDestinations_ have no
\* lock and are safe only because a second pump is never started.
SinglePump == pumpAt # "twice"

\* No lost wakeup: a snapshot that waits has a pump coming, unless the session is
\* being stopped.
PendingHasPump == pending # 0 => PumpRunning \/ tickAt = "post" \/ stopped

\* A waiting snapshot has exactly one pump.
OnePumpForPending == SinglePump /\ PendingHasPump

\* After Stop nothing waits, whatever SendSnapshot was doing meanwhile.
StopDrains == stopAt = "done" => pending = 0 /\ ~scheduled

\* Every endpoint is sent newer and newer snapshots: the waiting one is newer than
\* the one being sent, which is at least as new as any that was sent before.
PendingIsNewer ==
    \A e \in Endpoints :
        /\ pending # 0 => pending > active /\ pending > delivered[e]
        /\ active # 0 => active >= delivered[e]

\* Every snapshot accepted is taken by the pump or replaced by a newer one.
SnapshotTaken == \A n \in 1..MaxSnapshots : pending = n ~> pending # n
=============================================================================
