------------------------- MODULE DungeonUdpManager --------------------------
(***************************************************************************)
(* The UDP sessions of the dungeons, as the rest of the server sees them   *)
(* (src/DungeonUdpManager.cpp over src/DungeonUdpSession.cpp): which       *)
(* dungeons have one, which sessions hold a token in it and which of those *)
(* have an authenticated endpoint.  A session is given at most one token   *)
(* per dungeon, a fresh 64-bit random number, so the pair (dungeon,        *)
(* session) stands for the token.                                          *)
(***************************************************************************)
EXTENDS ServerIds

VARIABLES
    udpAllocated,     \* the keys of sessions_
    udpTokens,        \* tokens_ of each DungeonUdpSession: the sessions it holds
    udpEndpoints      \* endpoints_ of each DungeonUdpSession: the authenticated ones

udpVars == <<udpAllocated, udpTokens, udpEndpoints>>

UdpTypeOK ==
    /\ udpAllocated \in SUBSET DungeonIds
    /\ udpTokens \in [DungeonIds -> SUBSET Sessions]
    /\ udpEndpoints \in [DungeonIds -> SUBSET Sessions]

UdpInit ==
    /\ udpAllocated = {}
    /\ udpTokens = [d \in DungeonIds |-> {}]
    /\ udpEndpoints = [d \in DungeonIds |-> {}]

\* Allocate: refused for an empty roster or a second allocation; opening or binding
\* the socket may fail too (UdpAllocateFails).
UdpAllocate(d, roster) ==
    /\ d \notin udpAllocated
    /\ roster # {}
    /\ udpAllocated' = udpAllocated \cup {d}
    /\ udpTokens' = [udpTokens EXCEPT ![d] = roster]
    /\ udpEndpoints' = [udpEndpoints EXCEPT ![d] = {}]

UdpAllocateFails == UNCHANGED udpVars

\* ReplaceParticipant rotates the token of a seat from the old session to the new.
\* Sixteen colliding random tokens in a row are left out.
UdpCanReplace(d, old, new) ==
    d \in udpAllocated /\ old \in udpTokens[d] /\ new \notin udpTokens[d]

UdpReplaceParticipant(d, old, new) ==
    /\ UdpCanReplace(d, old, new)
    /\ udpTokens' = [udpTokens EXCEPT ![d] = (@ \ {old}) \cup {new}]
    /\ udpEndpoints' = [udpEndpoints EXCEPT ![d] = @ \ {old}]
    /\ UNCHANGED udpAllocated

\* DisconnectParticipant: the endpoint goes, the token stays valid.
UdpDisconnectParticipant(d, s) ==
    /\ udpEndpoints' = [udpEndpoints EXCEPT ![d] = @ \ {s}]
    /\ UNCHANGED <<udpAllocated, udpTokens>>

\* RemoveParticipant: endpoint and token go.
UdpRemoveParticipant(d, s) ==
    /\ udpEndpoints' = [udpEndpoints EXCEPT ![d] = @ \ {s}]
    /\ udpTokens' = [udpTokens EXCEPT ![d] = @ \ {s}]
    /\ UNCHANGED udpAllocated

\* RemoveInactiveEndpoints, for the sessions found idle.
UdpRemoveInactive(d, idle) ==
    /\ udpEndpoints' = [udpEndpoints EXCEPT ![d] = @ \ idle]
    /\ UNCHANGED <<udpAllocated, udpTokens>>

\* Release: the session object is erased and stopped.
UdpRelease(d) ==
    /\ udpAllocated' = udpAllocated \ {d}
    /\ udpTokens' = [udpTokens EXCEPT ![d] = {}]
    /\ udpEndpoints' = [udpEndpoints EXCEPT ![d] = {}]

\* Mutant of UdpAllAuthenticated: one endpoint is enough.
UdpSomeAuthenticated(d) == d \in udpAllocated /\ udpEndpoints[d] # {}

\* AllParticipantsAuthenticated compares the two map sizes; the endpoints are
\* those of token holders (EndpointsHoldTokens), so the sizes agree when the
\* sets do.
UdpAllAuthenticated(d) == d \in udpAllocated /\ udpEndpoints[d] = udpTokens[d]

\* HandleHello with the right token.  The datagram may be late: the token's owner
\* may have disconnected since it was sent.
UdpHello(d, s) ==
    /\ s \in udpTokens[d]
    /\ udpEndpoints' = [udpEndpoints EXCEPT ![d] = @ \cup {s}]
    /\ UNCHANGED <<udpAllocated, udpTokens>>

UdpNext ==
    \E d \in DungeonIds :
        \/ \E roster \in SUBSET Sessions : UdpAllocate(d, roster)
        \/ \E old, new \in Sessions : UdpReplaceParticipant(d, old, new)
        \/ \E s \in Sessions :
              UdpDisconnectParticipant(d, s) \/ UdpRemoveParticipant(d, s) \/ UdpHello(d, s)
        \/ \E idle \in SUBSET Sessions : UdpRemoveInactive(d, idle)
        \/ UdpRelease(d)
=============================================================================
