------------------------- MODULE DungeonUdpSession --------------------------
(***************************************************************************)
(* The UDP endpoint of one dungeon (src/DungeonUdpSession.cpp): tokens,    *)
(* authenticated endpoints, their activity, and the queues of player       *)
(* inputs waiting for the tick.  Everything here is guarded by stateMutex_ *)
(* and each operation is one critical section.  Movements and attacks are  *)
(* handled by the same code and differ in Kinds only.                      *)
(*                                                                         *)
(* A client numbers its inputs 1, 2, 3, ... and a datagram carries that    *)
(* number as 32 bits, where 0 is skipped.  The model keeps the true number *)
(* of an input beside the one on the wire, to say what the wrapped         *)
(* comparison must mean.  The network may lose, duplicate, delay and       *)
(* reorder datagrams within Window.                                        *)
(***************************************************************************)
EXTENDS Integers, Sequences, FiniteSets

CONSTANTS
    Sessions,        \* session ids
    Tokens,          \* 64-bit tokens
    Addresses,       \* UDP addresses datagrams come from
    Kinds,           \* movement and attack
    None,
    HalfRange,       \* SEQUENCE_HALF_RANGE; a sequence number is modulo 2 * HalfRange
    MaxPending,      \* MAX_PENDING_DUNGEON_MOVEMENTS, MAX_PENDING_DUNGEON_ATTACKS
    IdleTimeout,     \* udpIdleTimeout_, in units of time
    Window,          \* how far behind the newest input a datagram may arrive
    MaxInput         \* bound on the inputs of one client

ASSUME UdpSessionAssumption ==
    /\ HalfRange \in Nat \ {0}
    /\ MaxPending \in Nat \ {0}
    /\ IdleTimeout \in Nat \ {0}
    /\ Window \in 0..(HalfRange - 1)
    /\ MaxInput \in Nat
    /\ None \notin Sessions /\ None \notin Tokens /\ None \notin Addresses /\ None \notin Int

VARIABLES
    tokens,          \* tokens_
    endpoints,       \* endpoints_
    lastActivity,    \* now - lastActivity_[s]
    lastSequences,   \* lastMovementSequences_, lastAttackSequences_
    pending,         \* pendingMovements_, pendingAttacks_
    sent,            \* client side: the inputs sent so far
    accepted         \* the true number of the input behind lastSequences

stateVars  == <<tokens, endpoints, lastActivity, lastSequences, pending>>
udpSessionVars == <<stateVars, sent, accepted>>

Input == [session : Sessions, number : 1..MaxInput]

\* The 32-bit sequence number of an input: NextSequence of the client goes from the
\* largest number to 1.
OnWire(number) == 1 + ((number - 1) % (2 * HalfRange - 1))

UdpSessionTypeOK ==
    /\ tokens \in [Sessions -> Tokens \cup {None}]
    /\ endpoints \in [Sessions -> Addresses \cup {None}]
    /\ lastActivity \in [Sessions -> (0..IdleTimeout) \cup {None}]
    /\ lastSequences \in [Kinds -> [Sessions -> 0..(2 * HalfRange - 1) \cup {None}]]
    /\ pending \in [Kinds -> Seq(Input)]
    /\ sent \in [Kinds -> [Sessions -> 0..MaxInput]]
    /\ accepted \in [Kinds -> [Sessions -> 0..MaxInput]]

\* The constructor: the participants of a new dungeon have distinct tokens.
UdpSessionInit ==
    /\ tokens \in [Sessions -> Tokens \cup {None}]
    /\ \A s, r \in Sessions : tokens[s] = tokens[r] => s = r \/ tokens[s] = None
    /\ endpoints = [s \in Sessions |-> None]
    /\ lastActivity = [s \in Sessions |-> None]
    /\ lastSequences = [k \in Kinds |-> [s \in Sessions |-> None]]
    /\ pending = [k \in Kinds |-> <<>>]
    /\ sent = [k \in Kinds |-> [s \in Sessions |-> 0]]
    /\ accepted = [k \in Kinds |-> [s \in Sessions |-> 0]]

-----------------------------------------------------------------------------
\* The places in ascending order.
InOrder(places) ==
    CHOOSE place \in [1..Cardinality(places) -> places] :
        \A i, j \in DOMAIN place : i < j => place[i] < place[j]

\* std::remove_if: the inputs of the others, in the order in which they wait.
WithoutInputsOf(gone, queue) ==
    LET place == InOrder({i \in DOMAIN queue : queue[i].session \notin gone})
    IN  [i \in DOMAIN place |-> queue[place[i]]]

\* Mutant of RemoveParticipantRuntimeState: the participants' activity entries survive.
RemoveKeepsActivity(gone) ==
    /\ endpoints' = [s \in Sessions |-> IF s \in gone THEN None ELSE endpoints[s]]
    /\ lastActivity' = lastActivity
    /\ lastSequences' = [k \in Kinds |-> [s \in Sessions |->
           IF s \in gone THEN None ELSE lastSequences[k][s]]]
    /\ pending' = [k \in Kinds |-> WithoutInputsOf(gone, pending[k])]
    /\ accepted' = [k \in Kinds |-> [s \in Sessions |-> IF s \in gone THEN 0 ELSE accepted[k][s]]]

\* RemoveParticipantRuntimeStateLocked, for a set of participants.
RemoveParticipantRuntimeState(gone) ==
    /\ endpoints' = [s \in Sessions |-> IF s \in gone THEN None ELSE endpoints[s]]
    /\ lastActivity' = [s \in Sessions |-> IF s \in gone THEN None ELSE lastActivity[s]]
    /\ lastSequences' = [k \in Kinds |-> [s \in Sessions |->
           IF s \in gone THEN None ELSE lastSequences[k][s]]]
    /\ pending' = [k \in Kinds |-> WithoutInputsOf(gone, pending[k])]
    /\ accepted' = [k \in Kinds |-> [s \in Sessions |-> IF s \in gone THEN 0 ELSE accepted[k][s]]]

DisconnectParticipant(s) ==
    /\ tokens[s] # None
    /\ RemoveParticipantRuntimeState({s})
    /\ UNCHANGED <<tokens, sent>>

RemoveParticipant(s) ==
    /\ tokens[s] # None
    /\ RemoveParticipantRuntimeState({s})
    /\ tokens' = [tokens EXCEPT ![s] = None]
    /\ UNCHANGED sent

\* Mutant of ReplaceParticipant: the replaced session's token stays valid.
ReplaceKeepsToken(old, new, token) ==
    /\ old # new
    /\ tokens[old] # None /\ tokens[new] = None
    /\ \A s \in Sessions : tokens[s] # token
    /\ RemoveParticipantRuntimeState({old})
    /\ tokens' = [tokens EXCEPT ![new] = token]
    /\ UNCHANGED sent

\* ReplaceParticipant; the caller tries another token when this one is taken.
ReplaceParticipant(old, new, token) ==
    /\ old # new
    /\ tokens[old] # None /\ tokens[new] = None
    /\ \A s \in Sessions : tokens[s] # token
    /\ RemoveParticipantRuntimeState({old})
    /\ tokens' = [tokens EXCEPT ![old] = None, ![new] = token]
    /\ UNCHANGED sent

Active(s) == lastActivity' = [lastActivity EXCEPT ![s] = 0]

\* RefreshAllActivity
RefreshAllActivity ==
    /\ lastActivity' = [s \in Sessions |-> IF endpoints[s] = None THEN lastActivity[s] ELSE 0]
    /\ UNCHANGED <<tokens, endpoints, lastSequences, pending, sent, accepted>>

\* RemoveInactiveEndpoints
RemoveInactiveEndpoints ==
    /\ RemoveParticipantRuntimeState({s \in Sessions : lastActivity[s] = IdleTimeout})
    /\ UNCHANGED <<tokens, sent>>

-----------------------------------------------------------------------------
\* HandleHello answers Success.
CanAuthenticate(s, token, from) == tokens[s] = token /\ endpoints[s] \in {None, from}

\* Environment: a client's socket speaks for one session.  Inputs are attributed to
\* the first session registered at their address, in hash order.
AddressIsOwn(s, from) == \A r \in Sessions \ {s} : endpoints[r] # from

\* HandleHello; any other Hello changes nothing.
HandleHello(s, token, from) ==
    /\ AddressIsOwn(s, from)
    /\ CanAuthenticate(s, token, from)
    /\ endpoints' = [endpoints EXCEPT ![s] = from]
    /\ Active(s)
    /\ UNCHANGED <<tokens, lastSequences, pending, sent, accepted>>

HandleHeartbeat(s, from) ==
    /\ endpoints[s] = from
    /\ Active(s)
    /\ UNCHANGED <<tokens, endpoints, lastSequences, pending, sent, accepted>>

\* Mutant of IsNewerSequence: the counter is taken not to wrap.
IsGreater(candidate, previous) == candidate > previous

IsNewerSequence(candidate, previous) ==
    LET distance == (candidate - previous) % (2 * HalfRange)
    IN  distance # 0 /\ distance < HalfRange

HasQueueRoom(k) == Len(pending[k]) < MaxPending

Accepts(k, s, number) ==
    /\ HasQueueRoom(k)
    /\ lastSequences[k][s] = None \/ IsNewerSequence(OnWire(number), lastSequences[k][s])

\* The client sends its next input.  It stays within half the range of the last one
\* accepted: at 30 inputs a second it would take two years without an accepted one,
\* and an idle timeout forgets the sequence after 5 s, to leave it.
SendInput(k, s) ==
    /\ sent[k][s] < MaxInput
    /\ sent[k][s] - accepted[k][s] < HalfRange - 2 \/ accepted[k][s] = 0
    /\ sent' = [sent EXCEPT ![k][s] = @ + 1]
    /\ UNCHANGED <<stateVars, accepted>>

\* HandlePlayerMovement, HandlePlayerAttack: a datagram arrives from the address
\* registered for s, perhaps late or repeated.
HandleInput(k, s, number) ==
    /\ number \in 1..sent[k][s]
    /\ number > sent[k][s] - Window
    /\ endpoints[s] # None
    /\ Active(s)
    /\ IF Accepts(k, s, number)
       THEN /\ lastSequences' = [lastSequences EXCEPT ![k][s] = OnWire(number)]
            /\ accepted' = [accepted EXCEPT ![k][s] = number]
            /\ pending' = [pending EXCEPT ![k] = Append(@, [session |-> s, number |-> number])]
       ELSE UNCHANGED <<lastSequences, accepted, pending>>
    /\ UNCHANGED <<tokens, endpoints, sent>>

\* TryPopMovement, TryPopAttack
TryPop(k) ==
    /\ pending[k] # <<>>
    /\ pending' = [pending EXCEPT ![k] = Tail(@)]
    /\ UNCHANGED <<tokens, endpoints, lastActivity, lastSequences, sent, accepted>>

\* One unit of time passes.
ElapseUdp ==
    /\ lastActivity' = [s \in Sessions |->
           IF lastActivity[s] \in {None, IdleTimeout} THEN lastActivity[s] ELSE lastActivity[s] + 1]
    /\ UNCHANGED <<tokens, endpoints, lastSequences, pending, sent, accepted>>

UdpSessionNext ==
    \/ \E s \in Sessions : DisconnectParticipant(s) \/ RemoveParticipant(s)
    \/ \E old, new \in Sessions, token \in Tokens : ReplaceParticipant(old, new, token)
    \/ RefreshAllActivity
    \/ RemoveInactiveEndpoints
    \/ \E s \in Sessions, token \in Tokens, from \in Addresses : HandleHello(s, token, from)
    \/ \E s \in Sessions, from \in Addresses : HandleHeartbeat(s, from)
    \/ \E k \in Kinds, s \in Sessions : SendInput(k, s)
    \/ \E k \in Kinds, s \in Sessions, number \in 1..MaxInput : HandleInput(k, s, number)
    \/ \E k \in Kinds : TryPop(k)
    \/ ElapseUdp

UdpSessionSpec == UdpSessionInit /\ [][UdpSessionNext]_udpSessionVars
-----------------------------------------------------------------------------
\* lastActivity_ has exactly the authenticated participants, and they hold tokens:
\* RemoveInactiveEndpoints walks lastActivity_ and would never time out an endpoint
\* missing from it; AllParticipantsAuthenticated compares only map sizes.
ActivityTracksEndpoints ==
    \A s \in Sessions :
        /\ lastActivity[s] # None <=> endpoints[s] # None
        /\ endpoints[s] # None => tokens[s] # None

\* An input waiting for the tick belongs to a participant that is authenticated now:
\* nothing a participant sent before it was disconnected, replaced or timed out is
\* applied afterwards.
PendingFromAuthenticated ==
    \A k \in Kinds : \A i \in DOMAIN pending[k] : endpoints[pending[k][i].session] # None

\* Across a wrap of the 32-bit counter, an input is accepted exactly when it is newer
\* than every one accepted since the endpoint was registered and the queue has room:
\* no duplicate or overtaken datagram is applied again, and the wrap does not make a
\* client mute.
AcceptsExactlyNewer ==
    \A k \in Kinds, s \in Sessions, number \in 1..MaxInput :
        number \in (sent[k][s] - Window + 1)..sent[k][s] =>
            (Accepts(k, s, number) <=> HasQueueRoom(k) /\ number > accepted[k][s])

\* The inputs of one participant wait in the order in which it sent them.
PendingInOrder ==
    \A k \in Kinds : \A i, j \in DOMAIN pending[k] :
        i < j /\ pending[k][i].session = pending[k][j].session
            => pending[k][i].number < pending[k][j].number

\* No runtime state of a participant outlives its endpoint.
RuntimeStateClean == ActivityTracksEndpoints /\ PendingFromAuthenticated

Waiting(k) == {pending[k][i] : i \in DOMAIN pending[k]}

\* What a step adds to a queue is newer than everything accepted from its sender, and
\* is remembered as accepted; the server forgets what it accepted only where it leaves
\* the session without an endpoint.
QueuesOnlyNewer ==
    \A k \in Kinds :
        /\ \A input \in Waiting(k)' \ Waiting(k) :
              /\ input.number > accepted[k][input.session]
              /\ input.number = accepted'[k][input.session]
        /\ \A s \in Sessions : accepted'[k][s] < accepted[k][s] => endpoints'[s] = None

\* Within one registration of an endpoint inputs are applied at most once and in the
\* order in which they were sent, whatever the network repeats, loses or reorders.
\* The removal of the endpoint forgets the sequences and keeps the token
\* (RemoveParticipantRuntimeStateLocked), so after a repeated Hello a datagram of the
\* registration before is taken for a new one: across registrations nothing is said.
InputsOnceInOrder ==
    /\ [](AcceptsExactlyNewer /\ PendingInOrder)
    /\ [][QueuesOnlyNewer]_udpSessionVars

\* The endpoint as DungeonUdpManager shows it to the rest of the server.
Manager == INSTANCE DungeonUdpManager WITH
    Players <- {}, MaxParties <- 0, MaxDungeons <- 1,
    udpAllocated <- {1},
    udpTokens <- <<{s \in Sessions : tokens[s] # None}>>,
    udpEndpoints <- <<{s \in Sessions : endpoints[s] # None}>>

\* This endpoint does what the rest of the server takes it to do: seen through the
\* sessions that hold a token and those that are authenticated, every step is a step
\* of DungeonUdpManager or invisible.
ImplementsManager == [][Manager!UdpNext]_(Manager!udpVars)
=============================================================================
