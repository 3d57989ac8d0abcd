---------------------------- MODULE PartyManager ----------------------------
(***************************************************************************)
(* The parties of the game lobby (src/PartyManager.cpp).  Every operation  *)
(* of the class runs under one mutex, so each is one action.  Session ids  *)
(* are the connections of src/SessionManager.cpp; the value None stands    *)
(* for an absent map entry or an empty std::optional.                      *)
(***************************************************************************)
EXTENDS ServerIds, Sequences, FiniteSets

CONSTANT MaxPartyMembers   \* MAX_PARTY_MEMBERS

ASSUME PartyAssumption == MaxPartyMembers \in Nat \ {0}

VARIABLES
    parties,           \* parties_: the leader and the members, in joining order
    joinedParties,     \* joinedParties_: the party of each session
    nextPartyId        \* nextPartyId_

partyVars == <<parties, joinedParties, nextPartyId>>

\* PartyInfo; a party that is not in parties_ has no leader and no member.
NoParty == [leader |-> None, members |-> <<>>]

PartyExists(p) == parties[p].members # <<>>

MembersOf(p) == {parties[p].members[i] : i \in DOMAIN parties[p].members}

PartyTypeOK ==
    /\ parties \in [PartyIds -> [leader : Sessions \cup {None}, members : Seq(Sessions)]]
    /\ joinedParties \in [Sessions -> PartyIds \cup {None}]
    /\ nextPartyId \in 1..(MaxParties + 1)

PartyInit ==
    /\ parties = [p \in PartyIds |-> NoParty]
    /\ joinedParties = [s \in Sessions |-> None]
    /\ nextPartyId = 1

-----------------------------------------------------------------------------
\* CreateParty: refused while the caller is in a party.
CreateParty(s) ==
    /\ joinedParties[s] = None
    /\ nextPartyId <= MaxParties
    /\ parties' = [parties EXCEPT ![nextPartyId] = [leader |-> s, members |-> <<s>>]]
    /\ joinedParties' = [joinedParties EXCEPT ![s] = nextPartyId]
    /\ nextPartyId' = nextPartyId + 1

HasRoom(p) == Len(parties[p].members) < MaxPartyMembers

\* Mutant of JoinParty: the newest member leads.
JoinPartyLeads(p, s) ==
    /\ PartyExists(p)
    /\ joinedParties[s] = None
    /\ HasRoom(p)
    /\ parties' = [parties EXCEPT ![p] = [leader |-> s, members |-> Append(@.members, s)]]
    /\ joinedParties' = [joinedParties EXCEPT ![s] = p]
    /\ UNCHANGED nextPartyId

\* JoinParty: PartyNotFound, AlreadyJoined and PartyFull change nothing.
JoinParty(p, s) ==
    /\ PartyExists(p)
    /\ joinedParties[s] = None
    /\ HasRoom(p)
    /\ parties' = [parties EXCEPT ![p] = [leader |-> @.leader, members |-> Append(@.members, s)]]
    /\ joinedParties' = [joinedParties EXCEPT ![s] = p]
    /\ UNCHANGED nextPartyId

\* The members without s, in the same order (std::remove; a session is in the
\* vector at most once, which MembershipConsistent states).
Erase(members, s) ==
    LET k == CHOOSE i \in DOMAIN members : members[i] = s
    IN  [i \in 1..(Len(members) - 1) |-> IF i < k THEN members[i] ELSE members[i + 1]]

\* Mutant of PartyWithout: the departed leader is kept.
PartyWithoutKeepsLeader(party, s) ==
    LET rest == Erase(party.members, s)
    IN  IF rest = <<>> THEN NoParty ELSE [leader |-> party.leader, members |-> rest]

\* The party after s has left it: gone when empty, otherwise led by its
\* longest-standing member if the leader left.
PartyWithout(party, s) ==
    LET rest == Erase(party.members, s)
    IN  IF rest = <<>>
        THEN NoParty
        ELSE [leader  |-> IF party.leader = s THEN rest[1] ELSE party.leader,
              members |-> rest]

\* LeaveParty: returns false and changes nothing when s is in no party.
LeaveParty(s) ==
    IF joinedParties[s] = None
    THEN UNCHANGED partyVars
    ELSE /\ parties' = [parties EXCEPT ![joinedParties[s]] = PartyWithout(@, s)]
         /\ joinedParties' = [joinedParties EXCEPT ![s] = None]
         /\ UNCHANGED nextPartyId

PartyNext ==
    \E s \in Sessions :
        \/ CreateParty(s)
        \/ \E p \in PartyIds : JoinParty(p, s)
        \/ LeaveParty(s)

PartySpec == PartyInit /\ [][PartyNext]_partyVars
-----------------------------------------------------------------------------
\* parties_ and joinedParties_ describe the same memberships: the members of a
\* party are exactly the sessions whose joinedParties_ entry names it, and no
\* session is listed twice (PartyManager.cpp keeps the two maps by hand).
MembershipConsistent ==
    \A p \in PartyIds :
        /\ MembersOf(p) = {s \in Sessions : joinedParties[s] = p}
        /\ \A i, j \in DOMAIN parties[p].members :
               parties[p].members[i] = parties[p].members[j] => i = j

\* A party that exists is led by one of its members, whatever sequence of
\* joins, departures of leaders and disconnections produced it.
LeaderIsMember ==
    \A p \in PartyIds : PartyExists(p) => parties[p].leader \in MembersOf(p)

\* A party never outgrows MAX_PARTY_MEMBERS, which the DungeonInstance
\* constructor relies on (it throws on a larger roster).
PartyWithinCapacity ==
    \A p \in PartyIds : Len(parties[p].members) <= MaxPartyMembers

\* Whatever sequence of joins, departures of leaders and disconnections produced
\* them, both maps tell of the same parties, each led by a member and not too large.
PartiesConsistent == MembershipConsistent /\ LeaderIsMember /\ PartyWithinCapacity

\* Leadership passes only when the leader itself has left the party: a leader
\* check made by a session's own handler cannot be overtaken by other sessions.
LeadershipStable ==
    [][\A p \in PartyIds :
          PartyExists(p) /\ PartyExists(p)' /\ parties[p].leader # parties'[p].leader
              => parties[p].leader \notin MembersOf(p)']_partyVars

=============================================================================
