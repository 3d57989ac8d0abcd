--------------------------- MODULE ManagerProofs ----------------------------
(***************************************************************************)
(* Proofs about the party manager and the dungeon manager, each on its own *)
(* and for any number of sessions, players, parties, members and dungeons  *)
(* and any time limits.  GameServerProofs builds on both.                  *)
(***************************************************************************)
EXTENDS PartyManager, DungeonManager, TLAPS

(* The party manager.                                                      *)

\* No party has been created yet under the ids from nextPartyId_ upwards.
FutureIdsEmpty == \A p \in PartyIds : p >= nextPartyId => parties[p] = NoParty

\* The inductive invariant: creation needs FutureIdsEmpty (it must not overwrite
\* a party), and a departure needs MembershipConsistent (the leaver is found in
\* the vector exactly once).
PartyInv ==
    /\ PartyTypeOK
    /\ MembershipConsistent
    /\ LeaderIsMember
    /\ PartyWithinCapacity
    /\ FutureIdsEmpty

\* What the proofs use of the identifiers.
LEMMA PartyFacts ==
    /\ None \notin Sessions
    /\ None \notin PartyIds
    /\ MaxParties \in Nat
    /\ MaxPartyMembers \in Nat \ {0}
BY IdAssumption, PartyAssumption DEF PartyIds

Elements(m) == {m[i] : i \in DOMAIN m}

Distinct(m) == \A i, j \in DOMAIN m : m[i] = m[j] => i = j

\* Erasing a listed session removes exactly it and keeps the others distinct
\* (the std::remove / erase pair of LeaveParty).
LEMMA EraseProperties ==
    ASSUME NEW m \in Seq(Sessions), NEW s \in Elements(m), Distinct(m)
    PROVE  /\ Erase(m, s) \in Seq(Sessions)
           /\ Len(Erase(m, s)) = Len(m) - 1
           /\ Elements(Erase(m, s)) = Elements(m) \ {s}
           /\ Distinct(Erase(m, s))
<1> DEFINE k == CHOOSE i \in DOMAIN m : m[i] = s
           r == Erase(m, s)
<1>1. k \in DOMAIN m /\ m[k] = s
  BY DEF Elements
<1>2. DOMAIN m = 1..Len(m) /\ Len(m) \in Nat
  OBVIOUS
<1>3. r = [i \in 1..(Len(m) - 1) |-> IF i < k THEN m[i] ELSE m[i + 1]]
  BY DEF Erase
<1> HIDE DEF k, r
<1>4. r \in Seq(Sessions) /\ Len(r) = Len(m) - 1 /\ DOMAIN r = 1..(Len(m) - 1)
  <2>1. \A i \in 1..(Len(m) - 1) : r[i] \in Sessions
    BY <1>1, <1>2, <1>3
  <2>2. Len(m) - 1 \in Nat
    BY <1>1, <1>2
  <2> QED
    BY <2>1, <2>2, <1>3
<1>5. Distinct(r)
  BY SMTT(40), <1>1, <1>2, <1>3, <1>4 DEF Distinct
<1>6. Elements(r) = Elements(m) \ {s}
  <2>1. ASSUME NEW x \in Elements(r) PROVE x \in Elements(m) \ {s}
    <3>1. PICK i \in 1..(Len(m) - 1) : x = r[i]
      BY <1>4 DEF Elements
    <3>2. CASE i < k
      <4>1. x = m[i] /\ i \in DOMAIN m /\ i # k
        BY <1>1, <1>2, <1>3, <3>1, <3>2
      <4> QED  BY <1>1, <4>1 DEF Elements, Distinct
    <3>3. CASE ~(i < k)
      <4>1. x = m[i + 1] /\ i + 1 \in DOMAIN m /\ i + 1 # k
        BY <1>1, <1>2, <1>3, <3>1, <3>3
      <4> QED  BY <1>1, <4>1 DEF Elements, Distinct
    <3> QED  BY <3>2, <3>3
  <2>2. ASSUME NEW x \in Elements(m) \ {s} PROVE x \in Elements(r)
    <3>1. PICK i \in 1..Len(m) : x = m[i]
      BY <1>2 DEF Elements
    <3>2. i # k
      BY <1>1, <3>1
    <3>3. CASE i < k
      <4>1. i \in DOMAIN r /\ r[i] = x
        BY <1>1, <1>2, <1>3, <1>4, <3>1, <3>3
      <4> QED  BY <4>1 DEF Elements
    <3>4. CASE i > k
      <4>1. i - 1 \in DOMAIN r /\ r[i - 1] = x
        BY <1>1, <1>2, <1>3, <1>4, <3>1, <3>4
      <4> QED  BY <4>1 DEF Elements
    <3> QED  BY <1>1, <1>2, <3>2, <3>3, <3>4
  <2> QED  BY <2>1, <2>2
<1> QED  BY <1>4, <1>5, <1>6 DEF r

\* A new server has no parties.
LEMMA PartyInitially == PartyInit => PartyInv
<1> SUFFICES ASSUME PartyInit PROVE PartyInv
  OBVIOUS
<1> USE PartyFacts DEF PartyInit, NoParty, PartyIds
<1>1. PartyTypeOK
  BY DEF PartyTypeOK
<1>2. MembershipConsistent /\ LeaderIsMember /\ PartyWithinCapacity /\ FutureIdsEmpty
  BY DEF MembershipConsistent, LeaderIsMember, PartyWithinCapacity, FutureIdsEmpty,
         MembersOf, PartyExists
<1> QED  BY <1>1, <1>2 DEF PartyInv

\* CreateParty keeps the two maps in agreement.
LEMMA CreatePartyPreserves ==
    ASSUME PartyInv, NEW s \in Sessions, CreateParty(s)
    PROVE  PartyInv'
<1> USE PartyFacts DEF PartyInv
<1>a. PICK n \in PartyIds : n = nextPartyId
  BY DEF CreateParty, PartyTypeOK, PartyIds
<1>0. n \in PartyIds /\ n \in Nat /\ parties[n] = NoParty
  BY <1>a DEF PartyIds, FutureIdsEmpty
<1>1. /\ parties' = [parties EXCEPT ![n] = [leader |-> s, members |-> <<s>>]]
      /\ joinedParties' = [joinedParties EXCEPT ![s] = n]
      /\ nextPartyId' = n + 1 /\ joinedParties[s] = None /\ n <= MaxParties
  BY <1>a DEF CreateParty
<1>2. PartyTypeOK'
  BY <1>0, <1>1 DEF PartyTypeOK, PartyIds
<1>3. parties'[n].members = <<s>> /\ parties'[n].leader = s
  BY <1>0, <1>1 DEF PartyTypeOK
<1>4. \A p \in PartyIds : p # n => parties'[p] = parties[p]
  BY <1>0, <1>1 DEF PartyTypeOK
<1>5. MembersOf(n)' = {s} /\ MembersOf(n) = {}
  <2>1. DOMAIN <<s>> = {1} /\ <<s>>[1] = s
    OBVIOUS
  <2>2. MembersOf(n)' = {<<s>>[i] : i \in {1}}
    BY <1>3, <2>1 DEF MembersOf
  <2>3. MembersOf(n) = {}
    BY <1>0 DEF MembersOf, NoParty
  <2> QED  BY <2>1, <2>2, <2>3
<1>6. MembershipConsistent'
  <2>1. MembersOf(n)' = {t \in Sessions : joinedParties'[t] = n}
    BY <1>0, <1>1, <1>5 DEF MembershipConsistent, PartyTypeOK
  <2>2. \A p \in PartyIds : p # n =>
            MembersOf(p)' = {t \in Sessions : joinedParties'[t] = p}
    <3> SUFFICES ASSUME NEW p \in PartyIds, p # n
                 PROVE  MembersOf(p)' = {t \in Sessions : joinedParties'[t] = p}
      OBVIOUS
    <3>1. MembersOf(p)' = MembersOf(p)
      BY <1>4 DEF MembersOf
    <3>2. \A t \in Sessions : joinedParties'[t] = p <=> joinedParties[t] = p
      BY <1>1 DEF PartyTypeOK
    <3> QED  BY <3>1, <3>2 DEF MembershipConsistent
  <2>3. \A i, j \in DOMAIN parties'[n].members : i = j
    BY <1>3
  <2>4. \A p \in PartyIds : p # n =>
            \A i, j \in DOMAIN parties'[p].members :
                parties'[p].members[i] = parties'[p].members[j] => i = j
    BY <1>4 DEF MembershipConsistent
  <2> QED
    BY <2>1, <2>2, <2>3, <2>4, <1>4 DEF MembershipConsistent
<1>7. LeaderIsMember'
  BY <1>3, <1>4, <1>5 DEF LeaderIsMember, PartyExists, MembersOf
<1>8. PartyWithinCapacity'
  <2>1. Len(parties'[n].members) <= MaxPartyMembers
    BY <1>3
  <2>2. \A p \in PartyIds : p # n => Len(parties'[p].members) <= MaxPartyMembers
    BY <1>4 DEF PartyWithinCapacity
  <2> QED  BY <2>1, <2>2 DEF PartyWithinCapacity
<1>9. FutureIdsEmpty'
  BY <1>a, <1>0, <1>1, <1>4 DEF FutureIdsEmpty, PartyIds
<1> QED  BY <1>2, <1>6, <1>7, <1>8, <1>9

\* JoinParty keeps the two maps in agreement and respects the capacity.
LEMMA JoinPartyPreserves ==
    ASSUME PartyInv, NEW s \in Sessions, NEW p \in PartyIds, JoinParty(p, s)
    PROVE  PartyInv'
<1> USE PartyFacts DEF PartyInv
<1> DEFINE m == parties[p].members
<1>1. /\ parties' = [parties EXCEPT ![p] = [leader |-> parties[p].leader, members |-> Append(m, s)]]
      /\ joinedParties' = [joinedParties EXCEPT ![s] = p]
      /\ nextPartyId' = nextPartyId /\ joinedParties[s] = None
      /\ m # <<>> /\ Len(m) < MaxPartyMembers
  BY DEF JoinParty, HasRoom, PartyExists
<1>2. m \in Seq(Sessions) /\ parties[p] \in [leader : Sessions \cup {None}, members : Seq(Sessions)]
  BY DEF PartyTypeOK
<1>3. parties'[p].members = Append(m, s) /\ parties'[p].leader = parties[p].leader
  BY <1>1, <1>2 DEF PartyTypeOK
<1>4. \A q \in PartyIds : q # p => parties'[q] = parties[q]
  BY <1>1 DEF PartyTypeOK
<1>5. PartyTypeOK'
  <2>1. Append(m, s) \in Seq(Sessions)
    BY <1>2
  <2> HIDE DEF m
  <2> QED  BY <1>1, <1>2, <2>1 DEF PartyTypeOK
<1>6. MembersOf(p)' = MembersOf(p) \cup {s} /\ s \notin MembersOf(p)
  <2>1. s \notin MembersOf(p)
    BY <1>1 DEF MembershipConsistent
  <2>2. MembersOf(p)' = {Append(m, s)[i] : i \in 1..(Len(m) + 1)}
    BY <1>2, <1>3 DEF MembersOf
  <2>3. MembersOf(p) = {m[i] : i \in 1..Len(m)}
    BY <1>2 DEF MembersOf
  <2>4. \A i \in 1..Len(m) : Append(m, s)[i] = m[i]
    BY <1>2
  <2>5. Append(m, s)[Len(m) + 1] = s /\ Len(m) \in Nat
    BY <1>2
  <2> HIDE DEF m
  <2> QED  BY <2>1, <2>2, <2>3, <2>4, <2>5
<1>7. MembershipConsistent'
  <2>1. MembersOf(p)' = {t \in Sessions : joinedParties'[t] = p}
    BY <1>1, <1>6 DEF MembershipConsistent, PartyTypeOK
  <2>2. \A q \in PartyIds : q # p =>
            MembersOf(q)' = {t \in Sessions : joinedParties'[t] = q}
    BY <1>1, <1>4 DEF MembershipConsistent, PartyTypeOK, MembersOf
  <2>3. \A i, j \in DOMAIN parties'[p].members :
            parties'[p].members[i] = parties'[p].members[j] => i = j
    <3>1. \A i, j \in DOMAIN m : m[i] = m[j] => i = j
      BY DEF MembershipConsistent
    <3>2. \A i \in DOMAIN m : m[i] # s
      BY <1>6 DEF MembersOf
    <3> QED  BY <1>2, <1>3, <3>1, <3>2
  <2> QED  BY <2>1, <2>2, <2>3, <1>4 DEF MembershipConsistent
<1>8. LeaderIsMember'
  <2>1. parties'[p].leader \in MembersOf(p)'
    BY <1>1, <1>3, <1>6 DEF LeaderIsMember, PartyExists
  <2>2. \A q \in PartyIds : q # p =>
            (parties'[q].members # <<>> => parties'[q].leader \in MembersOf(q)')
    BY <1>4 DEF LeaderIsMember, PartyExists, MembersOf
  <2> QED  BY <2>1, <2>2 DEF LeaderIsMember, PartyExists
<1>9. PartyWithinCapacity'
  BY <1>1, <1>2, <1>3, <1>4 DEF PartyWithinCapacity
<1>10. FutureIdsEmpty'
  BY <1>1, <1>4 DEF FutureIdsEmpty, NoParty
<1> QED  BY <1>5, <1>7, <1>8, <1>9, <1>10

\* LeaveParty keeps the two maps in agreement and passes the leadership on.
LEMMA LeavePartyPreserves ==
    ASSUME PartyInv, NEW s \in Sessions, LeaveParty(s),
           NEW p \in PartyIds, joinedParties[s] = p
    PROVE  PartyInv'
<1> USE PartyFacts DEF PartyInv
<1> DEFINE m == parties[p].members
           r == Erase(m, s)
<1>1. /\ p \in PartyIds
      /\ parties' = [parties EXCEPT ![p] = PartyWithout(parties[p], s)]
      /\ joinedParties' = [joinedParties EXCEPT ![s] = None]
      /\ nextPartyId' = nextPartyId
  BY DEF LeaveParty, PartyTypeOK
<1>2. m \in Seq(Sessions) /\ parties[p] \in [leader : Sessions \cup {None}, members : Seq(Sessions)]
  BY <1>1 DEF PartyTypeOK
<1>3. MembersOf(p) = Elements(m) /\ s \in Elements(m) /\ Distinct(m)
  BY <1>1 DEF MembershipConsistent, MembersOf, Elements, Distinct
<1>4. /\ r \in Seq(Sessions) /\ Len(r) = Len(m) - 1
      /\ Elements(r) = Elements(m) \ {s} /\ Distinct(r)
  BY <1>2, <1>3, EraseProperties
<1>5. parties'[p] = IF r = <<>> THEN NoParty
                    ELSE [leader  |-> IF parties[p].leader = s THEN r[1] ELSE parties[p].leader,
                          members |-> r]
  BY <1>1 DEF PartyWithout, PartyTypeOK
<1>6. \A q \in PartyIds : q # p => parties'[q] = parties[q]
  BY <1>1 DEF PartyTypeOK
<1> HIDE DEF r
<1>7. parties'[p].members = r
  BY <1>5 DEF NoParty
<1>8. MembersOf(p)' = MembersOf(p) \ {s}
  BY <1>3, <1>4, <1>7 DEF MembersOf, Elements
<1>9. r # <<>> => r[1] \in Elements(r) /\ r[1] \in Sessions
  BY <1>4 DEF Elements
<1>10. parties'[p] \in [leader : Sessions \cup {None}, members : Seq(Sessions)]
  BY <1>2, <1>4, <1>5, <1>9 DEF NoParty
<1>11. PartyTypeOK'
  BY <1>1, <1>10 DEF PartyTypeOK
<1>12. MembershipConsistent'
  <2>1. MembersOf(p)' = {t \in Sessions : joinedParties'[t] = p}
    BY <1>1, <1>8 DEF MembershipConsistent, PartyTypeOK, PartyIds
  <2>2. \A q \in PartyIds : q # p =>
            MembersOf(q)' = {t \in Sessions : joinedParties'[t] = q}
    BY <1>1, <1>6 DEF MembershipConsistent, PartyTypeOK, MembersOf, PartyIds
  <2>3. \A i, j \in DOMAIN parties'[p].members :
            parties'[p].members[i] = parties'[p].members[j] => i = j
    BY <1>4, <1>7 DEF Distinct
  <2> QED  BY <2>1, <2>2, <2>3, <1>6 DEF MembershipConsistent
<1>13. LeaderIsMember'
  <2>1. PartyExists(p)' => parties'[p].leader \in MembersOf(p)'
    <3> SUFFICES ASSUME r # <<>> PROVE parties'[p].leader \in MembersOf(p)'
      BY <1>7 DEF PartyExists
    <3>1. parties[p].leader \in MembersOf(p)
      <4>1. m # <<>>
        BY <1>2, <1>3 DEF Elements
      <4> QED  BY <1>1, <4>1 DEF LeaderIsMember, PartyExists
    <3> QED  BY <1>3, <1>4, <1>5, <1>8, <1>9, <3>1
  <2> QED  BY <2>1, <1>6 DEF LeaderIsMember, PartyExists, MembersOf
<1>14. PartyWithinCapacity'
  BY <1>1, <1>2, <1>4, <1>6, <1>7 DEF PartyWithinCapacity
<1>15. FutureIdsEmpty'
  <2>1. m # <<>>
    BY <1>2, <1>3 DEF Elements
  <2>2. ~(p >= nextPartyId)
    BY <1>1, <2>1 DEF FutureIdsEmpty, NoParty
  <2> QED  BY <1>1, <1>6, <2>2 DEF FutureIdsEmpty
<1> QED  BY <1>11, <1>12, <1>13, <1>14, <1>15

\* One step of the party manager preserves the invariant.
LEMMA PartyStep == PartyInv /\ [PartyNext]_partyVars => PartyInv'
<1> SUFFICES ASSUME PartyInv, [PartyNext]_partyVars PROVE PartyInv'
  OBVIOUS
<1>1. CASE UNCHANGED partyVars
  BY <1>1 DEF partyVars, PartyInv, PartyTypeOK, MembershipConsistent, LeaderIsMember,
              PartyWithinCapacity, FutureIdsEmpty, MembersOf, PartyExists
<1>2. ASSUME NEW s \in Sessions, CreateParty(s) PROVE PartyInv'
  BY <1>2, CreatePartyPreserves
<1>3. ASSUME NEW s \in Sessions, NEW p \in PartyIds, JoinParty(p, s) PROVE PartyInv'
  BY <1>3, JoinPartyPreserves
<1>4. ASSUME NEW s \in Sessions, LeaveParty(s) PROVE PartyInv'
  <2>1. CASE joinedParties[s] = None
    BY <1>1, <1>4, <2>1 DEF LeaveParty
  <2>2. CASE joinedParties[s] # None
    <3>1. joinedParties[s] \in PartyIds
      BY <2>2 DEF PartyInv, PartyTypeOK
    <3> QED  BY <1>4, <3>1, LeavePartyPreserves
  <2> QED  BY <2>1, <2>2
<1> QED  BY <1>1, <1>2, <1>3, <1>4 DEF PartyNext

\* The party manager's invariants hold in every reachable state: types, the
\* agreement of parties_ with joinedParties_, a leader who is a member, and the
\* member limit.
THEOREM PartyCorrect == PartySpec => [](PartyTypeOK /\ PartiesConsistent)
<1>1. PartyInv => PartyTypeOK /\ PartiesConsistent
  BY DEF PartyInv, PartiesConsistent
<1> QED  BY <1>1, PartyInitially, PartyStep, PTL DEF PartySpec

\* The leadership of a party passes on only in the step in which its leader has
\* left: the leader check of HandleEnterDungeonRequest stays valid for as long as
\* the handler of that leader runs.
THEOREM PartyLeadershipStable == PartySpec => LeadershipStable
<1> DEFINE Stable == \A p \in PartyIds :
               PartyExists(p) /\ PartyExists(p)' /\ parties[p].leader # parties'[p].leader
                   => parties[p].leader \notin MembersOf(p)'
<1>1. ASSUME PartyInv, [PartyNext]_partyVars PROVE [Stable]_partyVars
  <2>1. ASSUME NEW s \in Sessions, CreateParty(s) PROVE Stable
    BY <1>1, <2>1, PartyFacts
       DEF CreateParty, PartyInv, PartyTypeOK, FutureIdsEmpty, NoParty, PartyExists, PartyIds
  <2>2. ASSUME NEW s \in Sessions, NEW p \in PartyIds, JoinParty(p, s) PROVE Stable
    BY <1>1, <2>2 DEF JoinParty, PartyInv, PartyTypeOK
  <2>3. ASSUME NEW s \in Sessions, LeaveParty(s), joinedParties[s] # None PROVE Stable
    <3>1. PICK p \in PartyIds : p = joinedParties[s]
      BY <1>1, <2>3 DEF PartyInv, PartyTypeOK
    <3>2. parties' = [parties EXCEPT ![p] = PartyWithout(parties[p], s)]
          /\ joinedParties' = [joinedParties EXCEPT ![s] = None]
      BY <2>3, <3>1 DEF LeaveParty
    <3>3. \A q \in PartyIds : q # p => parties'[q] = parties[q]
      BY <1>1, <3>2 DEF PartyInv, PartyTypeOK
    <3>4. parties'[p] = PartyWithout(parties[p], s)
      BY <1>1, <3>2 DEF PartyInv, PartyTypeOK
    <3>5. PartyExists(p)' /\ parties[p].leader # s => parties'[p].leader = parties[p].leader
      BY <3>4 DEF PartyExists, PartyWithout, NoParty
    <3>6. s \notin MembersOf(p)'
      <4>1. MembershipConsistent'
        BY <1>1, PartyStep DEF PartyInv
      <4>2. joinedParties'[s] = None
        BY <1>1, <3>2 DEF PartyInv, PartyTypeOK
      <4> QED  BY <4>1, <4>2, PartyFacts DEF MembershipConsistent
    <3> QED  BY <3>3, <3>5, <3>6 DEF PartyExists
  <2>4. ASSUME NEW s \in Sessions, LeaveParty(s), joinedParties[s] = None
        PROVE  UNCHANGED partyVars
    BY <2>4 DEF LeaveParty
  <2> QED  BY <1>1, <2>1, <2>2, <2>3, <2>4 DEF PartyNext
<1>2. ASSUME PartyInv, [PartyNext]_partyVars PROVE PartyInv'
  BY <1>2, PartyStep
<1> QED  BY <1>1, <1>2, PartyInitially, PTL DEF PartySpec, LeadershipStable
-----------------------------------------------------------------------------
(* The dungeon manager.                                                    *)

\* Ids from nextDungeonId_ upwards have not been used.
FutureDungeonsAbsent ==
    \A d \in DungeonIds : d >= nextDungeonId => ~Live(d)

\* A connection that has not registered is nobody's and holds no bound seat.
NewIsUnknown ==
    \A s \in Sessions : connection[s] = "New" =>
        /\ authenticatedPlayers[s] = None
        /\ \A d \in DungeonIds : participantPlayerIds[d][s] = None

\* A session that still speaks for a player and holds a bound seat holds the seat
\* of that player: taking the seat over never erases somebody else's identity.
SeatMatchesIdentity ==
    \A d \in DungeonIds, s \in Sessions :
        participantPlayerIds[d][s] # None =>
            authenticatedPlayers[s] \in {None, participantPlayerIds[d][s]}

\* A reconnect in progress concerns a dungeon already created, and the session it
\* replaced has registered before and speaks for nobody any more.
ReconnectFromTheDead ==
    \A s \in Sessions : reconnecting[s] # None =>
        /\ reconnecting[s].dungeon < nextDungeonId
        /\ connection[reconnecting[s].old] # "New"
        /\ authenticatedPlayers[reconnecting[s].old] = None

DungeonInv ==
    /\ DungeonTypeOK
    /\ IdentityBijection
    /\ SeatBijection
    /\ SeatsConsistent
    /\ PartyDungeonsConsistent
    /\ ReconnectHoldsSeat
    /\ FutureDungeonsAbsent
    /\ NewIsUnknown
    /\ SeatMatchesIdentity
    /\ ReconnectFromTheDead
-----------------------------------------------------------------------------
\* What the assumptions on the constants say about ids and times.
LEMMA DungeonFacts ==
    /\ None \notin Sessions /\ None \notin Players
    /\ None \notin DungeonIds /\ None \notin PartyIds
    /\ None \notin 0..ReconnectGrace
    /\ ReconnectGrace \in Nat \ {0} /\ MaxDungeonLifetime \in Nat \ {0}
    /\ MaxDungeons \in Nat /\ DungeonIds = 1..MaxDungeons
BY IdAssumption, DungeonTimeAssumption DEF DungeonIds, PartyIds

\* Creating a dungeon: its id is fresh, so nothing about other dungeons changes.
LEMMA CreateDungeonPreserves ==
    ASSUME DungeonInv, NEW party \in PartyIds, NEW members \in (SUBSET Sessions) \ {{}},
           CreateDungeon(party, members)
    PROVE  DungeonInv'
<1> USE DEF DungeonInv
<1>1. DungeonTypeOK'
  BY DungeonFacts DEF CreateDungeon, DungeonTypeOK, NoPlayers, States, identityVars
<1>2. IdentityBijection'
  BY DEF CreateDungeon, IdentityBijection, identityVars
<1>3. SeatBijection'
  <2>1. nextDungeonId \in DungeonIds
    BY DungeonFacts DEF CreateDungeon, DungeonTypeOK
  <2> SUFFICES ASSUME NEW d \in DungeonIds, NEW s \in Sessions, NEW p \in Players
               PROVE  participantPlayerIds'[d][s] = p <=> playerSessions'[d][p] = s
    BY DEF SeatBijection
  <2>2. CASE d = nextDungeonId
    <3>1. participantPlayerIds'[d][s] = IF s \in members THEN authenticatedPlayers[s] ELSE None
      BY <2>1, <2>2 DEF CreateDungeon, DungeonTypeOK
    <3>2. playerSessions'[d][p] = IF \E r \in members : authenticatedPlayers[r] = p
                                 THEN CHOOSE r \in members : authenticatedPlayers[r] = p
                                 ELSE None
      BY <2>1, <2>2 DEF CreateDungeon, DungeonTypeOK
    <3>3. \A r, q \in members : authenticatedPlayers[r] = p /\ authenticatedPlayers[q] = p => r = q
      BY DEF IdentityBijection
    <3> QED  BY <3>1, <3>2, <3>3, DungeonFacts
  <2>3. CASE d # nextDungeonId
    BY <2>1, <2>3 DEF CreateDungeon, DungeonTypeOK, SeatBijection
  <2> QED  BY <2>2, <2>3
<1>4. SeatsConsistent'
  <2>1. nextDungeonId \in DungeonIds
    BY DungeonFacts DEF CreateDungeon, DungeonTypeOK
  <2> SUFFICES ASSUME NEW d \in DungeonIds
               PROVE  /\ participants'[d] = players'[d]
                      /\ Live(d)' <=> players'[d] # {}
                      /\ \A s \in Sessions : participantPlayerIds'[d][s] # None => s \in players'[d]
                      /\ \A s \in Sessions : disconnectedSince'[d][s] # None => s \in players'[d]
    BY DEF SeatsConsistent
  <2>2. CASE d = nextDungeonId
    <3>1. /\ participants'[d] = members /\ players'[d] = members
          /\ dungeonState'[d] = "Waiting"
      BY <2>1, <2>2 DEF CreateDungeon, DungeonTypeOK
    <3>2. \A s \in Sessions : participantPlayerIds'[d][s] # None => s \in members
      BY <2>1, <2>2 DEF CreateDungeon, DungeonTypeOK
    <3>3. \A s \in Sessions : disconnectedSince'[d][s] = None
      BY <2>1, <2>2 DEF CreateDungeon, DungeonTypeOK, NoPlayers
    <3>4. members # {}
      OBVIOUS
    <3> QED  BY <3>1, <3>2, <3>3, <3>4 DEF Live
  <2>3. CASE d # nextDungeonId
    BY <2>1, <2>3 DEF CreateDungeon, DungeonTypeOK, SeatsConsistent, Live
  <2> QED  BY <2>2, <2>3
<1>5. PartyDungeonsConsistent'
  BY DungeonFacts DEF CreateDungeon, PartyIsFree, PartyDungeonsConsistent, DungeonTypeOK,
      FutureDungeonsAbsent, Live
<1>6. ReconnectHoldsSeat'
  BY DungeonFacts DEF CreateDungeon, ReconnectHoldsSeat, DungeonTypeOK, Live, Reconnect,
      ReconnectFromTheDead
<1>7. FutureDungeonsAbsent'
  BY DungeonFacts DEF CreateDungeon, FutureDungeonsAbsent, DungeonTypeOK, Live,
      SeatsConsistent
<1>8. NewIsUnknown'
  BY DEF CreateDungeon, NewIsUnknown, identityVars
<1>9. SeatMatchesIdentity'
  BY DEF CreateDungeon, SeatMatchesIdentity, identityVars
<1>10. ReconnectFromTheDead'
  BY DungeonFacts DEF CreateDungeon, ReconnectFromTheDead, DungeonTypeOK, Reconnect,
      identityVars
<1> QED  BY <1>1, <1>2, <1>3, <1>4, <1>5, <1>6, <1>7, <1>8, <1>9, <1>10

\* A refused login leaves no identity behind.
LEMMA RegisterRefusedPreserves ==
    ASSUME DungeonInv, NEW s \in Sessions, NEW p \in Players, RegisterRefused(s, p)
    PROVE  DungeonInv'
<1> USE DEF DungeonInv
<1>1. DungeonTypeOK'
  BY DungeonFacts DEF RegisterRefused, CanRegister, DungeonTypeOK, IdentityBijection,
      NewIsUnknown, identityVars, instanceVars
<1>2. IdentityBijection'
  BY DungeonFacts DEF RegisterRefused, CanRegister, IdentityBijection, DungeonTypeOK,
      identityVars
<1>3. SeatBijection'
  BY DEF RegisterRefused, SeatBijection, instanceVars
<1>4. SeatsConsistent'
  BY DEF RegisterRefused, SeatsConsistent, Live, instanceVars
<1>5. PartyDungeonsConsistent'
  BY DEF RegisterRefused, PartyDungeonsConsistent, Live, instanceVars
<1>6. ReconnectHoldsSeat'
  BY DEF RegisterRefused, ReconnectHoldsSeat, Live, instanceVars
<1>7. FutureDungeonsAbsent'
  BY DEF RegisterRefused, FutureDungeonsAbsent, Live, instanceVars
<1>8. NewIsUnknown'
  BY DEF RegisterRefused, NewIsUnknown, DungeonTypeOK, identityVars, instanceVars
<1>9. SeatMatchesIdentity'
  BY DEF RegisterRefused, SeatMatchesIdentity, DungeonTypeOK, identityVars, instanceVars
<1>10. ReconnectFromTheDead'
  BY DEF RegisterRefused, ReconnectFromTheDead, DungeonTypeOK, Reconnect, identityVars
<1> QED  BY <1>1, <1>2, <1>3, <1>4, <1>5, <1>6, <1>7, <1>8, <1>9, <1>10

\* A login without a seat: the player had no live connection.
LEMMA RegisterPlainPreserves ==
    ASSUME DungeonInv, NEW s \in Sessions, NEW p \in Players, RegisterPlain(s, p)
    PROVE  DungeonInv'
<1> USE DEF DungeonInv
<1>1. DungeonTypeOK'
  BY DEF RegisterPlain, DungeonTypeOK, instanceVars
<1>2. IdentityBijection'
  BY DungeonFacts DEF RegisterPlain, CanRegister, IdentityBijection, DungeonTypeOK
<1>3. SeatBijection'
  BY DEF RegisterPlain, SeatBijection, instanceVars
<1>4. SeatsConsistent'
  BY DEF RegisterPlain, SeatsConsistent, Live, instanceVars
<1>5. PartyDungeonsConsistent'
  BY DEF RegisterPlain, PartyDungeonsConsistent, Live, instanceVars
<1>6. ReconnectHoldsSeat'
  BY DEF RegisterPlain, ReconnectHoldsSeat, Live, instanceVars
<1>7. FutureDungeonsAbsent'
  BY DEF RegisterPlain, FutureDungeonsAbsent, Live, instanceVars
<1>8. NewIsUnknown'
  BY DEF RegisterPlain, NewIsUnknown, DungeonTypeOK, instanceVars
<1>9. SeatMatchesIdentity'
  BY DEF RegisterPlain, SeatsOf, SeatMatchesIdentity, SeatsConsistent, instanceVars
<1>10. ReconnectFromTheDead'
  BY DEF RegisterPlain, ReconnectFromTheDead
<1> QED  BY <1>1, <1>2, <1>3, <1>4, <1>5, <1>6, <1>7, <1>8, <1>9, <1>10

\* A login into a seat the session already has.
LEMMA RegisterSeatedPreserves ==
    ASSUME DungeonInv, NEW s \in Sessions, NEW p \in Players, NEW d \in DungeonIds,
           RegisterSeated(s, p, d)
    PROVE  DungeonInv'
<1> USE DEF DungeonInv
<1>1. DungeonTypeOK'
  BY DEF RegisterSeated, DungeonTypeOK
<1>2. IdentityBijection'
  BY DungeonFacts DEF RegisterSeated, CanRegister, IdentityBijection, DungeonTypeOK
<1>3. SeatBijection'
  BY DungeonFacts DEF RegisterSeated, CanBind, SeatBijection, DungeonTypeOK
<1>4. SeatsConsistent'
  BY DEF RegisterSeated, SeatsOf, SeatsConsistent, Live
<1>5. PartyDungeonsConsistent'
  BY DEF RegisterSeated, PartyDungeonsConsistent, Live
<1>6. ReconnectHoldsSeat'
  BY DEF RegisterSeated, ReconnectHoldsSeat, Live
<1>7. FutureDungeonsAbsent'
  BY DEF RegisterSeated, FutureDungeonsAbsent, Live
<1>8. NewIsUnknown'
  BY DEF RegisterSeated, NewIsUnknown, DungeonTypeOK
<1>9. SeatMatchesIdentity'
  BY DEF RegisterSeated, SeatMatchesIdentity, NewIsUnknown
<1>10. ReconnectFromTheDead'
  BY DEF RegisterSeated, ReconnectFromTheDead
<1> QED  BY <1>1, <1>2, <1>3, <1>4, <1>5, <1>6, <1>7, <1>8, <1>9, <1>10

\* A reconnect moves the seat of the player in all five maps at once.
LEMMA RegisterReconnectedPreserves ==
    ASSUME DungeonInv, NEW s \in Sessions, NEW p \in Players, NEW d \in DungeonIds,
           RegisterReconnected(s, p, d)
    PROVE  DungeonInv'
<1> USE DEF DungeonInv
<1>1. DungeonTypeOK'
  <2> PICK old \in Sessions : old = playerSessions[d][p]
    BY DEF RegisterReconnected, CanReconnect, DungeonTypeOK
  <2>1. disconnectedSince[d][old] \in 0..ReconnectGrace
    BY DEF RegisterReconnected, CanReconnect, DungeonTypeOK
  <2>2. reconnecting' \in [Sessions -> Reconnect \cup {None}]
    BY <2>1 DEF RegisterReconnected, DungeonTypeOK, Reconnect
  <2>3. /\ participants' \in [DungeonIds -> SUBSET Sessions]
        /\ players' \in [DungeonIds -> SUBSET Sessions]
    BY DEF RegisterReconnected, DungeonTypeOK
  <2>4. /\ participantPlayerIds' \in [DungeonIds -> [Sessions -> Players \cup {None}]]
        /\ playerSessions' \in [DungeonIds -> [Players -> Sessions \cup {None}]]
        /\ disconnectedSince' \in [DungeonIds -> [Sessions -> (0..ReconnectGrace) \cup {None}]]
    BY DEF RegisterReconnected, DungeonTypeOK
  <2> QED  BY <2>2, <2>3, <2>4 DEF RegisterReconnected, DungeonTypeOK
<1>2. IdentityBijection'
  BY DungeonFacts DEF RegisterReconnected, CanRegister, IdentityBijection, DungeonTypeOK,
      SeatBijection, SeatMatchesIdentity
<1>3. SeatBijection'
  BY DungeonFacts DEF RegisterReconnected, CanReconnect, SeatBijection, DungeonTypeOK,
      SeatsConsistent
<1>4. SeatsConsistent'
  <2> PICK old \in Sessions : old = playerSessions[d][p]
    BY DEF RegisterReconnected, CanReconnect, DungeonTypeOK
  <2>1. old \in players[d] /\ Live(d)
    BY DungeonFacts DEF RegisterReconnected, CanReconnect, DungeonTypeOK, SeatsConsistent, Live
  <2> SUFFICES ASSUME NEW e \in DungeonIds
               PROVE  /\ participants'[e] = players'[e]
                      /\ Live(e)' <=> players'[e] # {}
                      /\ \A r \in Sessions : participantPlayerIds'[e][r] # None => r \in players'[e]
                      /\ \A r \in Sessions : disconnectedSince'[e][r] # None => r \in players'[e]
    BY DEF SeatsConsistent
  <2>2. CASE e = d
    BY <2>1, <2>2 DEF RegisterReconnected, DungeonTypeOK, SeatsConsistent, Live
  <2>3. CASE e # d
    BY <2>3 DEF RegisterReconnected, DungeonTypeOK, SeatsConsistent, Live
  <2> QED  BY <2>2, <2>3
<1>5. PartyDungeonsConsistent'
  BY DEF RegisterReconnected, PartyDungeonsConsistent, Live
<1>6. ReconnectHoldsSeat'
  BY DEF RegisterReconnected, CanReconnect, ReconnectHoldsSeat, DungeonTypeOK, Live,
      SeatsConsistent
<1>7. FutureDungeonsAbsent'
  BY DEF RegisterReconnected, FutureDungeonsAbsent, Live
<1>8. NewIsUnknown'
  BY DEF RegisterReconnected, NewIsUnknown, DungeonTypeOK
<1>9. SeatMatchesIdentity'
  BY DEF RegisterReconnected, SeatsOf, SeatMatchesIdentity, DungeonTypeOK, SeatsConsistent
<1>10. ReconnectFromTheDead'
  BY DungeonFacts DEF RegisterReconnected, CanReconnect, ReconnectFromTheDead,
      DungeonTypeOK, FutureDungeonsAbsent, NewIsUnknown, Reconnect, SeatBijection,
      SeatsConsistent
<1> QED  BY <1>1, <1>2, <1>3, <1>4, <1>5, <1>6, <1>7, <1>8, <1>9, <1>10

\* A departure marks one seat and gives up the identity.
LEMMA DisconnectSeatedPreserves ==
    ASSUME DungeonInv, NEW s \in Sessions, NEW d \in DungeonIds, StrandIdle(s),
           DisconnectSeated(s, d)
    PROVE  DungeonInv'
<1> USE DEF DungeonInv
<1>1. DungeonTypeOK'
  <2> PICK age \in 0..ReconnectGrace :
             age = TryEmplace(disconnectedSince[d][s], 0)
    BY DungeonFacts DEF DungeonTypeOK, TryEmplace
  <2>1. disconnectedSince' = [disconnectedSince EXCEPT ![d] =
                                [disconnectedSince[d] EXCEPT ![s] = age]]
    BY DEF DisconnectSeated
  <2>2. disconnectedSince' \in [DungeonIds -> [Sessions -> (0..ReconnectGrace) \cup {None}]]
    BY <2>1 DEF DungeonTypeOK
  <2> QED  BY <2>2 DEF DisconnectSeated, ForgetIdentity, DungeonTypeOK
<1>2. IdentityBijection'
  BY DungeonFacts DEF DisconnectSeated, ForgetIdentity, IdentityBijection, DungeonTypeOK
<1>3. SeatBijection'
  BY DEF DisconnectSeated, SeatBijection
<1>4. SeatsConsistent'
  BY DEF DisconnectSeated, SeatsOf, SeatsConsistent, Live
<1>5. PartyDungeonsConsistent'
  BY DEF DisconnectSeated, PartyDungeonsConsistent, Live
<1>6. ReconnectHoldsSeat'
  BY DEF DisconnectSeated, StrandIdle, ReconnectHoldsSeat, Live
<1>7. FutureDungeonsAbsent'
  BY DEF DisconnectSeated, FutureDungeonsAbsent, Live
<1>8. NewIsUnknown'
  BY DEF DisconnectSeated, ForgetIdentity, NewIsUnknown
<1>9. SeatMatchesIdentity'
  BY DEF DisconnectSeated, ForgetIdentity, SeatMatchesIdentity
<1>10. ReconnectFromTheDead'
  BY DEF DisconnectSeated, ForgetIdentity, ReconnectFromTheDead
<1> QED  BY <1>1, <1>2, <1>3, <1>4, <1>5, <1>6, <1>7, <1>8, <1>9, <1>10

\* A departure without a seat gives up the identity.
LEMMA DisconnectUnseatedPreserves ==
    ASSUME DungeonInv, NEW s \in Sessions, StrandIdle(s), DisconnectUnseated(s)
    PROVE  DungeonInv'
<1> USE DEF DungeonInv
<1>1. DungeonTypeOK'
  BY DEF DisconnectUnseated, ForgetIdentity, DungeonTypeOK, instanceVars
<1>2. IdentityBijection'
  BY DungeonFacts DEF DisconnectUnseated, ForgetIdentity, IdentityBijection, DungeonTypeOK
<1>3. SeatBijection'
  BY DEF DisconnectUnseated, SeatBijection, instanceVars
<1>4. SeatsConsistent'
  BY DEF DisconnectUnseated, SeatsConsistent, Live, instanceVars
<1>5. PartyDungeonsConsistent'
  BY DEF DisconnectUnseated, PartyDungeonsConsistent, Live, instanceVars
<1>6. ReconnectHoldsSeat'
  BY DEF DisconnectUnseated, ReconnectHoldsSeat, Live, instanceVars
<1>7. FutureDungeonsAbsent'
  BY DEF DisconnectUnseated, FutureDungeonsAbsent, Live, instanceVars
<1>8. NewIsUnknown'
  BY DEF DisconnectUnseated, ForgetIdentity, NewIsUnknown, instanceVars
<1>9. SeatMatchesIdentity'
  BY DEF DisconnectUnseated, ForgetIdentity, SeatMatchesIdentity, instanceVars
<1>10. ReconnectFromTheDead'
  BY DEF DisconnectUnseated, ForgetIdentity, ReconnectFromTheDead
<1> QED  BY <1>1, <1>2, <1>3, <1>4, <1>5, <1>6, <1>7, <1>8, <1>9, <1>10

\* A reconnect that has its token keeps the seat.
LEMMA ReconnectCompletedPreserves ==
    ASSUME DungeonInv, NEW s \in Sessions, ReconnectCompleted(s)
    PROVE  DungeonInv'
<1> USE DEF DungeonInv
<1>1. DungeonTypeOK'
  BY DEF ReconnectCompleted, DungeonTypeOK, identityVars, instanceVars
<1>2. IdentityBijection'
  BY DEF ReconnectCompleted, IdentityBijection, identityVars
<1>3. SeatBijection'
  BY DEF ReconnectCompleted, SeatBijection, instanceVars
<1>4. SeatsConsistent'
  BY DEF ReconnectCompleted, SeatsConsistent, Live, instanceVars
<1>5. PartyDungeonsConsistent'
  BY DEF ReconnectCompleted, PartyDungeonsConsistent, Live, instanceVars
<1>6. ReconnectHoldsSeat'
  BY DEF ReconnectCompleted, ReconnectHoldsSeat, Live, instanceVars
<1>7. FutureDungeonsAbsent'
  BY DEF ReconnectCompleted, FutureDungeonsAbsent, Live, instanceVars
<1>8. NewIsUnknown'
  BY DEF ReconnectCompleted, NewIsUnknown, identityVars, instanceVars
<1>9. SeatMatchesIdentity'
  BY DEF ReconnectCompleted, SeatMatchesIdentity, identityVars, instanceVars
<1>10. ReconnectFromTheDead'
  BY DEF ReconnectCompleted, ReconnectFromTheDead, identityVars
<1> QED  BY <1>1, <1>2, <1>3, <1>4, <1>5, <1>6, <1>7, <1>8, <1>9, <1>10

\* Undoing a reconnect restores the seat of the session it replaced, with its mark.
LEMMA RollbackPlayerReconnectPreserves ==
    ASSUME DungeonInv, NEW s \in Sessions, RollbackPlayerReconnect(s)
    PROVE  DungeonInv'
<1> USE DEF DungeonInv
<1>1. DungeonTypeOK'
  <2> PICK r \in Reconnect : r = reconnecting[s]
    BY DEF RollbackPlayerReconnect, DungeonTypeOK
  <2>1. /\ r.dungeon \in DungeonIds /\ r.player \in Players
        /\ r.old \in Sessions /\ r.age \in 0..ReconnectGrace
    BY DEF Reconnect
  <2>2. /\ participants' \in [DungeonIds -> SUBSET Sessions]
        /\ players' \in [DungeonIds -> SUBSET Sessions]
    BY <2>1 DEF RollbackPlayerReconnect, DungeonTypeOK
  <2>3. /\ participantPlayerIds' \in [DungeonIds -> [Sessions -> Players \cup {None}]]
        /\ playerSessions' \in [DungeonIds -> [Players -> Sessions \cup {None}]]
    BY <2>1 DEF RollbackPlayerReconnect, DungeonTypeOK
  <2>4. disconnectedSince' \in [DungeonIds -> [Sessions -> (0..ReconnectGrace) \cup {None}]]
    <3> PICK age \in 0..ReconnectGrace :
               age = TryEmplace(disconnectedSince[r.dungeon][r.old], r.age)
      BY <2>1 DEF DungeonTypeOK, TryEmplace
    <3>1. disconnectedSince' = [disconnectedSince EXCEPT ![r.dungeon] =
                                  [disconnectedSince[r.dungeon] EXCEPT ![r.old] = age]]
      BY DEF RollbackPlayerReconnect
    <3> QED  BY <2>1, <3>1 DEF DungeonTypeOK
  <2>5. /\ authenticatedPlayers' \in [Sessions -> Players \cup {None}]
        /\ activePlayerSessions' \in [Players -> Sessions \cup {None}]
        /\ reconnecting' \in [Sessions -> Reconnect \cup {None}]
    BY <2>1 DEF RollbackPlayerReconnect, DungeonTypeOK
  <2> QED  BY <2>2, <2>3, <2>4, <2>5 DEF RollbackPlayerReconnect, DungeonTypeOK
<1>2. IdentityBijection'
  BY DungeonFacts DEF RollbackPlayerReconnect, CanRollback, IdentityBijection,
      DungeonTypeOK, Reconnect, SeatBijection, SeatMatchesIdentity
<1>3. SeatBijection'
  <2> PICK r \in Reconnect : r = reconnecting[s]
    BY DEF RollbackPlayerReconnect, DungeonTypeOK
  <2>1. /\ r.dungeon \in DungeonIds /\ r.player \in Players
        /\ r.old \in Sessions /\ r.old # s
        /\ playerSessions[r.dungeon][r.player] = s
        /\ participantPlayerIds[r.dungeon][s] = r.player
        /\ participantPlayerIds[r.dungeon][r.old] = None
    BY DEF Reconnect, RollbackPlayerReconnect, CanRollback, SeatsConsistent, SeatBijection
  <2> SUFFICES ASSUME NEW e \in DungeonIds, NEW q \in Sessions, NEW p \in Players
               PROVE  participantPlayerIds'[e][q] = p <=> playerSessions'[e][p] = q
    BY DEF SeatBijection
  <2>2. CASE e = r.dungeon
    BY <2>1, <2>2, DungeonFacts DEF RollbackPlayerReconnect, DungeonTypeOK, SeatBijection
  <2>3. CASE e # r.dungeon
    BY <2>1, <2>3 DEF RollbackPlayerReconnect, DungeonTypeOK, SeatBijection
  <2> QED  BY <2>2, <2>3
<1>4. SeatsConsistent'
  <2> PICK r \in Reconnect : r = reconnecting[s]
    BY DEF RollbackPlayerReconnect, DungeonTypeOK
  <2>1. /\ r.dungeon \in DungeonIds /\ r.old \in Sessions
        /\ Live(r.dungeon) /\ s \in players[r.dungeon]
        /\ disconnectedSince[r.dungeon][s] = None
    BY DEF Reconnect, RollbackPlayerReconnect, CanRollback, ReconnectHoldsSeat
  <2> SUFFICES ASSUME NEW e \in DungeonIds
               PROVE  /\ participants'[e] = players'[e]
                      /\ Live(e)' <=> players'[e] # {}
                      /\ \A q \in Sessions : participantPlayerIds'[e][q] # None => q \in players'[e]
                      /\ \A q \in Sessions : disconnectedSince'[e][q] # None => q \in players'[e]
    BY DEF SeatsConsistent
  <2>2. CASE e = r.dungeon
    BY <2>1, <2>2 DEF RollbackPlayerReconnect, DungeonTypeOK, SeatsConsistent, Live
  <2>3. CASE e # r.dungeon
    BY <2>1, <2>3 DEF RollbackPlayerReconnect, DungeonTypeOK, SeatsConsistent, Live
  <2> QED  BY <2>2, <2>3
<1>5. PartyDungeonsConsistent'
  BY DEF RollbackPlayerReconnect, PartyDungeonsConsistent, Live
<1>6. ReconnectHoldsSeat'
  BY DEF RollbackPlayerReconnect, CanRollback, ReconnectHoldsSeat, DungeonTypeOK, Live
<1>7. FutureDungeonsAbsent'
  BY DEF RollbackPlayerReconnect, FutureDungeonsAbsent, Live
<1>8. NewIsUnknown'
  BY DEF RollbackPlayerReconnect, NewIsUnknown, DungeonTypeOK, ReconnectFromTheDead
<1>9. SeatMatchesIdentity'
  BY DEF RollbackPlayerReconnect, SeatMatchesIdentity, DungeonTypeOK, ReconnectFromTheDead
<1>10. ReconnectFromTheDead'
  BY DEF RollbackPlayerReconnect, ReconnectFromTheDead
<1> QED  BY <1>1, <1>2, <1>3, <1>4, <1>5, <1>6, <1>7, <1>8, <1>9, <1>10

\* A reconnect whose dungeon is gone has nothing to undo.
LEMMA RollbackRefusedPreserves ==
    ASSUME DungeonInv, NEW s \in Sessions, RollbackRefused(s)
    PROVE  DungeonInv'
<1> USE DEF DungeonInv
<1>1. DungeonTypeOK'
  BY DEF RollbackRefused, DungeonTypeOK, identityVars, instanceVars
<1>2. IdentityBijection'
  BY DEF RollbackRefused, IdentityBijection, identityVars
<1>3. SeatBijection'
  BY DEF RollbackRefused, SeatBijection, instanceVars
<1>4. SeatsConsistent'
  BY DEF RollbackRefused, SeatsConsistent, Live, instanceVars
<1>5. PartyDungeonsConsistent'
  BY DEF RollbackRefused, PartyDungeonsConsistent, Live, instanceVars
<1>6. ReconnectHoldsSeat'
  BY DEF RollbackRefused, ReconnectHoldsSeat, Live, instanceVars
<1>7. FutureDungeonsAbsent'
  BY DEF RollbackRefused, FutureDungeonsAbsent, Live, instanceVars
<1>8. NewIsUnknown'
  BY DEF RollbackRefused, NewIsUnknown, identityVars, instanceVars
<1>9. SeatMatchesIdentity'
  BY DEF RollbackRefused, SeatMatchesIdentity, identityVars, instanceVars
<1>10. ReconnectFromTheDead'
  BY DEF RollbackRefused, ReconnectFromTheDead, identityVars
<1> QED  BY <1>1, <1>2, <1>3, <1>4, <1>5, <1>6, <1>7, <1>8, <1>9, <1>10

\* Starting a dungeon touches its state only.
LEMMA StartDungeonPreserves ==
    ASSUME DungeonInv, NEW d \in DungeonIds, StartDungeon(d)
    PROVE  DungeonInv'
<1> USE DEF DungeonInv
<1>1. DungeonTypeOK'
  BY DEF StartDungeon, DungeonTypeOK, States, identityVars
<1>2. IdentityBijection'
  BY DEF StartDungeon, IdentityBijection, identityVars
<1>3. SeatBijection'
  BY DEF StartDungeon, SeatBijection
<1>4. SeatsConsistent'
  BY DEF StartDungeon, CanStart, SeatsConsistent, Live
<1>5. PartyDungeonsConsistent'
  BY DEF StartDungeon, CanStart, PartyDungeonsConsistent, Live
<1>6. ReconnectHoldsSeat'
  BY DEF StartDungeon, CanStart, ReconnectHoldsSeat, Live
<1>7. FutureDungeonsAbsent'
  BY DEF StartDungeon, CanStart, FutureDungeonsAbsent, Live
<1>8. NewIsUnknown'
  BY DEF StartDungeon, NewIsUnknown, identityVars
<1>9. SeatMatchesIdentity'
  BY DEF StartDungeon, SeatMatchesIdentity, identityVars
<1>10. ReconnectFromTheDead'
  BY DEF StartDungeon, ReconnectFromTheDead, identityVars
<1> QED  BY <1>1, <1>2, <1>3, <1>4, <1>5, <1>6, <1>7, <1>8, <1>9, <1>10

\* Clearing a dungeon touches its state only.
LEMMA TryFinishIfClearedPreserves ==
    ASSUME DungeonInv, NEW d \in DungeonIds, TryFinishIfCleared(d)
    PROVE  DungeonInv'
<1> USE DEF DungeonInv
<1>1. DungeonTypeOK'
  BY DEF TryFinishIfCleared, DungeonTypeOK, States, identityVars
<1>2. IdentityBijection'
  BY DEF TryFinishIfCleared, IdentityBijection, identityVars
<1>3. SeatBijection'
  BY DEF TryFinishIfCleared, SeatBijection
<1>4. SeatsConsistent'
  BY DEF TryFinishIfCleared, SeatsConsistent, Live
<1>5. PartyDungeonsConsistent'
  BY DEF TryFinishIfCleared, PartyDungeonsConsistent, Live
<1>6. ReconnectHoldsSeat'
  BY DEF TryFinishIfCleared, ReconnectHoldsSeat, Live
<1>7. FutureDungeonsAbsent'
  BY DEF TryFinishIfCleared, FutureDungeonsAbsent, Live
<1>8. NewIsUnknown'
  BY DEF TryFinishIfCleared, NewIsUnknown, identityVars
<1>9. SeatMatchesIdentity'
  BY DEF TryFinishIfCleared, SeatMatchesIdentity, identityVars
<1>10. ReconnectFromTheDead'
  BY DEF TryFinishIfCleared, ReconnectFromTheDead, identityVars
<1> QED  BY <1>1, <1>2, <1>3, <1>4, <1>5, <1>6, <1>7, <1>8, <1>9, <1>10

\* Cancelling erases one dungeon.
LEMMA CancelDungeonPreserves ==
    ASSUME DungeonInv, NEW d \in DungeonIds, CancelDungeon(d)
    PROVE  DungeonInv'
<1> USE DEF DungeonInv
<1>1. DungeonTypeOK'
  BY DungeonFacts DEF CancelDungeon, Remove, DungeonTypeOK, States, identityVars
<1>2. IdentityBijection'
  BY DEF CancelDungeon, IdentityBijection, identityVars
<1>3. SeatBijection'
  BY DungeonFacts DEF CancelDungeon, Remove, Nobody, SeatBijection
<1>4. SeatsConsistent'
  BY DEF CancelDungeon, Remove, Nobody, SeatsConsistent, Live
<1>5. PartyDungeonsConsistent'
  BY DungeonFacts DEF CancelDungeon, Remove, PartyDungeonsConsistent, Live
<1>6. ReconnectHoldsSeat'
  BY DEF CancelDungeon, Remove, Nobody, ReconnectHoldsSeat, DungeonTypeOK, Live, Reconnect
<1>7. FutureDungeonsAbsent'
  BY DEF CancelDungeon, Remove, FutureDungeonsAbsent, Live
<1>8. NewIsUnknown'
  BY DEF CancelDungeon, Remove, NewIsUnknown, identityVars
<1>9. SeatMatchesIdentity'
  BY DEF CancelDungeon, Remove, SeatMatchesIdentity, identityVars
<1>10. ReconnectFromTheDead'
  BY DEF CancelDungeon, ReconnectFromTheDead, identityVars
<1> QED  BY <1>1, <1>2, <1>3, <1>4, <1>5, <1>6, <1>7, <1>8, <1>9, <1>10

\* Finishing erases one dungeon.
LEMMA FinishDungeonPreserves ==
    ASSUME DungeonInv, NEW d \in DungeonIds, FinishDungeon(d)
    PROVE  DungeonInv'
<1> USE DEF DungeonInv
<1>1. DungeonTypeOK'
  BY DungeonFacts DEF FinishDungeon, Remove, DungeonTypeOK, States, identityVars
<1>2. IdentityBijection'
  BY DEF FinishDungeon, IdentityBijection, identityVars
<1>3. SeatBijection'
  BY DungeonFacts DEF FinishDungeon, Remove, Nobody, SeatBijection
<1>4. SeatsConsistent'
  BY DEF FinishDungeon, Remove, Nobody, SeatsConsistent, Live
<1>5. PartyDungeonsConsistent'
  BY DungeonFacts DEF FinishDungeon, Remove, PartyDungeonsConsistent, Live
<1>6. ReconnectHoldsSeat'
  BY DEF FinishDungeon, Remove, Nobody, ReconnectHoldsSeat, DungeonTypeOK, Live, Reconnect
<1>7. FutureDungeonsAbsent'
  BY DEF FinishDungeon, Remove, FutureDungeonsAbsent, Live
<1>8. NewIsUnknown'
  BY DEF FinishDungeon, Remove, NewIsUnknown, identityVars
<1>9. SeatMatchesIdentity'
  BY DEF FinishDungeon, Remove, SeatMatchesIdentity, identityVars
<1>10. ReconnectFromTheDead'
  BY DEF FinishDungeon, ReconnectFromTheDead, identityVars
<1> QED  BY <1>1, <1>2, <1>3, <1>4, <1>5, <1>6, <1>7, <1>8, <1>9, <1>10

\* Stopping erases everything, the identities too.
LEMMA StopDungeonsPreserves ==
    ASSUME DungeonInv, StopDungeons
    PROVE  DungeonInv'
<1> USE DEF DungeonInv
<1>1. DungeonTypeOK'
  BY DungeonFacts DEF StopDungeons, Remove, DungeonTypeOK, NoPlayers, NoSessions, States
<1>2. IdentityBijection'
  BY DungeonFacts DEF StopDungeons, IdentityBijection, NoPlayers, NoSessions
<1>3. SeatBijection'
  BY DungeonFacts DEF StopDungeons, Remove, SeatBijection
<1>4. SeatsConsistent'
  BY DEF StopDungeons, Remove, SeatsConsistent, Live
<1>5. PartyDungeonsConsistent'
  BY DungeonFacts DEF StopDungeons, Remove, PartyDungeonsConsistent, Live
<1>6. ReconnectHoldsSeat'
  BY DEF StopDungeons, Remove, ReconnectHoldsSeat, DungeonTypeOK, Live, Reconnect
<1>7. FutureDungeonsAbsent'
  BY DEF StopDungeons, Remove, FutureDungeonsAbsent, Live
<1>8. NewIsUnknown'
  BY DEF StopDungeons, Remove, NewIsUnknown, NoPlayers
<1>9. SeatMatchesIdentity'
  BY DEF StopDungeons, Remove, SeatMatchesIdentity
<1>10. ReconnectFromTheDead'
  BY DEF StopDungeons, ReconnectFromTheDead, DungeonTypeOK, NoPlayers, Reconnect
<1> QED  BY <1>1, <1>2, <1>3, <1>4, <1>5, <1>6, <1>7, <1>8, <1>9, <1>10

\* The sweep removes seats with all that belongs to them, and a dungeon with its last seat.
LEMMA SweepAbandonedParticipantsPreserves ==
    ASSUME DungeonInv, SweepAbandonedParticipants
    PROVE  DungeonInv'
<1> USE DEF DungeonInv
<1>1. DungeonTypeOK'
  BY DungeonFacts DEF SweepAbandonedParticipants, Remove, DungeonTypeOK, States,
      identityVars
<1>2. IdentityBijection'
  BY DEF SweepAbandonedParticipants, IdentityBijection, identityVars
<1>3. SeatBijection'
  BY DungeonFacts DEF SweepAbandonedParticipants, Remove, SweptDungeons, SweptFrom,
      LifetimeExpired, SeatBijection
<1>4. SeatsConsistent'
  <2> SUFFICES ASSUME NEW d \in DungeonIds
               PROVE  /\ participants'[d] = players'[d]
                      /\ Live(d)' <=> players'[d] # {}
                      /\ \A s \in Sessions : participantPlayerIds'[d][s] # None => s \in players'[d]
                      /\ \A s \in Sessions : disconnectedSince'[d][s] # None => s \in players'[d]
    BY DEF SeatsConsistent
  <2>1. CASE d \in SweptDungeons
    BY <2>1 DEF SweepAbandonedParticipants, Remove, Live
  <2>2. CASE d \notin SweptDungeons
    <3>1. Live(d) => ~(participants[d] \subseteq SweptFrom(d))
      BY <2>2 DEF SweptDungeons
    <3>2. /\ participants'[d] = participants[d] \ SweptFrom(d)
          /\ players'[d] = players[d] \ SweptFrom(d)
          /\ Live(d)' <=> Live(d)
      BY <2>2 DEF SweepAbandonedParticipants, Remove, Live
    <3>3. \A s \in Sessions :
            /\ participantPlayerIds'[d][s] # None =>
                 s \notin SweptFrom(d) /\ participantPlayerIds[d][s] # None
            /\ disconnectedSince'[d][s] # None =>
                 s \notin SweptFrom(d) /\ disconnectedSince[d][s] # None
      BY <2>2 DEF SweepAbandonedParticipants, Remove
    <3> QED  BY <3>1, <3>2, <3>3 DEF SeatsConsistent
  <2> QED  BY <2>1, <2>2
<1>5. PartyDungeonsConsistent'
  BY DungeonFacts DEF SweepAbandonedParticipants, Remove, SweptDungeons,
      PartyDungeonsConsistent, DungeonTypeOK, Live
<1>6. ReconnectHoldsSeat'
  BY DungeonFacts DEF SweepAbandonedParticipants, Remove, SweptDungeons, SweptFrom,
      ReconnectHoldsSeat, DungeonTypeOK, Live, Reconnect
<1>7. FutureDungeonsAbsent'
  BY DEF SweepAbandonedParticipants, Remove, FutureDungeonsAbsent, Live
<1>8. NewIsUnknown'
  BY DEF SweepAbandonedParticipants, Remove, NewIsUnknown, identityVars
<1>9. SeatMatchesIdentity'
  BY DEF SweepAbandonedParticipants, Remove, SeatMatchesIdentity, identityVars
<1>10. ReconnectFromTheDead'
  BY DEF SweepAbandonedParticipants, ReconnectFromTheDead, identityVars
<1> QED  BY <1>1, <1>2, <1>3, <1>4, <1>5, <1>6, <1>7, <1>8, <1>9, <1>10

\* Time only ages marks; it neither makes nor removes one.
LEMMA ElapseDungeonsPreserves ==
    ASSUME DungeonInv, ElapseDungeons
    PROVE  DungeonInv'
<1> USE DEF DungeonInv
<1>1. DungeonTypeOK'
  BY DungeonFacts DEF ElapseDungeons, Older, DungeonTypeOK, Reconnect, identityVars
<1>2. IdentityBijection'
  BY DEF ElapseDungeons, IdentityBijection, identityVars
<1>3. SeatBijection'
  BY DEF ElapseDungeons, SeatBijection
<1>4. SeatsConsistent'
  BY DEF ElapseDungeons, Older, SeatsConsistent, Live
<1>5. PartyDungeonsConsistent'
  BY DEF ElapseDungeons, PartyDungeonsConsistent, Live
<1>6. ReconnectHoldsSeat'
  BY DEF ElapseDungeons, Older, ReconnectHoldsSeat, DungeonTypeOK, Live, Reconnect
<1>7. FutureDungeonsAbsent'
  BY DEF ElapseDungeons, FutureDungeonsAbsent, Live
<1>8. NewIsUnknown'
  BY DEF ElapseDungeons, NewIsUnknown, identityVars
<1>9. SeatMatchesIdentity'
  BY DEF ElapseDungeons, SeatMatchesIdentity, identityVars
<1>10. ReconnectFromTheDead'
  BY DEF ElapseDungeons, ReconnectFromTheDead, identityVars
<1> QED  BY <1>1, <1>2, <1>3, <1>4, <1>5, <1>6, <1>7, <1>8, <1>9, <1>10
-----------------------------------------------------------------------------
\* A new server satisfies the invariant.
LEMMA DungeonInitially == DungeonInit => DungeonInv
<1> SUFFICES ASSUME DungeonInit PROVE DungeonInv
  OBVIOUS
<1>1. DungeonTypeOK
  <2>1. NoPlayers \in [Sessions -> Players \cup {None}]
    BY DEF NoPlayers
  <2>2. NoPlayers \in [Sessions -> (0..ReconnectGrace) \cup {None}]
    BY DEF NoPlayers
  <2>3. NoSessions \in [Players -> Sessions \cup {None}]
    BY DEF NoSessions
  <2>4. 0 \in 0..MaxDungeonLifetime /\ 1 \in 1..(MaxDungeons + 1)
    BY DungeonFacts
  <2> QED  BY <2>1, <2>2, <2>3, <2>4 DEF DungeonInit, DungeonTypeOK, States
<1>2. IdentityBijection /\ SeatBijection
  BY DungeonFacts DEF DungeonInit, NoPlayers, NoSessions, Live, IdentityBijection, SeatBijection
<1>3. SeatsConsistent /\ PartyDungeonsConsistent
  BY DungeonFacts DEF DungeonInit, NoPlayers, NoSessions, Live, SeatsConsistent, PartyDungeonsConsistent
<1>4. ReconnectHoldsSeat /\ ReconnectFromTheDead
  BY DungeonFacts DEF DungeonInit, NoPlayers, NoSessions, Live, ReconnectHoldsSeat, ReconnectFromTheDead
<1>5. FutureDungeonsAbsent /\ NewIsUnknown /\ SeatMatchesIdentity
  BY DungeonFacts DEF DungeonInit, NoPlayers, NoSessions, Live, FutureDungeonsAbsent, NewIsUnknown, SeatMatchesIdentity
<1> QED  BY <1>1, <1>2, <1>3, <1>4, <1>5 DEF DungeonInv

\* Every step of the dungeon manager preserves the invariant.
LEMMA DungeonInductive == DungeonInv /\ [DungeonNext]_dungeonVars => DungeonInv'
<1> SUFFICES ASSUME DungeonInv, [DungeonNext]_dungeonVars PROVE DungeonInv'
  OBVIOUS
<1>1. ASSUME NEW party \in PartyIds, NEW members \in (SUBSET Sessions) \ {{}},
             CreateDungeon(party, members)
      PROVE  DungeonInv'
  BY <1>1, CreateDungeonPreserves
<1>2. ASSUME NEW s \in Sessions, SessionStep(s) PROVE DungeonInv'
  <2>1. ASSUME NEW p \in Players, RegisterRefused(s, p) PROVE DungeonInv'
    BY <2>1, RegisterRefusedPreserves
  <2>2. ASSUME NEW p \in Players, RegisterPlain(s, p) PROVE DungeonInv'
    BY <2>2, RegisterPlainPreserves
  <2>3. ASSUME NEW p \in Players, NEW d \in DungeonIds, RegisterSeated(s, p, d) PROVE DungeonInv'
    BY <2>3, RegisterSeatedPreserves
  <2>4. ASSUME NEW p \in Players, NEW d \in DungeonIds, RegisterReconnected(s, p, d)
        PROVE  DungeonInv'
    BY <2>4, RegisterReconnectedPreserves
  <2>5. ASSUME StrandIdle(s), NEW d \in DungeonIds, DisconnectSeated(s, d) PROVE DungeonInv'
    BY <2>5, DisconnectSeatedPreserves
  <2>6. CASE StrandIdle(s) /\ DisconnectUnseated(s)
    BY <2>6, DisconnectUnseatedPreserves
  <2>7. CASE ReconnectCompleted(s)
    BY <2>7, ReconnectCompletedPreserves
  <2>8. CASE RollbackPlayerReconnect(s)
    BY <2>8, RollbackPlayerReconnectPreserves
  <2>9. CASE RollbackRefused(s)
    BY <2>9, RollbackRefusedPreserves
  <2> QED  BY <1>2, <2>1, <2>2, <2>3, <2>4, <2>5, <2>6, <2>7, <2>8, <2>9 DEF SessionStep
<1>3. ASSUME NEW d \in DungeonIds, DungeonStep(d) PROVE DungeonInv'
  BY <1>3, StartDungeonPreserves, TryFinishIfClearedPreserves, CancelDungeonPreserves,
     FinishDungeonPreserves DEF DungeonStep
<1>4. CASE SweepAbandonedParticipants
  BY <1>4, SweepAbandonedParticipantsPreserves
<1>5. CASE StopDungeons
  BY <1>5, StopDungeonsPreserves
<1>6. CASE ElapseDungeons
  BY <1>6, ElapseDungeonsPreserves
<1>7. CASE UNCHANGED dungeonVars
  BY <1>7 DEF dungeonVars, instanceVars, identityVars, Live, DungeonInv, DungeonTypeOK,
     IdentityBijection, SeatBijection, SeatsConsistent, PartyDungeonsConsistent,
     ReconnectHoldsSeat, FutureDungeonsAbsent, NewIsUnknown, SeatMatchesIdentity,
     ReconnectFromTheDead
<1> QED  BY <1>1, <1>2, <1>3, <1>4, <1>5, <1>6, <1>7 DEF DungeonNext

\* The invariant holds throughout every behaviour.
LEMMA DungeonInvariant == DungeonSpec => []DungeonInv
BY DungeonInitially, DungeonInductive, PTL DEF DungeonSpec

\* For any number of sessions, players, parties and dungeons and any time limits:
\* the dungeon manager's maps stay typed, the two identity maps inverse of each
\* other, and the two seat maps of every dungeon inverse of each other.
THEOREM DungeonIdentities ==
    DungeonSpec => [](DungeonTypeOK /\ SeatsExclusive)
<1>1. DungeonInv => DungeonTypeOK /\ SeatsExclusive
  BY DEF DungeonInv, SeatsExclusive
<1> QED  BY <1>1, DungeonInvariant, PTL

\* For any values of the constants: roster, player map, identities and disconnect
\* marks of a dungeon agree, a dungeon exists exactly while somebody is in it,
\* partyDungeons_ names exactly the live dungeons, and a reconnect in progress holds
\* its seat unmarked.
THEOREM DungeonSeats == DungeonSpec => []SeatBookkeeping
<1>1. DungeonInv => SeatBookkeeping
  BY DEF DungeonInv, SeatBookkeeping
<1> QED  BY <1>1, DungeonInvariant, PTL

\* For any values of the constants: a seat passes to another session only while its
\* holder is marked disconnected within the grace, or back to where it came from.
THEOREM DungeonSeatMoves == DungeonSpec => SeatMovesOnlyAfterDisconnect
<1> DEFINE Allowed(d, p) == LET from == playerSessions[d][p]
                                to   == playerSessions'[d][p]
                            IN  from # None /\ to # None /\ from # to =>
                                   \/ disconnectedSince[d][from] \notin {None, ReconnectGrace}
                                   \/ reconnecting[from] # None /\ reconnecting[from].old = to
           Stays == \A d \in DungeonIds, p \in Players : Allowed(d, p)
<1>1. ASSUME DungeonInv, [DungeonNext]_dungeonVars PROVE [Stays]_dungeonVars
  <2> USE <1>1
  <2>1. ASSUME UNCHANGED playerSessions PROVE Stays
    BY <2>1
  <2>2. ASSUME NEW D, NEW gone, Remove(D, gone) PROVE Stays
    BY <2>2 DEF Remove
  <2>3. ASSUME NEW party \in PartyIds, NEW members \in (SUBSET Sessions) \ {{}},
               CreateDungeon(party, members)
        PROVE  Stays
    <3>1. nextDungeonId \in DungeonIds /\ ~Live(nextDungeonId)
      BY <2>3, DungeonFacts DEF CreateDungeon, DungeonInv, DungeonTypeOK, FutureDungeonsAbsent
    <3>2. \A p \in Players : playerSessions[nextDungeonId][p] = None
      <4>1. \A s \in Sessions : participantPlayerIds[nextDungeonId][s] = None
        BY <3>1 DEF DungeonInv, SeatsConsistent
      <4>2. \A p \in Players : playerSessions[nextDungeonId][p] \in Sessions \cup {None}
        BY <3>1 DEF DungeonInv, DungeonTypeOK
      <4> QED  BY <3>1, <4>1, <4>2, DungeonFacts DEF DungeonInv, SeatBijection
    <3>3. \A d \in DungeonIds : d # nextDungeonId => playerSessions'[d] = playerSessions[d]
      BY <2>3 DEF CreateDungeon, DungeonInv, DungeonTypeOK
    <3> QED  BY <3>2, <3>3
  <2>4. ASSUME NEW s \in Sessions, NEW p \in Players, NEW d \in DungeonIds,
               RegisterSeated(s, p, d)
        PROVE  Stays
    <3>1. playerSessions[d][p] \in {None, s}
      BY <2>4, DungeonFacts DEF RegisterSeated, CanBind, DungeonInv, DungeonTypeOK, SeatBijection
    <3>2. playerSessions' = [playerSessions EXCEPT ![d] = [playerSessions[d] EXCEPT ![p] = s]]
      BY <2>4 DEF RegisterSeated
    <3> QED  BY <3>1, <3>2 DEF DungeonInv, DungeonTypeOK
  <2>5. ASSUME NEW s \in Sessions, NEW p \in Players, NEW d \in DungeonIds,
               RegisterReconnected(s, p, d)
        PROVE  Stays
    <3>1. disconnectedSince[d][playerSessions[d][p]] \notin {None, ReconnectGrace}
      BY <2>5 DEF RegisterReconnected, CanReconnect
    <3>2. playerSessions' = [playerSessions EXCEPT ![d] = [playerSessions[d] EXCEPT ![p] = s]]
      BY <2>5 DEF RegisterReconnected
    <3> QED  BY <3>1, <3>2 DEF DungeonInv, DungeonTypeOK
  <2>6. ASSUME NEW s \in Sessions, RollbackPlayerReconnect(s) PROVE Stays
    <3> PICK r \in Reconnect : r = reconnecting[s] /\ r # None
      BY <2>6 DEF RollbackPlayerReconnect, DungeonInv, DungeonTypeOK
    <3>1. /\ r.dungeon \in DungeonIds /\ r.player \in Players
          /\ playerSessions[r.dungeon][r.player] = s
      BY <2>6 DEF Reconnect, RollbackPlayerReconnect, CanRollback
    <3>2. playerSessions' = [playerSessions EXCEPT ![r.dungeon] =
                               [playerSessions[r.dungeon] EXCEPT ![r.player] = r.old]]
      BY <2>6 DEF RollbackPlayerReconnect
    <3> QED  BY <3>1, <3>2 DEF DungeonInv, DungeonTypeOK
  <2>7. ASSUME NEW s \in Sessions, SessionStep(s) PROVE Stays
    BY <2>1, <2>4, <2>5, <2>6, <2>7 DEF SessionStep, RegisterRefused, RegisterPlain,
       DisconnectSeated, DisconnectUnseated, ReconnectCompleted, RollbackRefused, instanceVars
  <2>8. ASSUME NEW d \in DungeonIds, DungeonStep(d) PROVE Stays
    BY <2>1, <2>2, <2>8 DEF DungeonStep, StartDungeon, TryFinishIfCleared, CancelDungeon,
       FinishDungeon
  <2>9. CASE SweepAbandonedParticipants \/ StopDungeons \/ ElapseDungeons
    BY <2>1, <2>2, <2>9 DEF SweepAbandonedParticipants, StopDungeons, ElapseDungeons
  <2> QED  BY <2>3, <2>7, <2>8, <2>9 DEF DungeonNext
<1> QED  BY <1>1, DungeonInvariant, PTL DEF DungeonSpec, SeatMovesOnlyAfterDisconnect

\* For any values of the constants: a dungeon only moves forward and its id is used
\* once.
THEOREM DungeonForward == DungeonSpec => DungeonStateMonotonic
<1> DEFINE Forward == \A d \in DungeonIds :
               <<dungeonState[d], dungeonState'[d]>> \in
                   {<<x, x>> : x \in States} \cup {<<x, "Absent">> : x \in States}
                   \cup {<<"Waiting", "Running">>, <<"Running", "Finished">>}
               \/ (dungeonState[d] = "Absent" /\ dungeonState'[d] = "Waiting"
                   /\ d = nextDungeonId /\ nextDungeonId' = d + 1)
<1>1. ASSUME DungeonInv, [DungeonNext]_dungeonVars PROVE [Forward]_dungeonVars
  <2> USE <1>1
  <2>0. \A d \in DungeonIds : dungeonState[d] \in States
    BY DEF DungeonInv, DungeonTypeOK
  <2>1. ASSUME UNCHANGED dungeonState PROVE Forward
    BY <2>0, <2>1
  <2>2. ASSUME NEW D, NEW gone, Remove(D, gone) PROVE Forward
    BY <2>0, <2>2 DEF Remove
  <2>3. ASSUME NEW party \in PartyIds, NEW members \in (SUBSET Sessions) \ {{}},
               CreateDungeon(party, members)
        PROVE  Forward
    <3>1. nextDungeonId \in DungeonIds /\ dungeonState[nextDungeonId] = "Absent"
      BY <2>3, DungeonFacts
         DEF CreateDungeon, DungeonInv, DungeonTypeOK, FutureDungeonsAbsent, Live
    <3> QED  BY <2>0, <2>3, <3>1 DEF CreateDungeon, DungeonInv, DungeonTypeOK
  <2>4. ASSUME NEW s \in Sessions, SessionStep(s) PROVE Forward
    BY ZenonT(60), <2>1, <2>4 DEF SessionStep, RegisterRefused, RegisterPlain, RegisterSeated,
       RegisterReconnected, DisconnectSeated, DisconnectUnseated, ReconnectCompleted,
       RollbackPlayerReconnect, RollbackRefused, instanceVars
  <2>5. ASSUME NEW d \in DungeonIds, StartDungeon(d) \/ TryFinishIfCleared(d) PROVE Forward
    BY <2>0, <2>5 DEF StartDungeon, CanStart, TryFinishIfCleared, DungeonInv, DungeonTypeOK
  <2>6. ASSUME NEW d \in DungeonIds, DungeonStep(d) PROVE Forward
    BY <2>2, <2>5, <2>6 DEF DungeonStep, CancelDungeon, FinishDungeon
  <2>7. CASE SweepAbandonedParticipants \/ StopDungeons \/ ElapseDungeons
    BY <2>1, <2>2, <2>7 DEF SweepAbandonedParticipants, StopDungeons, ElapseDungeons
  <2> QED  BY <2>3, <2>4, <2>6, <2>7 DEF DungeonNext
<1> QED  BY <1>1, DungeonInvariant, PTL DEF DungeonSpec, DungeonStateMonotonic
=============================================================================
