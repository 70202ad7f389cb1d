------------------------- MODULE PartyRegistryProofs -------------------------
(***************************************************************************)
(* The theorems about party/registry.go: whatever its callers do, in any   *)
(* number and for any capacity, and with unboundedly many party ids, the   *)
(* registry keeps its types, its ids unique, its index sound and its       *)
(* parties within the capacity, and never brings a party back.             *)
(***************************************************************************)
EXTENDS PartyRegistry, FiniteSetTheorems, TLAPS

-----------------------------------------------------------------------------
(* What the updaters do to a model.                                        *)

LEMMA AddedMember ==
  ASSUME NEW b, IsMemberList(b), NEW c \in Characters
  PROVE  /\ IsMemberList(BagAdd(b, c))
         /\ DOMAIN BagAdd(b, c) = DOMAIN b \cup {c}
  BY DEF BagAdd, IsMemberList

LEMMA RemovedMember ==
  ASSUME NEW b, IsMemberList(b), NEW c \in Characters
  PROVE  /\ IsMemberList(BagRemoveAll(b, c))
         /\ DOMAIN BagRemoveAll(b, c) = DOMAIN b \ {c}
  BY DEF BagRemoveAll, IsMemberList

LEMMA NoMembers == IsMemberList(EmptyMap) /\ DOMAIN EmptyMap = {}
  BY DEF EmptyMap, IsMemberList

\* A party an updater has been applied to is a party, with the id it had.
LEMMA AppliedParty ==
  ASSUME NEW m, IsParty(m), NEW u \in Updaters
  PROVE  IsParty(Apply(u, m)) /\ Apply(u, m).id = m.id
<1> DEFINE c == u.chr
<1>0. c \in Characters
  BY DEF Updaters
<1>1. CASE u.kind = "AddMember"
  <2>1. Apply(u, m) = AddMember(m, c)
    BY <1>1 DEF Apply
  <2>2. IsMemberList(BagAdd(m.members, c))
    BY <1>0, AddedMember DEF IsParty
  <2>3. AddMember(m, c) = [id |-> m.id, leader |-> m.leader, members |-> BagAdd(m.members, c)]
    BY DEF AddMember, IsParty
  <2> QED BY <2>1, <2>2, <2>3 DEF IsParty
<1>2. CASE u.kind = "RemoveMember"
  <2>1. Apply(u, m) = RemoveMember(m, c)
    BY <1>2 DEF Apply
  <2>2. IsMemberList(BagRemoveAll(m.members, c))
    BY <1>0, RemovedMember DEF IsParty
  <2>3. RemoveMember(m, c) = [id |-> m.id, leader |-> m.leader, members |-> BagRemoveAll(m.members, c)]
    BY DEF RemoveMember, IsParty
  <2> QED BY <2>1, <2>2, <2>3 DEF IsParty
<1>3. CASE u.kind = "SetLeader"
  <2>1. Apply(u, m) = SetLeader(m, c)
    BY <1>3 DEF Apply
  <2>2. SetLeader(m, c) = [id |-> m.id, leader |-> c, members |-> m.members]
    BY DEF SetLeader, IsParty
  <2> QED BY <1>0, <2>1, <2>2 DEF IsParty
<1> QED BY <1>1, <1>2, <1>3 DEF Updaters

\* The model Create builds: a party whose leader is its one member.
LEMMA CreatedParty ==
  ASSUME NEW id \in Nat, NEW leader \in Characters
  PROVE  /\ IsParty(NewParty(id, leader))
         /\ NewParty(id, leader).id = id
         /\ NewParty(id, leader).leader = leader
         /\ Members(NewParty(id, leader)) = {leader}
         /\ Fits(NewParty(id, leader))
<1> DEFINE m == NewParty(id, leader)
<1>0. m.members = BagAdd(EmptyMap, leader)
  BY DEF NewParty
<1>1. /\ IsMemberList(m.members)
      /\ Members(m) = {leader}
  <2>1. /\ IsMemberList(BagAdd(EmptyMap, leader))
        /\ DOMAIN BagAdd(EmptyMap, leader) = {} \cup {leader}
    BY NoMembers, AddedMember
  <2> QED BY <1>0, <2>1 DEF Members
<1>2. m.members[leader] = 1
  BY NoMembers DEF NewParty, BagAdd
<1>3. UNION {{c} \X (1..m.members[c]) : c \in Members(m)} = {<<leader, 1>>}
  <2>1. UNION {{c} \X (1..m.members[c]) : c \in Members(m)} = {leader} \X (1..1)
    BY <1>1, <1>2
  <2> QED BY <2>1
<1>4. Size(m) = 1
  BY <1>3, FS_Singleton DEF Size
<1>5. Fits(m)
  BY <1>4, CapacityAssumption DEF Fits
<1> QED BY <1>1, <1>5 DEF IsParty, NewParty

LEMMA LookupParty ==
  ASSUME RegistryTypeOK, NEW p
  PROVE  IsParty(Lookup(p))
<1>1. IsParty(ZeroParty)
  BY NoMembers DEF IsParty, ZeroParty, NoParty
<1> QED BY <1>1 DEF Lookup, RegistryTypeOK

-----------------------------------------------------------------------------
(***************************************************************************)
(* The inductive invariant.  Beside the three checked invariants it says   *)
(* that a stored model carries its own key as its id or none (an update of *)
(* an absent id stores a model without an id, and no updater sets one),    *)
(* and that a party between the two sections of Create has its leader as   *)
(* its only member.                                                        *)
(***************************************************************************)
StoredIds == \A p \in DOMAIN partyReg : partyReg[p].id \in {NoParty, p}

CounterStarts == tenantPartyId = 0 \/ tenantPartyId >= StartPartyId

CreatingNew ==
  \A m \in creating :
    m.leader \in Characters /\ Members(m) = {m.leader} /\ Fits(m)

RegistryInv ==
  /\ RegistryTypeOK
  /\ UniqueIds
  /\ IndexSound
  /\ WithinCapacity
  /\ StoredIds
  /\ CounterStarts
  /\ CreatingNew

LEMMA RegistryInitInv == RegistryInit => RegistryInv
  BY PartyIdsAssumption
  DEF RegistryInit, RegistryInv, RegistryTypeOK, UniqueIds, IndexSound,
      WithinCapacity, StoredIds, CounterStarts, CreatingNew, EmptyMap, Live, NoParty

LEMMA AllocatePartyIdInv ==
  ASSUME RegistryInv, NEW leader \in Characters, AllocatePartyId(leader)
  PROVE  RegistryInv'
<1> DEFINE n == NewParty(NextId, leader)
<1> USE DEF RegistryInv
<1>1. /\ NextId \in PartyIds /\ NextId \in Nat /\ tenantPartyId \in Nat
      /\ NextId > tenantPartyId /\ NextId >= StartPartyId
      /\ tenantPartyId' = NextId
      /\ creating' = creating \cup {n}
  BY PartyIdsAssumption DEF AllocatePartyId, NextId, RegistryTypeOK, CounterStarts
<1>2. /\ IsParty(n) /\ n.id = NextId /\ n.leader = leader
      /\ Members(n) = {leader} /\ Fits(n)
  BY <1>1, CreatedParty
<1>3. \/ partyReg' = partyReg /\ charToParty' = charToParty
      \/ partyReg' = EmptyMap /\ charToParty' = EmptyMap
  BY DEF AllocatePartyId
<1>4. tenantPartyId = 0 => creating = {} /\ Live = {}
  BY PartyIdsAssumption DEF UniqueIds
<1>5. CASE partyReg' = partyReg /\ charToParty' = charToParty
  <2>1. Live' = Live
    BY <1>5 DEF Live
  <2>2. RegistryTypeOK'
    BY <1>1, <1>2, <1>5 DEF RegistryTypeOK
  <2>3. UniqueIds'
    BY <1>1, <1>2, <2>1, PartyIdsAssumption DEF UniqueIds
  <2>4. IndexSound' /\ WithinCapacity' /\ StoredIds'
    BY <1>5, <2>1 DEF IndexSound, WithinCapacity, StoredIds
  <2>5. CounterStarts' /\ CreatingNew'
    BY <1>1, <1>2 DEF CounterStarts, CreatingNew
  <2> QED BY <2>2, <2>3, <2>4, <2>5
<1>6. CASE partyReg' = EmptyMap /\ charToParty' = EmptyMap
  <2>1. Live' = {}
    BY <1>6 DEF Live, EmptyMap
  <2>2. RegistryTypeOK'
    BY <1>1, <1>2, <1>6 DEF RegistryTypeOK, EmptyMap
  <2>3. UniqueIds'
    BY <1>1, <1>2, <2>1, PartyIdsAssumption DEF UniqueIds
  <2>4. IndexSound' /\ WithinCapacity' /\ StoredIds'
    BY <1>6 DEF IndexSound, WithinCapacity, StoredIds, EmptyMap
  <2>5. CounterStarts' /\ CreatingNew'
    BY <1>1, <1>2 DEF CounterStarts, CreatingNew
  <2> QED BY <2>2, <2>3, <2>4, <2>5
<1> QED BY <1>3, <1>5, <1>6

LEMMA StorePartyInv ==
  ASSUME RegistryInv, NEW m \in creating, StoreParty(m)
  PROVE  RegistryInv'
<1> USE DEF RegistryInv
<1>1. /\ creating' = creating \ {m}
      /\ partyReg' = Put(partyReg, m.id, m)
      /\ charToParty' = Put(charToParty, m.leader, m.id)
      /\ tenantPartyId' = tenantPartyId
  BY DEF StoreParty
<1>2. /\ IsParty(m) /\ m.leader \in Characters /\ Members(m) = {m.leader} /\ Fits(m)
      /\ m.id \in PartyIds /\ m.id # NoParty
      /\ m.id \notin Live /\ m.id \in StartPartyId..tenantPartyId
  <2>1. m.id \in PartyIds
    BY DEF RegistryTypeOK
  <2> QED BY <2>1, PartyIdsAssumption DEF RegistryTypeOK, UniqueIds, CreatingNew, NoParty
<1>3. Live' = Live \cup {m.id}
  BY <1>1, <1>2 DEF Live, Put
<1>4. RegistryTypeOK'
  BY <1>1, <1>2 DEF RegistryTypeOK, Put
<1>5. UniqueIds'
  BY <1>1, <1>2, <1>3 DEF UniqueIds
<1>6. IndexSound'
  <2> SUFFICES ASSUME NEW c \in DOMAIN charToParty', charToParty'[c] # NoParty
               PROVE  /\ charToParty'[c] \in Live'
                      /\ c \in Members(partyReg'[charToParty'[c]])
    BY DEF IndexSound
  <2>1. CASE c = m.leader
    BY <1>1, <1>2, <1>3, <2>1 DEF Put
  <2>2. CASE c # m.leader
    <3>1. c \in DOMAIN charToParty /\ charToParty'[c] = charToParty[c]
      BY <1>1, <2>2 DEF Put
    <3>2. charToParty[c] \in Live /\ c \in Members(partyReg[charToParty[c]])
      BY <3>1 DEF IndexSound
    <3>3. charToParty[c] # m.id /\ charToParty[c] \in DOMAIN partyReg
      BY <1>2, <3>2 DEF Live
    <3>4. partyReg'[charToParty[c]] = partyReg[charToParty[c]]
      BY <1>1, <3>3 DEF Put
    <3> QED BY <1>3, <3>1, <3>2, <3>4
  <2> QED BY <2>1, <2>2
<1>7. WithinCapacity' /\ StoredIds'
  BY <1>1, <1>2 DEF WithinCapacity, StoredIds, Put
<1>8. CounterStarts' /\ CreatingNew'
  BY <1>1 DEF CounterStarts, CreatingNew
<1> QED BY <1>4, <1>5, <1>6, <1>7, <1>8

LEMMA UpdatePartyInv ==
  ASSUME RegistryInv, NEW p \in PartyIds, NEW u \in Updaters, UpdateParty(p, u)
  PROVE  RegistryInv'
<1> DEFINE old == Lookup(p)
           new == Updated(p, u)
<1> USE DEF RegistryInv
<1>1. /\ partyReg' = Put(partyReg, p, new)
      /\ charToParty' = Reindexed(old, new)
      /\ tenantPartyId' = tenantPartyId
      /\ creating' = creating
      /\ Fits(new)
  BY DEF UpdateParty
<1>2. IsParty(old) /\ IsParty(new) /\ new.id = old.id
  BY LookupParty, AppliedParty DEF Updated
<1>3. /\ new.id \in {NoParty, p} \cap PartyIds
      /\ new.id # NoParty => p \in Live /\ old = partyReg[p]
  BY <1>2, PartyIdsAssumption DEF Lookup, ZeroParty, StoredIds, Live
<1>4. Members(old) \subseteq Characters /\ Members(new) \subseteq Characters
  BY <1>2 DEF IsParty, IsMemberList, Members
<1>5. Live' = Live
  BY <1>1, <1>2, <1>3 DEF Live, Put, Lookup, ZeroParty
<1>6. DOMAIN charToParty' \subseteq (DOMAIN charToParty \cup Members(new))
  BY <1>1 DEF Reindexed, DeleteKeys
<1>7. \A c \in DOMAIN charToParty' :
        \/ c \in Members(new) \ Members(old) /\ charToParty'[c] = new.id
        \/ /\ c \notin Members(new) \ Members(old)
           /\ c \notin Members(old) \ Members(new)
           /\ c \in DOMAIN charToParty
           /\ charToParty'[c] = charToParty[c]
  BY <1>1 DEF Reindexed, DeleteKeys
<1>8. RegistryTypeOK'
  <2>1. /\ DOMAIN partyReg' \subseteq PartyIds
        /\ partyReg' = [q \in DOMAIN partyReg' |-> partyReg'[q]]
        /\ \A q \in DOMAIN partyReg' : IsParty(partyReg'[q])
    BY <1>1, <1>2 DEF RegistryTypeOK, Put
  <2>2. charToParty' = [c \in DOMAIN charToParty' |-> charToParty'[c]]
    BY <1>1 DEF Reindexed
  <2>3. \A c \in DOMAIN charToParty' : charToParty'[c] \in PartyIds
    BY <1>3, <1>7 DEF RegistryTypeOK
  <2>4. DOMAIN charToParty' \subseteq Characters
    BY <1>4, <1>6 DEF RegistryTypeOK
  <2> QED BY <1>1, <2>1, <2>2, <2>3, <2>4 DEF RegistryTypeOK
<1>9. UniqueIds'
  BY <1>1, <1>5 DEF UniqueIds
<1>10. IndexSound'
  <2> SUFFICES ASSUME NEW c \in DOMAIN charToParty', charToParty'[c] # NoParty
               PROVE  /\ charToParty'[c] \in Live'
                      /\ c \in Members(partyReg'[charToParty'[c]])
    BY DEF IndexSound
  <2>1. partyReg'[p] = new
    BY <1>1 DEF Put
  <2>2. CASE c \in Members(new) \ Members(old) /\ charToParty'[c] = new.id
    BY <1>3, <1>5, <2>1, <2>2
  <2>3. CASE /\ c \notin Members(new) \ Members(old)
             /\ c \notin Members(old) \ Members(new)
             /\ c \in DOMAIN charToParty
             /\ charToParty'[c] = charToParty[c]
    <3>1. charToParty[c] \in Live /\ c \in Members(partyReg[charToParty[c]])
      BY <2>3 DEF IndexSound
    <3>2. CASE charToParty[c] = p
      BY <1>5, <2>1, <2>3, <3>1, <3>2 DEF Lookup, Live
    <3>3. CASE charToParty[c] # p
      BY <1>1, <1>5, <2>3, <3>1, <3>3 DEF Put, Live
    <3> QED BY <3>2, <3>3
  <2> QED BY <1>7, <2>2, <2>3
<1>11. WithinCapacity' /\ StoredIds'
  BY <1>1, <1>3 DEF WithinCapacity, StoredIds, Put
<1>12. CounterStarts' /\ CreatingNew'
  BY <1>1 DEF CounterStarts, CreatingNew
<1> QED BY <1>8, <1>9, <1>10, <1>11, <1>12

LEMMA RemovePartyInv ==
  ASSUME RegistryInv, NEW p \in PartyIds, RemoveParty(p)
  PROVE  RegistryInv'
<1> USE DEF RegistryInv
<1>1. /\ partyReg' = DeleteKeys(partyReg, {p})
      /\ charToParty' = DeleteKeys(charToParty, Members(Lookup(p)))
      /\ tenantPartyId' = tenantPartyId
      /\ creating' = creating
  BY DEF RemoveParty
<1>2. Live' = Live \ {p}
  BY <1>1 DEF Live, DeleteKeys
<1>3. RegistryTypeOK'
  BY <1>1 DEF RegistryTypeOK, DeleteKeys
<1>4. UniqueIds'
  BY <1>1, <1>2 DEF UniqueIds
<1>5. IndexSound'
  <2> SUFFICES ASSUME NEW c \in DOMAIN charToParty', charToParty'[c] # NoParty
               PROVE  /\ charToParty'[c] \in Live'
                      /\ c \in Members(partyReg'[charToParty'[c]])
    BY DEF IndexSound
  <2>1. /\ c \in DOMAIN charToParty
        /\ c \notin Members(Lookup(p))
        /\ charToParty'[c] = charToParty[c]
    BY <1>1 DEF DeleteKeys
  <2>2. charToParty[c] \in Live /\ c \in Members(partyReg[charToParty[c]])
    BY <2>1 DEF IndexSound
  <2>3. charToParty[c] # p
    BY <2>1, <2>2 DEF Lookup, Live
  <2> QED BY <1>1, <1>2, <2>1, <2>2, <2>3 DEF DeleteKeys, Live
<1>6. WithinCapacity' /\ StoredIds'
  BY <1>1 DEF WithinCapacity, StoredIds, DeleteKeys
<1>7. CounterStarts' /\ CreatingNew'
  BY <1>1 DEF CounterStarts, CreatingNew
<1> QED BY <1>3, <1>4, <1>5, <1>6, <1>7

-----------------------------------------------------------------------------

LEMMA RegistryNextInv == RegistryInv /\ [RegistryNext]_registryVars => RegistryInv'
<1> SUFFICES ASSUME RegistryInv, [RegistryNext]_registryVars
             PROVE  RegistryInv'
  OBVIOUS
<1>1. CASE \E leader \in Characters : AllocatePartyId(leader)
  BY <1>1, AllocatePartyIdInv
<1>2. CASE \E m \in creating : StoreParty(m)
  BY <1>2, StorePartyInv
<1>3. CASE \E p \in PartyIds, u \in Updaters : UpdateParty(p, u)
  BY <1>3, UpdatePartyInv
<1>4. CASE \E p \in PartyIds : RemoveParty(p)
  BY <1>4, RemovePartyInv
<1>5. CASE UNCHANGED registryVars
  BY <1>5 DEF RegistryInv, RegistryTypeOK, UniqueIds, IndexSound, WithinCapacity,
              StoredIds, CounterStarts, CreatingNew, Live, registryVars
<1> QED BY <1>1, <1>2, <1>3, <1>4, <1>5 DEF RegistryNext

LEMMA RegistryInvariant == RegistrySpec => []RegistryInv
  BY RegistryInitInv, RegistryNextInv, PTL DEF RegistrySpec

\* Every state of the registry is well formed, whatever its callers do.
THEOREM RegistryTypeCorrect == RegistrySpec => []RegistryTypeOK
<1>1. RegistryInv => RegistryTypeOK
  BY DEF RegistryInv
<1> QED BY <1>1, RegistryInvariant, PTL

\* No two parties ever have the same id, however many Create calls overlap.
THEOREM RegistryUniqueIds == RegistrySpec => []UniqueIds
<1>1. RegistryInv => UniqueIds
  BY DEF RegistryInv
<1> QED BY <1>1, RegistryInvariant, PTL

\* GetPartyByCharacter never answers with a party the character is not in.
THEOREM RegistryIndexSound == RegistrySpec => []IndexSound
<1>1. RegistryInv => IndexSound
  BY DEF RegistryInv
<1> QED BY <1>1, RegistryInvariant, PTL

\* No interleaving of joins fills a party beyond its capacity.
THEOREM RegistryWithinCapacity == RegistrySpec => []WithinCapacity
<1>1. RegistryInv => WithinCapacity
  BY DEF RegistryInv
<1> QED BY <1>1, RegistryInvariant, PTL

\* An id, once its party is gone, never names a party again: updates of absent
\* ids leave entries without an id, and Create counts upwards.
THEOREM RegistryNeverRevives == RegistrySpec => NeverRevived
<1> DEFINE Step == /\ Live' \subseteq Live \cup {m.id : m \in creating}
                   /\ \A m \in creating' \ creating : m.id > tenantPartyId
<1>1. RegistryInv /\ [RegistryNext]_registryVars => [Step]_registryVars
  <2> SUFFICES ASSUME RegistryInv, RegistryNext
               PROVE  Step
    OBVIOUS
  <2> USE DEF RegistryInv
  <2>1. ASSUME NEW leader \in Characters, AllocatePartyId(leader)
        PROVE  Step
    <3>1. Live' \subseteq Live
      BY <2>1 DEF AllocatePartyId, Live, EmptyMap
    <3>2. NextId > tenantPartyId
      BY PartyIdsAssumption DEF NextId, RegistryTypeOK
    <3>3. NewParty(NextId, leader).id = NextId
      BY DEF NewParty
    <3> QED BY <2>1, <3>1, <3>2, <3>3 DEF AllocatePartyId
  <2>2. ASSUME NEW m \in creating, StoreParty(m)
        PROVE  Step
    BY <2>2 DEF StoreParty, Put, Live
  <2>3. ASSUME NEW p \in PartyIds, NEW u \in Updaters, UpdateParty(p, u)
        PROVE  Step
    <3>1. Updated(p, u).id = Lookup(p).id
      BY LookupParty, AppliedParty DEF Updated
    <3>2. Live' \subseteq Live
      BY <2>3, <3>1 DEF UpdateParty, Put, Live, Lookup, ZeroParty
    <3> QED BY <2>3, <3>2 DEF UpdateParty
  <2>4. ASSUME NEW p \in PartyIds, RemoveParty(p)
        PROVE  Step
    BY <2>4 DEF RemoveParty, DeleteKeys, Live
  <2> QED BY <2>1, <2>2, <2>3, <2>4 DEF RegistryNext
<1> QED BY <1>1, RegistryInvariant, PTL DEF RegistrySpec, NeverRevived

=============================================================================
