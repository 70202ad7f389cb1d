---------------------------- MODULE PartyRegistry ----------------------------
(***************************************************************************)
(* party/registry.go for one tenant: the party map, the character index    *)
(* beside it and the id counter.  Each action is one critical section of   *)
(* the code, so two calls interleave exactly where the code releases its   *)
(* locks: Create is the only call with two sections (the id under r.lock,  *)
(* the party under the tenant lock).  Callers are arbitrary: any caller    *)
(* may update or remove any id at any time, in particular an id that is    *)
(* absent, which Update does not test for.                                 *)
(***************************************************************************)
EXTENDS PartyModel

CONSTANTS
  StartPartyId,  \* first id handed out; 1000000000 in the code
  PartyIds       \* the ids in use: Nat in the proofs, 0..n for TLC.  The one
                 \* bound of this module: Create stops when the next id is
                 \* outside it.

ASSUME PartyIdsAssumption ==
  /\ StartPartyId \in Nat \ {0}
  /\ PartyIds \subseteq Nat
  /\ NoParty \in PartyIds

VARIABLES
  partyReg,       \* r.partyReg[t]: party id -> party
  charToParty,    \* r.characterToParty[t]: character -> party id
  tenantPartyId,  \* r.tenantPartyId[t]: last id handed out, 0 while absent
  creating        \* the parties of Create calls between their two sections

registryVars == <<partyReg, charToParty, tenantPartyId, creating>>

-----------------------------------------------------------------------------

RegistryInit ==
  /\ partyReg = EmptyMap
  /\ charToParty = EmptyMap
  /\ tenantPartyId = 0
  /\ creating = {}

\* A slip: an update of an absent id that gives the new party its id.
LookupUnderKey(p) ==
  IF p \in DOMAIN partyReg THEN partyReg[p] ELSE [ZeroParty EXCEPT !.id = p]

\* r.partyReg[t][p], with the zero value for an absent key.
Lookup(p) == IF p \in DOMAIN partyReg THEN partyReg[p] ELSE ZeroParty

\* What Update(p, u) will store.
Updated(p, u) == Apply(u, Lookup(p))

Fits(m) == Size(m) <= Capacity

\* GetPartyByCharacter: Model{} stands for ErrNotFound.
PartyOf(c) == IF c \in DOMAIN charToParty THEN Lookup(charToParty[c]) ELSE ZeroParty

\* A slip: the loop that enters the new members is missing.
ReindexedLeaversOnly(old, new) == DeleteKeys(charToParty, Members(old) \ Members(new))

\* updateCharacterToPartyMapping: who left is dropped, who is new is entered
\* under the id the new model carries, who stayed is not touched.
Reindexed(old, new) ==
  LET left   == Members(old) \ Members(new)
      joined == Members(new) \ Members(old)
      kept   == DeleteKeys(charToParty, left)
  IN  [c \in DOMAIN kept \cup joined |-> IF c \in joined THEN new.id ELSE kept[c]]

-----------------------------------------------------------------------------
(* Variants of the critical sections that a slip could produce.            *)

NextIdNotAdvanced ==
  IF tenantPartyId = 0 THEN StartPartyId
  ELSE IF creating = {} THEN tenantPartyId + 1 ELSE tenantPartyId

RemovePartyOnly(p) ==
  /\ partyReg' = DeleteKeys(partyReg, {p})
  /\ UNCHANGED <<charToParty, tenantPartyId, creating>>

StorePartySwapped(m) ==
  /\ m \in creating
  /\ creating' = creating \ {m}
  /\ partyReg' = Put(partyReg, m.id, m)
  /\ charToParty' = Put(charToParty, m.id, m.leader)
  /\ UNCHANGED tenantPartyId

UpdatePartyUnbounded(p, u) ==
  /\ charToParty' = Reindexed(Lookup(p), Updated(p, u))
  /\ partyReg' = Put(partyReg, p, Updated(p, u))
  /\ UNCHANGED <<tenantPartyId, creating>>

-----------------------------------------------------------------------------

NextId == IF tenantPartyId = 0 THEN StartPartyId ELSE tenantPartyId + 1

\* First section of Create.  The first Create of a tenant installs new maps,
\* whatever an earlier Get or Update put into the old ones.
AllocatePartyId(leader) ==
  /\ NextId \in PartyIds
  /\ tenantPartyId' = NextId
  /\ creating' = creating \cup {NewParty(NextId, leader)}
  /\ partyReg' = IF tenantPartyId = 0 THEN EmptyMap ELSE partyReg
  /\ charToParty' = IF tenantPartyId = 0 THEN EmptyMap ELSE charToParty

\* Second section of Create.
StoreParty(m) ==
  /\ m \in creating
  /\ creating' = creating \ {m}
  /\ partyReg' = Put(partyReg, m.id, m)
  /\ charToParty' = Put(charToParty, m.leader, m.id)
  /\ UNCHANGED tenantPartyId

\* Update of a model within the capacity.  Over it, Update returns
\* ErrAtCapacity and changes nothing: callers test ~Fits(Updated(p, u)).
UpdateParty(p, u) ==
  /\ Fits(Updated(p, u))
  /\ charToParty' = Reindexed(Lookup(p), Updated(p, u))
  /\ partyReg' = Put(partyReg, p, Updated(p, u))
  /\ UNCHANGED <<tenantPartyId, creating>>

\* Remove takes its party and the index entries of all its members.
RemoveParty(p) ==
  /\ charToParty' = DeleteKeys(charToParty, Members(Lookup(p)))
  /\ partyReg' = DeleteKeys(partyReg, {p})
  /\ UNCHANGED <<tenantPartyId, creating>>

RegistryNext ==
  \/ \E leader \in Characters : AllocatePartyId(leader)
  \/ \E m \in creating : StoreParty(m)
  \/ \E p \in PartyIds, u \in Updaters : UpdateParty(p, u)
  \/ \E p \in PartyIds : RemoveParty(p)

RegistrySpec == RegistryInit /\ [][RegistryNext]_registryVars

-----------------------------------------------------------------------------

RegistryTypeOK ==
  /\ DOMAIN partyReg \subseteq PartyIds
  /\ partyReg = [p \in DOMAIN partyReg |-> partyReg[p]]
  /\ \A p \in DOMAIN partyReg : IsParty(partyReg[p])
  /\ DOMAIN charToParty \subseteq Characters
  /\ charToParty \in [DOMAIN charToParty -> PartyIds]
  /\ tenantPartyId \in PartyIds
  /\ \A m \in creating : IsParty(m) /\ m.id \in PartyIds

\* The parties the registry holds under their own id.  Update of an absent id
\* stores a model whose id is still zero: such an entry is not one of them.
Live == {p \in DOMAIN partyReg : p # NoParty /\ partyReg[p].id = p}

\* Every id is handed out once: the parties two overlapping Create calls are
\* about to store have different ids, none of them is an id already live, and
\* no id beyond the counter is in circulation.  Create releases r.lock before
\* it stores the party (registry.go:57-70), so this rests on the counter alone.
UniqueIds ==
  /\ \A m, n \in creating : m.id = n.id => m = n
  /\ \A m \in creating : m.id \notin Live /\ m.id \in StartPartyId..tenantPartyId
  /\ \A p \in Live : p \in StartPartyId..tenantPartyId

\* A character the index sends to a party is a member of that very party, for
\* all callers and interleavings: whatever removes a character or a party has
\* taken the index entry with it (registry.go:140-175), so
\* GetPartyByCharacter never answers with a party the character has left.
IndexSound ==
  \A c \in DOMAIN charToParty :
    charToParty[c] # NoParty =>
      /\ charToParty[c] \in Live
      /\ c \in Members(partyReg[charToParty[c]])

\* No stored party exceeds the capacity, although every caller decides to add
\* a member on a copy it read earlier (processor.go:216-236): the test inside
\* Update is the one that counts.
WithinCapacity == \A p \in DOMAIN partyReg : Fits(partyReg[p])

\* A live party disappears for good, so an id a client still holds never comes
\* to mean another party: a party enters the registry only out of a Create that
\* is under way, and Create takes only ids above the counter.  An update of an
\* absent id (registry.go:119) must therefore not bring the party back.
NeverRevived ==
  [][/\ Live' \subseteq Live \cup {m.id : m \in creating}
     /\ \A m \in creating' \ creating : m.id > tenantPartyId]_registryVars

=============================================================================
