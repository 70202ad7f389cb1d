SPECIFICATION RegistrySpec
CONSTANTS
  Characters = {c1, c2}
  NoCharacter = NoCharacter
  Capacity = 2
  StartPartyId = 1
  PartyIds <- MCPartyIds
SYMMETRY Symmetry
INVARIANTS RegistryTypeOK UniqueIds IndexSound WithinCapacity
PROPERTY NeverRevived
