SPECIFICATION Spec
CONSTANTS
  Characters = {c1, c2, c3}
  NoCharacter = NoCharacter
  Capacity = 2
  StartPartyId = 1
  PartyIds <- TwoPartyIds
  CommandIds <- TwoPartyIds
  Maps <- OneMap
  w1 = w1
  w2 = w2
  w3 = w3
  Workers = {w1}
  Serves <- ServeCommands
  Mortal = {c1, c2, c3}
  LossyBroker = FALSE
  Restarts = FALSE
SYMMETRY Symmetry
CONSTRAINT ZeroVacant
INVARIANTS TypeOK RecordsAgree IndexExact MirrorAgrees DeletedAreGone
  PatchAppoints
PROPERTY ImplementsRoster
