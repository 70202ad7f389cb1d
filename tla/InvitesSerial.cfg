SPECIFICATION Spec
CONSTANTS
  Characters = {c1, c2, c3}
  NoCharacter = NoCharacter
  Capacity = 2
  StartPartyId = 1
  PartyIds <- OnePartyIds
  CommandIds <- OnePartyIds
  Maps <- OneMap
  w1 = w1
  w2 = w2
  w3 = w3
  Workers = {w1}
  Serves <- ServeInvites
  Mortal = {c1, c2, c3}
  LossyBroker = TRUE
  Restarts = TRUE
SYMMETRY Symmetry
INVARIANTS RecordsAgree PartiesBuildable
PROPERTY InvitationsAcceptable
