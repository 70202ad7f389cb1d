SPECIFICATION LiveSpec
CONSTANTS
  Characters = {c1, c2}
  NoCharacter = NoCharacter
  Capacity = 2
  StartPartyId = 1
  PartyIds <- OnePartyIds
  CommandIds <- OneCommandId
  Maps <- OneMap
  w1 = w1
  w2 = w2
  w3 = w3
  Workers = {w1, w2}
  Serves <- ServeDeletion
  Mortal = {c1}
  LossyBroker = FALSE
  Restarts = FALSE
INVARIANTS DisbandedAreGone LivingKeepRecords
PROPERTIES ViewsChangeNothing HandlersReturn DeletionsComplete
