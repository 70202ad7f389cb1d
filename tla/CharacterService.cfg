SPECIFICATION Spec
CONSTANTS
  Characters = {c1}
  Parties = {p1}
  Maps = {m1, m2}
  Levels = {l1, l2}
  JobIds = {j1, j2}
  Channels = {ch1, ch2}
  NoParty = NoParty
  NoChannel = NoChannel
  NoMap = NoMap
  Unheard = Unheard
  Workers = {w1, w2}
  Consuming = {w1}
  MaxEvents = 4
SYMMETRY Symmetry
INVARIANTS TypeOK AttributesCurrent NoGhostPresence MembershipKept FellowsInformed
