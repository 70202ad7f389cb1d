SPECIFICATION Spec
CONSTANTS
  Goroutines = {g1, g2}
  Parties = {p1}
  Members = {m1, m2}
  Capacity = 3
  Sizes = {2, 4}
  MaxSize = 4
  Arrays = {a1, a2, a3, a4}
  NoArray = NoArray
  Unset = Unset
SYMMETRY Symmetry
INVARIANT TypeOK
PROPERTIES SnapshotsStable ByValue
