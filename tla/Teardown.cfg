SPECIFICATION Spec
CONSTANTS
  Services = {reader, server}
  Funcs = {f1, f2}
INVARIANTS TypeOK EndsClean
PROPERTY SignalEnds
CHECK_DEADLOCK FALSE
