\* Two emitters, three ids, two faults; the sink runs as often as it can.
SPECIFICATION FairSpec
CONSTANTS
  e1 = e1
  e2 = e2
  e3 = e3
  a = a
  b = b
  Nobody = Nobody
  Emitters = {e1, e2}
  Contents = {a, b}
  MaxId = 3
  MaxFaults = 2
INVARIANTS
  TypeOK
  ChainIntact
  TamperingIsFound
  NothingSkipped
PROPERTIES
  ImplementsLog
\* The ids are bounded: the system may stop.
CHECK_DEADLOCK FALSE
