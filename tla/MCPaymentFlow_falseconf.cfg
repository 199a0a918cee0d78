\* One actor at a time: a tap repeats the confirmation of an earlier case.
SPECIFICATION Spec
CONSTANTS
  j1 = j1
  j2 = j2
  p1 = p1
  p2 = p2
  p3 = p3
  t1 = t1
  t2 = t2
  MaxCases = 2
  Jobs = {j1, j2}
  Taps = {p1, p2}
  Ticks = {}
  Overlap = 1
  Files = {"valid"}
  LazyLoad = {"rows"}
  MaxFaults = 0
SYMMETRY Symmetry
INVARIANTS
  NoFalseConfirmation
\* The client, cartera and the faults are bounded: the system may stop.
CHECK_DEADLOCK FALSE
