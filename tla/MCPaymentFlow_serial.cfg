\* Two comprobantes of two kinds, three taps, the scheduler and a fault, one at a
\* time.
SPECIFICATION Spec
CONSTANTS
  j1 = j1
  j2 = j2
  p1 = p1
  p2 = p2
  p3 = p3
  t1 = t1
  t2 = t2
  MaxCases = 2
  Jobs = {j1, j2}
  Taps = {p1, p2, p3}
  Ticks = {t1}
  Overlap = 1
  Files = {"valid", "mismatch"}
  LazyLoad = {"rows"}
  MaxFaults = 1
SYMMETRY Symmetry
INVARIANTS
  OneOpenCase
  TapDecidesItsCase
  Consistent
PROPERTIES
  TerminalIsFinal
\* The client, cartera and the faults are bounded: the system may stop.
CHECK_DEADLOCK FALSE
