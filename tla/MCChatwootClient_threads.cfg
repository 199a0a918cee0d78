\* A message, an escalation, a status and the sweep of the silent, two at a time.
SPECIFICATION Spec
CONSTANTS
  j1 = j1
  j2 = j2
  j3 = j3
  j4 = j4
  j5 = j5
  j6 = j6
  j7 = j7
  s1 = s1
  s2 = s2
  negada = negada
  Jobs = {j1, j2, j3, j6}
  Kind <- KindsOf
  Overlap = 2
  Stages <- TwoStages
  States = {negada}
  NeedsAgent = {negada}
  MaxThreads = 2
  MaxFaults = 1
INVARIANTS
  TypeOK
  OneAtATime
  OneThread
  AnsweredIsVisible
\* The jobs run once each: the system may stop.
CHECK_DEADLOCK FALSE
