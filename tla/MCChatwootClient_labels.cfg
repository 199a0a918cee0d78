\* The jobs that change labels, two at a time, and an agent.
SPECIFICATION Spec
CONSTANTS
  j1 = j1
  j2 = j2
  j3 = j3
  j4 = j4
  j5 = j5
  j6 = j6
  j7 = j7
  s1 = s1
  s2 = s2
  negada = negada
  Jobs = {j2, j3, j4, j5}
  Kind <- KindsOf
  Overlap = 2
  Stages <- TwoStages
  States = {negada}
  NeedsAgent = {negada}
  MaxThreads = 2
  MaxFaults = 1
PROPERTIES
  StageNeverGoesBack
\* The jobs run once each: the system may stop.
CHECK_DEADLOCK FALSE
