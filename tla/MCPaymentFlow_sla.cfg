\* Two executions of the scheduler, a comprobante of any kind, a tap and a fault,
\* two at a time.
SPECIFICATION FairSpec
CONSTANTS
  j1 = j1
  j2 = j2
  p1 = p1
  p2 = p2
  p3 = p3
  t1 = t1
  t2 = t2
  MaxCases = 2
  Jobs = {j1}
  Taps = {p1}
  Ticks = {t1, t2}
  Overlap = 2
  Files = {"valid", "mismatch", "huge"}
  LazyLoad = {"rows", "raises"}
  MaxFaults = 1
INVARIANTS
  TypeOK
  NoApprovalWithoutTap
  ConfirmationFollowsApproval
  EscalationAfterReminder
  RepeatsHaveACause
PROPERTIES
  AwaitingIsLeft
\* The client, cartera and the faults are bounded: the system may stop.
CHECK_DEADLOCK FALSE
