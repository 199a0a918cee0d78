\* Two texts at a time, without failures: no turn waits or loops for ever.
SPECIFICATION FairSpec
CONSTANTS
  t1 = t1
  t2 = t2
  m = m
  q = q
  v = v
  d = d
  None = None
  Policies = {m, q, v}
  Vigentes = {m, q}
  Documents = {d}
  PoliciesOf <- Owned
  Texts = {d}
  Turns = {t1, t2}
  MaxFaults = 0
PROPERTIES
  TurnsEnd
