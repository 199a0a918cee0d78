\* Two texts at a time and a failure; one document with two policies in force and one
\* that is not.
SPECIFICATION Spec
CONSTANTS
  t1 = t1
  t2 = t2
  m = m
  q = q
  v = v
  d = d
  None = None
  Policies = {m, q, v}
  Vigentes = {m, q}
  Documents = {d}
  PoliciesOf <- Owned
  Texts = {d, "faqHuman"}
  Turns = {t1, t2}
  MaxFaults = 1
INVARIANTS
  TypeOK
  TurnsDontCollide
  AnswersIdentified
  EscalatedIsMuted
  TeamIsTold
PROPERTIES
  StartsOver
