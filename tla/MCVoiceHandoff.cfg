\* Two of three requests of the voice, which may overlap and of which one may correct
\* the document of the other, one turn at a time and a fault.
SPECIFICATION HandoffSpec
CONSTANTS
  t1 = t1
  r1 = r1
  r2 = r2
  c = c
  x = x
  m = m
  w = w
  q = q
  d = d
  e = e
  None = None
  Policies = {m, w, q}
  Vigentes = {w, q}
  Documents = {d, e}
  PoliciesOf <- Owned
  Texts = {d, "tap"}
  Turns = {t1}
  MaxFaults = 1
  Calls = {r1, r2}
  Cases = {c, x}
  Requests <- Voice
  MaxCalls = 2
SYMMETRY Symmetry
INVARIANTS
  HandoffTypeOK
  OncePerCase
  AboutTheHandoff
PROPERTIES
  FirstDocumentIsUsed
