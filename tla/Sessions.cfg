SPECIFICATION Spec
CONSTANTS
  s1 = s1  s2 = s2  e1 = e1  e2 = e2  d1 = d1  d2 = d2
  g1 = g1  g2 = g2  g3 = g3  q1 = q1  q2 = q2
  Staff = {s1, s2}
  Events = {e1, e2}
  Devices = {d1, d2}
  Gates = {g1, g2, g3}
  EventOf <- TwoEvents
  Postings <- TwoPostings
  Requests = {q1, q2}
  MaxSessions = 2
SYMMETRY Interchangeable
CHECK_DEADLOCK FALSE
INVARIANTS OneSession MismatchNeedsRace ScanNeedsRace
PROPERTIES LossNeedsRace
