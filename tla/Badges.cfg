SPECIFICATION Badges
CONSTANTS
  t1 = t1  t2 = t2  t3 = t3  r1 = r1  r2 = r2  r3 = r3  p1 = p1  p2 = p2
  Tokens = {t1, t2, t3}
  Requests = {r1, r2, r3}
  NoToken = NoToken
  Phones = {p1, p2}
  KeyVersions = {1, 2}
  MaxPairs = 1
  MaxTime = 2
  MaxBadges = 1
  Life = 1
SYMMETRY Symmetry
CHECK_DEADLOCK FALSE
INVARIANTS AnswerWasValid PrintedBadgeHolds
PROPERTIES ImplementsQrLedger
