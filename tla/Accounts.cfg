SPECIFICATION AccountsSpec
CONSTANTS
  c1 = c1  u1 = u1  u2 = u2  l1 = l1  l2 = l2  r1 = r1  r2 = r2  none = none
  Clients = {c1}
  Users = {u1, u2}
  Logins = {l1, l2}
  Calls = {r1, r2}
  None = none
  WithEvents = {}
  MaxResets = 1
  MaxTokens = 3
  MaxChanges = 3
CHECK_DEADLOCK FALSE
SYMMETRY Alike
INVARIANTS OneSuccessor ResetEndsSessions LockoutEndsSessions
PROPERTIES PrimaryIsKept
