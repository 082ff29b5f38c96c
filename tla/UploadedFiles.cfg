SPECIFICATION Spec
CONSTANTS
  o1 = o1  o2 = o2  o3 = o3  o4 = o4
  badge = badge  special = special  wide = wide  r1 = r1  none = none
  Ops = {o1, o2, o3}
  Brandings = {badge}
  Special = special
  Wide = wide
  Regs = {r1}
  None = none
  MaxBusy = 2
  MaxFaults = 1
SYMMETRY Alike
CHECK_DEADLOCK FALSE
INVARIANTS   ReusedTicketIsCurrent
