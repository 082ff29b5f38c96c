SPECIFICATION FairStream
CONSTANTS
  o1 = o1  o2 = o2  o3 = o3  q1 = q1  f1 = f1  f2 = f2
  Scans = {o1, o2, o3}
  Orphans = {o3}
  Requests = {q1}
  Flushers = {f1, f2}
  BatchSize = 2
  MaxFaults = 1
CHECK_DEADLOCK FALSE
INVARIANTS NothingSkipped
 
