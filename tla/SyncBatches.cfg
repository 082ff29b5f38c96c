SPECIFICATION FairSpec
CONSTANTS
  h1 = h1  h2 = h2  b1 = b1  b2 = b2  r1 = r1  ph1 = ph1
  NumOps = 2
  Identities = {r1}
  Phones = {ph1}
  PhoneOf <- OnePhone
  Batches = {b1, b2}
  Workloads <- BothWorkloads
  Handlers = {h1, h2}
  MaxFaults = 2
CHECK_DEADLOCK FALSE
INVARIANTS CompletedMeansProcessed ProcessedIsLinked
PROPERTIES ProcessedIsFinal RecoversInterrupted BatchIsFinished
