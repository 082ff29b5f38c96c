SPECIFICATION FairSpec
CONSTANTS
  NumScans = 1
  a1 = a1  h1 = h1  h2 = h2  w1 = w1  w2 = w2  k1 = k1
  Registrations = {a1}
  OfflineRegistrations = {a1}
  RegOf <- OneScan
  Kind <- OneReference
  EntryScans = {1}
  AllowReEntry = FALSE
  Handlers = {h1, h2}
  ScanWorkers = {w1, w2}
  ReconWorkers = {}
  MaxCrashes = 1
INVARIANTS MovementKeepsItsScan AdmittedHasMovement
PROPERTIES QueuedScanIsDecided
