SPECIFICATION Spec
CONSTANTS
  NumScans = 2
  a1 = a1  h1 = h1  h2 = h2  w1 = w1  w2 = w2  k1 = k1
  Registrations = {a1}
  OfflineRegistrations = {a1}
  RegOf <- SameAttendee
  Kind <- SignedThenCanonical
  EntryScans = {1, 2}
  AllowReEntry = FALSE
  Handlers = {h1}
  ScanWorkers = {}
  ReconWorkers = {k1}
  MaxCrashes = 0
INVARIANTS IInv
PROPERTIES ImplementsLedger
