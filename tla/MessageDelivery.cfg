SPECIFICATION FairSpec
CONSTANTS
  k1 = k1  q1 = q1  q2 = q2  w1 = w1  w2 = w2
  Keys = {k1}
  Requests = {q1, q2}
  Workers = {w1, w2}
  MaxAttempts = 2
  MaxFaults = 1
  MaxDeaths = 1
CHECK_DEADLOCK FALSE
INVARIANTS ResendsAreExcused 
PROPERTIES SentStaysSent QueuedIsSettled
