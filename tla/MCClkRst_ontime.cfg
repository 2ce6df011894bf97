\* No request ties with a queued one in a way the queue gets wrong.
CONSTANTS
  Waiters = {w1, w2}
  Main = main
  Counts = {1, 2, 3, 4}
  ResetDelays = {0, 2}
  Modulus = 32
  MainOps = 4
  HoldCap = 4
  AllowTies = FALSE
SPECIFICATION FairSpec
INVARIANTS TypeOK CounterRuns
PROPERTIES ServesOnTime ResetHeld RequestsAnswered
\* A stopped clock stops the agent.
CHECK_DEADLOCK FALSE
