\* Requests may tie.
CONSTANTS
  Waiters = {w1, w2, w3}
  Main = main
  Counts = {1, 2, 3, 4}
  ResetDelays = {0, 2}
  Modulus = 32
  MainOps = 2
  HoldCap = 4
  AllowTies = TRUE
SPECIFICATION Spec
PROPERTIES ServesOnTime
\* A stopped clock stops the agent.
CHECK_DEADLOCK FALSE
