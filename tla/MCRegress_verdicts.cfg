CONSTANTS
  Lists <- MCLists
  JobCounts = {1, 2, 3}
SPECIFICATION FairSpec
INVARIANTS TypeOK VerdictTruthful NothingLeftRunning
PROPERTIES Ends
