CONSTANTS
  DW = 4
  ShiftBits = 3
SPECIFICATION Spec
INVARIANTS AluAgrees BranchAgrees ImmediateAgrees
CHECK_DEADLOCK FALSE
