CONSTANTS
  WordMod = 128
  NumRegs = 32
  ImemDepth = 32
  DmemDepth = 8
  Instr <- TestInstrs
  Programs <- TestPrograms
  PowerUpWord = {9}
  PowerUpInstr <- Junk
  ResetEdges = 5
  MaxResets = 1
  AluOut <- MCAluOut
  BranchTaken <- MCBranchTaken
SPECIFICATION FairSpec
PROPERTIES DirectedTestsPass
