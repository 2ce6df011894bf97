CONSTANTS
  WordMod = 32
  NumRegs = 3
  ImemDepth = 8
  DmemDepth = 2
  Instr <- Menu
  Programs <- CleanPrograms
  PowerUpWord = {9}
  PowerUpInstr <- Junk
  ResetEdges = 2
  MaxResets = 1
  AluOut <- MCAluOut
  BranchTaken <- MCBranchTaken
SPECIFICATION FairSpec
PROPERTIES IsaSpec KeepsExecuting
