CONSTANTS
  WordMod = 32
  NumRegs = 3
  ImemDepth = 8
  DmemDepth = 2
  Instr <- Menu
  Programs <- LoadUseProgram
  PowerUpWord = {9}
  PowerUpInstr <- Junk
  ResetEdges = 2
  MaxResets = 0
  AluOut <- MCAluOut
  BranchTaken <- MCBranchTaken
SPECIFICATION Spec
PROPERTIES StallHoldsFetch
