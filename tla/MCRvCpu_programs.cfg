CONSTANTS
  WordMod = 32
  NumRegs = 3
  ImemDepth = 8
  DmemDepth = 2
  Instr <- Menu
  Programs <- ThreeInstr
  PowerUpWord = {9}
  PowerUpInstr <- Junk
  ResetEdges = 2
  MaxResets = 1
  AluOut <- MCAluOut
  BranchTaken <- MCBranchTaken
SPECIFICATION Spec
INVARIANTS TypeOK IInv OperandsFresh ResetForgets
PROPERTIES StallLastsOneCycle ErrataSpec
