CONSTANTS
  Tag = {0, 1, 2}
  Index = {0}
  WordSel = {0}
  ByteSel = {0}
  ByteVal = {0, 1}
  ResetAddr <- Address0
  PowerUpTag = 0
  PowerUpByte = 0
  WrDelays = {2}
  RdDelays = {3}
  Pattern <- MCPattern
  Items <- ReadsAndWrites
  MaxLost = 1
SPECIFICATION Spec
INVARIANTS TypeOK AnsweredInTime PortHeld OneCopy HitsAgree DataAgrees NothingElseLost VictimIsSaved
PROPERTIES MemRequestStable
