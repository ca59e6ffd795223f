CONSTANTS
  FragSize = 5
  Configs <- FixedNextToSubdelay
  MaxBlocks = 3
  MaxChanges = 1
SPECIFICATION Spec
INVARIANTS BuffersFit
