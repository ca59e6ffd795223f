CONSTANTS
  FragSize = 3
  Configs <- Accepted
  MaxBlocks = 6
  MaxChanges = 2
SPECIFICATION Spec
INVARIANTS TypeOK BuffersFit OnTime
PROPERTIES QueueSpec AsRequested
