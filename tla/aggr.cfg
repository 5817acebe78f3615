CHECK_DEADLOCK FALSE
SPECIFICATION FairSpec
CONSTANTS
  CN = CN
  Other = Other
  None = None
  Moves = 1
  Edits = 1
  Faults = 2
  Asks = 2
INVARIANTS
  TypeOK
  RestsAsOwner
PROPERTIES
  AggrConverges
