CONSTANTS
  Tree <- MCTree
  RawMatrices <- MCRawMatrices
  MaxN = 4
  Width = 16
SPECIFICATION Spec
INVARIANTS RecordMatchesRawMatrix InBoundsWrites RelativeDepthIsLevels
CHECK_DEADLOCK FALSE
