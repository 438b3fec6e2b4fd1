CONSTANTS
  MaxObjs <- MCMaxObjs
  MaxDepth <- MCMaxDepth
  Inputs <- MCInputs
SPECIFICATION Spec
INVARIANT TypeOK
INVARIANT LevelMatrixSymmetric
PROPERTY Terminates
\* the pass ends: its last state has no successor
CHECK_DEADLOCK FALSE
