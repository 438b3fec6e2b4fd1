CONSTANTS
  MaxObjs <- MCMaxObjs
  MaxDepth <- MCMaxDepth
  Inputs <- MCInputs
SPECIFICATION Spec
INVARIANT NoUngroupedFactorized
\* the pass ends: its last state has no successor
CHECK_DEADLOCK FALSE
