\* The topology ends when it is destroyed (or an assert aborts the process).
CONSTANTS
  NTypes = 2
  Idx = {0, 1}
  MaxN = 2
  Trees <- MCTrees
  NoMatrix = NoMatrix
  Envs <- MCEnvs
  Known = {1}
  MaxBuf = 8
  Width = 16
  Sets <- MCSets
SPECIFICATION Spec
INVARIANT TypeOK
INVARIANT MemorySafe
INVARIANT UsesCurrentObjs
PROPERTY ImplementsMatrixStore
CHECK_DEADLOCK FALSE
