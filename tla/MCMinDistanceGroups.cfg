CONSTANTS
  MaxObjs <- MCMaxObjs
  Values <- MCValues
SPECIFICATION Spec
INVARIANT TypeOK
INVARIANT GroupsAreMinConnected
PROPERTY Terminates
PROPERTY ImplementsContract
\* the function returns: its final state has no successor
CHECK_DEADLOCK FALSE
