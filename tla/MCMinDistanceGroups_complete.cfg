CONSTANTS
  MaxObjs <- MCMaxObjs
  Values <- MCValues
SPECIFICATION Spec
INVARIANT GroupsAreMinDistanceComponents
CHECK_DEADLOCK FALSE
