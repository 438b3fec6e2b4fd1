CONSTANTS
  MaxDevs = 4
  Parents = {p1, p2}
  Ids = {a, b}
SPECIFICATION Spec
INVARIANT RunsContiguous
\* The program ends after lstopo_destroy.
CHECK_DEADLOCK FALSE
