CONSTANTS
  MaxDevs = 4
  Parents = {p1, p2}
  Ids = {a, b}
SPECIFICATION MainSpec
INVARIANT CollapsedCounts
INVARIANT RestoresUserdata
\* The program ends after hwloc_topology_destroy.
CHECK_DEADLOCK FALSE
