------------------------- MODULE MCLogicalNormalizer -------------------------
EXTENDS LogicalNormalizer

\* A machine with two NUMA nodes of two PUs each: every object has CPUs and
\* no object has a single child with its own cpuset.
MCTree ==
  [o \in 1 .. 7 |->
     CASE o = 1 -> [parent |-> 0, depth |-> 0, cpuset |-> {0, 1, 2, 3}]
       [] o = 2 -> [parent |-> 1, depth |-> 1, cpuset |-> {0, 1}]
       [] o = 3 -> [parent |-> 2, depth |-> 2, cpuset |-> {0}]
       [] o = 4 -> [parent |-> 2, depth |-> 2, cpuset |-> {1}]
       [] o = 5 -> [parent |-> 1, depth |-> 1, cpuset |-> {2, 3}]
       [] o = 6 -> [parent |-> 5, depth |-> 2, cpuset |-> {2}]
       [] o = 7 -> [parent |-> 5, depth |-> 2, cpuset |-> {3}]]

\* Three NUMA nodes, the middle one without CPUs (a memory-only node), the
\* others with one PU each.
MCGapTree ==
  [o \in 1 .. 6 |->
     CASE o = 1 -> [parent |-> 0, depth |-> 0, cpuset |-> {0, 1}]
       [] o = 2 -> [parent |-> 1, depth |-> 1, cpuset |-> {0}]
       [] o = 3 -> [parent |-> 2, depth |-> 2, cpuset |-> {0}]
       [] o = 4 -> [parent |-> 1, depth |-> 1, cpuset |-> {}]
       [] o = 5 -> [parent |-> 1, depth |-> 1, cpuset |-> {1}]
       [] o = 6 -> [parent |-> 5, depth |-> 2, cpuset |-> {1}]]

\* Every raw matrix over {0,1,2} up to two objects; for three and four, one
\* with all cells distinct (so that a misplaced cell shows) and one with a
\* zero cell.
Distinct(n) == [a \in 1 .. n |-> [b \in 1 .. n |-> (a - 1) * n + b]]
WithZero(n) == [a \in 1 .. n |-> [b \in 1 .. n |-> IF a = b THEN 0 ELSE 1]]
MCRawMatrices(n) ==
  IF n <= 2 THEN [1 .. n -> [1 .. n -> {0, 1, 2}]]
  ELSE {Distinct(n), WithZero(n)}
====
