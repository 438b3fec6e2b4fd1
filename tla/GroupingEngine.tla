--------------------------- MODULE GroupingEngine ---------------------------
(***************************************************************************)
(* The GroupingEngine of src/src/distances.c for one object type:          *)
(* hwloc_setup_groups_from_distances (517-562) checks the stored matrix,   *)
(* hwloc__setup_groups_from_distances (435-512) clusters the objects of a  *)
(* level with hwloc_setup_group_from_min_distance (the MinDistanceGroups   *)
(* machine, run step by step), creates one Group object per cluster,       *)
(* averages the distances between clusters and recurses on the Group       *)
(* objects one depth further.  Every recursive call is in tail position,   *)
(* so a return at any depth ends the whole pass ("done").                  *)
(*                                                                         *)
(* Objects are numbers: the input objects are 0 .. n-1 (position = object) *)
(* and each Group object gets the next number from MaxObjs on.  A cpuset   *)
(* is the set of input objects below an object.  The tree insertion        *)
(* (hwloc_insert_object_by_cpuset) is outside src/: a created Group is     *)
(* recorded with its members, as the spec says the insertion places it.    *)
(***************************************************************************)
EXTENDS Integers, Sequences, FiniteSets, FiniteSetsExt, DistanceValues

CONSTANTS
  MaxObjs,   \* the most objects a stored matrix has
  Inputs,    \* the matrices the type may hold: records [nbobjs, distances]
  MaxDepth   \* bound on the recursion depth the model explores

ASSUME MaxObjs \in Nat \ {0} /\ MaxDepth \in Nat

VARIABLES
  ignore,      \* HWLOC_IGNORE_DISTANCES is set in the environment
  input,       \* the type's stored matrix
  objs,        \* the objects of the current level, by position
  dist,        \* the distance matrix of the current level
  depth,       \* the recursion depth, tagged on the Groups it creates
  groups,      \* the Group objects created: [id, depth, members, cpuset]
  nbgroups,    \* number of clusters of the current level
  groupobjs,   \* the Group objects of the current level, by cluster
  stage,       \* "entry", "level", "cluster", "create", "done", "crashed"
  \* the variables of the clustering call, hwloc_setup_group_from_min_distance
  groupids, min_distance, groupid, i, j, size, firstfound, newfirstfound,
  pc, result

clusterVars == <<groupids, min_distance, groupid, i, j, size, firstfound,
                 newfirstfound, pc, result>>
engineVars == <<ignore, input, objs, dist, depth, groups, nbgroups,
                groupobjs, stage>>
vars == <<engineVars, clusterVars>>

Positions == DOMAIN objs
Cluster == INSTANCE MinDistanceGroups
             WITH nbobjs <- Cardinality(DOMAIN objs), distances <- dist,
                  Values <- {1}

\* Mutant of Cpuset: a Group is given its own index as cpuset.
CpusetOwn(o) == {o}

\* The cpuset of an object: its own PU for an input object, the union of
\* its members' cpusets (lines 474-481) for a Group.
Cpuset(o) == IF o < MaxObjs THEN {o}
             ELSE (CHOOSE g \in groups : g.id = o).cpuset

\* Lines 544-559: symmetric, and each cell right of the diagonal above the
\* diagonal cell of its row.
MatrixOK(d, n) ==
  \A a, b \in 0 .. n-1 : a < b => d[a][b] = d[b][a] /\ DLess(d[a][a], d[a][b])

\* Mutant of MeanDistance: divided by groupsizes[i]*groupsizes[i].
MeanDistanceRowSize(ca, cb) ==
  LET P == {p \in Positions : groupids[p] = ca + 1}
      Q == {q \in Positions : groupids[q] = cb + 1}
      L == ProductSet({dist[a][b].den : a, b \in Positions})
      total == MapThenSumSet(LAMBDA pq : dist[pq[1]][pq[2]].num * (L \div dist[pq[1]][pq[2]].den),
                             P \X Q)
  IN Frac(total, L * Cardinality(P) * Cardinality(P))

\* Lines 490-495: the mean distance between clusters ca and cb (ids ca+1 and
\* cb+1), every position being in some cluster: the cells are summed over
\* the common denominator L of the level's matrix.
MeanDistance(ca, cb) ==
  LET P == {p \in Positions : groupids[p] = ca + 1}
      Q == {q \in Positions : groupids[q] = cb + 1}
      L == ProductSet({dist[a][b].den : a, b \in Positions})
      total == MapThenSumSet(LAMBDA pq : dist[pq[1]][pq[2]].num * (L \div dist[pq[1]][pq[2]].den),
                             P \X Q)
  IN Frac(total, L * Cardinality(P) * Cardinality(Q))

ClusterInit ==
  /\ groupids' = [p \in Positions |-> 0]
  /\ min_distance' = FLT_MAX /\ groupid' = 1
  /\ i' = 0 /\ j' = 0 /\ size' = 0
  /\ firstfound' = -1 /\ newfirstfound' = -1
  /\ pc' = "start" /\ result' = 0

-----------------------------------------------------------------------------
Init ==
  /\ ignore \in BOOLEAN
  /\ input \in Inputs
  /\ objs = <<>> /\ dist = <<>> /\ depth = 0
  /\ groups = {} /\ nbgroups = 0 /\ groupobjs = <<>>
  /\ stage = "entry"
  /\ groupids = <<>> /\ min_distance = FLT_MAX /\ groupid = 1
  /\ i = 0 /\ j = 0 /\ size = 0 /\ firstfound = -1 /\ newfirstfound = -1
  /\ pc = "start" /\ result = 0

\* Lines 526-527: grouping is disabled from the environment.
IgnoreDistances ==
  /\ stage = "entry" /\ ignore
  /\ stage' = "done"
  /\ UNCHANGED <<ignore, input, objs, dist, depth, groups, nbgroups,
                 groupobjs, clusterVars>>

\* Lines 543-558: a matrix failing a check is dropped whole.
RejectMatrix ==
  /\ stage = "entry" /\ ~ignore
  /\ ~MatrixOK(input.distances, input.nbobjs)
  /\ stage' = "done"
  /\ UNCHANGED <<ignore, input, objs, dist, depth, groups, nbgroups,
                 groupobjs, clusterVars>>

\* Line 561: group the input objects at depth 0.
AcceptMatrix ==
  /\ stage = "entry" /\ ~ignore
  /\ MatrixOK(input.distances, input.nbobjs)
  /\ objs' = [p \in 0 .. input.nbobjs - 1 |-> p]
  /\ dist' = input.distances
  /\ depth' = 0
  /\ stage' = "level"
  /\ UNCHANGED <<ignore, input, groups, nbgroups, groupobjs, clusterVars>>

\* Lines 450-451: two objects or fewer are not grouped.
LevelTooSmall ==
  /\ stage = "level" /\ Cardinality(Positions) <= 2
  /\ stage' = "done"
  /\ UNCHANGED <<ignore, input, objs, dist, depth, groups, nbgroups,
                 groupobjs, clusterVars>>

\* Line 453: call the clustering function on this level.
StartCluster ==
  /\ stage = "level" /\ Cardinality(Positions) > 2
  /\ ClusterInit
  /\ stage' = "cluster"
  /\ UNCHANGED <<ignore, input, objs, dist, depth, groups, nbgroups, groupobjs>>

\* One step of the clustering function.
ClusterStep ==
  /\ stage = "cluster"
  /\ UNCHANGED engineVars
  /\ Cluster!Next

\* Lines 454-460: no cluster, or one holding everything, ends the pass.
NoUsefulGroup ==
  /\ stage = "cluster" /\ pc = "done" /\ result <= 1
  /\ stage' = "done"
  /\ UNCHANGED <<ignore, input, objs, dist, depth, groups, nbgroups,
                 groupobjs, clusterVars>>

\* Lines 465-469: two clusters or more get Group objects.
StartGroups ==
  /\ stage = "cluster" /\ pc = "done" /\ result >= 2
  /\ nbgroups' = result
  /\ groupobjs' = <<>>
  /\ stage' = "create"
  /\ UNCHANGED <<ignore, input, objs, dist, depth, groups, clusterVars>>

\* Lines 470-486: create the Group object of the next cluster, with the
\* union of its members' cpusets, tagged with the current depth.
CreateGroup ==
  /\ stage = "create" /\ Len(groupobjs) < nbgroups
  /\ LET c == Len(groupobjs)
         id == MaxObjs + Cardinality(groups)
         members == {objs[p] : p \in {q \in Positions : groupids[q] = c + 1}}
     IN /\ groups' = groups \cup
                {[id |-> id, depth |-> depth, members |-> members,
                  cpuset |-> UNION {Cpuset(m) : m \in members}]}
        /\ groupobjs' = Append(groupobjs, id)
  /\ UNCHANGED <<ignore, input, objs, dist, depth, nbgroups, stage, clusterVars>>

\* Lines 488-495 and 510: average the distances between clusters and recurse
\* on the Group objects one depth further (up to the model's bound).
Factorize ==
  /\ stage = "create" /\ Len(groupobjs) = nbgroups
  /\ \A p \in Positions : groupids[p] # 0
  /\ depth < MaxDepth
  /\ dist' = [a \in 0 .. nbgroups - 1 |-> [b \in 0 .. nbgroups - 1 |-> MeanDistance(a, b)]]
  /\ objs' = [a \in 0 .. nbgroups - 1 |-> groupobjs[a + 1]]
  /\ depth' = depth + 1
  /\ stage' = "level"
  /\ UNCHANGED <<ignore, input, groups, nbgroups, groupobjs, clusterVars>>

\* Line 492 for an object no cluster took: groupids[i]-1 is the unsigned
\* UINT_MAX, and the write lands far outside the stack array groupdistances:
\* the process faults.
FactorizeUngrouped ==
  /\ stage = "create" /\ Len(groupobjs) = nbgroups
  /\ \E p \in Positions : groupids[p] = 0
  /\ stage' = "crashed"
  /\ UNCHANGED <<ignore, input, objs, dist, depth, groups, nbgroups,
                 groupobjs, clusterVars>>

Next ==
  \/ IgnoreDistances \/ RejectMatrix \/ AcceptMatrix
  \/ LevelTooSmall \/ StartCluster \/ ClusterStep
  \/ NoUsefulGroup \/ StartGroups \/ CreateGroup
  \/ Factorize \/ FactorizeUngrouped

\* One thread runs the pass to its end.
Spec == Init /\ [][Next]_vars /\ WF_vars(Next)

-----------------------------------------------------------------------------
TypeOK ==
  /\ ignore \in BOOLEAN
  /\ input.nbobjs \in 0 .. MaxObjs
  /\ depth \in 0 .. MaxDepth
  /\ stage \in {"entry", "level", "cluster", "create", "done", "crashed"}
  /\ nbgroups \in 0 .. MaxObjs
  /\ \A g \in groups : g.depth \in 0 .. MaxDepth /\ g.cpuset \subseteq 0 .. MaxObjs - 1

Symmetric(d) == \A a, b \in DOMAIN d : d[a][b] = d[b][a]

\* Every level the clustering runs on has a symmetric matrix.  Only the input
\* matrix is checked (lines 544-551); the averaged matrices of lines 489-495
\* go to the recursive call unchecked, and the clustering reads the upper
\* triangle for the minimum (line 372) but whole rows for the links (402).
LevelMatrixSymmetric ==
  stage \in {"level", "cluster"} => Symmetric(dist)

\* The pass ends: each clustering call returns and each recursion level
\* has fewer objects than the one before.
Terminates == <>(stage \in {"done", "crashed"})

\* The factorization never indexes groupdistances with an object no cluster
\* took (line 492: groupids[i]-1 wraps to UINT_MAX for an ungrouped object).
NoUngroupedFactorized == stage # "crashed"
====
