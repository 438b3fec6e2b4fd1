--------------------- MODULE MinDistanceGroupsContract ---------------------
(***************************************************************************)
(* What hwloc_setup_group_from_min_distance (src/src/distances.c 352-429)  *)
(* promises its caller, as one atomic step: given nbobjs objects and their *)
(* distance matrix, it fills groupids and returns a count such that        *)
(*   - the ids 1..count each name two or more objects, and no object has   *)
(*     an id above count (the caller makes one Group per id, 462-486);     *)
(*   - the objects of one id are linked by a chain of pairs at the         *)
(*     smallest off-diagonal distance (the comment of line 353);           *)
(*   - the count is 0 only when there is no pair to link: the caller      *)
(*     (454-455) takes 0 as "nothing to group".  The comment of line 354   *)
(*     says instead that 0 is returned when some distance graph is         *)
(*     incomplete; the code never does that (the run mdg_complete returns  *)
(*     a count of 1 for an incomplete group), so the contract does not     *)
(*     state it.                                                           *)
(* groupids is a partition of the objects encoded as a function from an    *)
(* object to its part, 0 standing for "in no group".                       *)
(***************************************************************************)
EXTENDS Integers, FiniteSets, Relation, DistanceValues

CONSTANT MaxObjs   \* the largest nbobjs

VARIABLES
  nbobjs, distances,   \* the inputs
  groupids, result,    \* the outputs
  returned             \* the function has returned

cvars == <<nbobjs, distances, groupids, result, returned>>

Objs == 0 .. nbobjs - 1

\* Two distinct objects at the smallest distance between distinct objects,
\* and the chains of such pairs.
MinLink == [p \in Objs \X Objs |->
              /\ p[1] # p[2]
              /\ distances[p[1]][p[2]] =
                   DMin({distances[q[1]][q[2]] : q \in {e \in Objs \X Objs : e[1] # e[2]}})]
MinChain == ReflexiveTransitiveClosure(MinLink, Objs)

\* The outputs the contract allows for the current inputs.
Sound(g, r) ==
  /\ \A k \in Objs : g[k] <= r
  /\ \A id \in 1 .. r : LET members == {k \in Objs : g[k] = id}
                        IN /\ Cardinality(members) >= 2
                           /\ \A a, b \in members : MinChain[a, b]
  /\ r = 0 => nbobjs < 2

ContractInit ==
  /\ nbobjs \in 1 .. MaxObjs
  \* a symmetric matrix, as hwloc_setup_groups_from_distances checks (548)
  /\ DOMAIN distances = Objs
  /\ \A a \in Objs : DOMAIN distances[a] = Objs
  /\ \A a, b \in Objs : distances[a][b] = distances[b][a]
  /\ groupids = [k \in Objs |-> 0]
  /\ result = 0
  /\ returned = FALSE

\* The call: the outputs appear at once, and any sound outputs may.
ReturnGroups ==
  /\ ~returned
  /\ returned' = TRUE
  /\ groupids' \in [Objs -> 0 .. nbobjs]
  /\ result' \in 0 .. nbobjs
  /\ Sound(groupids', result')
  /\ UNCHANGED <<nbobjs, distances>>

\* The call happens once, and a caller that waits gets its answer.
ContractSpec == ContractInit /\ [][ReturnGroups]_cvars /\ <>returned
=============================================================================
