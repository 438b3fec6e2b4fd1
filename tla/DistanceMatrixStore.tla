------------------------- MODULE DistanceMatrixStore -------------------------
(***************************************************************************)
(* What the DistanceStore of src/src/distances.c promises about the raw    *)
(* matrices it keeps, without its buffers: one DistanceMatrix or none per  *)
(* object type (spec 3), which                                             *)
(*   - a set request (hwloc_topology__set_distance_matrix, 58-79), from    *)
(*     the user or from the environment, replaces whole by the requested   *)
(*     matrix, or leaves untouched when its indexes hold a duplicate;      *)
(*   - every other step (a reload, hwloc_topology_distances_clear 30-38,   *)
(*     the resolution and the load stages) leaves as it is;                *)
(*   - the teardown (hwloc_topology_distances_destroy, 41-53) drops, after *)
(*     which nothing is stored again.                                      *)
(* call is a history variable: the set request of the last step, so that   *)
(* a step can be held to the request it answers.  A matrix is its object   *)
(* count and its index sequence; one of no objects is no matrix (nothing   *)
(* is resolved, grouped or normalized for it).                             *)
(***************************************************************************)
EXTENDS Integers, Sequences

CONSTANTS
  NTypes,   \* object types 1..NTypes
  Idx,      \* OS indexes a matrix may name
  MaxN      \* the most objects a matrix has

VARIABLES
  matrix,   \* [type -> [nbobjs, indexes]]
  alive,    \* the topology has not been destroyed
  call      \* the set request of the last step, or NoCall

avars == <<matrix, alive, call>>

Types == 1 .. NTypes
None == [nbobjs |-> 0, indexes |-> <<>>]
NoCall == [type |-> 0, indexes |-> <<>>]

HasDuplicate(s) == \E a, b \in DOMAIN s : a < b /\ s[a] = s[b]

\* Lines 14-24: no type has a matrix.
StoreInit ==
  /\ matrix = [t \in Types |-> None]
  /\ alive = TRUE
  /\ call = NoCall

\* Lines 58-79, for the request to store s for type t: a duplicate index
\* rejects it and keeps the previous matrix; otherwise s replaces it whole.
Store(t, s) ==
  /\ alive
  /\ call' = [type |-> t, indexes |-> s]
  /\ matrix' = IF HasDuplicate(s) THEN matrix
               ELSE [matrix EXCEPT ![t] = [nbobjs |-> Len(s), indexes |-> s]]
  /\ UNCHANGED alive

\* Lines 30-38 and the load stages: a step that is not a set request.
Keep ==
  /\ alive
  /\ call' = NoCall
  /\ UNCHANGED <<matrix, alive>>

\* Lines 41-53: every matrix is dropped.
DestroyAll ==
  /\ alive
  /\ matrix' = [t \in Types |-> None]
  /\ alive' = FALSE
  /\ call' = NoCall

StoreNext ==
  \/ \E t \in Types, s \in UNION {[1 .. n -> Idx] : n \in 0 .. MaxN} : Store(t, s)
  \/ Keep
  \/ DestroyAll

StoreSpec == StoreInit /\ [][StoreNext]_avars
=============================================================================
