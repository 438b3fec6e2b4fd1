-------------------------- MODULE MinDistanceGroups --------------------------
(***************************************************************************)
(* hwloc_setup_group_from_min_distance (src/src/distances.c 357-429): the  *)
(* clustering step of the GroupingEngine.  Objects 0..nbobjs-1 are placed  *)
(* in numbered groups when they are linked by a chain of pairs at the      *)
(* smallest off-diagonal distance; a seed left alone is cancelled.         *)
(*                                                                         *)
(* The control of the code is kept loop by loop: one action per scan of    *)
(* the outer loop over i, one per row j of the transitive rescan (a whole  *)
(* row, the k loop, is one step: marking k does not change the test on the *)
(* other k of that row), one for the end of a rescan round and one for     *)
(* the size test that validates or cancels a group.                        *)
(***************************************************************************)
EXTENDS Integers, FiniteSets, FiniteSetsExt, Relation, DistanceValues

CONSTANTS
  MaxObjs,   \* the largest nbobjs the model gives the function
  Values     \* the whole-number off-diagonal distances of an input matrix

ASSUME MaxObjs \in Nat \ {0}
ASSUME Values \subseteq Nat \ {0} /\ Values # {}

VARIABLES
  nbobjs,         \* input: number of objects
  distances,      \* input: the nbobjs x nbobjs matrix
  groupids,       \* output array: 0 = ungrouped, else a group id
  min_distance,   \* the smallest distance between two distinct objects
  groupid,        \* the id the group being built gets
  i,              \* outer loop: the candidate seed
  j,              \* rescan loop: the row being scanned
  size,           \* members of the group being built
  firstfound,     \* first object added by the previous rescan round
  newfirstfound,  \* first object added by the current rescan round
  pc,             \* "start", "outer", "scan", "close" or "done"
  result          \* the return value, once pc = "done"

vars == <<nbobjs, distances, groupids, min_distance, groupid, i, j, size,
          firstfound, newfirstfound, pc, result>>

NONE == -1   \* the code's -1 for firstfound / newfirstfound

Objs == 0 .. nbobjs - 1

\* The symmetric matrices over n objects with off-diagonal values in Values:
\* every matrix hwloc_setup_groups_from_distances lets through (its
\* symmetry check), the diagonal being ignored by this function.
SymMatrices(n) ==
  LET Pairs == {<<a, b>> \in (0 .. n-1) \X (0 .. n-1) : a < b}
  IN { [a \in 0 .. n-1 |-> [b \in 0 .. n-1 |->
          IF a = b THEN Dist(0)
          ELSE IF a < b THEN Dist(up[<<a, b>>]) ELSE Dist(up[<<b, a>>])]]
       : up \in [Pairs -> Values] }

\* Mutant of MinUpper: the j loop starts at i, so the diagonal is scanned.
MinUpperWithDiagonal(d, n) ==
  LET upper == {d[a][b] : <<a, b>> \in {p \in (0 .. n-1) \X (0 .. n-1) : p[1] <= p[2]}}
  IN IF upper = {} THEN FLT_MAX ELSE DMin(upper)

\* Lines 369-373: the minimum over the cells above the diagonal, FLT_MAX if
\* there is none.
MinUpper(d, n) ==
  LET upper == {d[a][b] : <<a, b>> \in {p \in (0 .. n-1) \X (0 .. n-1) : p[1] < p[2]}}
  IN IF upper = {} THEN FLT_MAX ELSE DMin(upper)

\* Mutant of FoundInRow: the groupids[k] == 0 test of line 401 is lost.
FoundInRowRegrouped(r) == {k \in Objs : distances[r][k] = min_distance}

\* Lines 401-402 for row r: the unassigned objects at the minimal distance.
FoundInRow(r) == {k \in Objs : groupids[k] = 0 /\ distances[r][k] = min_distance}

-----------------------------------------------------------------------------
Init ==
  /\ nbobjs \in 1 .. MaxObjs
  /\ distances \in SymMatrices(nbobjs)
  /\ groupids = [k \in Objs |-> 0]            \* line 367
  /\ min_distance = FLT_MAX
  /\ groupid = 1
  /\ i = 0 /\ j = 0 /\ size = 0
  /\ firstfound = NONE /\ newfirstfound = NONE
  /\ pc = "start"
  /\ result = 0

\* Lines 369-377: find the minimal distance; none means no group.
FindMin ==
  /\ pc = "start"
  /\ min_distance' = MinUpper(distances, nbobjs)
  /\ IF min_distance' = FLT_MAX
       THEN pc' = "done" /\ result' = 0
       ELSE pc' = "outer" /\ UNCHANGED result
  /\ UNCHANGED <<nbobjs, distances, groupids, groupid, i, j, size,
                 firstfound, newfirstfound>>

\* Line 428: the loop over i is over; return the number of ids used.
Return ==
  /\ pc = "outer" /\ i = nbobjs
  /\ pc' = "done" /\ result' = groupid - 1
  /\ UNCHANGED <<nbobjs, distances, groupids, min_distance, groupid, i, j,
                 size, firstfound, newfirstfound>>

\* Lines 384-386: an object already grouped is no seed.
SkipGrouped ==
  /\ pc = "outer" /\ i < nbobjs /\ groupids[i] # 0
  /\ i' = i + 1
  /\ UNCHANGED <<nbobjs, distances, groupids, min_distance, groupid, j, size,
                 firstfound, newfirstfound, pc, result>>

\* Lines 388-391 and 393-398: start a group at i and the first rescan round.
Seed ==
  /\ pc = "outer" /\ i < nbobjs /\ groupids[i] = 0
  /\ groupids' = [groupids EXCEPT ![i] = groupid]
  /\ size' = 1
  /\ firstfound' = i
  /\ j' = i /\ newfirstfound' = NONE
  /\ pc' = "scan"
  /\ UNCHANGED <<nbobjs, distances, min_distance, groupid, i, result>>

\* Lines 399-411: scan row j; a member adds every unassigned object at the
\* minimal distance, and the first one a round adds is remembered.
ScanRow ==
  /\ pc = "scan" /\ j < nbobjs
  /\ LET found == IF groupids[j] = groupid THEN FoundInRow(j) ELSE {}
     IN /\ groupids' = [k \in Objs |-> IF k \in found THEN groupid ELSE groupids[k]]
        /\ size' = size + Cardinality(found)
        /\ newfirstfound' = IF newfirstfound = NONE /\ found # {}
                              THEN Min(found) ELSE newfirstfound
  /\ j' = j + 1
  /\ UNCHANGED <<nbobjs, distances, min_distance, groupid, i, firstfound,
                 pc, result>>

\* Mutant of EndRound: newfirstfound is not reset for the next round.
EndRoundKeepsFirstFound ==
  /\ pc = "scan" /\ j = nbobjs
  /\ firstfound' = newfirstfound
  /\ IF newfirstfound = NONE
       THEN pc' = "close" /\ UNCHANGED <<j, newfirstfound>>
       ELSE j' = newfirstfound /\ UNCHANGED <<newfirstfound, pc>>
  /\ UNCHANGED <<nbobjs, distances, groupids, min_distance, groupid, i, size,
                 result>>

\* Lines 412-413: end of a rescan round; rescan from the first object the
\* round added, or leave the while loop when it added none.
EndRound ==
  /\ pc = "scan" /\ j = nbobjs
  /\ firstfound' = newfirstfound
  /\ IF newfirstfound = NONE
       THEN pc' = "close" /\ UNCHANGED <<j, newfirstfound>>
       ELSE j' = newfirstfound /\ newfirstfound' = NONE /\ UNCHANGED pc
  /\ UNCHANGED <<nbobjs, distances, groupids, min_distance, groupid, i, size,
                 result>>

\* Mutant of Close: a group of one is not cancelled, its seed keeps the id.
CloseKeepsSingleton ==
  /\ pc = "close"
  /\ IF size = 1
       THEN UNCHANGED <<groupids, groupid>>
       ELSE groupid' = groupid + 1 /\ UNCHANGED groupids
  /\ i' = i + 1
  /\ pc' = "outer"
  /\ UNCHANGED <<nbobjs, distances, min_distance, j, size, firstfound,
                 newfirstfound, result>>

\* Lines 415-422: a group of one is cancelled, a larger one validated.
Close ==
  /\ pc = "close"
  /\ IF size = 1
       THEN groupids' = [groupids EXCEPT ![i] = 0] /\ UNCHANGED groupid
       ELSE groupid' = groupid + 1 /\ UNCHANGED groupids
  /\ i' = i + 1
  /\ pc' = "outer"
  /\ UNCHANGED <<nbobjs, distances, min_distance, j, size, firstfound,
                 newfirstfound, result>>

Next ==
  \/ FindMin
  \/ Return
  \/ SkipGrouped
  \/ Seed
  \/ ScanRow
  \/ EndRound
  \/ Close

\* The function runs to completion on one thread: every step it can take it
\* eventually takes.
Spec == Init /\ [][Next]_vars /\ WF_vars(Next)

-----------------------------------------------------------------------------
TypeOK ==
  /\ nbobjs \in 1 .. MaxObjs
  /\ groupids \in [Objs -> 0 .. nbobjs]
  /\ groupid \in 1 .. nbobjs + 1
  /\ i \in 0 .. nbobjs /\ j \in 0 .. nbobjs
  /\ size \in 0 .. nbobjs
  /\ firstfound \in Objs \cup {NONE} /\ newfirstfound \in Objs \cup {NONE}
  /\ pc \in {"start", "outer", "scan", "close", "done"}
  /\ result \in 0 .. nbobjs

\* Reference: a and b are linked when they are distinct and at the minimal
\* distance; objects are connected by a chain of links.
Linked == [p \in Objs \X Objs |-> p[1] # p[2] /\ distances[p[1]][p[2]] = min_distance]
Connected == ReflexiveTransitiveClosure(Linked, Objs)

\* The connected classes of two or more objects: the "transitive graphs of
\* minimal distances" the comment of line 354 promises as groups.
MinDistanceComponents ==
  { C \in { {b \in Objs : Connected[a, b]} : a \in Objs } : Cardinality(C) >= 2 }

Members(g) == {k \in Objs : groupids[k] = g}

\* Soundness of the returned groups (what the caller relies on to build one
\* Group object per id 1..result, lines 470-486): on return every id up to
\* the count names two or more objects, all transitively linked at the
\* minimal distance, and no object carries an id above the count.  Breaks if
\* a cancelled seed kept its id, or a row added an already grouped object.
GroupsAreMinConnected ==
  pc = "done" =>
    /\ \A k \in Objs : groupids[k] <= result
    /\ \A g \in 1 .. result :
         /\ Cardinality(Members(g)) >= 2
         /\ \A a, b \in Members(g) : Connected[a, b]

\* Completeness, as the comment of lines 353-355 and the spec (4.5, step 4:
\* repeat the rescan until a fixed point) state it: the groups are exactly
\* the classes of two or more objects transitively linked at the minimal
\* distance.  The rescan of lines 399-412 restarts at the FIRST object a
\* round added, not the lowest, so an object added at a lower index than
\* that is never rescanned.
GroupsAreMinDistanceComponents ==
  pc = "done" => {Members(g) : g \in 1 .. result} = MinDistanceComponents

\* The function returns: every rescan round adds an object or ends the loop.
Terminates == <>(pc = "done")

\* The refinement mapping: the caller sees groupids and the count only once
\* the function has returned (line 428); before that, nothing.
Contract == INSTANCE MinDistanceGroupsContract
              WITH groupids <- IF pc = "done" THEN groupids ELSE [k \in Objs |-> 0],
                   result <- IF pc = "done" THEN result ELSE 0,
                   returned <- pc = "done"

\* The loop of lines 357-429 implements the contract of the caller
\* (MinDistanceGroupsContract): it returns, in one visible step, dense ids
\* naming min-linked groups of two or more objects, and a count of 0 only
\* when there is no pair to link.  Breaks if the minimum search of lines
\* 369-373 or the seeding of 388-398 loses every link.
ImplementsContract == Contract!ContractSpec
=============================================================================
