--------------------------- MODULE LogicalNormalizer ---------------------------
(***************************************************************************)
(* hwloc_setup_distances_from_os_matrix (src/src/distances.c 240-311),     *)
(* called by hwloc_finalize_logical_distances for a type with resolved     *)
(* objs: find the object covering the objects' cpusets, give up when it    *)
(* covers more, find the minimal and maximal raw distances, give up on a   *)
(* zero minimum, then attach to that object a matrix divided by the        *)
(* minimum and reindexed by logical index.                                 *)
(*                                                                         *)
(* The topology is a constant arena: object ids in depth-first order, each *)
(* with its parent (0 for the root), depth and cpuset.  A logical index is *)
(* the rank of an object among the objects of its depth.  The covering     *)
(* lookup is hwloc's inline helper (outside src/).  Distances are exact    *)
(* rationals (DistanceValues); relative_depth, li and lj are unsigned of   *)
(* Width bits.  The attached latency matrix starts uninitialized (malloc), *)
(* and a write whose index is out of the matrix lands outside it.          *)
(***************************************************************************)
EXTENDS Integers, Sequences, FiniteSets, FiniteSetsExt, DistanceValues

CONSTANTS
  Tree,      \* [object id -> [parent, depth, cpuset]]
  MaxN,      \* the most objects a matrix has
  RawMatrices(_), \* the raw matrices of n objects: [1..n -> [1..n -> Nat]]
  Width      \* bits of an unsigned

Objects == DOMAIN Tree
NULL == 0
UNSET == [num |-> 0, den |-> 0]   \* a cell malloc left as it was

Unsigned(x) == x % (2 ^ Width)

VARIABLES
  objs,            \* the resolved objects, in raw (OS index) order
  osmatrix,        \* the raw matrix, [1..n -> [1..n -> Values]]
  root,            \* the covering object
  relative_depth, minl, min, max,
  added,           \* the hwloc_distances_s records appended to root (0 or 1)
  i,               \* the fill loop, 1-based
  outside,         \* a write went outside the latency matrix
  pc               \* "root", "scan", "attach", "fill", "done", "aborted"

vars == <<objs, osmatrix, root, relative_depth, minl, min, max, added, i,
          outside, pc>>

N == Len(objs)

\* hwloc_get_obj_covering_cpuset: NULL for an empty set, else descend from
\* the root into the first child whose cpuset includes the set.
RECURSIVE Descend(_, _)
Descend(set, cur) ==
  LET kids == {c \in Objects : Tree[c].parent = cur /\ set \subseteq Tree[c].cpuset}
  IN IF kids = {} THEN cur ELSE Descend(set, Min(kids))

Covering(set) ==
  IF set = {} THEN NULL
  ELSE Descend(set, CHOOSE o \in Objects : Tree[o].parent = 0)

LogicalIndex(o) == Cardinality({p \in Objects : Tree[p].depth = Tree[o].depth /\ p < o})

\* Lines 277-282 over the whole matrix.
Cells == {osmatrix[a][b] : a, b \in 1 .. N}

\* The lists of objects convert can produce for one type: distinct objects
\* of one depth (finalize skips a type at several depths, line 329).
ObjLists ==
  UNION {{s \in [1 .. n -> Objects] :
            /\ \A a, b \in 1 .. n : a # b => s[a] # s[b]
            /\ \A a \in 1 .. n : Tree[s[a]].depth = Tree[s[1]].depth}
         : n \in 1 .. MaxN}

Init ==
  /\ objs \in ObjLists
  /\ osmatrix \in RawMatrices(N)
  /\ root = NULL /\ relative_depth = 0 /\ minl = 0 /\ min = 0 /\ max = 0
  /\ added = {} /\ i = 1 /\ outside = FALSE
  /\ pc = "root"

\* Lines 253-265: the covering object of the union of the cpusets; assert
\* that there is one, and give up when it covers more than the union.
FindRoot ==
  /\ pc = "root"
  /\ LET set == UNION {Tree[objs[k]].cpuset : k \in 1 .. N}
         r == Covering(set)
     IN /\ root' = r
        /\ pc' = IF r = NULL THEN "aborted"
                 ELSE IF set # Tree[r].cpuset THEN "done" ELSE "scan"
  /\ UNCHANGED <<objs, osmatrix, relative_depth, minl, min, max, added, i, outside>>

\* Mutant of Scan: the depth difference taken the other way round.
ScanDepthSwapped ==
  /\ pc = "scan"
  /\ relative_depth' = Unsigned(Tree[root].depth - Tree[objs[1]].depth)
  /\ minl' = Min({LogicalIndex(objs[k]) : k \in 1 .. N})
  /\ min' = Min(Cells) /\ max' = Max(Cells)
  /\ pc' = IF Min(Cells) = 0 THEN "done" ELSE "attach"
  /\ UNCHANGED <<objs, osmatrix, root, added, i, outside>>

\* Lines 266-290: relative depth, smallest logical index, min and max of
\* the matrix; a zero minimum gives up.
Scan ==
  /\ pc = "scan"
  /\ relative_depth' = Unsigned(Tree[objs[1]].depth - Tree[root].depth)
  /\ minl' = Min({LogicalIndex(objs[k]) : k \in 1 .. N})
  /\ min' = Min(Cells) /\ max' = Max(Cells)
  /\ pc' = IF Min(Cells) = 0 THEN "done" ELSE "attach"
  /\ UNCHANGED <<objs, osmatrix, root, added, i, outside>>

\* Lines 292-301: append a record to the root's list, its matrix not yet
\* written.
Attach ==
  /\ pc = "attach"
  /\ added' = {[owner |-> root, relative_depth |-> relative_depth, nbobjs |-> N,
                latency |-> [c \in (0 .. N-1) \X (0 .. N-1) |-> UNSET],
                latency_base |-> Dist(min), latency_max |-> Frac(max, min)]}
  /\ i' = 1 /\ pc' = "fill"
  /\ UNCHANGED <<objs, osmatrix, root, relative_depth, minl, min, max, outside>>

\* Lines 302-310, row i: write the cells (li,li), (li,lj) and (lj,li) for
\* every j after i, each raw value divided by min.
\* Mutant of L: the smallest logical index is not subtracted.
LNoOffset(k) == Unsigned(LogicalIndex(objs[k]))

L(k) == Unsigned(LogicalIndex(objs[k]) - minl)

\* Mutant of RowWrites: (lj,li) gets the raw cell (i,j), not (j,i).
RowWritesTransposed(r) ==
  {<<<<L(r), L(r)>>, osmatrix[r][r]>>} \cup
  UNION {{<<<<L(r), L(j)>>, osmatrix[r][j]>>, <<<<L(j), L(r)>>, osmatrix[r][j]>>}
         : j \in r + 1 .. N}

RowWrites(r) ==
  {<<<<L(r), L(r)>>, osmatrix[r][r]>>} \cup
  UNION {{<<<<L(r), L(j)>>, osmatrix[r][j]>>, <<<<L(j), L(r)>>, osmatrix[j][r]>>}
         : j \in r + 1 .. N}

FillRow ==
  /\ pc = "fill" /\ i <= N
  /\ LET rec == CHOOSE r \in added : TRUE
         w == RowWrites(i)
         inside == {x \in w : x[1] \in DOMAIN rec.latency}
     IN /\ added' = {[rec EXCEPT !.latency =
                        [c \in DOMAIN rec.latency |->
                           IF \E x \in inside : x[1] = c
                             THEN Frac((CHOOSE x \in inside : x[1] = c)[2], min)
                             ELSE rec.latency[c]]]}
        /\ outside' = (outside \/ inside # w)
  /\ i' = i + 1
  /\ pc' = IF i = N THEN "done" ELSE "fill"
  /\ UNCHANGED <<objs, osmatrix, root, relative_depth, minl, min, max>>

Next == FindRoot \/ Scan \/ Attach \/ FillRow

Spec == Init /\ [][Next]_vars

-----------------------------------------------------------------------------
Record == CHOOSE r \in added : TRUE

\* Spec 8, round trip: once the function returns with a record, the record
\* holds every raw cell divided by the raw minimum, at the row and column
\* of the two objects' logical indexes minus the smallest one, with
\* latency_base the minimum and latency_max the maximum over the minimum.
\* Breaks if the reindexing of lines 303-308 mixes rows and columns or an
\* index misses the matrix.
RecordMatchesRawMatrix ==
  pc = "done" /\ added # {} =>
    /\ Record.latency_base = Dist(Min(Cells))
    /\ Record.latency_max = Frac(Max(Cells), Min(Cells))
    /\ \A a, b \in 1 .. N :
         /\ <<L(a), L(b)>> \in DOMAIN Record.latency
         /\ Record.latency[<<L(a), L(b)>>] = Frac(osmatrix[a][b], Min(Cells))

\* The fill loop (lines 302-310) writes only inside the nbobjs x nbobjs
\* matrix it allocated (line 298): li and lj are below nbobjs, which holds
\* only when the objects' logical indexes have no gap.
InBoundsWrites == ~outside

\* relative_depth (line 266) is the number of levels from the covering
\* object down to the objects (spec 3): the covering object is never
\* deeper than objs[0].
RelativeDepthIsLevels ==
  \A r \in added : r.relative_depth = Tree[objs[1]].depth - Tree[r.owner].depth

\* Spec 7: no error in this module aborts the load (assert at line 258).
NoAbort == pc # "aborted"

====
