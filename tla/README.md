# TLA+ models of the hwloc distance pipeline and lstopo PCI collapsing

These modules model `src/src/distances.c` and its one pipeline. Raw distance
matrices are stored per object type, resolved against the topology tree,
normalized, and used to build Group objects. They also model the PCI-collapsing
pass of lstopo (`src/utils/lstopo/lstopo-core.c`) and the example program that
drives it (`src/utils/lstopo/example.c`). The models are checked with
TLC. `PROJECT.json` lists:

- every component;
- every run, with the properties it checks;
- the mutant that each passing property must catch;
- the map from each definition to the source lines it models;
- the findings;
- the hazards of this code.

## The system

| Part | Code | State | Operations |
|---|---|---|---|
| DistanceStore | distances.c 14-79, 196-208 | `os_distances[type]`: `nbobjs`, `indexes`, `distances`, `objs` (heap buffers) | init, clear (reload), destroy, set (the copy wrapper and the ownership-transferring variant) |
| EnvDistanceParser | 96-191 | none (it builds buffers and hands them to set) | one `HWLOC_<type>_DISTANCES` string per type: index list, `:`, an explicit list or `X*Y[*Z]` |
| IndexResolver | 81-94, 213-238 | `objs` | resolve each stored OS index by a tree search; one missing index drops the whole array |
| LogicalNormalizer | 240-343 | records attached to the covering object | root lookup, min/max, normalization, logical reindexing |
| GroupingEngine | 357-585 | `groupids`, clusters, Group objects, the factorized matrix | validation, min-distance clustering, Group creation, averaging, recursion per depth |
| lstopo collapsing | lstopo-core.c 71-159 | the `userdata` chain of every object, and `pci_collapsed` in lstopo's record | prepare (push a record on every object, then mark runs of identical PCI devices), destroy (pop it) |
| lstopo example | example.c 15-91, lstopo-core.c 9-49 | main's position, `loutput` (collapse, callback) | lstopo_init, prepare, draw through the callback, event loop, close, destroy |

How the parts interact:

- topology.c sets the order; it is outside `src/`, and the spec describes it.
- A load clears the previous load, stores the environment's matrices, converts
  indexes into objects, groups, and finalizes (normalizes).
- The user may call `hwloc_topology_set_distance_matrix` between loads, and
  destroy the topology.
- `example.c`'s main drives the lstopo core: init, prepare (push userdata,
  collapse walk), draw, destroy.
- Everything runs on one thread. So the hard behaviours are not thread
  interleavings. They are:
  - orders of the lifecycle hooks;
  - partial failures inside a loop;
  - stale or leaked buffers across reloads;
  - the fixed point of the clustering loop;
  - unsigned arithmetic at the edges;
  - the termination of the recursion.

## Modules

- **`DistanceValues`**: exact rationals standing in for the code's floats.
  FLT_MAX is the record `[num |-> 1, den |-> 0]`. It provides comparison,
  addition and division. Distances are exact, so float rounding is not
  modelled (see the hazards).
- **`MinDistanceGroups`**: `hwloc_setup_group_from_min_distance`, loop by loop.
  - Actions: `FindMin` (the minimum, 369-377), `SkipGrouped`, `Seed`,
    `ScanRow` (one row j of a rescan round, 399-411), `EndRound` (412-413),
    `Close` (the size test, 415-422) and `Return`.
  - The reference meaning is `Connected`: the reflexive-transitive closure
    (community `Relation`) of the "linked at the minimal distance" relation.
  - `Contract` instantiates `MinDistanceGroupsContract` with a refinement
    mapping: the outputs are visible (`groupids`, `result`) and `returned`
    is true only once `pc = "done"`; before that the caller sees all zeros.
- **`MinDistanceGroupsContract`**: the abstract specification of the
  clustering step, what its caller relies on. One step, `ReturnGroups`,
  returns any `groupids` and count that are `Sound`:
  - the ids 1..count each name two or more objects, and no object has a
    larger id;
  - the objects of one id are joined by a chain of pairs at the smallest
    off-diagonal distance;
  - the count is 0 only when there are fewer than two objects. This is
    what the caller relies on (454-455 take 0 as "nothing to group"). The
    comment at 354-355 says 0 is also returned when some distance graph is
    incomplete. The code never does that (finding 8), so the contract leaves
    it out.

  The groupids are a partition encoded as a function from object to part.
  The contract leaves out completeness (the groups being the whole
  transitive classes), because the code does not meet it (finding 1).
- **`GroupingEngine`**: `hwloc_setup_groups_from_distances` and the recursive
  `hwloc__setup_groups_from_distances`.
  - It runs `MinDistanceGroups` through `INSTANCE ... WITH nbobjs <- ...,
    distances <- dist`, one clustering step per `ClusterStep`. This makes it
    the composition of the two modules.
  - Its own actions: `IgnoreDistances`, `RejectMatrix`/`AcceptMatrix`,
    `LevelTooSmall`, `StartCluster`, `NoUsefulGroup`, `StartGroups`,
    `CreateGroup` (one Group per cluster, with the union of the members'
    cpusets), `Factorize` (the mean matrix and the recursion at depth+1) and
    `FactorizeUngrouped`.
  - `FactorizeUngrouped` is line 492 reached with an ungrouped object. It
    writes out of bounds, and the model records it as the state "crashed".
  - The recursive calls are tail calls, so one `depth` variable replaces the
    call stack.
- **`DistanceStore`**: the per-type slots and a heap of buffer ids. malloc
  takes the lowest free id; NULL is 0. A zero-sized malloc or calloc
  (`Alloc`, for an empty matrix) returns NULL when `zeronull` holds, else a
  fresh id. `zeronull` is the C library's fixed choice, made in `Init`, so
  both kinds of library are checked.
  - Actions: `Init` (distances_init), `SetDistanceMatrix` (copy wrapper plus
    `SetMatrix`), `Load` (a first load, spec-modelled), `Clear` (a reload),
    `StoreFromEnv`, `Convert`, `GroupBy`, `Finalize` and `Destroy`.
  - The last four stages take one step per type, following the code's loops
    over types.
  - The environment of a type is `NoMatrix` (unset) or a string, which
    `StoreFromEnv` runs through `EnvDistanceParser`'s `Parse`.
- **`DistanceMatrixStore`**: the abstract store of spec 3 and 4.1: per type,
  one matrix (its count and index sequence) or none.
  - Actions: `Store(t, s)` (replace whole, or keep on a duplicate index),
    `Keep` (any step that is not a set request) and `DestroyAll` (drop
    everything; nothing is stored after).
  - `call` is a history variable: the set request of the last step, or
    `NoCall`. It ties each step to the request it answers, so a step that
    changes a matrix without a request, or one that drops a matrix on a
    rejected request, is not a behaviour of the store.
  - A matrix of no objects equals none: the code never resolves, groups or
    normalizes one.
  - `DistanceStore` refines it. Its `Abstract` instance maps each slot to
    none when `indexes` is NULL, else to `[nbobjs, idxval]`, and maps
    `alive` to "not destroyed", and `call` to itself: `DistanceStore` records
    the request of each `SetDistanceMatrix` and of each environment store
    (the parsed indexes). Clear, convert and the load stages are `Keep`
    steps; an absent environment is one too.
- **`EnvDistanceParser`**: `hwloc_get_type_distances_from_string` as
  operators over a string of lexemes. A lexeme is a numeral (kept as its
  digits, because `strtoul` base 0 and `%u` read them differently) or one of
  `,`, `:` and `*`. Position `Len(s)+1` is the NUL.
  - Each C loop is a `RECURSIVE` scanner that returns what it read and the
    position the C code leaves: `CountIndexes` (strspn, 107-119),
    `ParseIndexes` (strtoul, 131-135), `Grouping`/`GroupingSizes` (sscanf,
    139), `Generate` (148-157), `ParseValues` (strtof and the end test,
    160-172). `Parse` puts them together with the early returns.
  - `Grammar` is spec 4.2 written independently: the reference the parser is
    checked against.
  - Its own spec has one action, `GetTypeDistancesFromString`, for the
    violation run. `DistanceStore` uses `Parse` through `INSTANCE` in
    `StoreFromEnv`.
- **`LogicalNormalizer`**: `hwloc_setup_distances_from_os_matrix` over a
  constant tree arena: each object's parent, depth and cpuset, ids in
  depth-first order.
  - The covering lookup (`Covering`/`Descend`, the deepest object whose
    cpuset includes the set) and logical indexes (rank at a depth) come from
    code outside `src/` and follow hwloc's documented behaviour.
  - Actions: `FindRoot` (253-265, including `assert(root)`, recorded as
    "aborted", and the partial-matrix return), `Scan` (relative depth, minl,
    min/max and the zero-minimum return), `Attach` (the record appended to the
    root, its matrix uninitialized) and `FillRow` (one iteration of the fill
    loop).
  - `li`, `lj` and `relative_depth` are unsigned of `Width` bits. A write at
    an index outside the `nbobjs x nbobjs` matrix sets `outside`.
- **`PciCollapse`**: the userdata lifecycle of lstopo, in the order
  `example.c` drives it.
  - `Init` is the loaded topology, whose objects have no userdata or a
    record of the application's. `before` keeps those chains.
  - `Prepare` is `lstopo_prepare`: push a record with `pci_collapsed = 0` on
    every object, then start the walk if collapsing is on (either value of
    the flag).
  - `Absorb`, `Pass` and `Finish` are the branches of one iteration of the
    walk, and its end.
  - `Destroy` pops the head record of every object.
  - `Prepare` is `PrepareWith(collapse)` for either value of the flag;
    `LstopoExample` calls `PrepareWith` with the flag `lstopo_init` set.
- **`LstopoExample`**: `example.c`'s `main`, extending `PciCollapse` (the
  composition of the example driver with the lstopo core).
  - `MainInit` is the loaded topology, with garbage in the stack's
    `loutput`. `SetupOutput` is `lstopo_init`'s defaults (collapsing on)
    plus the example's callback (64-67).
  - `CallPrepare` is line 68. `WalkAbsorb`, `WalkPass` and `WalkFinish` are
    the walk's steps inside it.
  - `OutputX11` (line 70) draws every object through the callback. The
    callback loads `obj->userdata` at line 17 but never dereferences it, so
    the model keeps only the order: drawing happens after prepare.
  - `ILoop` (72-82), `EndOutput` (84-85) and `CallDestroy` (87-90) follow.
    Whether output_x11 opened a window only decides whether the event loop
    and the close do anything, so each is one step.

Each `MC*.tla` module extends its specification, and its `.cfg` gives the
constants. Every module keeps its mutant operators right before the
definition each one mutates. They are marked `Mutant of ...`, are not part of
any `Next`, and are used only by the mutation check listed in `PROJECT.json`.

## Runs and what they show

| Run | Checks | Result |
|---|---|---|
| `mdg_pass` | `TypeOK`, `GroupsAreMinConnected`, `Terminates`, `ImplementsContract` | pass, 23.5k states |
| `mdg_complete` | `GroupsAreMinDistanceComponents` | violation |
| `engine_pass` | `TypeOK`, `LevelMatrixSymmetric`, `Terminates` | pass, 31k states |
| `engine_ungrouped` | `NoUngroupedFactorized` | violation |
| `store_pass` | `TypeOK`, `MemorySafe`, `UsesCurrentObjs`, `ImplementsMatrixStore` | pass, 321k states |
| `parse_grammar` | `ParsesAsGrammar` | violation |
| `norm_pass` | `RecordMatchesRawMatrix`, `InBoundsWrites`, `RelativeDepthIsLevels` | pass, 3.5k states |
| `norm_gap` | `InBoundsWrites` | violation |
| `norm_abort` | `NoAbort` | violation |
| `norm_depth` | `RelativeDepthIsLevels` | violation |
| `pci_pass` (`MCLstopoExample`) | `CollapsedCounts`, `RestoresUserdata` | pass, 139k states |
| `pci_contiguous` | `RunsContiguous` | violation |

### Findings

1. **Clustering is not a fixed point** (`mdg_complete`, line 412). A round
   rescans from the first object the previous round added, not the lowest.
   With links 0-2, 2-1 and 1-3:
   - the group is {0,1,2};
   - object 3 is left out, because row 1 is never scanned.

   The comment at 353-355 and spec 4.5 both promise the transitive class.
2. **Out-of-bounds write in factorization** (`engine_ungrouped`, line 492).
   Two or more clusters plus one object that no cluster took index
   `groupdistances` with `0 - 1`, an unsigned value.
3. **The parser accepts what the grammar rejects** (`parse_grammar`, lines
   133-164). The code is compared with spec 4.2 over 8140 strings.
   - `strtoul`/`strtof` read an empty field as 0, so `":"` is stored as one
     object of index 0 at distance 0.
   - `010` is counted as a decimal field by strspn, but read as octal 8 by
     `strtoul` base 0.
   - Values after the N*N-th are ignored.
   - `X*Y*Z` is compared modulo 2^32 (2^16 in the model): `3*21846` passes
     for two objects.
4. **Logical indexes with gaps** (`norm_gap`, line 303). A NUMA node
   without CPUs keeps its logical index. A matrix over nodes 0 and 2 gets
   `li = 2` and writes past its 2x2 buffer.
5. **Non-contiguous PCI runs** (`pci_contiguous`, lstopo-core.c 127). A
   one-device run is not closed by a device with children. So in `a, b(with
   children), a` the third device is hidden behind the first.
6. **`assert(root)` aborts the load** (`norm_abort`, line 258). Objects
   whose cpusets are all empty have no covering object. Spec 7 says no
   error here aborts the load.
7. **`relative_depth` wraps** (`norm_depth`, line 266). The covering lookup
   returns the deepest covering object. For a node whose only PU has its
   cpuset, that object is below `objs[0]`, and the unsigned difference wraps.
8. **The comment on incomplete graphs** (`mdg_complete`, line 354). The
   comment says the function returns 0 "if some incomplete distance graphs
   were found". No path does that: in the `mdg_complete` trace, the group
   {0,1,2} is incomplete and the count is 1.

Two disagreements found while modelling are not runs. `set_distance_matrix`
keeps `objs` resolved from the old indexes (line 75), but `UsesCurrentObjs`
shows that the reload's clear always repairs this before it is read.
Validation compares the diagonal only with later cells (line 553), but
clustering reads only off-diagonal cells.

### Properties that pass

- `GroupsAreMinConnected`: every returned id names two or more objects, all
  linked at the minimal distance, and no id exceeds the count. The caller
  relies on this to create one Group per id.
- `LevelMatrixSymmetric`: the factorized matrices are symmetric, so the
  recursion gets a matrix of the shape validation would accept.
- `Terminates` (both modules): the clustering loop and the recursion end,
  under weak fairness.
- `ImplementsContract`: `MinDistanceGroups` refines
  `MinDistanceGroupsContract` under the mapping above. Every behaviour of
  the loop is a behaviour of the contract: one visible return, sound groups,
  a count of 0 only without a pair, and the return happens. The loop's
  invariant `GroupsAreMinConnected` does not say the count is non-zero; the
  refinement does, and a minimum search that also scans the diagonal
  breaks it.
- `MemorySafe`: every live buffer has exactly one slot pointer, and every slot
  pointer is live. This holds across set, reject, env store, convert (success
  and failure), clear and destroy.
- `ImplementsMatrixStore`: every behaviour of the slots is one of
  `DistanceMatrixStore`. A set replaces a type's matrix whole, and nothing
  else changes it. A set rejected for a duplicate index leaves the matrix,
  clear and convert keep it, and nothing is stored after destroy. This holds
  across every interleaving of user sets (an empty one included, with NULL
  or live zero-sized buffers), environment loads and reloads. With the
  `call` history, a reject that frees the old matrix is a violation (the
  `SetMatrixFreesFirst` mutant), as is a step that changes a matrix with no
  request.
- `UsesCurrentObjs`: when grouping and normalization run, each consumed type's
  `objs` is exactly the resolution of its current `indexes`, and its
  distances exist. These are the asserts at 336 and 579.
- `RecordMatchesRawMatrix`: when a record is attached, its cell
  `(L(a), L(b))` is the raw cell `(a, b)` over the minimum for every pair, and
  its base and maximum are right. This covers the three writes of each
  iteration of the fill loop.
- `InBoundsWrites`, `RelativeDepthIsLevels`: on a tree where every object
  has CPUs and no object has a single child with its cpuset, the fill loop
  stays inside the matrix and `relative_depth` is the real level difference.
  The violation runs show what happens when the tree is not like that.
- `RestoresUserdata`: after `lstopo_destroy`, every object, including the PCI
  devices that hang as I/O children, has exactly the chain the application
  left before `lstopo_prepare`.
- `CollapsedCounts`: every hidden device belongs to an identical collapser
  before it, and each collapser's count is one more than the devices it hides.
The last two are checked on `example.c`'s `main` (`MCLstopoExample`), so
collapsing is on, as `lstopo_init` sets it.

## Bounds

- **`MCMinDistanceGroups`**: 1-5 objects, off-diagonal distances in {1,2}.
  That is every symmetric matrix of that size and every tie pattern. Four
  objects are enough for the rescan finding, and five allow two groups plus a
  lone object.
- **`MCGroupingEngine`**:
  - every symmetric {1,2} matrix of 1-5 objects;
  - one asymmetric and one bad-diagonal 4x4 matrix;
  - the `X*Y*Z` generator's matrices for 8 = 2*2*2, 6 = 2*3*1 and 6 = 3*2*1,
    which recurse to depth 2;
  - `MaxDepth = 3` never binds on these inputs; termination is checked.
- **`MCDistanceStore`**:
  - two types and OS indexes {0,1};
  - the user sets `<<>>` (the zero-sized mallocs), `<<0,1>>` (valid; it
    does not resolve for type 2 in the second tree) or `<<0,0>>`
    (a duplicate) on either type, at any time the topology allows;
  - two trees: complete, or missing one index of type 2, so that resolution
    can fail;
  - per type, the environment is absent, valid, too short or has a duplicate
    index;
  - 8 buffers, the most that can be live at once;
  - reloads and set calls are unbounded, with buffer ids reused.
- **`MCEnvDistanceParser`**: index lists of one or two fields from
  {0, 1, 010, empty}. Bodies are `X*Y` over {1, 2, 3, 21846}, `X*Y*Z` over
  {1, 2, 3}, or lists of one to five fields from {1, 2, empty}. Strings
  without a colon are included. That gives every failure mode of spec 4.2,
  one value more than N*N, and an unsigned wrap at 16 bits. Unsigned is 16
  bits (`Width`) so that TLC's integers hold the products; the wrap is the
  same at 32.
- **`MCDistanceStore`** environments are strings fed through `Parse`: a
  valid shorthand, a list with too few values (rejected by the parser) and a
  duplicate index (rejected by set).
- **`MCLogicalNormalizer`**: every list of up to 4 distinct same-depth
  objects. Raw matrices are every 1x1 and 2x2 over {0, 1, 2}, and for 3 and
  4 objects one matrix with all cells distinct (any misplaced cell shows)
  and one with zeros.
  - The pass tree is a machine with two NUMA nodes of two PUs each.
  - The violation tree has three NUMA nodes, the middle one without CPUs,
    and the outer ones with one PU each.
- **`MCPciCollapse`** and **`MCLstopoExample`**: up to 4 devices, 2
  parents, 2 id tuples, leaf or not. Every object has either no userdata or
  one application record. `MCPciCollapse` (the violation run) has
  collapsing on or off; `MCLstopoExample` has it on, as `example.c` runs.

## Fairness

The distance code and the collapse walk are single-threaded calls that run to
completion. So `WF_vars(Next)` is justified for `MinDistanceGroups` and
`GroupingEngine`: every enabled step of the running function is eventually
taken. `MinDistanceGroupsContract` states the same for the caller: it
eventually gets its answer (`<>returned`). `LogicalNormalizer`,
`EnvDistanceParser`, `PciCollapse` and `LstopoExample` have no
fairness, because their properties are safety only. `DistanceStore` has none
either: its next step is often the user's choice (set, reload or destroy),
and its properties are safety only.

`CHECK_DEADLOCK FALSE` is used where the modelled code really stops:

- a function returns;
- lstopo_destroy has run, and main returns;
- a topology is destroyed or an assert aborts.

## Not modelled

1. **`open_output`** (lstopo-core.c 51-69): it has no caller in this
   repository (lstopo's own main is not here). Its only state is the file
   system. Its hazard, another process creating the file between `stat` and
   `fopen`, is listed but not checked.
2. **Negative distances** (line 283): `DistanceValues` are non-negative, so
   a negative minimum, which only `!min` guards, is not in the inputs.
3. **Out of reach**:
   - the tree insertion (`hwloc_insert_object_by_cpuset`, outside `src/`);
   - float rounding;
   - stack-size limits of the VLAs;
   - malloc failure (a zero-sized malloc returning NULL is modelled; a
     failing one of non-zero size is a NULL dereference in every path);
   - parser input outside the lexeme alphabet (whitespace, signs, hex,
     exponents, numerals strtoul stops inside);
   - lstopo's drawing: the callback's boxes and text, and X11 itself.
4. **Unchecked, though within reach**: the last diagonal cell that
   validation never compares (line 553). `GroupingEngine` reaches it: the
   `HighDiag4` matrices of `MCGroupingEngine` pass `MatrixOK` and are
   grouped. The spec (section 8) says they must make no Group, so a property
   stating that would fail, like the other findings. It has no run of its
   own. Clustering never reads a diagonal cell, so such a matrix forms the
   same Groups a valid one would. Only the diagonals of the averaged
   matrices differ.
