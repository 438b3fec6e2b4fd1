---------------------------- MODULE DistanceStore ----------------------------
(***************************************************************************)
(* The DistanceStore of src/src/distances.c: the per-type slots            *)
(* topology->os_distances[type] with their three heap buffers (indexes,    *)
(* distances, objs), the hooks that fill and free them (init 14-24, clear  *)
(* 30-38, destroy 41-53, set 58-79 and 196-208, the environment 181-191)   *)
(* and the load stages that read them (convert 213-238, group 564-585,     *)
(* finalize 316-343).                                                      *)
(*                                                                         *)
(* The heap is a set of live buffer ids; malloc returns the lowest free id *)
(* (NULL is 0).  A slot keeps a pointer and, beside it, the contents the   *)
(* properties need: the OS indexes of its index array and the objects its  *)
(* objs array resolved (an object is named by its OS index).  Distance     *)
(* values are not needed here: the GroupingEngine module checks them.      *)
(*                                                                         *)
(* The order of the hooks is decided by topology.c, outside src/: a load   *)
(* clears the previous load (on a reload), stores the environment's        *)
(* matrices, converts, groups and finalizes; the user may set a matrix and *)
(* destroy the topology between loads.  Each stage loops over the types;   *)
(* one step handles one type.                                              *)
(***************************************************************************)
EXTENDS Integers, Sequences, FiniteSets, FiniteSetsExt

CONSTANTS
  NTypes,    \* object types 1..NTypes, in the enum order the loops follow
  Idx,       \* OS indexes a matrix may name
  MaxN,      \* the most objects a matrix has
  Trees,     \* the possible trees: [type -> OS indexes of its objects]
  NoMatrix,  \* model value: the variable is unset or the parser rejects it
  Envs,      \* the possible environments: [type -> NoMatrix or a string]
  Known,     \* the types hwloc_get_type_depth finds at a single depth
  MaxBuf,    \* heap size, in buffers
  Sets,      \* the index arrays the user passes to set_distance_matrix
  Width      \* bits of an unsigned

\* The parser of the environment strings (its operators only).
Parser == INSTANCE EnvDistanceParser WITH Strings <- {}, input <- <<>>, parsed <- <<>>

Types == 1 .. NTypes
NULL == 0
Bufs == 1 .. MaxBuf
IdxSeqs == UNION {[1 .. n -> Idx] : n \in 0 .. MaxN}
ASSUME Sets \subseteq IdxSeqs

VARIABLES
  slot,    \* [type -> [nbobjs, indexes, idxval, distances, objs, objsval]]
  heap,    \* the live buffers
  tree,    \* the objects discovery put in the tree
  env,     \* HWLOC_<type>_DISTANCES, or NoMatrix when unset
  zeronull, \* the C library's malloc(0) and calloc(0, _) return NULL
  call,    \* history: the set request of the last step (type and index
           \* array), NoCall for a step that is not a set
  phase,   \* "ready", "env", "convert", "group", "finalize", "loaded",
           \* "destroyed", "aborted"
  ty       \* the loop variable of the running stage

vars == <<slot, heap, tree, env, zeronull, call, phase, ty>>

EmptySlot == [nbobjs |-> 0, indexes |-> NULL, idxval |-> <<>>,
              distances |-> NULL, objs |-> NULL, objsval |-> <<>>]

NoCall == [type |-> 0, indexes |-> <<>>]

Fresh(h) == Min(Bufs \ h)

\* malloc or calloc of a buffer of size elements (203, 205, 221): a
\* zero-sized request returns NULL or a fresh buffer, as the C library does.
Alloc(h, size) == IF size = 0 /\ zeronull THEN NULL ELSE Fresh(h)

\* Lines 63-71: two equal entries in the index array.
HasDuplicate(s) == \E a, b \in DOMAIN s : a < b /\ s[a] = s[b]

\* Line 14-24: every slot zeroed.
Init ==
  /\ slot = [t \in Types |-> EmptySlot]
  /\ heap = {}
  /\ tree \in Trees
  /\ env \in Envs
  /\ zeronull \in BOOLEAN
  /\ call = NoCall
  /\ phase = "ready" /\ ty = 1

\* Mutant of SetMatrix: the previous pair is freed before the duplicate
\* check, so a rejected set also drops the stored matrix.
SetMatrixFreesFirst(t, s, ib, db, h) ==
  /\ heap' = h \ ({slot[t].indexes, slot[t].distances}
                  \cup (IF HasDuplicate(s) THEN {ib, db} ELSE {}))
  /\ slot' = IF HasDuplicate(s)
               THEN [slot EXCEPT ![t].nbobjs = 0, ![t].indexes = NULL,
                       ![t].idxval = <<>>, ![t].distances = NULL]
               ELSE [slot EXCEPT ![t].nbobjs = Len(s), ![t].indexes = ib,
                       ![t].idxval = s, ![t].distances = db]

\* Mutant of SetMatrix: nbobjs is stored one too large.
SetMatrixCountsOneMore(t, s, ib, db, h) ==
  IF HasDuplicate(s)
    THEN /\ heap' = h \ {ib, db}
         /\ UNCHANGED slot
    ELSE /\ heap' = h \ {slot[t].indexes, slot[t].distances}
         /\ slot' = [slot EXCEPT ![t].nbobjs = Len(s) + 1, ![t].indexes = ib,
                       ![t].idxval = s, ![t].distances = db]

\* Lines 58-79 with the buffers ib, db already allocated by the caller: a
\* duplicate index frees both and leaves the slot; otherwise the old index
\* and distance buffers are freed and replaced (objs is left as it is).
SetMatrix(t, s, ib, db, h) ==
  IF HasDuplicate(s)
    THEN /\ heap' = h \ {ib, db}
         /\ UNCHANGED slot
    ELSE /\ heap' = h \ {slot[t].indexes, slot[t].distances}
         /\ slot' = [slot EXCEPT ![t].nbobjs = Len(s), ![t].indexes = ib,
                       ![t].idxval = s, ![t].distances = db]

\* Lines 196-208: the public entry point copies the caller's arrays into two
\* new buffers and hands them to the store (an empty matrix may get NULLs).
SetDistanceMatrix(t, s) ==
  /\ phase \in {"ready", "loaded"}
  /\ LET ib == Alloc(heap, Len(s))
         db == Alloc(heap \cup {ib}, Len(s) * Len(s))
     IN SetMatrix(t, s, ib, db, heap \cup ({ib, db} \ {NULL}))
  /\ call' = [type |-> t, indexes |-> s]
  /\ UNCHANGED <<tree, env, zeronull, phase, ty>>

\* A first load starts with the environment (orchestration, topology.c).
Load ==
  /\ phase = "ready"
  /\ phase' = "env"
  /\ UNCHANGED <<slot, heap, tree, env, zeronull, ty>>
  /\ call' = NoCall

\* Mutant of Clear: objs is freed but the pointer is not reset.
ClearKeepsPointer ==
  /\ phase = "loaded"
  /\ heap' = heap \ {slot[t].objs : t \in Types}
  /\ UNCHANGED slot
  /\ phase' = "env"
  /\ UNCHANGED <<tree, env, zeronull, ty>>
  /\ call' = NoCall

\* Lines 30-38, run when a loaded topology is loaded again: the resolved
\* objs are freed, the stored indexes and distances kept.
Clear ==
  /\ phase = "loaded"
  /\ heap' = heap \ {slot[t].objs : t \in Types}
  /\ slot' = [t \in Types |-> [slot[t] EXCEPT !.objs = NULL, !.objsval = <<>>]]
  /\ phase' = "env"
  /\ UNCHANGED <<tree, env, zeronull, ty>>
  /\ call' = NoCall

\* Advance the loop over the types; after the last, go to stage nxt.
Step(nxt) ==
  /\ ty' = IF ty = NTypes THEN 1 ELSE ty + 1
  /\ phase' = IF ty = NTypes THEN nxt ELSE phase

\* Lines 181-191 and 96-176 for type ty: no variable, or one the parser
\* rejects (before allocating, or freeing what it allocated, 144-146 and
\* 167-169), stores nothing; a parsed one goes to the store without a
\* copy (line 174).
StoreFromEnv ==
  /\ phase = "env"
  /\ IF env[ty] = NoMatrix \/ ~Parser!Parse(env[ty]).ok
       THEN UNCHANGED <<slot, heap>> /\ call' = NoCall
       ELSE LET ib == Fresh(heap)
                db == Fresh(heap \cup {ib})
                s == Parser!Parse(env[ty]).indexes
            IN /\ SetMatrix(ty, s, ib, db, heap \cup {ib, db})
               /\ call' = [type |-> ty, indexes |-> s]
  /\ Step("convert")
  /\ UNCHANGED <<tree, env, zeronull>>

\* Lines 213-238 for type ty: with stored indexes, resolve each in the tree
\* (find_obj, 81-94); a missing one frees the array and leaves objs NULL.
\* The previous objs pointer is overwritten, never freed.
Resolves(t) == \A k \in DOMAIN slot[t].idxval : slot[t].idxval[k] \in tree[t]

\* Mutant of Convert: an unresolved index stops the loop, but the partly
\* filled array is kept.
ConvertKeepsPartial ==
  /\ phase = "convert"
  /\ IF slot[ty].indexes = NULL
       THEN UNCHANGED <<slot, heap>>
       ELSE LET ob == Fresh(heap)
            IN /\ heap' = heap \cup {ob}
               /\ slot' = [slot EXCEPT ![ty].objs = ob,
                             ![ty].objsval = SelectSeq(slot[ty].idxval, LAMBDA x : x \in tree[ty])]
  /\ Step("group")
  /\ UNCHANGED <<tree, env, zeronull>>
  /\ call' = NoCall

Convert ==
  /\ phase = "convert"
  /\ IF slot[ty].indexes = NULL
       THEN UNCHANGED <<slot, heap>>
       ELSE IF Resolves(ty)
         THEN LET ob == Alloc(heap, slot[ty].nbobjs)
              IN /\ heap' = heap \cup ({ob} \ {NULL})
                 /\ slot' = [slot EXCEPT ![ty].objs = ob, ![ty].objsval = slot[ty].idxval]
         ELSE /\ slot' = [slot EXCEPT ![ty].objs = NULL, ![ty].objsval = <<>>]
              /\ UNCHANGED heap
  /\ Step("group")
  /\ UNCHANGED <<tree, env, zeronull>>
  /\ call' = NoCall

\* A type whose resolved objects are handed on, and the assert of lines
\* 336 and 579 that its distances are there; a failed assert aborts.
Consumed(t) == slot[t].nbobjs # 0 /\ slot[t].objs # NULL

Consume(nxt) ==
  IF Consumed(ty) /\ slot[ty].distances = NULL
    THEN phase' = "aborted" /\ UNCHANGED ty
    ELSE Step(nxt)

\* Lines 564-585 for type ty: group the objects by their distances.
GroupBy ==
  /\ phase = "group"
  /\ Consume("finalize")
  /\ UNCHANGED <<slot, heap, tree, env, zeronull>>
  /\ call' = NoCall

\* Lines 316-343 for type ty: types at no single depth are skipped (329);
\* the others are normalized.
Finalize ==
  /\ phase = "finalize"
  /\ IF ty \in Known THEN Consume("loaded") ELSE Step("loaded")
  /\ UNCHANGED <<slot, heap, tree, env, zeronull>>
  /\ call' = NoCall

\* Lines 41-53: every buffer freed; nbobjs is left.
Destroy ==
  /\ phase \in {"ready", "loaded"}
  /\ heap' = {}
  /\ slot' = [t \in Types |-> [slot[t] EXCEPT !.indexes = NULL, !.idxval = <<>>,
                 !.distances = NULL, !.objs = NULL, !.objsval = <<>>]]
  /\ phase' = "destroyed"
  /\ UNCHANGED <<tree, env, zeronull, ty>>
  /\ call' = NoCall

Next ==
  \/ \E t \in Types, s \in Sets : SetDistanceMatrix(t, s)
  \/ Load \/ Clear \/ StoreFromEnv \/ Convert \/ GroupBy \/ Finalize
  \/ Destroy

Spec == Init /\ [][Next]_vars

-----------------------------------------------------------------------------
TypeOK ==
  /\ heap \subseteq Bufs
  /\ \A t \in Types :
       /\ slot[t].nbobjs \in 0 .. MaxN
       /\ {slot[t].indexes, slot[t].distances, slot[t].objs} \subseteq Bufs \cup {NULL}
  /\ phase \in {"ready", "env", "convert", "group", "finalize", "loaded",
                "destroyed", "aborted"}
  /\ ty \in Types

Fields == {"indexes", "distances", "objs"}
Owners(b) == {tf \in Types \X Fields : slot[tf[1]][tf[2]] = b}

\* Memory ownership across set, env store, convert, clear and destroy: every
\* live buffer is held by exactly one slot pointer and every slot pointer
\* is live.  A pointer left after its free (dangling, later freed twice)
\* or a buffer no slot holds (leaked) breaks it.
MemorySafe == \A b \in Bufs : Cardinality(Owners(b)) = IF b \in heap THEN 1 ELSE 0

\* The raw matrices the slots hold, as the abstract store sees them.
Abstract == INSTANCE DistanceMatrixStore
  WITH matrix <- [t \in Types |->
                    IF slot[t].indexes = NULL THEN [nbobjs |-> 0, indexes |-> <<>>]
                    ELSE [nbobjs |-> slot[t].nbobjs, indexes |-> slot[t].idxval]],
       alive <- phase # "destroyed",
       call <- call

\* The store keeps the DistanceMatrix lifecycle of spec 3 and 4.1 over
\* every interleaving of user sets, environment loads, reloads and the
\* teardown: a set replaces a type's matrix whole or, rejected for a
\* duplicate index, leaves it untouched; clear, convert and the load stages
\* never change it; destroy drops them all, and nothing is stored after.
ImplementsMatrixStore == Abstract!StoreSpec

\* What grouping and normalization read (lines 332-340, 575-582): a
\* type's objs are the objects of its current index array, one per index in
\* order, and its distances are there (the asserts of 336 and 579).  Fails
\* if a partial or stale objs array outlives its indexes into a load.
UsesCurrentObjs ==
  phase \in {"group", "finalize"} =>
    \A t \in Types : Consumed(t) => /\ slot[t].objsval = slot[t].idxval
                                   /\ slot[t].distances # NULL

====
