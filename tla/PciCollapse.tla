----------------------------- MODULE PciCollapse -----------------------------
(***************************************************************************)
(* The userdata lifecycle of lstopo (src/utils/lstopo/lstopo-core.c        *)
(* 71-159).  lstopo_prepare pushes a record with pci_collapsed = 0 on the  *)
(* userdata chain of every object (lstopo_populate_userdata) and, with     *)
(* collapsing on, runs lstopo_add_collapse_attributes (110-144): a walk of *)
(* the PCI devices in hwloc_get_next_pcidev order that marks runs of       *)
(* identical devices, the first of a run (the collapser) with the size of  *)
(* the run, the others with -1 (drawn hidden).  lstopo_destroy pops one    *)
(* record from every object (lstopo_destroy_userdata).                     *)
(*                                                                         *)
(* The objects are the PCI devices (I/O children, named by position) and   *)
(* their parents.  A device is a record: its parent, its four PCI ids      *)
(* folded into one value, and whether it is a leaf (no I/O and no Misc     *)
(* children).  A userdata chain is a sequence, its head obj->userdata; the *)
(* application may have put a record of its own there before.  One step   *)
(* of the walk is one iteration of the for loop.                           *)
(***************************************************************************)
EXTENDS Integers, Sequences, FiniteSets

CONSTANTS
  MaxDevs,   \* the most PCI devices in a topology
  Parents,   \* the objects a PCI device may hang below
  Ids        \* vendor/device/subvendor/subdevice id tuples

Devices == [parent : Parents, ids : Ids, leaf : BOOLEAN]

VARIABLES
  devs,        \* the PCI devices, in hwloc_get_next_pcidev order
  ud,          \* the userdata chain of each object
  before,      \* the chains as the application left them (history)
  obj,         \* the loop position (1-based); Len(devs)+1 once past the end
  collapser,   \* position of the run's first device, 0 for NULL
  collapsed,   \* size of the current run
  pc           \* "init", "loop", "ready" (prepared) or "destroyed"

vars == <<devs, ud, before, obj, collapser, collapsed, pc>>

Pos == 1 .. Len(devs)
Objects == Parents \cup Pos

\* struct lstopo_obj_userdata, and a record of the application's own.
Lstopo(n) == [owner |-> "lstopo", pci_collapsed |-> n]
AppData == [owner |-> "app", pci_collapsed |-> 0]

\* pci_collapsed of the record at the head of p's chain, and setting it.
Mark(p) == ud[p][1].pci_collapsed
SetMark(p, n) == ud' = [ud EXCEPT ![p][1].pci_collapsed = n]

\* Lines 117-122: obj joins the collapser's run.
Identical(o, c) ==
  /\ devs[o].leaf
  /\ devs[o].parent = devs[c].parent
  /\ devs[o].ids = devs[c].ids

\* A topology of up to MaxDevs PCI devices whose objects carry no userdata,
\* or a record of the application's on every object.
Init ==
  /\ devs \in UNION {[1 .. n -> Devices] : n \in 0 .. MaxDevs}
  /\ before \in {[o \in Objects |-> <<>>], [o \in Objects |-> <<AppData>>]}
  /\ ud = before
  /\ obj = 1 /\ collapser = 0 /\ collapsed = 0
  /\ pc = "init"

\* Lines 147-152 and 71-88: push a fresh record on every object; the walk
\* follows when loutput->collapse is set.
PrepareWith(collapse) ==
  /\ pc = "init"
  /\ ud' = [o \in Objects |-> <<Lstopo(0)>> \o ud[o]]
  /\ pc' = IF collapse THEN "loop" ELSE "ready"
  /\ UNCHANGED <<devs, before, obj, collapser, collapsed>>

\* lstopo_prepare called with either setting of loutput->collapse.
Prepare == \E collapse \in BOOLEAN : PrepareWith(collapse)

\* Lines 115-126: a device identical to the collapser is hidden.
Absorb ==
  /\ pc = "loop" /\ obj \in Pos
  /\ collapser # 0 /\ Identical(obj, collapser)
  /\ SetMark(obj, -1)
  /\ collapsed' = collapsed + 1
  /\ obj' = obj + 1
  /\ UNCHANGED <<devs, before, collapser, pc>>

\* Lines 127-138 for a device the run does not take: a run of more than one
\* is closed (its size written to the collapser); a leaf then starts a new
\* run, and a device with children leaves collapser and collapsed as they are.
Pass ==
  /\ pc = "loop" /\ obj \in Pos
  /\ ~(collapser # 0 /\ Identical(obj, collapser))
  /\ LET ends == collapser # 0 /\ collapsed > 1
     IN /\ IF ends THEN SetMark(collapser, collapsed) ELSE UNCHANGED ud
        /\ IF devs[obj].leaf
             THEN collapser' = obj /\ collapsed' = 1
             ELSE /\ collapser' = IF ends THEN 0 ELSE collapser
                  /\ collapsed' = IF ends THEN 0 ELSE collapsed
  /\ obj' = obj + 1
  /\ UNCHANGED <<devs, before, pc>>

\* Mutant of Finish: the run still open at the end is not closed.
FinishOpen ==
  /\ pc = "loop" /\ obj = Len(devs) + 1
  /\ pc' = "ready"
  /\ UNCHANGED <<devs, ud, before, obj, collapser, collapsed>>

\* Lines 139-143: past the last device, close a run of more than one.
Finish ==
  /\ pc = "loop" /\ obj = Len(devs) + 1
  /\ IF collapsed > 1 THEN SetMark(collapser, collapsed) ELSE UNCHANGED ud
  /\ pc' = "ready"
  /\ UNCHANGED <<devs, before, obj, collapser, collapsed>>

\* Mutant of Destroy: the I/O children (the PCI devices) are not visited.
DestroySkipsIo ==
  /\ pc = "ready"
  /\ ud' = [o \in Objects |-> IF o \in Pos \/ ud[o] = <<>> THEN ud[o] ELSE Tail(ud[o])]
  /\ pc' = "destroyed"
  /\ UNCHANGED <<devs, before, obj, collapser, collapsed>>

\* Lines 156-159 and 89-105: pop the head record of every object that has
\* one (the application has drawn in between).
Destroy ==
  /\ pc = "ready"
  /\ ud' = [o \in Objects |-> IF ud[o] = <<>> THEN ud[o] ELSE Tail(ud[o])]
  /\ pc' = "destroyed"
  /\ UNCHANGED <<devs, before, obj, collapser, collapsed>>

Next == Prepare \/ Absorb \/ Pass \/ Finish \/ Destroy

Spec == Init /\ [][Next]_vars

-----------------------------------------------------------------------------
Collapsers == {c \in Pos : Mark(c) > 1}
Hidden == {p \in Pos : Mark(p) = -1}

\* The devices a collapser stands for: the hidden ones after it and before
\* the next collapser.
RunOf(c) == {p \in Hidden : p > c /\ \A q \in Collapsers : q > c => p < q}

\* What the drawing relies on once the walk is over: every hidden device
\* belongs to the run of an earlier collapser identical to it, and each
\* collapser's count is one more than the devices it hides.  Breaks if a
\* run is not closed, or closed with a stale count.
CollapsedCounts ==
  pc = "ready" =>
    /\ \A p \in Hidden : \E c \in Collapsers : p \in RunOf(c)
    /\ \A c \in Collapsers : /\ Mark(c) = Cardinality(RunOf(c)) + 1
                             /\ \A p \in RunOf(c) : Identical(p, c)

\* "collapse identical PCI devs" (line 114): a run is a block of consecutive
\* devices, the collapser followed by the devices it hides.  When the run
\* has one device and the next has children (lines 127-132 only close runs
\* of more than one), the run stays open past that device.
RunsContiguous ==
  pc = "ready" => \A c \in Collapsers : RunOf(c) = c + 1 .. c + Mark(c) - 1

\* lstopo_destroy undoes lstopo_prepare: every object, the PCI devices that
\* hang as I/O children included, gets back exactly the userdata chain the
\* application had before, with the application's own records untouched.
RestoresUserdata == pc = "destroyed" => ud = before
=============================================================================
