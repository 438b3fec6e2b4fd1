---------------------------- MODULE LstopoExample ----------------------------
(***************************************************************************)
(* The example program of src/utils/lstopo/example.c driving the lstopo    *)
(* core of lstopo-core.c: main loads a topology, fills a lstopo_output     *)
(* with lstopo_init's defaults and its own drawing callback, prepares the  *)
(* userdata (PciCollapse), draws into an X11 window, waits in the window's *)
(* event loop, closes it, and undoes the preparation before destroying the *)
(* topology.                                                               *)
(*                                                                         *)
(* The topology with its PCI devices and userdata chains is PciCollapse's  *)
(* state; this module adds main's position and the lstopo_output fields   *)
(* that steer it.  output_x11 (not in this repository) draws every object *)
(* through the callback.  Whether it opened a window (loutput.methods,    *)
(* tested at 73 and 84) changes nothing a property reads: the event loop  *)
(* and the close are one step each either way.  The callback's box and    *)
(* text output is left out; it loads obj->userdata (line 17) but never     *)
(* dereferences it, so what it reads is not state any property needs.     *)
(***************************************************************************)
EXTENDS PciCollapse

VARIABLES
  stage,     \* where main is: "init", "prepare", "walk", "loop",
             \* "end", "destroy", "exit"
  loutput    \* the lstopo_output fields that steer main: collapse, callback

dvars == <<stage, loutput>>
allvars == <<vars, dvars>>

Outputs == [collapse : BOOLEAN, callback : {"NULL", "example"}]

\* lstopo_init (lstopo-core.c 9-49): collapsing on, no callback.
LstopoInitDefaults == [collapse |-> TRUE, callback |-> "NULL"]

\* Lines 56-63: the topology is loaded; the stack's loutput holds garbage.
MainInit ==
  /\ Init
  /\ stage = "init"
  /\ loutput \in Outputs

\* Lines 64-67: the defaults, then the example's own settings.
SetupOutput ==
  /\ stage = "init"
  /\ loutput' = [LstopoInitDefaults EXCEPT !.callback = "example"]
  /\ stage' = "prepare"
  /\ UNCHANGED vars

\* Line 68: lstopo_prepare with the collapse setting of loutput.
CallPrepare ==
  /\ stage = "prepare"
  /\ PrepareWith(loutput.collapse)
  /\ stage' = "walk"
  /\ UNCHANGED loutput

\* The steps of lstopo_add_collapse_attributes, inside lstopo_prepare.
WalkAbsorb == stage = "walk" /\ Absorb /\ UNCHANGED dvars
WalkPass == stage = "walk" /\ Pass /\ UNCHANGED dvars
WalkFinish == stage = "walk" /\ Finish /\ UNCHANGED dvars

\* Line 70 once lstopo_prepare has returned: output_x11 draws every object
\* through the callback.
OutputX11 ==
  /\ stage = "walk" /\ pc = "ready"
  /\ stage' = "loop"
  /\ UNCHANGED <<vars, loutput>>

\* Lines 72-74: with a window, block in its event loop until it closes.
ILoop ==
  /\ stage = "loop"
  /\ stage' = "end"
  /\ UNCHANGED <<vars, loutput>>

\* Lines 84-85: with a window, close it.
EndOutput ==
  /\ stage = "end"
  /\ stage' = "destroy"
  /\ UNCHANGED <<vars, loutput>>

\* Line 87: lstopo_destroy.
CallDestroy ==
  /\ stage = "destroy"
  /\ Destroy
  /\ stage' = "exit"
  /\ UNCHANGED loutput

MainNext ==
  \/ SetupOutput \/ CallPrepare \/ WalkAbsorb \/ WalkPass \/ WalkFinish
  \/ OutputX11 \/ ILoop \/ EndOutput \/ CallDestroy

MainSpec == MainInit /\ [][MainNext]_allvars

=============================================================================
