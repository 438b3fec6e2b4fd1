--------------------------- MODULE MCLstopoExample ---------------------------
(* The example program over the PciCollapse instance of MCPciCollapse: up  *)
(* to four PCI devices below two parents, with two id tuples.              *)
EXTENDS LstopoExample
=============================================================================
