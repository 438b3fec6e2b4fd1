---------------------------- MODULE MCPciCollapse ----------------------------
(* Up to four PCI devices below two parents, with two id tuples: enough for *)
(* runs, broken runs and devices with children between identical ones.     *)
EXTENDS PciCollapse
=============================================================================
