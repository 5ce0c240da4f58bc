----------------------- MODULE MC_ExpandAllSidebar ------------------------
(* Instances of the expand-everything variant for TLC. *)
EXTENDS ExpandAllSidebar, TLC
=============================================================================
