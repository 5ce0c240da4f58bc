--------------------- MODULE MC_ExpandCurrentSection ----------------------
(* Instances of the section expander for TLC. *)
EXTENDS ExpandCurrentSection, TLC
=============================================================================
