---------------------------- MODULE MCPeriodLoad ----------------------------
(***************************************************************************)
(* june is the slice the counts were measured on, doubled one of the same  *)
(* size in which a listen comes twice.                                     *)
(***************************************************************************)
EXTENDS PeriodLoad, TLC

CONSTANTS june, doubled, alice

MCSameListens == {p \in Slices \X Slices : p[1] = p[2]}
=============================================================================
