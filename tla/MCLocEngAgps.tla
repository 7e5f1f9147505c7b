---------------------------- MODULE MCLocEngAgps ----------------------------
(***************************************************************************)
(* Two handles: they share a machine, use one each, or the second comes    *)
(* when the first has left and what was asked for it is still under way.   *)
(***************************************************************************)
EXTENDS LocEngAgps

All == AllNifs
Agnss == {"agnss"}
=============================================================================
