---------------------------- MODULE MCCubeRefresh ---------------------------
(* Two of everything, and two components written at any moments: the least *)
(* cube on which no two loops of the refresh thread can be confused.       *)
EXTENDS CubeRefresh
=============================================================================
