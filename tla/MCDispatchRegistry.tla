------------------------- MODULE MCDispatchRegistry -------------------------
(***************************************************************************)
(* Instances of DispatchRegistry for TLC: game servers, a lobby that is in *)
(* the server table from the start or is added later, and the robots'      *)
(* lobby, which counts as retired as soon as it registers.                 *)
(***************************************************************************)
EXTENDS DispatchRegistry, TLC
=============================================================================
