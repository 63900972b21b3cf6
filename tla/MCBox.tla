-------------------------------- MODULE MCBox --------------------------------
(* Bounds for Box: a power state for each mode, one of them the OFF that a
   cleared buffer reads as. *)
EXTENDS Box

MCPowerStates == {"ON", "OFF"}
=============================================================================
