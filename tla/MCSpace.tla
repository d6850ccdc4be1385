------------------------------ MODULE MCSpace ------------------------------
(* Instances of SpaceWorkspace for TLC. *)
EXTENDS SpaceWorkspace

Both == {"sequential", "concurrent"}
TakingTurns == {"sequential"}
Overlapping == {"concurrent"}
=============================================================================
