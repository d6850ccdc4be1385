------------------------------- MODULE MCAgent -------------------------------
(* Instances of PhasicAgent for TLC. *)
EXTENDS PhasicAgent, TLC

TurnSymmetry == Permutations(Turns)

All == {"talk", "generate", "stop", "resume"}
Starts == {"generate"}
StartsAndStops == {"generate", "stop"}
TalkOnly == {"talk"}
TalksAndStarts == {"talk", "generate"}
=============================================================================
