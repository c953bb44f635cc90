--------------------------- MODULE MCSmartEditing ---------------------------
(* A library of one video and two generations, one overwritten file and two *)
(* faults.                                                                  *)
EXTENDS SmartEditing
CONSTANTS m1, g1, g2

MCVideos == {m1}
MCGens == {g1, g2}
Symmetric == Permutations(MCGens)
=============================================================================
