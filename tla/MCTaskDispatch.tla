--------------------------- MODULE MCTaskDispatch ---------------------------
(* Instances of TaskDispatch for TLC.                                        *)
EXTENDS TaskDispatch, TLC

CONSTANTS a1, a2

MCOneAction == {a1}
MCActions == {a1, a2}
MCSymmetry == Permutations(MCActions)
MCAllControls == Controls
=============================================================================
