-------------------------- MODULE MCMaterialLibrary --------------------------
(* Instances of MaterialLibrary for TLC.                                     *)
EXTENDS MaterialLibrary, TLC

CONSTANTS f1, f2, x, y
MCPaths == {f1, f2}
MCDigests == {x, y}
MCFileSymmetry == Permutations(MCPaths) \cup Permutations(MCDigests)
=============================================================================
