----------------------------- MODULE MCGatedLock -----------------------------
(* Instances of GatedLock for TLC; the .cfg files give the constants.        *)
EXTENDS GatedLock, TLC

Symmetry == Permutations(Reader) \cup Permutations(Writer)
==============================================================================
