---------------------------- MODULE MCFrameCache ----------------------------
(* The check of FrameCache.  Setters are alike, none is chosen, and the run *)
(* has invariants and a property of steps only.                             *)
EXTENDS FrameCache, TLC

SetterSymmetry == Permutations(Setters)
=============================================================================
