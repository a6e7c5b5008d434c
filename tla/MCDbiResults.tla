---------------------------- MODULE MCDbiResults ----------------------------
(* Instances of DbiResults for TLC.                                        *)
EXTENDS DbiResults, TLC

Symmetry == Permutations(Objs) \cup Permutations(Handles)
=============================================================================
