---------------------------- MODULE MCSerialLock ----------------------------
(* Instances of SerialLock for TLC.                                        *)
EXTENDS SerialLock, TLC

Symmetry == Permutations(Procs)
=============================================================================
