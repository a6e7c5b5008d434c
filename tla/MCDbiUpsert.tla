----------------------------- MODULE MCDbiUpsert -----------------------------
(* Instances of DbiUpsert for TLC.                                         *)
EXTENDS DbiUpsert, TLC

Symmetry == Permutations(Procs) \cup Permutations(Keys) \cup Permutations(Vals)
               \cup Permutations(Ids)
=============================================================================
