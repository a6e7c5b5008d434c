--------------------------- MODULE MCGlutCallbacks ---------------------------
(* Closures and parameters are only ever compared.                         *)
EXTENDS GlutCallbacks, TLC

Sym == Permutations(Closures) \cup Permutations(Parameters)

=============================================================================
