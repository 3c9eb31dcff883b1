-------------------------- MODULE MCActivityScope --------------------------
(* Instances of ActivityScope for TLC. *)
EXTENDS ActivityScope, TLC

CONSTANTS t1, t2, a1, a2, a3

MCThreads == {t1, t2}
MCIds     == {a1, a2, a3}

Symmetry == Permutations(MCThreads) \cup Permutations(MCIds)
=============================================================================
