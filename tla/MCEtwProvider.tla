--------------------------- MODULE MCEtwProvider ---------------------------
(* Instances of EtwProvider for TLC. *)
EXTENDS EtwProvider, TLC

CONSTANTS t1, t2

MCThreads  == {t1, t2}
OneThread  == {t1}
MCLevels   == 0..MaxLevel
AboveZero  == 1..MaxLevel
ZeroOnly   == {0}

Symmetry == Permutations(MCThreads)
=============================================================================
